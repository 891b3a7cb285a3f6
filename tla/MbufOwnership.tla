---------------------------- MODULE MbufOwnership ----------------------------
(***************************************************************************)
(* What the UDP programs promise about mbufs: each is in exactly one place *)
(* at a time, a pool, a lcore or the NIC's ring of a queue, changes hands  *)
(* only the way its queue's direction allows, and is back in its pool when *)
(* the device has stopped.                                                 *)
(***************************************************************************)
EXTENDS FiniteSets, Naturals

CONSTANTS Lcores, Mbuf, Burst

VARIABLES
  tx,      \* lcores with a TX queue, the others have an RX queue
  pool,    \* mbufs in the pools
  lcore,   \* mbufs each lcore has
  nic,     \* mbufs in the ring of each queue
  open     \* the device has not stopped

vars == <<tx, pool, lcore, nic, open>>

Init ==
  /\ tx \in SUBSET Lcores
  /\ pool \in SUBSET Mbuf
  /\ lcore = [l \in Lcores |-> {}] /\ nic = [l \in Lcores |-> {}]
  /\ open = TRUE

With(f, l, S) == [f EXCEPT ![l] = @ \union S]
Without(f, l, S) == [f EXCEPT ![l] = @ \ S]

\* a TX lcore fills one mbuf at a time, and only the NIC gives it back
Allocate(l) ==
  /\ l \in tx /\ lcore[l] = {}
  /\ \E m \in pool : pool' = pool \ {m} /\ lcore' = With(lcore, l, {m})
  /\ UNCHANGED nic

Transmit(l) ==
  /\ l \in tx
  /\ \E m \in lcore[l] : lcore' = Without(lcore, l, {m}) /\ nic' = With(nic, l, {m})
  /\ UNCHANGED pool

Complete(l) ==
  /\ l \in tx
  /\ \E m \in nic[l] : nic' = Without(nic, l, {m}) /\ pool' = pool \union {m}
  /\ UNCHANGED lcore

\* an RX lcore takes a burst once it has freed the last one
Post(l) ==
  /\ l \notin tx
  /\ \E m \in pool : pool' = pool \ {m} /\ nic' = With(nic, l, {m})
  /\ UNCHANGED lcore

Deliver(l) ==
  /\ l \notin tx /\ lcore[l] = {}
  /\ \E S \in SUBSET nic[l] :
       /\ S # {} /\ Cardinality(S) <= Burst
       /\ nic' = Without(nic, l, S) /\ lcore' = With(lcore, l, S)
  /\ UNCHANGED pool

Free(l) ==
  /\ l \notin tx
  /\ \E m \in lcore[l] : lcore' = Without(lcore, l, {m}) /\ pool' = pool \union {m}
  /\ UNCHANGED nic

Stop ==
  /\ open' = FALSE
  /\ \A l \in Lcores : lcore[l] = {}
  /\ pool' = pool \union UNION {nic[l] : l \in Lcores}
  /\ nic' = [l \in Lcores |-> {}]
  /\ UNCHANGED lcore

Next ==
  /\ open /\ UNCHANGED tx
  /\ \/ Stop
     \/ /\ UNCHANGED open
        /\ \E l \in Lcores : \/ Allocate(l) \/ Transmit(l) \/ Complete(l)
                             \/ Post(l) \/ Deliver(l) \/ Free(l)

Spec == Init /\ [][Next]_vars
=============================================================================
