----------------------------- MODULE UdpDatapath -----------------------------
(***************************************************************************)
(* What the lcores of the UDP integration tests do between startEna and    *)
(* onExit: a lcore with a TX queue fills an mbuf per packet and hands it   *)
(* to the NIC (clientMainLoop), one with an RX queue takes bursts of mbufs *)
(* from the NIC and frees them (serverMainLoop) until a signal.  main()    *)
(* is one of the lcores, and waits for the others behind its own function. *)
(*                                                                         *)
(* Each lcore has one queue (QueueServedByItsLcore of LcoreAssignment) and *)
(* is named by it.  DPDK and the NIC are the environment: pools of mbufs,  *)
(* a TX ring and an RX ring of RingSize mbufs for each queue.  Of a packet *)
(* only its sequence number is kept.                                       *)
(***************************************************************************)
EXTENDS Integers, Sequences, FiniteSets

CONSTANTS
  Lcores,      \* the lcores rte_eal_mp_remote_launch runs entryPoint on
  Configs,     \* what startEna may have set up
  RingSize,    \* mbufs in the ring of a queue
  Burst,       \* RX_BURST_CAPACITY
  TsSize       \* size of the vector ts

\* 'packets' is TXQ_PACKET_COUNT, 0 if it is missing or out of range.  With
\* 'shared', one pool serves all queues.  'routed' are the static-route programs.
ConfigType ==
  [tx : SUBSET Lcores, packets : Nat, poolSize : Nat, shared : BOOLEAN, routed : BOOLEAN]

ASSUME SizesAssumption ==
  RingSize \in Nat \ {0} /\ Burst \in Nat \ {0} /\ TsSize \in Nat
ASSUME ConfigsAssumption == Configs \subseteq ConfigType
ASSUME LcoresAssumption == IsFiniteSet(Lcores)

Shared == "shared"

VARIABLES
  config,    \* constant
  step,      \* of each lcore: "entry", "send", "burst", "listen", "free", "done"
  count,     \* packets an lcore has handed to the NIC
  sequence,  \* the last sequence number it used
  held,      \* mbufs in its variables, oldest first
  payload,   \* the sequence number in each mbuf
  free,      \* mbufs in the pools
  posted,    \* empty mbufs in the RX ring of a queue
  ring,      \* mbufs waiting in a TX ring to be sent or in an RX ring to be taken
  sent,      \* sequence numbers the NIC sent from a queue
  ts,        \* lcores that wrote each entry of ts
  terminate,
  main       \* "wait", "exit": rte_eal_mp_wait_lcore has returned, "stopped": stopEna has

lcoreVars == <<step, count, sequence, held, payload, ts>>
nicVars == <<posted, ring, sent>>
vars == <<config, lcoreVars, free, nicVars, terminate, main>>

Rx == Lcores \ config.tx
Pool(l) == IF config.shared THEN Shared ELSE l
Pools == {Pool(l) : l \in Lcores}
Mbuf == Pools \X (1 .. config.poolSize)
AllMbufs == UNION {(Lcores \union {Shared}) \X (1 .. c.poolSize) : c \in Configs}
Ran(s) == {s[i] : i \in DOMAIN s}

\* Which of the mbufs in a pool, or of the empty ones in an RX ring, is used
\* next does not matter.
Pick(l) == CHOOSE m \in free : m[1] = Pool(l)
PickPosted(l) == CHOOSE m \in posted[l] : TRUE
CanAlloc(l) == \E m \in free : m[1] = Pool(l)

TypeOK ==
  /\ config \in Configs
  /\ step \in [Lcores -> {"entry", "send", "burst", "listen", "free", "done"}]
  /\ count \in [Lcores -> Nat] /\ sequence \in [Lcores -> Nat]
  /\ held \in [Lcores -> Seq(Mbuf)]
  /\ payload \in [Mbuf -> Nat]
  /\ free \subseteq Mbuf
  /\ posted \in [Lcores -> SUBSET Mbuf]
  /\ ring \in [Lcores -> Seq(Mbuf)]
  /\ sent \in [Lcores -> Seq(Nat)]
  /\ ts \in [0 .. config.packets -> SUBSET Lcores]
  /\ terminate \in BOOLEAN
  /\ main \in {"wait", "exit", "stopped"}

Init ==
  /\ config \in Configs
  /\ step = [l \in Lcores |-> "entry"]
  /\ count = [l \in Lcores |-> 0] /\ sequence = [l \in Lcores |-> 0]
  /\ held = [l \in Lcores |-> <<>>]
  /\ payload = [m \in Mbuf |-> 0]
  /\ free = Mbuf
  /\ posted = [l \in Lcores |-> {}]
  /\ ring = [l \in Lcores |-> <<>>] /\ sent = [l \in Lcores |-> <<>>]
  /\ ts = [i \in 0 .. config.packets |-> {}]
  /\ terminate = FALSE
  /\ main = "wait"

-----------------------------------------------------------------------------
\* Definitions whose name starts with Mutant are wrong forms of the one that
\* follows them, for the mutation runs; the specification uses none of them.

Goto(l, s) == step' = [step EXCEPT ![l] = s]

\* The static-route programs have the same entry points and the same loop on an RX
\* queue, but their loop on a TX queue returns before it sends anything.
EnterRouted(l) ==
  /\ step[l] = "entry" /\ config.routed
  /\ Goto(l, IF l \in Rx THEN "listen" ELSE "done")
  /\ UNCHANGED <<config, count, sequence, held, payload, ts, free, nicVars, terminate, main>>

\* entryPoint asks Worker::id; a client then reads its packet count, and ends
\* if there is none.
Enter(l) ==
  /\ step[l] = "entry" /\ ~config.routed
  /\ Goto(l, IF l \in Rx THEN "listen" ELSE IF config.packets > 0 THEN "send" ELSE "done")
  /\ UNCHANGED <<config, count, sequence, held, payload, ts, free, nicVars, terminate, main>>

MutantNumber(l) == sequence[l] - 1

\* what ++sequence puts into the message
Number(l) == sequence[l] + 1

MutantTsIndex(l) == Number(l)

\* ts is written before that
TsIndex(l) == sequence[l]

\* The client allocates an mbuf and fills it in, headers and payload.
Fill(l) ==
  /\ step[l] = "send" /\ count[l] < config.packets
  /\ CanAlloc(l)
  /\ free' = free \ {Pick(l)}
  /\ held' = [held EXCEPT ![l] = <<Pick(l)>>]
  /\ ts' = [ts EXCEPT ![TsIndex(l)] = @ \union {l}]
  /\ sequence' = [sequence EXCEPT ![l] = @ + 1]
  /\ payload' = [payload EXCEPT ![Pick(l)] = Number(l)]
  /\ Goto(l, "burst")
  /\ UNCHANGED <<config, count, nicVars, terminate, main>>

MutantClientReturns(l) ==
  /\ step[l] = "send"
  /\ count[l] = config.packets \/ ~CanAlloc(l) \/ terminate
  /\ Goto(l, "done")
  /\ UNCHANGED <<config, count, sequence, held, payload, ts, free, nicVars, terminate, main>>

\* All packets are handed over, or the pool is empty: either way the client's
\* function returns 0.
ClientReturns(l) ==
  /\ step[l] = "send"
  /\ count[l] = config.packets \/ ~CanAlloc(l)
  /\ Goto(l, "done")
  /\ UNCHANGED <<config, count, sequence, held, payload, ts, free, nicVars, terminate, main>>

MutantTransmit(l) ==
  /\ step[l] = "burst"
  /\ \/ Len(ring[l]) < RingSize /\ ring' = [ring EXCEPT ![l] = @ \o held[l]] /\ UNCHANGED free
     \/ Len(ring[l]) = RingSize /\ free' = free \union Ran(held[l]) /\ UNCHANGED ring
  /\ held' = [held EXCEPT ![l] = <<>>]
  /\ count' = [count EXCEPT ![l] = @ + 1]
  /\ Goto(l, "send")
  /\ UNCHANGED <<config, sequence, payload, ts, posted, sent, terminate, main>>

\* rte_eth_tx_burst takes the mbuf.  As long as the ring has no room it returns
\* 0 and is called again, which changes nothing.
Transmit(l) ==
  /\ step[l] = "burst" /\ Len(ring[l]) < RingSize
  /\ ring' = [ring EXCEPT ![l] = @ \o held[l]]
  /\ held' = [held EXCEPT ![l] = <<>>]
  /\ count' = [count EXCEPT ![l] = @ + 1]
  /\ Goto(l, "send")
  /\ UNCHANGED <<config, sequence, payload, ts, free, posted, sent, terminate, main>>

\* rte_eth_rx_burst returns up to Burst mbufs.
Receive(l, n) ==
  /\ step[l] = "listen" /\ ~terminate
  /\ n \in 1 .. Burst /\ n <= Len(ring[l])
  /\ held' = [held EXCEPT ![l] = SubSeq(ring[l], 1, n)]
  /\ ring' = [ring EXCEPT ![l] = SubSeq(@, n + 1, Len(@))]
  /\ Goto(l, "free")
  /\ UNCHANGED <<config, count, sequence, payload, ts, free, posted, sent, terminate, main>>

MutantFreeMbuf(l) ==
  /\ step[l] = "free"
  /\ free' = free \union {Head(held[l])}
  /\ held' = [held EXCEPT ![l] = <<>>]
  /\ Goto(l, "listen")
  /\ UNCHANGED <<config, count, sequence, payload, ts, nicVars, terminate, main>>

\* One turn of the loop over the burst.
FreeMbuf(l) ==
  /\ step[l] = "free"
  /\ free' = free \union {Head(held[l])}
  /\ held' = [held EXCEPT ![l] = Tail(@)]
  /\ Goto(l, IF Len(held[l]) = 1 THEN "listen" ELSE "free")
  /\ UNCHANGED <<config, count, sequence, payload, ts, nicVars, terminate, main>>

MutantServerReturns(l) ==
  /\ step[l] = "listen" /\ terminate /\ ring[l] = <<>>
  /\ Goto(l, "done")
  /\ UNCHANGED <<config, count, sequence, held, payload, ts, free, nicVars, terminate, main>>

ServerReturns(l) ==
  /\ step[l] = "listen" /\ terminate
  /\ Goto(l, "done")
  /\ UNCHANGED <<config, count, sequence, held, payload, ts, free, nicVars, terminate, main>>

Lcore(l) ==
  \/ Enter(l) \/ EnterRouted(l)
  \/ Fill(l) \/ Transmit(l) \/ ClientReturns(l)
  \/ (\E n \in 1 .. Burst : Receive(l, n)) \/ FreeMbuf(l) \/ ServerReturns(l)

-----------------------------------------------------------------------------
\* SIGINT or SIGTERM.
Signal ==
  /\ terminate' = TRUE
  /\ UNCHANGED <<config, lcoreVars, free, nicVars, main>>

\* rte_eal_mp_wait_lcore returns when every lcore is back in the WAIT state.
WaitReturns ==
  /\ main = "wait" /\ \A l \in Lcores : step[l] = "done"
  /\ main' = "exit"
  /\ UNCHANGED <<config, lcoreVars, free, nicVars, terminate>>

\* onExit stops the device: what is in its rings goes back to the pools.
StopDevice ==
  /\ main = "exit"
  /\ main' = "stopped"
  /\ free' = free \union UNION {Ran(ring[l]) \union posted[l] : l \in Lcores}
  /\ ring' = [l \in Lcores |-> <<>>] /\ posted' = [l \in Lcores |-> {}]
  /\ UNCHANGED <<config, lcoreVars, sent, terminate>>

\* The NIC sends the oldest mbuf of a TX ring, which goes back to its pool; the
\* number in it is of no use any more.
NicSends(l) ==
  /\ l \in config.tx /\ ring[l] # <<>>
  /\ sent' = [sent EXCEPT ![l] = Append(@, payload[Head(ring[l])])]
  /\ free' = free \union {Head(ring[l])}
  /\ payload' = [payload EXCEPT ![Head(ring[l])] = 0]
  /\ ring' = [ring EXCEPT ![l] = Tail(@)]
  /\ UNCHANGED <<config, step, count, sequence, held, ts, posted, terminate, main>>

\* An RX ring is filled up with empty mbufs.
NicPosts(l) ==
  /\ l \in Rx /\ CanAlloc(l) /\ main # "stopped"
  /\ Cardinality(posted[l]) + Len(ring[l]) < RingSize
  /\ free' = free \ {Pick(l)}
  /\ posted' = [posted EXCEPT ![l] = @ \union {Pick(l)}]
  /\ UNCHANGED <<config, lcoreVars, ring, sent, terminate, main>>

\* A packet arrives.
NicReceives(l) ==
  /\ posted[l] # {}
  /\ posted' = [posted EXCEPT ![l] = @ \ {PickPosted(l)}]
  /\ ring' = [ring EXCEPT ![l] = Append(@, PickPosted(l))]
  /\ UNCHANGED <<config, lcoreVars, free, sent, terminate, main>>

Next ==
  \/ \E l \in Lcores : Lcore(l) \/ NicSends(l) \/ NicPosts(l) \/ NicReceives(l)
  \/ Signal
  \/ WaitReturns \/ StopDevice

Spec == Init /\ [][Next]_vars

\* Every lcore runs on, and the NIC sends what is in its TX rings.
Fairness ==
  /\ \A l \in Lcores : WF_vars(Lcore(l)) /\ WF_vars(NicSends(l))
  /\ WF_vars(WaitReturns) /\ WF_vars(StopDevice)

FairSpec == Spec /\ Fairness

-----------------------------------------------------------------------------
Ownership == INSTANCE MbufOwnership WITH
  Mbuf <- AllMbufs, tx <- config.tx, pool <- free, open <- (main # "stopped"),
  lcore <- [l \in Lcores |-> Ran(held[l])],
  nic <- [l \in Lcores |-> posted[l] \union Ran(ring[l])]

\* No mbuf is lost or freed twice: each is in one place at a time and changes
\* hands as MbufOwnership says, whatever is retried or cut short by a signal, and
\* all of them are back in their pools before the pools are freed.
ImplementsOwnership == Ownership!Spec

\* A client's packets leave in the order of their numbers, none left out and
\* none sent again by the retry: what was sent, what waits in the ring and what
\* the client holds count from 1 to its sequence number.  Only the last ones, still
\* in the ring when the device stops, may never leave.
SentInOrder ==
  \A l \in config.tx :
    LET numbers == sent[l] \o [i \in 1 .. Len(ring[l]) |-> payload[ring[l][i]]]
                           \o [i \in 1 .. Len(held[l]) |-> payload[held[l][i]]]
        counted(n) == [i \in 1 .. n |-> i]
    IN  IF main = "stopped" THEN sent[l] = counted(Len(sent[l])) ELSE numbers = counted(sequence[l])

\* Most mbufs that its ring and the other lcores can hold back from a client.
\* Per-lcore caches of the pools (init.cpp:1483-1530) would hold back more; the scripts
\* give them size 0.
HeldBack ==
  IF config.shared
  THEN Cardinality(Lcores) * RingSize + Cardinality(config.tx) - 1 + Cardinality(Rx) * Burst
  ELSE RingSize

\* A client with enough mbufs in its pool never finds it empty: its function
\* returns only with all its packets handed to the NIC.  The static-route client
\* always returns with none.
ClientSendsAll ==
  (config.poolSize > HeldBack /\ ~config.routed) =>
    \A l \in config.tx : step[l] = "done" => count[l] = config.packets

\* Writes past the end of ts, and writes of two lcores to one entry, which
\* nothing orders, need a packet count above its size or more than one client.
TimestampFaultsHaveKnownCause ==
  /\ (\E i \in DOMAIN ts : ts[i] # {} /\ i >= TsSize) => config.packets > TsSize
  /\ (\E i \in DOMAIN ts : Cardinality(ts[i]) > 1) => Cardinality(config.tx) > 1

\* After a signal main() gets past the wait and stops the device: servers leave their loop, and
\* clients, which do not look at the signal, finish as long as the NIC sends.
SignalEndsIt == terminate ~> main = "stopped"
=============================================================================
