------------------------------ MODULE SpscRing ------------------------------
(***************************************************************************)
(* RingBuffer::SPSC: one producer thread in 'append', one consumer thread  *)
(* in 'read', no lock.  Each thread owns one index and keeps a cached copy *)
(* of the other's, which it reloads only when the cached one stops it.     *)
(*                                                                         *)
(* A step is one access to memory the other thread may touch; what a       *)
(* thread does with its own data is part of the step before or after.  An  *)
(* acquire load may return any value that the other thread has stored      *)
(* since the one this thread last loaded: Visible.                         *)
(***************************************************************************)
EXTENDS Integers, Sequences

CONSTANTS
  Capacity,  \* k_SPSC_CAPACITY
  Values,    \* the rte_mbuf pointers the producer appends
  Uninit     \* content of a slot, or of the caller's variable, never written

ASSUME CapacityAssumption == Capacity \in Nat \ {0}
ASSUME UninitAssumption == Uninit \notin Values

Index == 0 .. (Capacity - 1)

VARIABLES
  d_readIdx, d_readIdxCached, d_writeIdx, d_writeIdxCached, d_data,
  producer,  \* where 'append' is: "idle", "reload", "store", "publish"
  value,     \* its argument
  consumer,  \* where 'read' is: "idle", "reload", "copy", "publish"
  out        \* the consumer's variable, *value of 'read'

producerVars == <<d_writeIdx, d_readIdxCached, producer, value>>
consumerVars == <<d_readIdx, d_writeIdxCached, consumer, out>>
vars == <<producerVars, consumerVars, d_data>>

TypeOK ==
  /\ d_readIdx \in Index /\ d_readIdxCached \in Index
  /\ d_writeIdx \in Index /\ d_writeIdxCached \in Index
  /\ d_data \in [Index -> Values \union {Uninit}]
  /\ producer \in {"idle", "reload", "store", "publish"}
  /\ value \in Values \union {Uninit}
  /\ consumer \in {"idle", "reload", "copy", "publish"}
  /\ out \in Values \union {Uninit}

-----------------------------------------------------------------------------
\* Definitions whose name starts with Mutant are wrong forms of the one that
\* follows them, for the mutation runs; the specification uses none of them.

NextIdx(i) == IF i + 1 = Capacity THEN 0 ELSE i + 1

\* Steps from index a to index b, and the index k steps from a.
Dist(a, b) == IF b >= a THEN b - a ELSE b - a + Capacity
Step(a, k) == IF a + k < Capacity THEN a + k ELSE a + k - Capacity

\* What a load of an index may return when 'seen' was the last one loaded and
\* 'now' is the last one stored.
Visible(seen, now) == {Step(seen, k) : k \in 0 .. Dist(seen, now)}

Init ==
  /\ d_readIdx = 0 /\ d_readIdxCached = 0
  /\ d_writeIdx = 0 /\ d_writeIdxCached = 0
  /\ d_data = [i \in Index |-> Uninit]
  /\ producer = "idle" /\ value = Uninit
  /\ consumer = "idle" /\ out = Uninit

\* append(v): a full queue, as far as the cache knows, asks for a reload.
AppendCall(v) ==
  /\ producer = "idle"
  /\ value' = v
  /\ producer' = IF NextIdx(d_writeIdx) = d_readIdxCached THEN "reload"
                                                         ELSE "store"
  /\ UNCHANGED <<d_writeIdx, d_readIdxCached, consumerVars, d_data>>

MutantAppendLoad(i) ==
  /\ producer = "reload"
  /\ producer' = IF NextIdx(d_writeIdx) = d_readIdxCached THEN "idle"
                                                         ELSE "store"
  /\ UNCHANGED <<d_writeIdx, d_readIdxCached, value, consumerVars, d_data>>

\* The load returned i; still full means 'append' returns false.
AppendLoad(i) ==
  /\ producer = "reload"
  /\ d_readIdxCached' = i
  /\ producer' = IF NextIdx(d_writeIdx) = i THEN "idle" ELSE "store"
  /\ UNCHANGED <<d_writeIdx, value, consumerVars, d_data>>

AppendReload == \E i \in Visible(d_readIdxCached, d_readIdx) : AppendLoad(i)

MutantAppendStoreNext ==
  /\ producer = "store"
  /\ d_data' = [d_data EXCEPT ![NextIdx(d_writeIdx)] = value]
  /\ producer' = "publish"
  /\ UNCHANGED <<d_writeIdx, d_readIdxCached, value, consumerVars>>

AppendStore ==
  /\ producer = "store"
  /\ d_data' = [d_data EXCEPT ![d_writeIdx] = value]
  /\ producer' = "publish"
  /\ UNCHANGED <<d_writeIdx, d_readIdxCached, value, consumerVars>>

\* The value is in the queue, and 'append' returns true.
AppendPublish ==
  /\ producer = "publish"
  /\ d_writeIdx' = NextIdx(d_writeIdx)
  /\ producer' = "idle"
  /\ UNCHANGED <<d_readIdxCached, value, consumerVars, d_data>>

MutantReadCallNoCheck ==
  /\ consumer = "idle"
  /\ consumer' = "copy"
  /\ UNCHANGED <<d_readIdx, d_writeIdxCached, out, producerVars, d_data>>

ReadCall ==
  /\ consumer = "idle"
  /\ consumer' = IF d_readIdx = d_writeIdxCached THEN "reload" ELSE "copy"
  /\ UNCHANGED <<d_readIdx, d_writeIdxCached, out, producerVars, d_data>>

\* The load returned i; still empty means 'read' returns false.
ReadLoad(i) ==
  /\ consumer = "reload"
  /\ d_writeIdxCached' = i
  /\ consumer' = IF d_readIdx = i THEN "idle" ELSE "copy"
  /\ UNCHANGED <<d_readIdx, out, producerVars, d_data>>

ReadReload == \E i \in Visible(d_writeIdxCached, d_writeIdx) : ReadLoad(i)

ReadCopy ==
  /\ consumer = "copy"
  /\ out' = d_data[d_readIdx]
  /\ consumer' = "publish"
  /\ UNCHANGED <<d_readIdx, d_writeIdxCached, producerVars, d_data>>

\* The slot is free again, and 'read' returns true.
ReadPublish ==
  /\ consumer = "publish"
  /\ d_readIdx' = NextIdx(d_readIdx)
  /\ consumer' = "idle"
  /\ UNCHANGED <<d_writeIdxCached, out, producerVars, d_data>>

ProducerNext ==
  (\E v \in Values : AppendCall(v)) \/ AppendReload \/ AppendStore \/ AppendPublish

ConsumerNext == ReadCall \/ ReadReload \/ ReadCopy \/ ReadPublish

Next == ProducerNext \/ ConsumerNext

Spec == Init /\ [][Next]_vars

\* Both threads poll, and a store is seen after finitely many loads.
Fairness ==
  /\ WF_vars(ProducerNext) /\ SF_vars(AppendLoad(d_readIdx))
  /\ WF_vars(ConsumerNext) /\ SF_vars(ReadLoad(d_writeIdx))

FairSpec == Spec /\ Fairness

-----------------------------------------------------------------------------
\* The queue the callers see.  A value leaves it when it is copied out, one
\* step before its slot is given back.
First == IF consumer = "publish" THEN NextIdx(d_readIdx) ELSE d_readIdx

Unread ==
  [k \in 1 .. Dist(First, d_writeIdx) |-> d_data[Step(First, k - 1)]]

\* Every append and every read takes effect at one instant on a queue of
\* Capacity - 1 values: none lost, duplicated, reordered, read before it was
\* stored, or stored over one not yet read.  Under fairness, an appended value
\* is eventually read, however stale the indices a thread loads.
Fifo == INSTANCE SpscFifo WITH items <- Unread, given <- out,
                               Bound <- Capacity - 1
ImplementsFifo == Fifo!FairSpec

\* The threads are never about to access the same slot, so the plain array
\* behind the two atomics is free of data races.
NoDataRace == producer = "store" /\ consumer = "copy" => d_writeIdx # d_readIdx

\* A cached index only ever lags: the consumer's stays between its own index
\* and the producer's, and the producer's has no unread slot ahead of it.
CachesLag ==
  /\ Dist(d_readIdx, d_writeIdxCached) <= Dist(d_readIdx, d_writeIdx)
  /\ Dist(d_readIdxCached, d_readIdx) + Dist(d_readIdx, d_writeIdx) < Capacity

\* A producer stopped by a full queue gets through if it keeps trying.
ProducerGetsThrough == producer = "reload" ~> producer = "store"
=============================================================================
