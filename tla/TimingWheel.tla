---------------------------- MODULE TimingWheel ----------------------------
(***************************************************************************)
(* The timing wheel that paces packets: a ring of slots, each with the     *)
(* time from which its packets may leave and a chain of buckets.  reap     *)
(* moves the slots whose time has come to the ready queue, insert puts a   *)
(* packet into the slot behind its time.  One step is one turn of reap's   *)
(* loop, or the rest of a call.                                            *)
(***************************************************************************)
EXTENDS Integers, SequencesExt

CONSTANTS
  NumWslots,    \* kWheelNumWslots
  BucketCap,    \* kWheelBucketCap
  Speeds,       \* CPU frequencies, in cycles per Unit slot durations
  Unit,
  Packets,      \* bound on the packets inserted
  MaxTsc,       \* bound on the times given to the wheel
  Asserts       \* TRUE in a build without NDEBUG

ASSUME WheelAssumption ==
  /\ NumWslots \in Nat \ {0, 1}
  /\ BucketCap \in Nat \ {0}
  /\ Unit \in Nat \ {0}
  /\ \A f \in Speeds : f \in Nat /\ f >= Unit
  /\ Packets \in Nat /\ MaxTsc \in Nat
  /\ Asserts \in BOOLEAN

Wslots == 0 .. NumWslots - 1

VARIABLES
  freq,         \* the frequency of this machine
  tx_tsc,       \* of each slot's first bucket
  chain,        \* of each slot: its buckets, a bucket being the sequence of its entries
  cur_wslot,
  ready_queue,  \* every entry moved to it, oldest first
  call,         \* the call in progress
  last,         \* the latest time given to reap or insert
  due,          \* of each packet inserted: the time asked for
  left,         \* of each packet: the time given to the reap that moved it
  wrapped,      \* packets put a whole revolution early
  lost          \* the process ended in an assertion or wrote past the wheel

vars == <<freq, tx_tsc, chain, cur_wslot, ready_queue, call, last, due, left, wrapped, lost>>

None == [op |-> "none"]

\* us_to_cycles cuts each product to whole cycles, so that the horizon may be
\* more than NumWslots - 1 slots wide.  Here the horizon fills its slots, which
\* leaves the wheel the least room.
Cycles(slots) == (slots * freq) \div Unit
Width == Cycles(1)                      \* wslot_width_tsc_
Horizon == Cycles(NumWslots - 1)        \* horizon_tsc_

Exact == Horizon <= (NumWslots - 1) * Width

Init ==
  /\ freq \in Speeds
  /\ last = 0
  /\ tx_tsc = [s \in Wslots |-> (s + 1) * Width]
  /\ chain = [s \in Wslots |-> << <<>> >>]
  /\ cur_wslot = 0 /\ ready_queue = <<>>
  /\ call = None
  /\ due = <<>> /\ left = [p \in 1 .. Packets |-> -1]
  /\ wrapped = {} /\ lost = FALSE

\* what rdtsc may answer from now on, and with it the times a caller passes on: by
\* the rules of reap they never decrease
Times(t) == t .. MaxTsc

Call(c) ==
  /\ call = None /\ ~lost
  /\ call' = c
  /\ last' = c.ref
  /\ UNCHANGED <<freq, tx_tsc, chain, cur_wslot, ready_queue, due, left, wrapped, lost>>

CallReap == \E t \in Times(last) : Call([op |-> "reap", ref |-> t])

\* by the assertions of insert a packet is due within the horizon
CallInsert ==
  /\ Len(due) < Packets
  /\ \E t \in Times(last) : \E desired \in t .. t + Horizon :
       Call([op |-> "insert", ref |-> t, desired |-> desired])

CallCatchup == Call([op |-> "catchup", ref |-> last])

----------------------------------------------------------------------------

\* the condition of reap's loop
Reapable(t) == tx_tsc[cur_wslot] <= t

Next1(s) == IF s + 1 = NumWslots THEN 0 ELSE s + 1

MutantReapOrder(s) ==
  LET entries == FlattenSeq(Reverse(chain[s]))
  IN /\ ready_queue' = ready_queue \o entries
     /\ chain' = [chain EXCEPT ![s] = << <<>> >>]
     /\ left' = [p \in 1 .. Packets |-> IF Contains(entries, p) THEN call.ref ELSE left[p]]

\* reap_wslot: every bucket of the chain, and the slot is left with its own only
ReapWslot(s) ==
  LET entries == FlattenSeq(chain[s])
  IN /\ ready_queue' = ready_queue \o entries
     /\ chain' = [chain EXCEPT ![s] = << <<>> >>]
     /\ left' = [p \in 1 .. Packets |-> IF Contains(entries, p) THEN call.ref ELSE left[p]]

\* a turn of the loop in reap
ReapTurn ==
  /\ call # None /\ Reapable(call.ref)
  /\ ReapWslot(cur_wslot)
  /\ tx_tsc' = [tx_tsc EXCEPT ![cur_wslot] = @ + Width * NumWslots]
  /\ cur_wslot' = Next1(cur_wslot)
  /\ UNCHANGED <<freq, call, last, due, wrapped, lost>>

ReapReturns ==
  /\ call.op = "reap" /\ ~Reapable(call.ref)
  /\ call' = None
  /\ UNCHANGED <<freq, tx_tsc, chain, cur_wslot, ready_queue, last, due, left, wrapped, lost>>

\* catchup looks at the time before each reap, and again for the reap itself
CatchupTurn ==
  /\ call.op = "catchup" /\ ~Reapable(call.ref)
  /\ \/ \E t \in Times(last) :
          /\ tx_tsc[cur_wslot] < t
          /\ \E again \in Times(t) : call' = [call EXCEPT !.ref = again] /\ last' = again
     \/ call' = None /\ UNCHANGED last
  /\ UNCHANGED <<freq, tx_tsc, chain, cur_wslot, ready_queue, due, left, wrapped, lost>>

MutantDelta(desired) ==
  IF desired <= tx_tsc[cur_wslot] THEN 0
  ELSE (desired - tx_tsc[cur_wslot]) \div Width

\* how many slots behind the current one a packet goes
Delta(desired) ==
  IF desired <= tx_tsc[cur_wslot] THEN 0
  ELSE 1 + (desired - tx_tsc[cur_wslot]) \div Width

MutantAddEntry(buckets, entry) ==
  LET full == Append(Last(buckets), entry)
  IN IF Len(full) = BucketCap THEN << <<>> >> ELSE Front(buckets) \o <<full>>

\* insert_into_wslot: a full bucket gets an empty one behind it
AddEntry(buckets, entry) ==
  LET full == Append(Last(buckets), entry)
  IN Front(buckets) \o IF Len(full) = BucketCap THEN <<full, <<>>>> ELSE <<full>>

\* the rest of insert, once it has reaped.  The assertion on the delta is the
\* only thing between a delta that is too large and the wrong slot.
Insert ==
  LET packet == Len(due) + 1
      delta == Delta(call.desired)
      sum == cur_wslot + delta
      dst == IF sum >= NumWslots THEN sum - NumWslots ELSE sum
      ends == delta >= NumWslots /\ (Asserts \/ dst >= NumWslots)
  IN /\ call.op = "insert" /\ ~Reapable(call.ref)
     /\ call' = None
     /\ lost' = ends
     /\ IF ends THEN UNCHANGED <<chain, due, wrapped>>
        ELSE /\ chain' = [chain EXCEPT ![dst] = AddEntry(@, packet)]
             /\ due' = Append(due, call.desired)
             /\ wrapped' = IF delta >= NumWslots THEN wrapped \cup {packet} ELSE wrapped
     /\ UNCHANGED <<freq, tx_tsc, cur_wslot, ready_queue, last, left>>

Next ==
  \/ CallReap \/ CallInsert \/ CallCatchup
  \/ ReapTurn \/ ReapReturns \/ CatchupTurn \/ Insert

Spec == Init /\ [][Next]_vars

----------------------------------------------------------------------------
(* Properties.                                                             *)

\* The slots follow each other in time from the current one on, one width apart,
\* and the current one is at most a width ahead of the last time the wheel was given.
SlotsFollowInTime ==
  /\ \A s \in Wslots : Next1(s) # cur_wslot => tx_tsc[Next1(s)] = tx_tsc[s] + Width
  /\ tx_tsc[cur_wslot] <= last + Width

\* Each packet is in the wheel or in the ready queue, and there once, and every
\* bucket of a chain but the last is full: the condition insert relies on when
\* it writes to the last one.
EveryPacketOnce ==
  LET places == ready_queue \o FlattenSeq([i \in 1 .. NumWslots |-> FlattenSeq(chain[i - 1])])
  IN /\ IsInjective(places)
     /\ ToSet(places) = DOMAIN due
     /\ \A s \in Wslots : \A i \in DOMAIN chain[s] :
          (Len(chain[s][i]) = BucketCap) <=> (i < Len(chain[s]))

\* A packet never leaves before the time asked for, and once it has been due for
\* the width of a slot the next reap or insert moves it.  Only a packet put a
\* revolution early is exempt, and that happens only where cutting the width to
\* whole cycles made the horizon too wide for the wheel.
ReleasedInTime ==
  /\ wrapped # {} => ~Exact
  /\ \A p \in DOMAIN due \ wrapped :
       IF left[p] # -1 THEN left[p] >= due[p] ELSE call = None => last < due[p] + Width

Precedes(p, q) == \E i, j \in DOMAIN ready_queue :
                    i < j /\ ready_queue[i] = p /\ ready_queue[j] = q

\* Of two packets the one inserted first and due first leaves first, and so does
\* the one inserted first of two that are due together, unless that is the very
\* moment between two slots: then the second one takes the earlier slot if the
\* first of the slots has become the current one in between.
LeaveInDueOrder ==
  \A p, q \in DOMAIN due \ wrapped :
    (/\ p < q /\ left[q] # -1
     /\ \/ due[p] < due[q]
        \/ due[p] = due[q] /\ due[p] % Width # 0)
      => Precedes(p, q)
=============================================================================
