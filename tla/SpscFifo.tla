------------------------------ MODULE SpscFifo ------------------------------
(***************************************************************************)
(* What RingBuffer::SPSC promises its two callers: a bounded first-in      *)
(* first-out queue.  No indices, no caches, no intermediate states.        *)
(***************************************************************************)
EXTENDS Naturals, Sequences

CONSTANTS
  Values,  \* what the producer may append
  Bound    \* how many values the queue holds

VARIABLES
  items,   \* appended and not yet read, oldest first
  given    \* what the last successful read handed to the consumer

vars == <<items, given>>

Init == items = <<>> /\ given \notin Values

Put(v) ==
  /\ Len(items) < Bound
  /\ items' = Append(items, v)
  /\ UNCHANGED given

Take ==
  /\ items # <<>>
  /\ given' = Head(items)
  /\ items' = Tail(items)

Next == (\E v \in Values : Put(v)) \/ Take

Spec == Init /\ [][Next]_vars

\* A consumer that keeps calling 'read' keeps receiving.
FairSpec == Spec /\ WF_vars(Take)
=============================================================================
