--------------------------- MODULE SpscRingProofs ---------------------------
(***************************************************************************)
(* Proofs about RingBuffer::SPSC, for every capacity and set of values.    *)
(***************************************************************************)
EXTENDS SpscRing, SequenceTheorems, TLAPS

USE CapacityAssumption

\* A thread that has decided to go ahead relies on its cached index only.
RoomAhead ==
  producer \in {"store", "publish"} => NextIdx(d_writeIdx) # d_readIdxCached

ItemAhead ==
  consumer \in {"copy", "publish"} => d_readIdx # d_writeIdxCached

\* The slots from the consumer's index to the producer's hold values.
Filled ==
  \A k \in 0 .. Dist(d_readIdx, d_writeIdx) - 1 :
    d_data[Step(d_readIdx, k)] \in Values

\* The argument of 'append', and where it is before it is published.
Stored ==
  /\ producer # "idle" => value \in Values
  /\ producer = "publish" => d_data[d_writeIdx] = value

\* The inductive invariant.
IInv ==
  /\ TypeOK
  /\ CachesLag
  /\ RoomAhead
  /\ ItemAhead
  /\ Filled
  /\ Stored

-----------------------------------------------------------------------------
\* Arithmetic on the circle of indices: the next index is an index.
LEMMA NextIdxType == \A a \in Index : NextIdx(a) \in Index
BY DEF Index, NextIdx

\* A distance is an index, and is 0 between an index and itself only.
LEMMA DistType ==
  \A a, b \in Index : /\ Dist(a, b) \in 0 .. Capacity - 1
                      /\ Dist(a, b) = 0 <=> a = b
BY DEF Index, Dist

\* Stepping forward stays on the circle.
LEMMA StepType ==
  \A a \in Index, k \in 0 .. Capacity - 1 : Step(a, k) \in Index
BY DEF Index, Step

\* Fewer than Capacity steps from one place never meet.
LEMMA StepInjective ==
  \A a \in Index, j, k \in 0 .. Capacity - 1 :
    Step(a, j) = Step(a, k) => j = k
BY DEF Index, Step

\* The distance is how many steps it takes.
LEMMA StepDist == \A a, b \in Index : Step(a, Dist(a, b)) = b
BY DEF Index, Step, Dist

\* Moving the far end away lengthens a distance by one, unless it closes the
\* circle.
LEMMA DistGrows ==
  \A a, b \in Index : NextIdx(b) # a => Dist(a, NextIdx(b)) = Dist(a, b) + 1
BY DEF Index, NextIdx, Dist

\* Moving the near end closer shortens a distance by one.
LEMMA DistShrinks ==
  \A a, b \in Index : a # b => Dist(NextIdx(a), b) = Dist(a, b) - 1
BY DEF Index, NextIdx, Dist

\* One step first or one step last is the same.
LEMMA StepFromNext ==
  \A a \in Index, k \in 0 .. Capacity - 2 : Step(NextIdx(a), k) = Step(a, k + 1)
BY DEF Index, NextIdx, Step

\* A loaded index lies between the one last seen and the current one.
LEMMA VisibleBetween ==
  ASSUME NEW a \in Index, NEW b \in Index, NEW i \in Visible(a, b)
  PROVE  i \in Index /\ Dist(a, i) + Dist(i, b) = Dist(a, b)
BY DEF Index, Visible, Dist, Step

\* A writer that is not stopped by the cached index is not stopped by the
\* current one either, and its step leaves the queue within its bound.
LEMMA RoomIsReal ==
  ASSUME NEW c \in Index, NEW r \in Index, NEW w \in Index,
         Dist(c, r) + Dist(r, w) < Capacity, NextIdx(w) # c
  PROVE  /\ Dist(r, NextIdx(w)) = Dist(r, w) + 1
         /\ Dist(c, r) + Dist(r, NextIdx(w)) < Capacity
         /\ Dist(r, w) <= Capacity - 2
BY DEF Index, NextIdx, Dist

\* A reader that is not stopped by the cached index has a value to read.
LEMMA ItemIsReal ==
  ASSUME NEW c \in Index, NEW r \in Index, NEW w \in Index, NEW x \in Index,
         Dist(r, x) <= Dist(r, w), r # x, Dist(c, r) + Dist(r, w) < Capacity
  PROVE  /\ r # w
         /\ Dist(NextIdx(r), w) = Dist(r, w) - 1
         /\ Dist(NextIdx(r), x) = Dist(r, x) - 1
         /\ Dist(c, NextIdx(r)) = Dist(c, r) + 1
BY DEF Index, NextIdx, Dist

-----------------------------------------------------------------------------
\* An empty ring with both caches exact.
THEOREM InitInv == Init => IInv
BY DEF Init, IInv, TypeOK, CachesLag, RoomAhead, ItemAhead, Filled, Stored,
       Index, Dist

\* A producer its cache does not stop has room ahead.
LEMMA AppendCallInv ==
  ASSUME IInv, NEW v \in Values, AppendCall(v)
  PROVE  IInv'
<1>1. TypeOK'
  BY DEF AppendCall, consumerVars, IInv, TypeOK
<1>2. RoomAhead'
  BY DEF AppendCall, RoomAhead
<1>3. Stored'
  BY DEF AppendCall, Stored
<1> QED
  BY <1>1, <1>2, <1>3 DEF AppendCall, consumerVars, IInv, CachesLag, ItemAhead,
     Filled

\* A reload moves the producer's cache forward, never past the consumer.
LEMMA AppendLoadInv ==
  ASSUME IInv, NEW i \in Visible(d_readIdxCached, d_readIdx), AppendLoad(i)
  PROVE  IInv'
<1>1. /\ d_readIdxCached \in Index /\ d_readIdx \in Index
      /\ d_writeIdx \in Index
  BY DEF IInv, TypeOK
<1>2. /\ i \in Index
      /\ Dist(d_readIdxCached, i) + Dist(i, d_readIdx)
           = Dist(d_readIdxCached, d_readIdx)
  BY <1>1, VisibleBetween
<1>3. TypeOK'
  BY <1>2 DEF AppendLoad, consumerVars, IInv, TypeOK
<1>4. CachesLag'
  <2>1. /\ Dist(d_readIdxCached, i) \in Nat /\ Dist(i, d_readIdx) \in Nat
        /\ Dist(d_readIdxCached, d_readIdx) \in Nat
        /\ Dist(d_readIdx, d_writeIdx) \in Nat
    BY <1>1, <1>2, DistType
  <2>2. Dist(i, d_readIdx) + Dist(d_readIdx, d_writeIdx) < Capacity
    BY <1>2, <2>1 DEF IInv, CachesLag
  <2> QED
    BY <2>2 DEF AppendLoad, consumerVars, IInv, CachesLag
<1>5. RoomAhead'
  BY DEF AppendLoad, RoomAhead
<1>6. Stored'
  BY DEF AppendLoad, IInv, Stored
<1> QED
  BY <1>3, <1>4, <1>5, <1>6 DEF AppendLoad, consumerVars, IInv, ItemAhead, Filled

\* The slot stored to holds no unread value.
LEMMA AppendStoreInv ==
  ASSUME IInv, AppendStore
  PROVE  IInv'
<1>1. /\ d_readIdx \in Index /\ d_writeIdx \in Index
      /\ d_data \in [Index -> Values \union {Uninit}]
      /\ value \in Values
  BY DEF AppendStore, IInv, TypeOK, Stored
<1>2. TypeOK'
  BY <1>1 DEF AppendStore, consumerVars, IInv, TypeOK
<1>3. Filled'
  <2> SUFFICES ASSUME NEW k \in 0 .. Dist(d_readIdx, d_writeIdx) - 1
               PROVE  d_data'[Step(d_readIdx, k)] \in Values
    BY DEF AppendStore, consumerVars, Filled
  <2>1. /\ Step(d_readIdx, k) \in Index
        /\ d_data[Step(d_readIdx, k)] \in Values
    <3>1. k \in 0 .. Capacity - 1
      BY <1>1, DistType
    <3> QED
      BY <1>1, <3>1, StepType DEF IInv, Filled
  <2> QED
    BY <1>1, <2>1 DEF AppendStore
<1>4. Stored'
  BY <1>1 DEF AppendStore, Stored
<1> QED
  BY <1>2, <1>3, <1>4 DEF AppendStore, consumerVars, IInv, CachesLag, RoomAhead,
     ItemAhead

\* The index moves over a slot that has been stored to.
LEMMA AppendPublishInv ==
  ASSUME IInv, AppendPublish
  PROVE  IInv'
<1>1. /\ d_readIdxCached \in Index /\ d_readIdx \in Index
      /\ d_writeIdx \in Index /\ d_writeIdxCached \in Index
  BY DEF IInv, TypeOK
<1>2. /\ Dist(d_readIdx, NextIdx(d_writeIdx)) = Dist(d_readIdx, d_writeIdx) + 1
      /\ Dist(d_readIdxCached, d_readIdx)
           + Dist(d_readIdx, NextIdx(d_writeIdx)) < Capacity
  BY <1>1, RoomIsReal DEF AppendPublish, IInv, CachesLag, RoomAhead
<1>3. TypeOK'
  BY <1>1, NextIdxType DEF AppendPublish, consumerVars, IInv, TypeOK
<1>4. CachesLag'
  <2>1. /\ Dist(d_readIdx, d_writeIdx) \in Nat
        /\ Dist(d_readIdx, d_writeIdxCached) \in Nat
    BY <1>1, DistType
  <2> QED
    BY <1>2, <2>1 DEF AppendPublish, consumerVars, IInv, CachesLag
<1>5. Filled'
  <2> SUFFICES ASSUME NEW k \in 0 .. Dist(d_readIdx, d_writeIdx)
               PROVE  d_data[Step(d_readIdx, k)] \in Values
    BY <1>1, <1>2, DistType DEF AppendPublish, consumerVars, Filled
  <2>1. CASE k = Dist(d_readIdx, d_writeIdx)
    BY <1>1, <2>1, StepDist DEF AppendPublish, IInv, Stored
  <2>2. CASE k # Dist(d_readIdx, d_writeIdx)
    BY <1>1, <2>2, DistType DEF IInv, Filled
  <2> QED
    BY <2>1, <2>2
<1> QED
  BY <1>3, <1>4, <1>5 DEF AppendPublish, consumerVars, IInv, RoomAhead,
     ItemAhead, Stored

\* A consumer its cache does not stop has a value ahead.
LEMMA ReadCallInv ==
  ASSUME IInv, ReadCall
  PROVE  IInv'
<1>1. TypeOK'
  BY DEF ReadCall, producerVars, IInv, TypeOK
<1>2. ItemAhead'
  BY DEF ReadCall, ItemAhead
<1> QED
  BY <1>1, <1>2 DEF ReadCall, producerVars, IInv, CachesLag, RoomAhead, Filled,
     Stored

\* A reload moves the consumer's cache forward, never past the producer.
LEMMA ReadLoadInv ==
  ASSUME IInv, NEW i \in Visible(d_writeIdxCached, d_writeIdx), ReadLoad(i)
  PROVE  IInv'
<1>1. /\ d_writeIdxCached \in Index /\ d_writeIdx \in Index
      /\ d_readIdx \in Index
  BY DEF IInv, TypeOK
<1>2. /\ i \in Index
      /\ Dist(d_writeIdxCached, i) + Dist(i, d_writeIdx)
           = Dist(d_writeIdxCached, d_writeIdx)
  BY <1>1, VisibleBetween
<1>3. TypeOK'
  BY <1>2 DEF ReadLoad, producerVars, IInv, TypeOK
<1>4. CachesLag'
  <2>1. Dist(d_readIdx, i) <= Dist(d_readIdx, d_writeIdx)
    BY <1>1, <1>2 DEF IInv, CachesLag, Dist, Index
  <2> QED
    BY <2>1 DEF ReadLoad, producerVars, IInv, CachesLag
<1>5. ItemAhead'
  BY DEF ReadLoad, ItemAhead
<1> QED
  BY <1>3, <1>4, <1>5 DEF ReadLoad, producerVars, IInv, RoomAhead, Filled, Stored

\* A copy disturbs neither index and no slot.
LEMMA ReadCopyInv ==
  ASSUME IInv, ReadCopy
  PROVE  IInv'
<1>1. TypeOK'
  BY DEF ReadCopy, producerVars, IInv, TypeOK
<1> QED
  BY <1>1 DEF ReadCopy, producerVars, IInv, CachesLag, RoomAhead, ItemAhead,
     Filled, Stored

\* The slot given back is one the producer has published.
LEMMA ReadPublishInv ==
  ASSUME IInv, ReadPublish
  PROVE  IInv'
<1>1. /\ d_readIdxCached \in Index /\ d_readIdx \in Index
      /\ d_writeIdx \in Index /\ d_writeIdxCached \in Index
  BY DEF IInv, TypeOK
<1>2. /\ d_readIdx # d_writeIdx
      /\ Dist(NextIdx(d_readIdx), d_writeIdx) = Dist(d_readIdx, d_writeIdx) - 1
      /\ Dist(NextIdx(d_readIdx), d_writeIdxCached)
           = Dist(d_readIdx, d_writeIdxCached) - 1
      /\ Dist(d_readIdxCached, NextIdx(d_readIdx))
           = Dist(d_readIdxCached, d_readIdx) + 1
  BY <1>1, ItemIsReal DEF ReadPublish, IInv, CachesLag, ItemAhead
<1>3. /\ Dist(d_readIdx, d_writeIdx) \in 0 .. Capacity - 1
      /\ Dist(d_readIdx, d_writeIdxCached) \in Nat
      /\ Dist(d_readIdxCached, d_readIdx) \in Nat
  BY <1>1, DistType
<1>4. TypeOK'
  BY <1>1, NextIdxType DEF ReadPublish, producerVars, IInv, TypeOK
<1>5. CachesLag'
  BY <1>2, <1>3 DEF ReadPublish, producerVars, IInv, CachesLag
<1>6. Filled'
  <2> SUFFICES ASSUME NEW k \in 0 .. Dist(d_readIdx, d_writeIdx) - 2
               PROVE  d_data[Step(NextIdx(d_readIdx), k)] \in Values
    BY <1>2, <1>3 DEF ReadPublish, producerVars, Filled
  <2>1. Step(NextIdx(d_readIdx), k) = Step(d_readIdx, k + 1)
    BY <1>1, <1>3, StepFromNext
  <2>2. k + 1 \in 0 .. Dist(d_readIdx, d_writeIdx) - 1
    BY <1>3
  <2> QED
    BY <2>1, <2>2 DEF IInv, Filled
<1> QED
  BY <1>4, <1>5, <1>6 DEF ReadPublish, producerVars, IInv, RoomAhead, ItemAhead,
     Stored

\* The invariant holds in every reachable state.
THEOREM Invariant == Spec => []IInv
<1>1. IInv /\ [Next]_vars => IInv'
  <2> SUFFICES ASSUME IInv, [Next]_vars
               PROVE  IInv'
    OBVIOUS
  <2>1. CASE ProducerNext
    BY <2>1, AppendCallInv, AppendLoadInv, AppendStoreInv, AppendPublishInv
       DEF ProducerNext, AppendReload
  <2>2. CASE ConsumerNext
    BY <2>2, ReadCallInv, ReadLoadInv, ReadCopyInv, ReadPublishInv
       DEF ConsumerNext, ReadReload
  <2>3. CASE UNCHANGED vars
    BY <2>3 DEF vars, producerVars, consumerVars, IInv, TypeOK, CachesLag,
       RoomAhead, ItemAhead, Filled, Stored
  <2> QED
    BY <2>1, <2>2, <2>3 DEF Next
<1> QED
  BY <1>1, InitInv, PTL DEF Spec

-----------------------------------------------------------------------------
\* Type correctness: in particular no index ever leaves the ring.
THEOREM TypeCorrect == Spec => []TypeOK
BY Invariant, PTL DEF IInv

\* The producer never runs past the consumer, nor the consumer past the
\* producer, and each thread's cached copy is a safe underestimate.
THEOREM CachesLagCorrect == Spec => []CachesLag
BY Invariant, PTL DEF IInv

\* The plain array behind the two atomics is free of data races.
THEOREM RaceFree == Spec => []NoDataRace
<1>1. IInv => NoDataRace
  <2> SUFFICES ASSUME IInv, producer = "store", consumer = "copy"
               PROVE  d_writeIdx # d_readIdx
    BY DEF NoDataRace
  <2>1. /\ d_readIdxCached \in Index /\ d_readIdx \in Index
        /\ d_writeIdx \in Index /\ d_writeIdxCached \in Index
    BY DEF IInv, TypeOK
  <2> QED
    BY <2>1, ItemIsReal DEF IInv, CachesLag, ItemAhead
<1> QED
  BY <1>1, Invariant, PTL

-----------------------------------------------------------------------------
\* The queue the callers see, read off the ring.
LEMMA FirstFacts ==
  ASSUME IInv
  PROVE  /\ First \in Index
         /\ Dist(First, d_writeIdx) \in 0 .. Capacity - 1
         /\ consumer = "publish" =>
              /\ d_readIdx # d_writeIdx
              /\ Dist(First, d_writeIdx) = Dist(d_readIdx, d_writeIdx) - 1
         /\ \A k \in 0 .. Dist(First, d_writeIdx) - 1 :
              d_data[Step(First, k)] \in Values
<1>1. /\ d_readIdxCached \in Index /\ d_readIdx \in Index
      /\ d_writeIdx \in Index /\ d_writeIdxCached \in Index
  BY DEF IInv, TypeOK
<1>2. First \in Index
  BY <1>1, NextIdxType DEF First
<1>3. Dist(First, d_writeIdx) \in 0 .. Capacity - 1
  BY <1>1, <1>2, DistType
<1>4. ASSUME consumer = "publish"
      PROVE  /\ d_readIdx # d_writeIdx
             /\ Dist(First, d_writeIdx) = Dist(d_readIdx, d_writeIdx) - 1
  BY <1>1, <1>4, ItemIsReal DEF IInv, CachesLag, ItemAhead, First
<1>5. ASSUME NEW k \in 0 .. Dist(First, d_writeIdx) - 1
      PROVE  d_data[Step(First, k)] \in Values
  <2>1. CASE consumer = "publish"
    <3>1. Step(First, k) = Step(d_readIdx, k + 1)
      BY <1>1, <1>3, <1>4, <2>1, StepFromNext, DistType DEF First
    <3>2. k + 1 \in 0 .. Dist(d_readIdx, d_writeIdx) - 1
      BY <1>1, <1>3, <1>4, <2>1, DistType
    <3> QED
      BY <3>1, <3>2 DEF IInv, Filled
  <2>2. CASE consumer # "publish"
    BY <2>2 DEF IInv, Filled, First
  <2> QED
    BY <2>1, <2>2
<1> QED
  BY <1>2, <1>3, <1>4, <1>5

\* A function from 1 .. n is a sequence of length n.
LEMMA FunctionAsSeq ==
  ASSUME NEW n \in Nat, NEW s \in [1 .. n -> Values]
  PROVE  s \in Seq(Values) /\ Len(s) = n
<1>1. s \in Seq(Values)
  BY SeqDef
<1> QED
  BY <1>1, LenProperties

\* What the refinement mapping says of the abstract queue: a sequence of stored
\* values, as long as the indices are apart.
LEMMA UnreadFacts ==
  ASSUME IInv
  PROVE  /\ Unread \in Seq(Values)
         /\ Len(Unread) = Dist(First, d_writeIdx)
         /\ \A k \in 1 .. Dist(First, d_writeIdx) :
              Unread[k] = d_data[Step(First, k - 1)]
<1> DEFINE n == Dist(First, d_writeIdx)
<1>1. n \in Nat
  BY FirstFacts
<1>2. \A k \in 1 .. n : d_data[Step(First, k - 1)] \in Values
  <2> TAKE k \in 1 .. n
  <2>1. k - 1 \in 0 .. n - 1
    BY <1>1
  <2> QED
    BY <2>1, FirstFacts
<1>3. Unread \in [1 .. n -> Values]
  BY <1>2 DEF Unread
<1> QED
  BY <1>1, <1>3, FunctionAsSeq DEF Unread

\* A step that leaves the two ends and the slots between them leaves Unread.
LEMMA UnreadKept ==
  ASSUME IInv, IInv', First' = First, d_writeIdx' = d_writeIdx,
         \A k \in 0 .. Dist(First, d_writeIdx) - 1 :
           d_data'[Step(First, k)] = d_data[Step(First, k)]
  PROVE  Unread' = Unread
<1> DEFINE n == Dist(First, d_writeIdx)
<1>1. n \in Nat
  BY FirstFacts
<1>2. \A k \in 1 .. n :
        d_data'[Step(First, k - 1)] = d_data[Step(First, k - 1)]
  <2> TAKE k \in 1 .. n
  <2>1. k - 1 \in 0 .. n - 1
    BY <1>1
  <2> QED
    BY <2>1
<1> QED
  BY <1>2 DEF Unread

\* Publishing the write index appends the value to the queue.
LEMMA PublishPuts ==
  ASSUME IInv, IInv', AppendPublish
  PROVE  Fifo!Put(value) /\ value \in Values
<1> DEFINE n == Dist(First, d_writeIdx)
<1>1. /\ d_readIdxCached \in Index /\ d_readIdx \in Index
      /\ d_writeIdx \in Index /\ n \in Nat /\ First \in Index
  BY FirstFacts DEF IInv, TypeOK
<1>2. First' = First /\ d_data' = d_data /\ out' = out
        /\ d_writeIdx' = NextIdx(d_writeIdx)
  BY DEF AppendPublish, consumerVars, First
<1>3. Dist(d_readIdx, NextIdx(d_writeIdx)) = Dist(d_readIdx, d_writeIdx) + 1
        /\ Dist(d_readIdx, d_writeIdx) <= Capacity - 2
  BY <1>1, RoomIsReal DEF AppendPublish, IInv, CachesLag, RoomAhead
<1>4. n <= Capacity - 2 /\ Dist(First, NextIdx(d_writeIdx)) = n + 1
  <2>1. CASE consumer = "publish"
    <3>1. d_readIdx # d_writeIdx /\ First = NextIdx(d_readIdx)
      BY <2>1, FirstFacts DEF First
    <3>2. NextIdx(d_writeIdx) # First
      BY <1>1, <3>1 DEF NextIdx, Index
    <3>3. n = Dist(d_readIdx, d_writeIdx) - 1
      BY <2>1, FirstFacts
    <3> QED
      BY <1>1, <1>3, <3>2, <3>3, DistGrows, DistType
  <2>2. CASE consumer # "publish"
    BY <1>3, <2>2 DEF First
  <2> QED
    BY <2>1, <2>2
<1>5. value \in Values /\ d_data[d_writeIdx] = value
  BY DEF AppendPublish, IInv, Stored
<1>6. /\ Unread' \in Seq(Values) /\ Len(Unread') = n + 1
      /\ \A k \in 1 .. n + 1 : Unread'[k] = d_data[Step(First, k - 1)]
  <2>1. Unread' = [k \in 1 .. n + 1 |-> d_data[Step(First, k - 1)]]
    BY <1>2, <1>4 DEF Unread
  <2>2. ASSUME NEW k \in 1 .. n + 1
        PROVE  d_data[Step(First, k - 1)] \in Values
    <3>1. CASE k = n + 1
      <4>1. Step(First, k - 1) = d_writeIdx
        BY <1>1, <3>1, StepDist
      <4> QED
        BY <1>5, <4>1
    <3>2. CASE k # n + 1
      <4>1. k - 1 \in 0 .. n - 1
        BY <1>1, <3>2
      <4> QED
        BY <4>1, FirstFacts
    <3> QED
      BY <3>1, <3>2
  <2>3. n + 1 \in Nat /\ Unread' \in [1 .. n + 1 -> Values]
    BY <1>1, <2>1, <2>2
  <2> QED
    BY <2>1, <2>3, FunctionAsSeq
<1>7. /\ Unread \in Seq(Values) /\ Len(Unread) = n
      /\ \A k \in 1 .. n : Unread[k] = d_data[Step(First, k - 1)]
  BY UnreadFacts
<1>8. Step(First, (n + 1) - 1) = d_writeIdx
  BY <1>1, StepDist
<1>9. Unread' = Append(Unread, value)
  <2> DEFINE t == Append(Unread, value)
  <2>1. /\ t \in Seq(Values) /\ Len(t) = n + 1
        /\ \A k \in 1 .. n : t[k] = Unread[k]
        /\ t[n + 1] = value
    BY <1>1, <1>5, <1>7
  <2>2. \A k \in 1 .. n + 1 : Unread'[k] = t[k]
    BY <1>1, <1>5, <1>6, <1>7, <1>8, <2>1
  <2> HIDE DEF t
  <2>3. Unread' = t
    BY <1>6, <2>1, <2>2, SeqEqual
  <2> QED
    BY <2>3 DEF t
<1> QED
  BY <1>1, <1>2, <1>4, <1>5, <1>7, <1>9 DEF Fifo!Put

\* Copying the slot out takes the oldest value from the queue.
LEMMA CopyTakes ==
  ASSUME IInv, IInv', ReadCopy
  PROVE  Fifo!Take
<1> DEFINE n == Dist(d_readIdx, d_writeIdx)
<1>1. First = d_readIdx /\ First' = NextIdx(d_readIdx)
        /\ d_data' = d_data /\ d_writeIdx' = d_writeIdx
        /\ out' = d_data[d_readIdx]
  BY DEF ReadCopy, producerVars, First
<1>2. /\ d_readIdxCached \in Index /\ d_readIdx \in Index
      /\ d_writeIdx \in Index /\ d_writeIdxCached \in Index
      /\ n \in 0 .. Capacity - 1
  BY <1>1, FirstFacts DEF IInv, TypeOK
<1>3. n # 0 /\ Dist(NextIdx(d_readIdx), d_writeIdx) = n - 1
  BY <1>2, ItemIsReal, DistType DEF ReadCopy, IInv, CachesLag, ItemAhead
<1>4. /\ Unread \in Seq(Values) /\ Len(Unread) = n
      /\ \A k \in 1 .. n : Unread[k] = d_data[Step(d_readIdx, k - 1)]
  BY <1>1, UnreadFacts
<1>5. /\ Unread' \in Seq(Values) /\ Len(Unread') = n - 1
      /\ \A k \in 1 .. n - 1 :
           Unread'[k] = d_data[Step(NextIdx(d_readIdx), k - 1)]
  <2>1. Unread' = [k \in 1 .. n - 1 |-> d_data[Step(NextIdx(d_readIdx), k - 1)]]
    BY <1>1, <1>3 DEF Unread
  <2>2. ASSUME NEW k \in 1 .. n - 1
        PROVE  d_data[Step(NextIdx(d_readIdx), k - 1)] \in Values
    <3>1. Step(NextIdx(d_readIdx), k - 1) = Step(d_readIdx, k)
      BY <1>2, StepFromNext
    <3>2. k \in 0 .. n - 1
      BY <1>2
    <3> QED
      BY <1>1, <3>1, <3>2, FirstFacts
  <2>3. n - 1 \in Nat /\ Unread' \in [1 .. n - 1 -> Values]
    BY <1>2, <1>3, <2>1, <2>2
  <2> QED
    BY <2>1, <2>3, FunctionAsSeq
<1>6. \A k \in 1 .. n - 1 : Unread'[k] = Unread[k + 1]
  <2> TAKE k \in 1 .. n - 1
  <2>1. Step(NextIdx(d_readIdx), k - 1) = Step(d_readIdx, (k + 1) - 1)
    BY <1>2, StepFromNext
  <2> QED
    BY <1>2, <1>4, <1>5, <2>1
<1>7. Unread # <<>>
  BY <1>2, <1>3, <1>4
<1>8. /\ Tail(Unread) \in Seq(Values) /\ Len(Tail(Unread)) = n - 1
      /\ \A k \in 1 .. n - 1 : Tail(Unread)[k] = Unread[k + 1]
  BY <1>4, <1>7, HeadTailProperties
<1>9. Unread' = Tail(Unread)
  BY <1>5, <1>6, <1>8, SeqEqual
<1>10. out' = Head(Unread)
  <2>1. Step(d_readIdx, 1 - 1) = d_readIdx
    BY <1>2 DEF Step, Index
  <2>2. Unread[1] = d_data[d_readIdx]
    BY <1>2, <1>3, <1>4, <2>1
  <2> QED
    BY <1>1, <1>4, <1>7, <2>2
<1> QED
  BY <1>7, <1>9, <1>10 DEF Fifo!Take

\* No other step is visible to the callers.
LEMMA OthersStutter ==
  ASSUME IInv, IInv',
         \/ \E v \in Values : AppendCall(v)
         \/ AppendReload \/ AppendStore
         \/ ReadCall \/ ReadReload \/ ReadPublish
         \/ UNCHANGED vars
  PROVE  UNCHANGED Fifo!vars
<1>1. First' = First /\ d_writeIdx' = d_writeIdx /\ out' = out
  BY DEF AppendCall, AppendReload, AppendLoad, AppendStore, ReadCall, ReadReload,
     ReadLoad, ReadPublish, vars, producerVars, consumerVars, First
<1>2. ASSUME NEW k \in 0 .. Dist(First, d_writeIdx) - 1
      PROVE  d_data'[Step(First, k)] = d_data[Step(First, k)]
  <2>1. CASE AppendStore
    <3>1. /\ First \in Index /\ d_writeIdx \in Index
          /\ Dist(First, d_writeIdx) \in 0 .. Capacity - 1
      BY FirstFacts DEF IInv, TypeOK
    <3>2. k \in 0 .. Capacity - 1 /\ k # Dist(First, d_writeIdx)
      BY <3>1
    <3>3. Step(First, k) # d_writeIdx
      BY <3>1, <3>2, StepInjective, StepDist
    <3> QED
      BY <2>1, <3>3 DEF AppendStore
  <2>2. CASE d_data' = d_data
    BY <2>2
  <2> QED
    BY <2>1, <2>2 DEF AppendCall, AppendReload, AppendLoad, ReadCall, ReadReload,
       ReadLoad, ReadPublish, vars
<1>3. Unread' = Unread
  BY <1>1, <1>2, UnreadKept
<1> QED
  BY <1>1, <1>3 DEF Fifo!vars

\* Whatever the interleaving and however stale the loaded indices, the two
\* callers see a bounded first-in first-out queue.
THEOREM RefinesFifo == Spec => Fifo!Spec
<1>1. Init => Fifo!Init
  <2> SUFFICES ASSUME Init
               PROVE  Fifo!Init
    OBVIOUS
  <2>1. IInv /\ Dist(First, d_writeIdx) = 0
    BY InitInv DEF Init, First, Dist
  <2>2. Unread = <<>>
    BY <2>1, UnreadFacts
  <2> QED
    BY <2>2, UninitAssumption DEF Init, Fifo!Init
<1>2. IInv /\ IInv' /\ [Next]_vars => [Fifo!Next]_(Fifo!vars)
  <2> SUFFICES ASSUME IInv, IInv', [Next]_vars
               PROVE  Fifo!Next \/ UNCHANGED Fifo!vars
    OBVIOUS
  <2>1. CASE AppendPublish
    BY <2>1, PublishPuts DEF Fifo!Next
  <2>2. CASE ReadCopy
    BY <2>2, CopyTakes DEF Fifo!Next
  <2> QED
    BY <2>1, <2>2, OthersStutter DEF Next, ProducerNext, ConsumerNext
<1> QED
  BY <1>1, <1>2, Invariant, PTL DEF Spec, Fifo!Spec
=============================================================================
