-------------------------- MODULE EnaConfigProofs --------------------------
(***************************************************************************)
(* Proofs about EnaConfig, for every MaxQueues, MaxList and Flows.         *)
(*                                                                         *)
(* Each property speaks of the moment startEna is "ready", the last one of *)
(* the moment an assertion stops it.  The inductive                        *)
(* invariant IInv says from which section on each part of it already       *)
(* holds, and that what a section has not read yet is still as Init left   *)
(* it: a section that skips a direction that is OFF relies on that.        *)
(***************************************************************************)
EXTENDS EnaConfig, TLAPS

\* The sections that are over, once the named one is.
PastFlows  == {"ready"}
PastRoutes == PastFlows \union {"flows"}
PastMasks  == PastRoutes \union {"rss", "thresholds", "routes"}
PastRings  == PastMasks \union {"masks"}
PastPools  == PastRings \union {"rings"}
PastTx     == PastPools \union {"memory", "pools"}
PastRx     == PastTx \union {"TX"}

CountsOf(d) ==
  IF config.policy[d] = "OFF"
  THEN config.threads[d] = 0 /\ config.queues[d] = 0
  ELSE config.threads[d] > 0 /\ config.queues[d] > 0

CountsRead ==
  /\ step \in {"device", "RX"} => asked["RX"] = 0
  /\ step \in PastRx => CountsOf("RX") /\ config.threads["RX"] = asked["RX"]
  /\ step \in PastTx => CountsOf("TX")

PoolsRead ==
  /\ step \in {"device", "RX", "TX", "memory", "pools"}
       => \A d \in Dir, l \in PoolList : pool[d][l] = 0
  /\ step \in PastPools /\ config.mempoolPolicy = "PER_QUEUE"
       => \A d \in Dir, l \in PoolList : pool[d][l] = config.threads[d]

RingsRead == step \in PastRings => \A d \in Dir : ring[d] = config.threads[d]

RssRead ==
  /\ config.rss => "RSS" \in config.rxMqMask
  /\ step \in Reading \ PastMasks => ~config.rss

RoutesRead ==
  step \in PastRoutes /\ config.policy["TX"] # "OFF" => config.routes > 0

FlowsRead ==
  config.flowQueue # <<>> =>
    /\ step = "ready"
    /\ Len(config.flowQueue) = config.threads["RX"]
    /\ \A i \in DOMAIN config.flowQueue : config.flowQueue[i] = i - 1

\* The inductive invariant.
IInv ==
  TypeOK /\ CountsRead /\ PoolsRead /\ RingsRead /\ RssRead /\ RoutesRead
    /\ FlowsRead

-----------------------------------------------------------------------------
\* The initial state: nothing read yet.
LEMMA InitInv == Init => IInv
  BY DEF Init, IInv, TypeOK, ConfigType, Policy, MempoolPolicy, QueueSize,
         Reading, CountsRead, PoolsRead, RingsRead, RssRead, RoutesRead,
         FlowsRead, PastRx, PastTx, PastPools, PastRings, PastMasks,
         PastRoutes, PastFlows, Dir, PoolList

\* A section that stores nothing: the parts of IInv speak of later sections
\* than the one it ends, except where it had nothing to read.
LEMMA SilentStep ==
  ASSUME IInv, ReadFails \/ ReadDevice \/ ReadSharedPool \/ ReadThresholds
                 \/ AssertRxqs \/ NoFlows
  PROVE  IInv'
  <1>1. UNCHANGED <<asserts, config, locals>>
    BY DEF ReadFails, ReadDevice, ReadSharedPool, ReadThresholds, AssertRxqs,
           NoFlows
  <1>2. TypeOK'
    BY <1>1 DEF IInv, TypeOK, locals, Reading, ReadFails, ReadDevice,
                ReadSharedPool, ReadThresholds, AssertRxqs, NoFlows
  <1>3. \/ step' = "failed" \/ step' = "abort"
        \/ step = "device" /\ step' = "RX"
        \/ step = "pools" /\ config.mempoolPolicy # "PER_QUEUE" /\ step' = "rings"
        \/ step = "thresholds" /\ step' = "routes"
        \/ step = "flows" /\ step' = "ready"
    BY DEF ReadFails, ReadDevice, ReadSharedPool, ReadThresholds, AssertRxqs,
           NoFlows
  <1>4. step \in Reading
    BY DEF ReadFails, ReadDevice, ReadSharedPool, ReadThresholds, AssertRxqs,
           NoFlows, Reading
  <1>. QED
    BY <1>1, <1>2, <1>3, <1>4
    DEF IInv, locals, CountsRead, CountsOf, PoolsRead, RingsRead, RssRead,
        RoutesRead, FlowsRead, PastRx, PastTx, PastPools, PastRings, PastMasks,
        PastRoutes, PastFlows, Reading

\* The sections of a direction set its counts and nothing else.
LEMMA ReadOffStep ==
  ASSUME IInv, NEW d \in Dir, ReadOff(d)
  PROVE  IInv'
  <1>1. TypeOK'
    BY DEF IInv, TypeOK, ConfigType, ReadOff, locals, Reading, Dir, Policy
  <1>. QED
    BY <1>1, SMTT(30)
    DEF ReadOff, Dir, IInv, TypeOK, ConfigType, locals, CountsRead, CountsOf,
        PoolsRead, RingsRead, RssRead, RoutesRead, FlowsRead, PastRx, PastTx,
        PastPools, PastRings, PastMasks, PastRoutes, PastFlows, Reading

\* Queue and thread counts of a direction in use are positive, and the threads of
\* RX are as many as were asked for.
LEMMA ReadQueuesStep ==
  ASSUME IInv, NEW d \in Dir, ReadQueues(d)
  PROVE  IInv'
  <1>1. PICK p \in Policy \ {"OFF"}, n \in 1 .. MaxQueues, t \in 0 .. MaxList :
          /\ config' = [config EXCEPT !.policy[d] = p, !.queues[d] = n,
                                      !.threads[d] = Threads(d, n, t)]
          /\ asked' = [asked EXCEPT ![d] = Asked(n, t)]
    BY DEF ReadQueues
  <1>2. /\ Threads(d, n, t) \in Nat /\ n \in Nat /\ t \in Nat /\ Asked(n, t) \in Nat
        /\ Threads(d, n, t) > 0 /\ n > 0
        /\ d = "RX" => Threads(d, n, t) = Asked(n, t)
    BY MaxQueuesAssumption, MaxListAssumption DEF Threads, Asked, QueueSize
  <1>3. TypeOK'
    BY <1>1, <1>2 DEF IInv, TypeOK, ConfigType, ReadQueues, Reading, Dir
  <1>4. /\ step = d /\ step' = (IF d = "RX" THEN "TX" ELSE "memory")
        /\ pool' = pool /\ ring' = ring /\ d \in {"RX", "TX"}
    BY DEF ReadQueues, Dir
  <1>5. /\ config'.mempoolPolicy = config.mempoolPolicy
        /\ config'.rss = config.rss /\ config'.rxMqMask = config.rxMqMask
        /\ config'.flowQueue = config.flowQueue
        /\ config'.policy[d] = p /\ config'.queues[d] = n
        /\ config'.threads[d] = Threads(d, n, t)
        /\ \A e \in Dir \ {d} : /\ config'.policy[e] = config.policy[e]
                              /\ config'.queues[e] = config.queues[e]
                              /\ config'.threads[e] = config.threads[e]
                              /\ asked'[e] = asked[e]
        /\ asked'[d] = Asked(n, t)
    BY <1>1, <1>4 DEF IInv, TypeOK, ConfigType, Dir
  <1>6. CountsRead'
    BY <1>2, <1>4, <1>5
    DEF IInv, CountsRead, CountsOf, PastRx, PastTx, PastPools, PastRings,
        PastMasks, PastRoutes, PastFlows, Dir
  <1>7. PoolsRead' /\ RingsRead' /\ RssRead' /\ RoutesRead'
    BY <1>4, <1>5
    DEF IInv, PoolsRead, RingsRead, RssRead, RoutesRead, PastPools, PastRings,
        PastMasks, PastRoutes, PastFlows, Reading
  <1>8. FlowsRead'
    BY <1>4, <1>5 DEF IInv, FlowsRead
  <1>. QED
    BY <1>3, <1>6, <1>7, <1>8 DEF IInv

\* The mempool policy, the RX mask and the routes are set before the first
\* section whose part of IInv mentions them.
LEMMA ReadMemoryStep ==
  ASSUME IInv, ReadMemory
  PROVE  IInv'
  BY DEF ReadMemory, IInv, TypeOK, ConfigType, locals, CountsRead, CountsOf,
         PoolsRead, RingsRead, RssRead, RoutesRead, FlowsRead, PastRx, PastTx,
         PastPools, PastRings, PastMasks, PastRoutes, PastFlows, Reading

\* The masks are read before any RSS key is stored.
LEMMA ReadMasksStep ==
  ASSUME IInv, ReadMasks
  PROVE  IInv'
  <1>1. /\ step = "masks" /\ step' = "rss"
        /\ UNCHANGED <<asserts, locals>>
    BY DEF ReadMasks
  <1>2. PICK m \in SUBSET MqFlag : config' = [config EXCEPT !.rxMqMask = m]
    BY DEF ReadMasks
  <1>3. /\ config'.policy = config.policy
        /\ config'.queues = config.queues
        /\ config'.threads = config.threads
        /\ config'.mempoolPolicy = config.mempoolPolicy
        /\ config'.rss = config.rss
        /\ config'.routes = config.routes
        /\ config'.flowQueue = config.flowQueue
        /\ config' \in ConfigType
    BY <1>2 DEF IInv, TypeOK, ConfigType
  <1>4. TypeOK'
    BY <1>1, <1>3 DEF IInv, TypeOK, locals, Reading
  <1>. QED
    BY <1>1, <1>3, <1>4
    DEF IInv, locals, CountsRead, CountsOf, PoolsRead, RingsRead, RssRead,
        RoutesRead, FlowsRead, PastRx, PastTx, PastPools, PastRings, PastMasks,
        PastRoutes, PastFlows, Reading

\* RSS is stored only if the mask that is already there has the flag.
LEMMA ReadRssStep ==
  ASSUME IInv, ReadRss
  PROVE  IInv'
  <1>1. /\ step = "rss" /\ step' \in {"thresholds", "failed"}
        /\ UNCHANGED <<asserts, locals>>
    BY DEF ReadRss
  <1>2. \/ UNCHANGED config
        \/ "RSS" \in config.rxMqMask /\ config' = [config EXCEPT !.rss = TRUE]
    BY DEF ReadRss, RssValid
  <1>3. /\ config'.policy = config.policy
        /\ config'.queues = config.queues
        /\ config'.threads = config.threads
        /\ config'.mempoolPolicy = config.mempoolPolicy
        /\ config'.rxMqMask = config.rxMqMask
        /\ config'.routes = config.routes
        /\ config'.flowQueue = config.flowQueue
        /\ config'.rss => config.rss \/ "RSS" \in config.rxMqMask
        /\ config' \in ConfigType
    BY <1>2 DEF IInv, TypeOK, ConfigType
  <1>4. TypeOK'
    BY <1>1, <1>3 DEF IInv, TypeOK, locals, Reading
  <1>. QED
    BY <1>1, <1>3, <1>4
    DEF IInv, locals, CountsRead, CountsOf, PoolsRead, RingsRead, RssRead,
        RoutesRead, FlowsRead, PastRx, PastTx, PastPools, PastRings, PastMasks,
        PastRoutes, PastFlows, Reading

\* A TX policy other than OFF stores at least one route.
LEMMA ReadRoutesStep ==
  ASSUME IInv, ReadRoutes
  PROVE  IInv'
  <1>1. /\ step = "routes" /\ step' = "flows"
        /\ UNCHANGED <<asserts, locals>>
    BY DEF ReadRoutes
  <1>2. PICK n \in Nat :
          /\ config.policy["TX"] # "OFF" => n > 0
          /\ config' = config \/ config' = [config EXCEPT !.routes = n]
          /\ config.policy["TX"] # "OFF" => config' = [config EXCEPT !.routes = n]
    <2>1. CASE RoutesNeeded
      BY <2>1, MaxListAssumption DEF ReadRoutes
    <2>2. CASE ~RoutesNeeded
      BY <2>2 DEF ReadRoutes, RoutesNeeded
    <2>. QED
      BY <2>1, <2>2
  <1>3. /\ config'.policy = config.policy
        /\ config'.queues = config.queues
        /\ config'.threads = config.threads
        /\ config'.mempoolPolicy = config.mempoolPolicy
        /\ config'.rxMqMask = config.rxMqMask
        /\ config'.rss = config.rss
        /\ config'.flowQueue = config.flowQueue
        /\ config.policy["TX"] # "OFF" => config'.routes > 0
        /\ config' \in ConfigType
    BY <1>2 DEF IInv, TypeOK, ConfigType
  <1>4. TypeOK'
    BY <1>1, <1>3 DEF IInv, TypeOK, locals, Reading
  <1>. QED
    BY <1>1, <1>3, <1>4
    DEF IInv, locals, CountsRead, CountsOf, PoolsRead, RingsRead, RssRead,
        RoutesRead, FlowsRead, PastRx, PastTx, PastPools, PastRings, PastMasks,
        PastRoutes, PastFlows, Reading

\* Per direction, the lists read have the thread count as their length; of a
\* direction that is OFF the vectors are still empty, and so is its count.
LEMMA ReadQueuePoolsStep ==
  ASSUME IInv, ReadQueuePools
  PROVE  IInv'
  <1>1. PICK len \in [Dir -> [PoolList -> 1 .. MaxList]] :
          LET read == [d \in Dir |-> IF config.policy[d] = "OFF" THEN pool[d]
                                                                 ELSE len[d]]
              ok == \A d \in Dir, l \in PoolList :
                      config.policy[d] # "OFF" => PoolListOk(d, l, len[d][l])
          IN  /\ pool' = IF ok THEN read ELSE pool
              /\ step' = IF ok THEN "rings" ELSE "failed"
    BY DEF ReadQueuePools
  <1>2. /\ step = "pools"
        /\ UNCHANGED <<asserts, config, ring, asked>>
    BY DEF ReadQueuePools
  <1>3. CASE step' = "failed"
    <2>1. pool' = pool
      BY <1>1, <1>3
    <2>. QED
      BY <1>2, <1>3, <2>1
      DEF IInv, TypeOK, CountsRead, PoolsRead, RingsRead, RssRead, RoutesRead,
          FlowsRead, PastRx, PastTx, PastPools, PastRings, PastMasks,
          PastRoutes, PastFlows, Reading
  <1>4. CASE step' # "failed"
    <2>1. /\ step' = "rings"
          /\ \A d \in Dir, l \in PoolList :
               config.policy[d] # "OFF" => len[d][l] = config.threads[d]
          /\ pool' = [d \in Dir |-> IF config.policy[d] = "OFF" THEN pool[d]
                                                                ELSE len[d]]
      BY <1>1, <1>4 DEF PoolListOk
    <2>2. pool' \in [Dir -> [PoolList -> Nat]]
      <3>1. \A d \in Dir : len[d] \in [PoolList -> Nat]
        BY MaxListAssumption
      <3>2. \A d \in Dir : pool[d] \in [PoolList -> Nat]
        BY DEF IInv, TypeOK
      <3>. QED
        BY <2>1, <3>1, <3>2
    <2>3. \A d \in Dir, l \in PoolList : pool'[d][l] = config.threads[d]
      <3>1. \A d \in Dir, l \in PoolList : pool[d][l] = 0
        BY <1>2 DEF IInv, PoolsRead
      <3>2. \A d \in Dir : config.policy[d] = "OFF" => config.threads[d] = 0
        BY <1>2 DEF IInv, CountsRead, CountsOf, PastRx, PastTx, PastPools, Dir
      <3>. QED
        BY <2>1, <3>1, <3>2
    <2>4. TypeOK'
      BY <1>2, <2>1, <2>2 DEF IInv, TypeOK, Reading
    <2>. QED
      BY <1>2, <2>1, <2>3, <2>4
      DEF IInv, CountsRead, CountsOf, PoolsRead, RingsRead, RssRead, RoutesRead,
          FlowsRead, PastRx, PastTx, PastPools, PastRings, PastMasks,
          PastRoutes, PastFlows, Reading
  <1>. QED
    BY <1>3, <1>4

\* A list that is as long as the thread count, or one element per thread.
LEMMA ReadRingsStep ==
  ASSUME IInv, ReadRings
  PROVE  IInv'
  <1>1. PICK list \in [Dir -> BOOLEAN], n \in [Dir -> 1 .. MaxList] :
          LET isList(d) == config.policy[d] # "OFF" /\ list[d]
              ok == \A d \in Dir : isList(d) => RingOk(d, n[d])
          IN  /\ ring' = IF ok THEN [d \in Dir |-> IF isList(d) THEN n[d]
                                                   ELSE config.threads[d]]
                         ELSE ring
              /\ step' = IF ok THEN "masks" ELSE "failed"
    BY DEF ReadRings
  <1>2. /\ step = "rings"
        /\ UNCHANGED <<asserts, config, pool, asked>>
    BY DEF ReadRings
  <1>3. CASE step' = "failed"
    <2>1. ring' = ring
      BY <1>1, <1>3
    <2>. QED
      BY <1>2, <1>3, <2>1
      DEF IInv, TypeOK, CountsRead, PoolsRead, RingsRead, RssRead, RoutesRead,
          FlowsRead, PastRx, PastTx, PastPools, PastRings, PastMasks,
          PastRoutes, PastFlows, Reading
  <1>4. CASE step' # "failed"
    <2>1. /\ step' = "masks"
          /\ ring' = [d \in Dir |-> config.threads[d]]
      BY <1>1, <1>4 DEF RingOk
    <2>2. TypeOK'
      BY <1>2, <2>1 DEF IInv, TypeOK, ConfigType, Reading
    <2>3. \A d \in Dir : ring'[d] = config.threads[d]
      BY <2>1
    <2>. QED
      BY <1>2, <2>1, <2>2, <2>3
      DEF IInv, CountsRead, CountsOf, PoolsRead, RingsRead, RssRead, RoutesRead,
          FlowsRead, PastRx, PastTx, PastPools, PastRings, PastMasks,
          PastRoutes, PastFlows, Reading
  <1>. QED
    BY <1>3, <1>4

\* The accepted entries name queues 0, 1, ... one per RX thread.
LEMMA ReadFlowsStep ==
  ASSUME IInv, NEW s \in Flows, ReadFlows(s)
  PROVE  IInv'
  <1>1. s \in Seq(FlowEntry)
    BY FlowsAssumption
  <1>2. CASE ~FlowsValid(s)
    BY <1>2
    DEF ReadFlows, locals, IInv, TypeOK, CountsRead, PoolsRead, RingsRead, RssRead,
        RoutesRead, FlowsRead, PastRx, PastTx, PastPools, PastRings, PastMasks,
        PastRoutes, PastFlows, Reading
  <1>3. CASE FlowsValid(s)
    <2>. DEFINE fq == [i \in DOMAIN s |-> FlowQueue(s[i])]
    <2>1. /\ step = "flows" /\ step' = "ready"
          /\ config' = [config EXCEPT !.flowQueue = fq]
          /\ UNCHANGED <<asserts, locals>>
      BY <1>3 DEF ReadFlows
    <2>2. /\ \A i \in DOMAIN s : FlowQueue(s[i]) = i - 1
          /\ Len(s) = config.threads["RX"]
      BY <1>3 DEF FlowsValid
    <2>3. /\ DOMAIN s = 1 .. Len(s) /\ Len(s) \in Nat
          /\ \A i \in DOMAIN s : FlowQueue(s[i]) \in Nat
      BY <1>1, <2>2
    <2>4. fq \in Seq(Nat) /\ Len(fq) = Len(s) /\ DOMAIN fq = DOMAIN s
      BY <2>3
    <2>5. \A i \in DOMAIN fq : fq[i] = i - 1
      BY <2>2
    <2>. HIDE DEF fq
    <2>6. config' \in ConfigType
      BY <2>1, <2>4 DEF IInv, TypeOK, ConfigType
    <2>7. TypeOK'
      BY <1>1, <2>1, <2>6 DEF IInv, TypeOK, locals, Reading
    <2>8. /\ config'.flowQueue = fq
          /\ config'.threads = config.threads
          /\ config'.queues = config.queues
          /\ config'.policy = config.policy
          /\ config'.mempoolPolicy = config.mempoolPolicy
          /\ config'.rss = config.rss
          /\ config'.rxMqMask = config.rxMqMask
          /\ config'.routes = config.routes
      BY <2>1 DEF IInv, TypeOK, ConfigType
    <2>. QED
      BY <2>1, <2>2, <2>4, <2>5, <2>7, <2>8
      DEF IInv, locals, CountsRead, CountsOf, PoolsRead, RingsRead, RssRead, RoutesRead,
          FlowsRead, PastRx, PastTx, PastPools, PastRings, PastMasks,
          PastRoutes, PastFlows, Reading
  <1>. QED
    BY <1>2, <1>3

-----------------------------------------------------------------------------
\* Whatever the environment holds, IInv stays true from section to section.
THEOREM Invariant == Spec => []IInv
  <1>1. IInv /\ [Next]_vars => IInv'
    <2>. SUFFICES ASSUME IInv, [Next]_vars PROVE IInv'
      OBVIOUS
    <2>1. CASE ReadFails \/ ReadDevice \/ ReadSharedPool \/ ReadThresholds
                 \/ AssertRxqs \/ NoFlows
      BY <2>1, SilentStep
    <2>2. ASSUME NEW d \in Dir, ReadOff(d) \/ ReadQueues(d) PROVE IInv'
      BY <2>2, ReadOffStep, ReadQueuesStep
    <2>3. CASE ReadMemory
      BY <2>3, ReadMemoryStep
    <2>4. CASE ReadQueuePools
      BY <2>4, ReadQueuePoolsStep
    <2>5. CASE ReadRings
      BY <2>5, ReadRingsStep
    <2>6. CASE ReadMasks
      BY <2>6, ReadMasksStep
    <2>7. CASE ReadRss
      BY <2>7, ReadRssStep
    <2>8. CASE ReadRoutes
      BY <2>8, ReadRoutesStep
    <2>9. ASSUME NEW s \in Flows, ReadFlows(s) PROVE IInv'
      BY <2>9, ReadFlowsStep
    <2>10. CASE UNCHANGED vars
      BY <2>10
      DEF vars, IInv, TypeOK, CountsRead, CountsOf, PoolsRead, RingsRead,
          RssRead, RoutesRead, FlowsRead
    <2>. QED
      BY <2>1, <2>2, <2>3, <2>4, <2>5, <2>6, <2>7, <2>8, <2>9, <2>10 DEF Next
  <1>. QED
    BY <1>1, InitInv, PTL DEF Spec

\* startEna's configuration state is well typed throughout.
THEOREM TypeCorrect == Spec => []TypeOK
  <1>1. IInv => TypeOK
    BY DEF IInv
  <1>. QED
    BY <1>1, Invariant, PTL

\* The loops over the thread counts never index past the end of a vector.
THEOREM VectorsCorrect == Spec => []VectorsMatchThreads
  <1>1. IInv => VectorsMatchThreads
    BY DEF IInv, VectorsMatchThreads, Ready, PoolsRead, RingsRead, PastPools,
           PastRings, PastMasks, PastRoutes, PastFlows
  <1>. QED
    BY <1>1, Invariant, PTL

\* makeLcoreAssignment gets consistent queue and thread counts.
THEOREM CountsCorrect == Spec => []CountsAreConsistent
  <1>1. IInv => CountsAreConsistent
    BY DEF IInv, CountsAreConsistent, Ready, CountsRead, CountsOf, Dir, PastRx,
           PastTx, PastPools, PastRings, PastMasks, PastRoutes, PastFlows
  <1>. QED
    BY <1>1, Invariant, PTL

\* Flow control covers the RX threads one to one, or there is none.
THEOREM FlowsCorrect == Spec => []FlowsCoverRxThreads
  <1>1. IInv => FlowsCoverRxThreads
    BY DEF IInv, FlowsCoverRxThreads, Ready, FlowsRead
  <1>. QED
    BY <1>1, Invariant, PTL

\* The device hashes only if its RX mask has the RSS flag.
THEOREM RssCorrect == Spec => []RssOnlyWithFlag
  <1>1. IInv => RssOnlyWithFlag
    BY DEF IInv, RssOnlyWithFlag, RssEnabled, RssRead
  <1>. QED
    BY <1>1, Invariant, PTL

\* A TX lcore always finds a default route.
THEOREM RouteCorrect == Spec => []TxHasRoute
  <1>1. IInv => TxHasRoute
    BY DEF IInv, TxHasRoute, Ready, CountsRead, CountsOf, RoutesRead, PastRx,
           PastTx, PastPools, PastRings, PastMasks, PastRoutes, PastFlows,
           TypeOK, ConfigType, Dir
  <1>. QED
    BY <1>1, Invariant, PTL

\* The assertion on the number of RX queues in configStaticUdpPortFlowControl stops a
\* build that has it, and only there, with RX OFF: every other policy has stored a thread
\* count above 0, whatever text the count had.
AbortsOnlyWithoutRx == step = "abort" => asserts /\ config.policy["RX"] = "OFF"

THEOREM AbortsExplained == Spec => []AbortsOnlyWithoutRx
  <1>1. Init => AbortsOnlyWithoutRx
    BY DEF Init, AbortsOnlyWithoutRx
  <1>2. IInv /\ AbortsOnlyWithoutRx /\ [Next]_vars => AbortsOnlyWithoutRx'
    <2>. SUFFICES ASSUME IInv, AbortsOnlyWithoutRx, [Next]_vars, step' = "abort"
                  PROVE  AbortsOnlyWithoutRx'
      BY DEF AbortsOnlyWithoutRx
    <2>1. CASE AssertRxqs
      <3>1. step = "flows" /\ asserts /\ config.threads["RX"] = 0 /\ UNCHANGED <<asserts, config>>
        BY <2>1 DEF AssertRxqs
      <3>2. CountsOf("RX")
        BY <3>1 DEF IInv, CountsRead, PastRx, PastTx, PastPools, PastRings, PastMasks, PastRoutes
      <3>. QED
        BY <3>1, <3>2 DEF CountsOf, AbortsOnlyWithoutRx
    <2>2. CASE UNCHANGED vars
      BY <2>2 DEF vars, AbortsOnlyWithoutRx
    <2>3. CASE Next /\ ~AssertRxqs
      <3>1. step' # "abort"
        BY <2>3
        DEF Next, ReadFails, ReadDevice, ReadOff, ReadQueues, ReadMemory, ReadSharedPool,
            ReadQueuePools, ReadRings, ReadMasks, ReadRss, ReadThresholds, ReadRoutes, NoFlows,
            ReadFlows
      <3>. QED
        BY <3>1
    <2>. QED
      BY <2>1, <2>2, <2>3
  <1>. QED
    BY <1>1, <1>2, InitInv, Invariant, PTL DEF Spec
=============================================================================
