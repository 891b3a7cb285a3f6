----------------------------- MODULE EnaConfig -----------------------------
(***************************************************************************)
(* The first half of Init::startEna: reading the environment into          *)
(* Dpdk::Config and into local vectors, up to makeLcoreAssignment.         *)
(*                                                                         *)
(* A step reads the variables of one section of startEna, in its order.    *)
(* What a variable holds is chosen when it is read: startEna reads each of *)
(* them in one place only.  One that is missing or is not of its type or   *)
(* range ends startEna (ReadFails); the settings stored so far stay.       *)
(* A setting is kept here only if a later check or a later part of the     *)
(* system depends on it.  A list is represented by its length.             *)
(***************************************************************************)
EXTENDS Integers, Sequences

CONSTANTS
  MaxQueues,  \* bound on the queue sizes the environment gives
  MaxList,    \* bound on thread counts and on the length of lists
  Flows       \* texts of the flow control variable, as lists of entries

ASSUME MaxQueuesAssumption == MaxQueues \in Nat \ {0}
ASSUME MaxListAssumption == MaxList \in Nat \ {0}

Dir    == {"RX", "TX"}
Policy == {"DISTINCT", "MULTI", "OFF", "OTHER"}

MempoolPolicy == {"PER_QUEUE", "SHARED", "OTHER"}

\* The four lists configPerQueueMempool reads for one direction.
PoolList == {"size", "cacheSize", "privSize", "dataRoomSize"}

\* Text of a *_THREAD_COUNT variable that is not a number.
QueueSize == 0

\* Flags of RX_MQ_MASK: RTE_ETH_MQ_RX_RSS_FLAG and any other.
MqFlag == {"RSS", "OTHER"}

\* One "<mask>:<queue>" entry of the flow control variable: where its first
\* colon is, whether the mask is positive, and the number after the colon.
FlowEntry ==
  [colon : {"none", "middle", "last"}, maskOk : BOOLEAN, queue : Nat]

\* A list the environment returns is never empty.
ASSUME FlowsAssumption == Flows \subseteq Seq(FlowEntry) \ {<<>>}

VARIABLES
  asserts,     \* constant: startEna is compiled with its assertions
  step,        \* the next section to read, or how startEna got out of it
  config,      \* what is set in Dpdk::Config
  pool,        \* lengths of the per-queue mempool vectors
  ring,        \* lengths of rxqRingSize and txqRingSize
  asked        \* history: the thread counts the environment asks for

vars == <<asserts, step, config, pool, ring, asked>>

ConfigType ==
  [policy        : [Dir -> Policy],
   queues        : [Dir -> Nat],
   threads       : [Dir -> Nat],
   mempoolPolicy : MempoolPolicy,
   rxMqMask      : SUBSET MqFlag,
   rss           : BOOLEAN,
   routes        : Nat,
   flowQueue     : Seq(Nat)]

Reading == {"device", "RX", "TX", "memory", "pools", "rings", "masks", "rss",
            "thresholds", "routes", "flows"}

TypeOK ==
  /\ asserts \in BOOLEAN
  /\ step \in Reading \union {"ready", "failed", "abort"}
  /\ config \in ConfigType
  /\ pool \in [Dir -> [PoolList -> Nat]]
  /\ ring \in [Dir -> Nat]
  /\ asked \in [Dir -> Nat]

Init ==
  /\ asserts \in BOOLEAN
  /\ step = "device"
  /\ config = [policy        |-> [d \in Dir |-> "OTHER"],
               queues        |-> [d \in Dir |-> 0],
               threads       |-> [d \in Dir |-> 0],
               mempoolPolicy |-> "OTHER",
               rxMqMask      |-> {},
               rss           |-> FALSE,
               routes        |-> 0,
               flowQueue     |-> <<>>]
  /\ pool = [d \in Dir |-> [l \in PoolList |-> 0]]
  /\ ring = [d \in Dir |-> 0]
  /\ asked = [d \in Dir |-> 0]

-----------------------------------------------------------------------------
\* Definitions whose name starts with Mutant are wrong forms of the one that
\* follows them, for the mutation runs; the specification uses none of them.

locals == <<pool, ring, asked>>

\* A variable the section needs is missing, malformed or out of range.  The
\* RSS and flow control variables may be missing, so their sections decide.
ReadFails ==
  /\ step \in Reading \ {"rss", "flows"}
  /\ step' = "failed"
  /\ UNCHANGED <<asserts, config, locals>>

\* Device id, soft-enabled (false is a failure), DRAM channels, the VCPUs, PCI
\* id and NUMA node of the NIC.
ReadDevice ==
  /\ step = "device"
  /\ step' = "RX"
  /\ UNCHANGED <<asserts, config, locals>>

\* The policy test is true of every text, so "OTHER" is stored like the rest.
ReadOff(d) ==
  /\ step = d
  /\ config' = [config EXCEPT !.policy[d] = "OFF",
                              !.queues[d] = 0, !.threads[d] = 0]
  /\ step' = IF d = "RX" THEN "TX" ELSE "memory"
  /\ UNCHANGED <<asserts, locals>>

\* n queues and, unless the text is QUEUE_SIZE, t threads.
Asked(n, t) == IF t = QueueSize THEN n ELSE t

MutantThreads(d, n, t) == n

\* startEna stores the count it read for RX, but n again for TX.
Threads(d, n, t) == IF d = "RX" /\ t # QueueSize THEN t ELSE n

ReadQueues(d) ==
  /\ step = d
  /\ \E p \in Policy \ {"OFF"}, n \in 1 .. MaxQueues, t \in 0 .. MaxList :
       /\ config' = [config EXCEPT !.policy[d] = p, !.queues[d] = n,
                                   !.threads[d] = Threads(d, n, t)]
       /\ asked' = [asked EXCEPT ![d] = Asked(n, t)]
  /\ step' = IF d = "RX" THEN "TX" ELSE "memory"
  /\ UNCHANGED <<asserts, pool, ring>>

\* Memzone, candidate VCPU lists, MTU, and the mempool policy, any text again.
ReadMemory ==
  /\ step = "memory"
  /\ \E p \in MempoolPolicy : config' = [config EXCEPT !.mempoolPolicy = p]
  /\ step' = "pools"
  /\ UNCHANGED <<asserts, locals>>

\* configSharedMempool: five integers.
ReadSharedPool ==
  /\ step = "pools" /\ config.mempoolPolicy # "PER_QUEUE"
  /\ step' = "rings"
  /\ UNCHANGED <<asserts, config, locals>>

MutantPoolListOk(d, l, n) == n = config.threads["RX"]

\* The list l of direction d must have one entry per thread.
PoolListOk(d, l, n) == n = config.threads[d]

\* configPerQueueMempool: reads lists only for a direction in use.
ReadQueuePools ==
  /\ step = "pools" /\ config.mempoolPolicy = "PER_QUEUE"
  /\ \E len \in [Dir -> [PoolList -> 1 .. MaxList]] :
       LET read == [d \in Dir |-> IF config.policy[d] = "OFF" THEN pool[d]
                                                              ELSE len[d]]
           ok == \A d \in Dir, l \in PoolList :
                   config.policy[d] # "OFF" => PoolListOk(d, l, len[d][l])
       IN  /\ pool' = IF ok THEN read ELSE pool
           /\ step' = IF ok THEN "rings" ELSE "failed"
  /\ UNCHANGED <<asserts, config, ring, asked>>

\* One number stands for all threads of the direction; otherwise a list, whose
\* length n must be the thread count.  OFF fills the vector with zeros.
MutantRingOk(d, n) == n <= config.threads[d]

RingOk(d, n) == n = config.threads[d]

ReadRings ==
  /\ step = "rings"
  /\ \E list \in [Dir -> BOOLEAN], n \in [Dir -> 1 .. MaxList] :
       LET isList(d) == config.policy[d] # "OFF" /\ list[d]
           ok == \A d \in Dir : isList(d) => RingOk(d, n[d])
       IN  /\ ring' = IF ok THEN [d \in Dir |-> IF isList(d) THEN n[d]
                                                ELSE config.threads[d]]
                      ELSE ring
           /\ step' = IF ok THEN "masks" ELSE "failed"
  /\ UNCHANGED <<asserts, config, pool, asked>>

\* Link speed, the MQ and offload masks, the default TX flow.
ReadMasks ==
  /\ step = "masks"
  /\ \E m \in SUBSET MqFlag : config' = [config EXCEPT !.rxMqMask = m]
  /\ step' = "rss"
  /\ UNCHANGED <<asserts, locals>>

\* A key of 40 bytes that convertRssKey accepts, and what to hash.
RssValid(keyOk, hf) == keyOk /\ "RSS" \in config.rxMqMask /\ hf > 0

\* Without a key or a hash function there is no RSS and no error either.
ReadRss ==
  /\ step = "rss"
  /\ \/ step' = "thresholds" /\ UNCHANGED config
     \/ \E keyOk \in BOOLEAN, hf \in {0, 1} :
          IF RssValid(keyOk, hf)
          THEN step' = "thresholds" /\ config' = [config EXCEPT !.rss = TRUE]
          ELSE step' = "failed" /\ UNCHANGED config
  /\ UNCHANGED <<asserts, locals>>

\* Of a direction in use only; with both OFF nothing is read.
ReadThresholds ==
  /\ step = "thresholds"
  /\ step' = "routes"
  /\ UNCHANGED <<asserts, config, locals>>

MutantRoutesNeeded == config.policy["TX"] = "DISTINCT"

RoutesNeeded == config.policy["TX"] # "OFF"

\* configDefaultRouting: six lists of one length, every address well formed
\* (a list that differs or an address that is not is ReadFails).
ReadRoutes ==
  /\ step = "routes"
  /\ IF RoutesNeeded
     THEN \E n \in 1 .. MaxList : config' = [config EXCEPT !.routes = n]
     ELSE UNCHANGED config
  /\ step' = "flows"
  /\ UNCHANGED <<asserts, locals>>

\* configStaticUdpPortFlowControl starts with assert(rxqs>0).
AssertRxqs ==
  /\ step = "flows" /\ asserts /\ config.threads["RX"] = 0
  /\ step' = "abort"
  /\ UNCHANGED <<asserts, config, locals>>

\* The queue an entry names: atoi of nothing is 0.
FlowQueue(e) == IF e.colon = "last" THEN 0 ELSE e.queue

MutantFlowsValid(s) ==
  \A i \in DOMAIN s : s[i].colon # "none" /\ s[i].maskOk /\ FlowQueue(s[i]) = i - 1

\* A colon somewhere, a positive mask, queues 0, 1, ... one per RX thread.
FlowsValid(s) ==
  /\ \A i \in DOMAIN s :
       s[i].colon # "none" /\ s[i].maskOk /\ FlowQueue(s[i]) = i - 1
  /\ Len(s) = config.threads["RX"]

\* The variable is missing or malformed: no flow control.
NoFlows ==
  /\ step = "flows" /\ ~(asserts /\ config.threads["RX"] = 0)
  /\ step' = "ready"
  /\ UNCHANGED <<asserts, config, locals>>

ReadFlows(s) ==
  /\ step = "flows" /\ ~(asserts /\ config.threads["RX"] = 0)
  /\ IF FlowsValid(s)
     THEN /\ config' = [config EXCEPT !.flowQueue =
                                        [i \in DOMAIN s |-> FlowQueue(s[i])]]
          /\ step' = "ready"
     ELSE step' = "failed" /\ UNCHANGED config
  /\ UNCHANGED <<asserts, locals>>

Next ==
  \/ ReadFails \/ ReadDevice
  \/ \E d \in Dir : ReadOff(d) \/ ReadQueues(d)
  \/ ReadMemory \/ ReadSharedPool \/ ReadQueuePools \/ ReadRings
  \/ ReadMasks \/ ReadRss \/ ReadThresholds \/ ReadRoutes
  \/ AssertRxqs \/ NoFlows \/ \E s \in Flows : ReadFlows(s)

Spec == Init /\ [][Next]_vars

-----------------------------------------------------------------------------
Ready == step = "ready"

\* The loops of the second half of startEna run over the thread counts and
\* index the local vectors unchecked: each vector has exactly that many
\* elements, for every policy pair, and none is left over from OFF.
VectorsMatchThreads ==
  Ready => \A d \in Dir :
    /\ ring[d] = config.threads[d]
    /\ config.mempoolPolicy = "PER_QUEUE" =>
         \A l \in PoolList : pool[d][l] = config.threads[d]

\* makeLcoreAssignment and the per-queue loops get consistent counts: none for
\* OFF, at least one otherwise, and for RX as many threads as were asked for (for
\* TX, startEna stores the number of queues instead).
CountsAreConsistent ==
  Ready => /\ \A d \in Dir :
                IF config.policy[d] = "OFF"
                THEN config.threads[d] = 0 /\ config.queues[d] = 0
                ELSE config.threads[d] > 0 /\ config.queues[d] > 0
           /\ config.threads["RX"] = asked["RX"]

\* Flow control is all or nothing: no RX thread without a flow rule while
\* another has one, no rule for a queue without thread, one rule per queue.
FlowsCoverRxThreads ==
  Ready /\ config.flowQueue # <<>> =>
    /\ Len(config.flowQueue) = config.threads["RX"]
    /\ \A i \in DOMAIN config.flowQueue : config.flowQueue[i] = i - 1

\* A device that will hash (rte_eth_dev_configure gets a key when the RX mask
\* is not 0 and a key is set) was asked to: startEna combines mask and flag
\* with '&&', so this rests on the section that stored the key.
RssEnabled == config.rxMqMask # {} /\ config.rss
RssOnlyWithFlag == Ready /\ RssEnabled => "RSS" \in config.rxMqMask

\* A TX lcore sends along defaultRoute()[0]: there is one when TX is in use.
TxHasRoute == Ready /\ config.threads["TX"] > 0 => config.routes > 0
=============================================================================
