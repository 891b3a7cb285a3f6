------------------------- MODULE EnaLifecycleProofs -------------------------
(***************************************************************************)
(* Proofs about EnaLifecycle: types, what backs a running device, its flow *)
(* rules, the causes of undefined behaviour and what a run gives back, for *)
(* any number of queues and of statistics calls.                           *)
(***************************************************************************)
EXTENDS EnaLifecycle, SequenceTheorems, TLAPS

Ran(s) == {s[i] : i \in DOMAIN s}

BeforeStart == {"eal", "device", "configure", "memzone", "pools", "queues", "devStart"}
Running == {"flows", "launch", "wait"}
PoolsMade == {"queues", "devStart"} \union Running \union {"onExit"} \union StopSteps

\* what main() has got before the device starts, and that it does not stop before
\* onExit
Starting ==
  /\ step \in BeforeStart => dev # "started" /\ nicRules = {} /\ rule = <<>> /\ flowRule = <<>>
  /\ step \in Running => dev = "started"
  /\ step \in BeforeStart \union Running => faults = {}
  /\ step \in (BeforeStart \ {"eal"}) \union Running => eal = "on"

\* the memory behind the device
Memory ==
  /\ step \in {"pools", "queues", "devStart"} => memzone = "reserved"
  /\ step = "pools" => \A q \in Queues : q < index => mempool[q] = q /\ q \in pools
  /\ step \in {"queues", "devStart"} => \A q \in Queues : mempool[q] \in pools
  /\ step \in {"freePools", "freeMemzone", "closeDevice"} => dev = "stopped"
  /\ BackedWhileStarted

\* PER_QUEUE: each queue has its own pool, and no other pool exists
OwnPools ==
  config.policy = "PER_QUEUE" =>
    /\ pools \subseteq Queues
    /\ step \in PoolsMade => \A q \in Queues : mempool[q] = q

\* which rules there are, and that Config::flowRule knows them: after they were
\* destroyed, those the NIC refused
Rules ==
  /\ RulesOnlyWhileStarted
  /\ step = "flows" => nicRules = Ran(rule)
  /\ step \in {"launch", "wait"} => nicRules = Handles
  /\ step \in StopSteps \union {"onExit", "exit0"} => nicRules \subseteq Handles
  /\ step \in (StopSteps \ {"destroyFlows"}) \union {"exit0"} =>
       nicRules = {} \/ "destroy" \in failed

\* without a failed statistics call there is one pass through stopEna only, and
\* each call in it meets what startEna left
OnePass ==
  "stats" \notin failed =>
    /\ step \in StopSteps => index = Checks + 2
    /\ step \in StopSteps \union {"onExit"} => eal = "on"
    /\ step \in {"onExit", "destroyFlows"} => nicRules = Handles
    /\ step \in {"onExit", "destroyFlows", "stopDevice"} => dev = "started"
    /\ step \in {"freePools", "freeMemzone"} => memzone = "reserved"
    /\ step = "freePools" => \A q \in Queues : mempool[q] \in pools

\* what the pass that leads to the end of the process has given back
GivenBack ==
  (config.policy = "PER_QUEUE" /\ failed \subseteq {"launch", "stats", "destroy", "close"}) =>
    /\ step \in {"freeMemzone", "closeDevice", "stopDpdk", "exit0"} => pools = {}
    /\ step \in {"closeDevice", "stopDpdk", "exit0"} => memzone = "freed"
    /\ step \in {"stopDpdk", "exit0"} => dev = "closed" \/ "close" \in failed
    /\ step = "exit0" => eal = "cleaned"

IInv ==
  TypeOK /\ Starting /\ Memory /\ OwnPools /\ Rules /\ OnePass /\ FaultsHaveKnownCause /\ GivenBack

(***************************************************************************)
(* What the steps change, and that they keep each part of the invariant.   *)
(***************************************************************************)
\* the ranges of the configuration's fields
LEMMA ConfigFields ==
  ASSUME TypeOK
  PROVE  /\ config.rx \in 0 .. MaxQueues /\ config.tx \in 0 .. MaxQueues
         /\ config.flows \in 0 .. MaxQueues
         /\ config.policy \in {"PER_QUEUE", "SHARED", "OTHER"}
BY DEF TypeOK, ConfigType

\* what concatenation adds to the elements of a sequence
LEMMA Appended ==
  ASSUME NEW S, NEW s \in Seq(S), NEW t \in Seq(S)
  PROVE  s \o t \in Seq(S) /\ Ran(s \o t) = Ran(s) \union Ran(t)
<1>1. /\ s \o t \in Seq(S) /\ Len(s \o t) = Len(s) + Len(t)
      /\ \A i \in 1 .. Len(s) + Len(t) : (s \o t)[i] = IF i <= Len(s) THEN s[i] ELSE t[i - Len(s)]
  BY ConcatProperties, Zenon
<1>2. /\ Len(s) \in Nat /\ Len(t) \in Nat /\ DOMAIN s = 1 .. Len(s) /\ DOMAIN t = 1 .. Len(t)
      /\ DOMAIN (s \o t) = 1 .. Len(s) + Len(t)
  BY <1>1
<1>3. ASSUME NEW i \in 1 .. Len(s) + Len(t) PROVE (s \o t)[i] \in Ran(s) \union Ran(t)
  <2>1. CASE i <= Len(s)
    BY <1>1, <1>2, <2>1 DEF Ran
  <2>2. CASE ~(i <= Len(s))
    <3>1. i - Len(s) \in 1 .. Len(t)
      BY <1>2, <2>2
    <3> QED BY <1>1, <1>2, <2>2, <3>1 DEF Ran
  <2> QED BY <2>1, <2>2
<1>4. ASSUME NEW i \in 1 .. Len(s) PROVE s[i] \in Ran(s \o t)
  BY <1>1, <1>2 DEF Ran
<1>5. ASSUME NEW i \in 1 .. Len(t) PROVE t[i] \in Ran(s \o t)
  <2>1. Len(s) + i \in 1 .. Len(s) + Len(t) /\ (Len(s) + i) - Len(s) = i /\ ~(Len(s) + i <= Len(s))
    BY <1>2
  <2>2. (s \o t)[Len(s) + i] = t[i]
    BY <1>1, <2>1
  <2> QED BY <1>2, <2>1, <2>2 DEF Ran
<1> QED BY <1>1, <1>2, <1>3, <1>4, <1>5 DEF Ran

\* what one turn of the loop over the queues adds to the rules
LEMMA RulesOfTurn ==
  ASSUME NEW x \in RuleId, NEW y \in RuleId
  PROVE  /\ <<x>> \in Seq(RuleId) /\ Ran(<<x>>) = {x}
         /\ <<x, y>> \in Seq(RuleId) /\ Ran(<<x, y>>) = {x, y}
<1>1. <<x>> \in Seq(RuleId) /\ <<x, y>> \in Seq(RuleId)
  OBVIOUS
<1>2. /\ DOMAIN <<x>> = {1} /\ <<x>>[1] = x
      /\ DOMAIN <<x, y>> = {1, 2} /\ <<x, y>>[1] = x /\ <<x, y>>[2] = y
  OBVIOUS
<1> QED BY <1>1, <1>2 DEF Ran

\* a rule the NIC gets is also pushed: nicRules and rule grow by the same set
LEMMA CreateRuleAdds ==
  ASSUME IInv, CreateRule
  PROVE  \E made \in SUBSET RuleId :
           /\ nicRules' = nicRules \union made
           /\ rule' \in Seq(RuleId) /\ Ran(rule') = Ran(rule) \union made
<1> DEFINE x == <<index, 1>>
           y == <<index, 2>>
<1>1. x \in RuleId /\ y \in RuleId /\ rule \in Seq(RuleId) /\ x # y
  BY ConfigFields, MaxQueuesAssumption DEF CreateRule, IInv, TypeOK, RuleId
<1>2. PICK made \in {{x}, {x, y}} :
        /\ nicRules' = nicRules \union made
        /\ rule' = rule \o (IF y \in made THEN <<x, y>> ELSE <<x>>)
  BY DEF CreateRule
<1> HIDE DEF x, y
<1>3. CASE made = {x}
  <2>1. rule' = rule \o <<x>>
    BY <1>1, <1>2, <1>3
  <2>2. PICK t \in Seq(RuleId) : t = <<x>> /\ Ran(t) = {x}
    BY <1>1, RulesOfTurn
  <2>3. rule \o t \in Seq(RuleId) /\ Ran(rule \o t) = Ran(rule) \union Ran(t)
    BY <1>1, Appended
  <2>4. rule' \in Seq(RuleId) /\ Ran(rule') = Ran(rule) \union made
    BY <1>3, <2>1, <2>2, <2>3
  <2> QED BY <1>1, <1>2, <1>3, <2>4
<1>4. CASE made = {x, y}
  <2>1. rule' = rule \o <<x, y>>
    BY <1>1, <1>2, <1>4
  <2>2. PICK t \in Seq(RuleId) : t = <<x, y>> /\ Ran(t) = {x, y}
    BY <1>1, RulesOfTurn
  <2>3. rule \o t \in Seq(RuleId) /\ Ran(rule \o t) = Ran(rule) \union Ran(t)
    BY <1>1, Appended
  <2>4. rule' \in Seq(RuleId) /\ Ran(rule') = Ran(rule) \union made
    BY <1>4, <2>1, <2>2, <2>3
  <2> QED BY <1>1, <1>2, <1>4, <2>4
<1> QED BY <1>2, <1>3, <1>4

\* no step changes the configuration, so the queues stay the same
LEMMA ConfigKept ==
  ASSUME [Next]_vars
  PROVE  config' = config /\ Queues' = Queues
<1>1. config' = config
  BY DEF Next, vars, StartEna, EalInit, CheckDevice, Configure, ReserveMemzone, CreateQueuePool,
         QueuePoolsDone, CreateSharedPool, SetupQueues, StartDevice, AssertFlows, CreateRule,
         CreateRuleFails, StartReturns, StartFails, Launch, WorkersDone, CheckPasses, CheckFails,
         ChecksDone, StopEna, DestroyFlows, StopDevice, FreePools, FreeSharedPool, FreeMemzone,
         CloseDevice, StopDpdk
<1> QED BY <1>1 DEF Queues

\* one step keeps Starting
LEMMA StartingKept ==
  ASSUME IInv, Next
  PROVE  Starting'
<1>1. CASE StartEna
  BY <1>1 DEF IInv, Starting, BeforeStart, Running, StartSteps, StartEna, dpdkVars, startVars,
         EalInit, CheckDevice, Configure, ReserveMemzone, CreateQueuePool,
         QueuePoolsDone, CreateSharedPool, SetupQueues, StartDevice, AssertFlows, CreateRule,
         CreateRuleFails, StartReturns, StartFails
<1>2. CASE StopEna \/ StopDpdk
  BY <1>2 DEF IInv, Starting, BeforeStart, Running, StopEna, dpdkVars, startVars,
         DestroyFlows, StopDevice, FreePools, FreeSharedPool, FreeMemzone, CloseDevice, StopDpdk
<1>3. CASE Launch \/ WorkersDone \/ CheckPasses \/ CheckFails \/ ChecksDone
  BY <1>3 DEF IInv, Starting, BeforeStart, Running, StopSteps, dpdkVars, startVars,
         Launch, WorkersDone, CheckPasses, CheckFails, ChecksDone
<1> QED BY <1>1, <1>2, <1>3 DEF Next

\* one step keeps Memory: the loop over the queues has made the pools below index
LEMMA MemoryKept ==
  ASSUME IInv, Next
  PROVE  Memory'
<1>0. Queues' = Queues
  BY ConfigKept
<1>1. CASE StartEna
  <2>0. CASE CreateQueuePool
    <3>1. /\ step' = "pools" /\ dev' = dev /\ dev # "started" /\ memzone' = "reserved"
          /\ index \in Queues /\ index' = index + 1
          /\ pools' = pools \union {index} /\ mempool' = [mempool EXCEPT ![index] = index]
      BY <2>0 DEF CreateQueuePool, IInv, Starting, Memory, BeforeStart
    <3>2. \A q \in Queues : q < index + 1 => q < index \/ q = index
      <4>1. config.rx + config.tx \in Nat
        BY ConfigFields, MaxQueuesAssumption DEF IInv
      <4> QED BY <3>1, <4>1 DEF Queues
    <3>3. \A q \in Queues : q < index + 1 => mempool'[q] = q /\ q \in pools'
      BY <2>0, <3>1, <3>2 DEF CreateQueuePool, IInv, Memory, TypeOK
    <3> QED BY <1>0, <3>1, <3>3 DEF Memory, BackedWhileStarted
  <2>1. CASE QueuePoolsDone
    <3>1. step = "pools" /\ step' = "queues" /\ index \notin Queues /\ index \in Nat \ {0}
      BY <2>1 DEF QueuePoolsDone, IInv, TypeOK
    <3>2. \A q \in Queues : q < index
      <4>1. config.rx + config.tx \in Nat
        BY ConfigFields, MaxQueuesAssumption DEF IInv
      <4> QED BY <3>1, <4>1 DEF Queues
    <3>3. \A q \in Queues : mempool[q] \in pools
      BY <3>1, <3>2 DEF IInv, Memory
    <3> QED BY <1>0, <2>1, <3>1, <3>3 DEF IInv, Starting, BeforeStart, dpdkVars, startVars, Memory,
               BackedWhileStarted, QueuePoolsDone
  <2>2. CASE CreateSharedPool
    BY <1>0, <2>2 DEF IInv, TypeOK, Starting, BeforeStart, Running, Memory, BackedWhileStarted,
           CreateSharedPool
  <2>3. CASE ReserveMemzone
    BY <1>0, <2>3 DEF IInv, TypeOK, Starting, BeforeStart, Running, Memory, BackedWhileStarted,
           Queues, ReserveMemzone
  <2>4. CASE EalInit \/ CheckDevice \/ Configure \/ SetupQueues \/ StartDevice \/ StartFails
    BY <1>0, <2>4 DEF IInv, Starting, BeforeStart, Running, StartSteps, dpdkVars, startVars,
           Memory, BackedWhileStarted, EalInit, CheckDevice, Configure, SetupQueues, StartDevice,
           StartFails
  <2>5. CASE AssertFlows \/ CreateRule \/ CreateRuleFails \/ StartReturns
    BY <1>0, <2>5 DEF IInv, dpdkVars, startVars, Memory, BackedWhileStarted, AssertFlows,
           CreateRule, CreateRuleFails, StartReturns
  <2> QED BY <1>1, <2>0, <2>1, <2>2, <2>3, <2>4, <2>5 DEF StartEna
<1>2. CASE StopEna \/ StopDpdk
  BY <1>0, <1>2 DEF IInv, StopEna, dpdkVars, startVars, Memory, BackedWhileStarted,
         DestroyFlows, StopDevice, FreePools, FreeSharedPool, FreeMemzone, CloseDevice, StopDpdk
<1>3. CASE Launch \/ WorkersDone \/ CheckPasses \/ CheckFails \/ ChecksDone
  BY <1>0, <1>3 DEF IInv, dpdkVars, startVars, Memory, BackedWhileStarted,
         Launch, WorkersDone, CheckPasses, CheckFails, ChecksDone
<1> QED BY <1>1, <1>2, <1>3 DEF Next

\* one step keeps OnePass
LEMMA OnePassKept ==
  ASSUME IInv, Next
  PROVE  OnePass'
<1>0. Queues' = Queues
  BY ConfigKept
<1>1. CASE StartEna
  BY <1>0, <1>1 DEF IInv, OnePass, StartSteps, StartEna, StopSteps,
         EalInit, CheckDevice, Configure, ReserveMemzone, CreateQueuePool,
         QueuePoolsDone, CreateSharedPool, SetupQueues, StartDevice, AssertFlows, CreateRule,
         CreateRuleFails, StartReturns, StartFails
<1>2. CASE StopEna \/ StopDpdk
  BY <1>0, <1>2 DEF IInv, StopEna, dpdkVars, startVars, Memory, BackedWhileStarted,
         OnePass, StopSteps, Handles, Rules, RulesOnlyWhileStarted,
         Destroy, DestroyFlows, StopDevice, FreePools, FreeSharedPool, FreeMemzone, CloseDevice, StopDpdk
<1>3. CASE Launch \/ WorkersDone
  <2>1. dev' = "started" /\ eal' = "on" /\ nicRules' = Handles'
    BY <1>3 DEF IInv, Starting, Running, BeforeStart, Rules, Handles, dpdkVars, startVars, Launch,
           WorkersDone
  <2>2. step' \in {"wait", "onExit"}
    BY <1>3 DEF Launch, WorkersDone
  <2> QED BY <2>1, <2>2 DEF OnePass, StopSteps
<1>4. CASE CheckPasses
  BY <1>0, <1>4 DEF IInv, OnePass, StopSteps, Handles, dpdkVars, startVars, CheckPasses
<1>6. CASE ChecksDone
  <2>1. step = "onExit" /\ step' = "destroyFlows" /\ index' = Checks + 2
    BY <1>6, ChecksAssumption DEF ChecksDone
  <2> QED BY <1>0, <1>6, <2>1 DEF IInv, OnePass, StopSteps, Handles, dpdkVars, startVars, ChecksDone
<1>5. CASE CheckFails
  BY <1>5 DEF OnePass, CheckFails
<1> QED BY <1>1, <1>2, <1>3, <1>4, <1>5, <1>6 DEF Next

\* one step keeps OwnPools
LEMMA OwnPoolsKept ==
  ASSUME IInv, Next
  PROVE  OwnPools'
<1>0. Queues' = Queues /\ config' = config
  BY ConfigKept
<1>1. CASE StartEna
  <2>1. CASE CreateQueuePool
    <3>1. step' = "pools" /\ pools' = pools \union {index} /\ index \in Queues
      BY <2>1 DEF CreateQueuePool
    <3>2. "pools" \notin PoolsMade
      BY DEF PoolsMade, Running, StopSteps
    <3> QED BY <1>0, <3>1, <3>2 DEF IInv, OwnPools
  <2>2. CASE QueuePoolsDone
    <3>1. /\ step = "pools" /\ step' = "queues" /\ index \notin Queues /\ index \in Nat \ {0}
          /\ pools' = pools /\ mempool' = mempool
      BY <2>2 DEF QueuePoolsDone, IInv, TypeOK, startVars, dpdkVars
    <3>2. \A q \in Queues : q < index
      <4>1. config.rx + config.tx \in Nat
        BY ConfigFields, MaxQueuesAssumption DEF IInv
      <4> QED BY <3>1, <4>1 DEF Queues
    <3>3. \A q \in Queues : mempool[q] = q
      BY <3>1, <3>2 DEF IInv, Memory
    <3> QED BY <1>0, <3>1, <3>3 DEF IInv, OwnPools
  <2>3. CASE CreateSharedPool
    BY <1>0, <2>3 DEF OwnPools, CreateSharedPool
  <2>4. CASE ~(CreateQueuePool \/ QueuePoolsDone \/ CreateSharedPool)
    BY <1>0, <1>1, <2>4 DEF IInv, OwnPools, PoolsMade, Running, StartSteps, StopSteps, dpdkVars,
           startVars, StartEna, EalInit, CheckDevice, Configure, ReserveMemzone, SetupQueues,
           StartDevice, AssertFlows, CreateRule, CreateRuleFails, StartReturns, StartFails
  <2> QED BY <2>1, <2>2, <2>3, <2>4
<1>2. CASE StopEna \/ StopDpdk
  BY <1>0, <1>2 DEF IInv, OwnPools, PoolsMade, Running, StopSteps, StopEna, dpdkVars, startVars,
         DestroyFlows, StopDevice, FreePools, FreeSharedPool, FreeMemzone, CloseDevice, StopDpdk
<1>3. CASE Launch \/ WorkersDone \/ CheckPasses \/ CheckFails \/ ChecksDone
  BY <1>0, <1>3 DEF IInv, OwnPools, PoolsMade, Running, StopSteps, dpdkVars, startVars,
         Launch, WorkersDone, CheckPasses, CheckFails, ChecksDone
<1> QED BY <1>1, <1>2, <1>3 DEF Next

\* one step adds undefined behaviour only where a cause is on record
LEMMA FaultsKept ==
  ASSUME IInv, Next
  PROVE  FaultsHaveKnownCause'
<1>0. Queues' = Queues /\ config' = config
  BY ConfigKept
<1>1. CASE StartEna
  BY <1>0, <1>1 DEF IInv, FaultsHaveKnownCause, StartEna,
         EalInit, CheckDevice, Configure, ReserveMemzone, CreateQueuePool,
         QueuePoolsDone, CreateSharedPool, SetupQueues, StartDevice, AssertFlows, CreateRule,
         CreateRuleFails, StartReturns, StartFails
<1>2. CASE StopEna \/ StopDpdk
  <2>1. CASE FreePools
    <3>1. config.policy = "PER_QUEUE" \/ config.policy = "OTHER"
      BY <2>1, ConfigFields DEF FreePools, IInv
    <3>2. config.policy = "PER_QUEUE" => \A q \in Queues : mempool[q] = q
      BY <2>1 DEF FreePools, IInv, OwnPools, PoolsMade, StopSteps
    <3> QED BY <1>0, <2>1, <3>1, <3>2 DEF IInv, OnePass, FaultsHaveKnownCause, FreePools
  <2>2. CASE FreeSharedPool \/ CloseDevice
    BY <1>0, <2>2 DEF IInv, FaultsHaveKnownCause, FreeSharedPool, CloseDevice
  <2>3. CASE DestroyFlows \/ StopDevice \/ FreeMemzone \/ StopDpdk
    BY <1>0, <2>3 DEF IInv, OnePass, StopSteps, FaultsHaveKnownCause, AfterCleanup, Destroy, DestroyFlows,
           StopDevice, FreeMemzone, StopDpdk
  <2> QED BY <1>2, <2>1, <2>2, <2>3 DEF StopEna
<1>3. CASE Launch \/ WorkersDone \/ CheckPasses \/ CheckFails \/ ChecksDone
  BY <1>0, <1>3 DEF IInv, OnePass, FaultsHaveKnownCause, AfterCleanup,
         Launch, WorkersDone, CheckPasses, CheckFails, ChecksDone
<1> QED BY <1>1, <1>2, <1>3 DEF Next

\* one step keeps GivenBack: the calls of stopEna in their order
LEMMA GivenBackKept ==
  ASSUME IInv, Next
  PROVE  GivenBack'
<1>0. Queues' = Queues /\ config' = config
  BY ConfigKept
<1>1. CASE StartEna
  BY <1>0, <1>1 DEF GivenBack, StartEna, StartSteps,
         EalInit, CheckDevice, Configure, ReserveMemzone, CreateQueuePool,
         QueuePoolsDone, CreateSharedPool, SetupQueues, StartDevice, AssertFlows, CreateRule,
         CreateRuleFails, StartReturns, StartFails
<1>2. CASE StopEna \/ StopDpdk
  <2>1. CASE FreePools
    <3>1. config.policy = "PER_QUEUE" => pools \subseteq Queues /\ \A q \in Queues : mempool[q] = q
      BY <2>1 DEF FreePools, IInv, OwnPools, PoolsMade, StopSteps
    <3>2. config.policy = "PER_QUEUE" => pools' = {}
      BY <2>1, <3>1 DEF FreePools
    <3>3. step' = "freeMemzone"
      BY <2>1 DEF FreePools
    <3> QED BY <1>0, <3>2, <3>3 DEF GivenBack
  <2>2. CASE FreeSharedPool \/ DestroyFlows \/ StopDevice
    BY <1>0, <2>2 DEF GivenBack, FreeSharedPool, DestroyFlows, StopDevice
  <2>3. CASE FreeMemzone
    <3>1. /\ step = "freeMemzone" /\ pools' = pools
          /\ \/ memzone' = "freed" /\ step' = "closeDevice" /\ failed' = failed
             \/ "memzone" \in failed'
      BY <2>3 DEF FreeMemzone
    <3>2. CASE memzone' = "freed" /\ step' = "closeDevice" /\ failed' = failed
      BY <1>0, <3>1, <3>2 DEF IInv, GivenBack
    <3>3. CASE "memzone" \in failed'
      <4>1. ~(failed' \subseteq {"launch", "stats", "destroy", "close"})
        BY <3>3
      <4> QED BY <4>1 DEF GivenBack
    <3> QED BY <3>1, <3>2, <3>3
  <2>5. CASE CloseDevice
    BY <1>0, <2>5 DEF IInv, GivenBack, CloseDevice
  <2>4. CASE StopDpdk
    <3>1. /\ step = "stopDpdk" /\ step' \in {"exit0", "onExit"}
          /\ pools' = pools /\ memzone' = memzone /\ dev' = dev
      BY <2>4 DEF StopDpdk
    <3>2. (eal' = "cleaned" /\ failed' = failed) \/ "cleanup" \in failed'
      BY <2>4 DEF StopDpdk
    <3>3. CASE eal' = "cleaned" /\ failed' = failed
      BY <1>0, <3>1, <3>3 DEF IInv, GivenBack
    <3>4. CASE "cleanup" \in failed'
      <4>1. ~(failed' \subseteq {"launch", "stats", "destroy", "close"})
        BY <3>4
      <4> QED BY <4>1 DEF GivenBack
    <3> QED BY <3>2, <3>3, <3>4
  <2> QED BY <1>2, <2>1, <2>2, <2>3, <2>4, <2>5 DEF StopEna
<1>3. CASE Launch \/ WorkersDone \/ CheckPasses \/ CheckFails \/ ChecksDone
  BY <1>0, <1>3 DEF GivenBack, dpdkVars, Launch, WorkersDone, CheckPasses, CheckFails, ChecksDone
<1> QED BY <1>1, <1>2, <1>3 DEF Next

\* one step keeps Rules
LEMMA RulesKept ==
  ASSUME IInv, Next
  PROVE  Rules'
<1>1. CASE CreateRule
  <2>1. PICK made \in SUBSET RuleId :
          nicRules' = nicRules \union made /\ Ran(rule') = Ran(rule) \union made
    BY <1>1, CreateRuleAdds
  <2> QED BY <1>1, <2>1 DEF IInv, Rules, RulesOnlyWhileStarted, Starting, Running, StopSteps,
             CreateRule
<1>2. CASE StartDevice
  <2>1. nicRules = {} /\ rule = <<>> /\ nicRules' = {} /\ rule' = <<>> /\ step' = "flows"
    BY <1>2 DEF IInv, Starting, BeforeStart, StartDevice, startVars
  <2>2. Ran(rule') = {}
    BY <2>1 DEF Ran
  <2> QED BY <2>1, <2>2 DEF Rules, RulesOnlyWhileStarted, StopSteps
<1>3. CASE StartEna /\ ~CreateRule /\ ~StartDevice
  BY <1>3 DEF IInv, Rules, RulesOnlyWhileStarted, Starting, BeforeStart, Running, StartSteps,
         StopSteps, Ran, Handles, StartEna, dpdkVars, startVars,
         EalInit, CheckDevice, Configure, ReserveMemzone, CreateQueuePool,
         QueuePoolsDone, CreateSharedPool, SetupQueues, AssertFlows,
         CreateRuleFails, StartReturns, StartFails
<1>4. CASE StopEna \/ StopDpdk
  <2>1. CASE DestroyFlows
    <3>1. PICK kept \in SUBSET (Handles \intersect nicRules) :
            /\ nicRules' = (nicRules \ Handles) \union kept
            /\ failed' = IF kept = {} THEN failed ELSE failed \union {"destroy"}
      BY <2>1 DEF DestroyFlows, Destroy
    <3>2. step = "destroyFlows" /\ step' = "stopDevice" /\ dev' = dev /\ Handles' = Handles
      BY <2>1 DEF DestroyFlows, startVars, Handles
    <3>3. nicRules \subseteq Handles /\ (nicRules # {} => dev = "started" \/ "destroy" \in failed)
      BY <3>2 DEF IInv, Rules, RulesOnlyWhileStarted, StopSteps
    <3>4. nicRules' \subseteq Handles' /\ (nicRules' = {} \/ "destroy" \in failed')
      BY <3>1, <3>2, <3>3
    <3> QED BY <3>2, <3>4 DEF Rules, RulesOnlyWhileStarted
  <2>2. CASE StopDevice \/ FreePools \/ FreeSharedPool \/ FreeMemzone \/ CloseDevice \/ StopDpdk
    BY <2>2 DEF IInv, Rules, RulesOnlyWhileStarted, StopSteps, Handles, startVars, StopDevice,
           FreePools, FreeSharedPool, FreeMemzone, CloseDevice, StopDpdk
  <2> QED BY <1>4, <2>1, <2>2 DEF StopEna
<1>5. CASE Launch \/ WorkersDone \/ CheckPasses \/ CheckFails \/ ChecksDone
  BY <1>5 DEF IInv, Rules, RulesOnlyWhileStarted, StopSteps, Handles, dpdkVars, startVars,
         Launch, WorkersDone, CheckPasses, CheckFails, ChecksDone
<1> QED BY <1>1, <1>2, <1>3, <1>4, <1>5 DEF Next

\* one step keeps TypeOK
LEMMA TypeKept ==
  ASSUME IInv, Next
  PROVE  TypeOK'
<1>0. Queues' = Queues /\ config' = config
  BY ConfigKept
<1>1. CASE StartEna
  <2>1. CASE CreateRule
    <3>2. rule' \in Seq(RuleId) /\ nicRules' \subseteq RuleId
      BY <2>1, CreateRuleAdds DEF IInv, TypeOK
    <3>3. index' \in 1 .. (2 * MaxQueues + Checks + 2)
      BY <2>1, ConfigFields, MaxQueuesAssumption, ChecksAssumption DEF CreateRule, IInv, TypeOK
    <3> QED BY <1>0, <2>1, <3>2, <3>3 DEF CreateRule, IInv, TypeOK
  <2>2. CASE CreateQueuePool
    <3>1. index' \in 1 .. (2 * MaxQueues + Checks + 2) /\ index \in PoolId
      BY <2>2, ConfigFields, MaxQueuesAssumption, ChecksAssumption
         DEF CreateQueuePool, IInv, TypeOK, Queues, PoolId
    <3> QED BY <1>0, <2>2, <3>1 DEF CreateQueuePool, IInv, TypeOK
  <2>3. CASE CreateSharedPool
    <3>1. Shared \in PoolId
      BY MaxQueuesAssumption DEF Shared, PoolId
    <3> QED BY <1>0, <2>3, <3>1 DEF CreateSharedPool, IInv, TypeOK, StartSteps
  <2>4. CASE ReserveMemzone \/ StartDevice
    <3>1. index' \in 1 .. (2 * MaxQueues + Checks + 2)
      BY <2>4, MaxQueuesAssumption, ChecksAssumption DEF ReserveMemzone, StartDevice
    <3>2. CASE ReserveMemzone
      BY <1>0, <3>1, <3>2 DEF IInv, TypeOK, StartSteps, startVars, ReserveMemzone
    <3>3. CASE StartDevice
      BY <1>0, <3>1, <3>3 DEF IInv, TypeOK, StartSteps, startVars, StartDevice
    <3> QED BY <2>4, <3>2, <3>3
  <2>5. CASE CreateRuleFails
    <3>1. rule' \in Seq(RuleId)
      BY <2>5 DEF CreateRuleFails
    <3> QED BY <1>0, <2>5, <3>1 DEF IInv, TypeOK, dpdkVars, CreateRuleFails
  <2>7. CASE StartReturns
    BY <1>0, <2>7 DEF IInv, TypeOK, dpdkVars, StartReturns
  <2>6. CASE EalInit \/ CheckDevice \/ Configure \/ QueuePoolsDone \/ SetupQueues
             \/ AssertFlows \/ StartFails
    BY <1>0, <2>6 DEF IInv, TypeOK, StartSteps, dpdkVars, startVars, EalInit, CheckDevice,
           Configure, QueuePoolsDone, SetupQueues, AssertFlows, StartFails
  <2> QED BY <1>1, <2>1, <2>2, <2>3, <2>4, <2>5, <2>6, <2>7 DEF StartEna
<1>2. CASE StopEna \/ StopDpdk
  BY <1>0, <1>2 DEF IInv, TypeOK, StopSteps, StopEna, dpdkVars, startVars, AfterCleanup,
         Destroy, DestroyFlows, StopDevice, FreePools, FreeSharedPool, FreeMemzone, CloseDevice, StopDpdk
<1>3. CASE Launch \/ WorkersDone \/ CheckPasses \/ CheckFails \/ ChecksDone
  <2>1. index' \in 1 .. (2 * MaxQueues + Checks + 2)
    BY <1>3, MaxQueuesAssumption, ChecksAssumption DEF IInv, TypeOK, Launch, WorkersDone,
           CheckPasses, CheckFails, ChecksDone
  <2> QED BY <1>0, <1>3, <2>1 DEF IInv, TypeOK, StopSteps, dpdkVars, startVars, AfterCleanup,
             Launch, WorkersDone, CheckPasses, CheckFails, ChecksDone
<1> QED BY <1>1, <1>2, <1>3 DEF Next

(***************************************************************************)
(* The theorems.                                                           *)
(***************************************************************************)
\* the invariant holds at the start of main()
LEMMA InitIInv == Init => IInv
<1> SUFFICES ASSUME Init PROVE IInv
  OBVIOUS
<1>1. TypeOK
  BY MaxQueuesAssumption, ChecksAssumption DEF Init, TypeOK, StartSteps, PoolId, Null
<1>2. Starting /\ Memory /\ OwnPools /\ Rules /\ OnePass /\ FaultsHaveKnownCause /\ GivenBack
  BY DEF Init, Starting, BeforeStart, Running, Memory, BackedWhileStarted, OwnPools, PoolsMade,
         StopSteps, Rules, RulesOnlyWhileStarted, OnePass, FaultsHaveKnownCause, GivenBack
<1> QED BY <1>1, <1>2 DEF IInv

\* every step keeps the invariant
LEMMA NextIInv ==
  ASSUME IInv, [Next]_vars
  PROVE  IInv'
<1>1. CASE Next
  BY <1>1, TypeKept, StartingKept, MemoryKept, OwnPoolsKept, RulesKept, OnePassKept, FaultsKept,
     GivenBackKept DEF IInv
<1>2. CASE UNCHANGED vars
  BY <1>2 DEF vars, dpdkVars, startVars, IInv, TypeOK, Starting, Memory, BackedWhileStarted, Queues,
         OwnPools, Rules, RulesOnlyWhileStarted, Handles, OnePass, FaultsHaveKnownCause, GivenBack
<1> QED BY <1>1, <1>2

\* The model's states are well formed (startEna, onExit, stopEna).
THEOREM TypeCorrect == Spec => []TypeOK
<1>1. IInv => TypeOK
  BY DEF IInv
<1> QED BY InitIInv, NextIInv, <1>1, PTL DEF Spec

\* While the device runs, nothing it writes to is freed, whichever call of startEna
\* or stopEna fails.
THEOREM RunningDeviceIsBacked == Spec => []BackedWhileStarted
<1>1. IInv => BackedWhileStarted
  BY DEF IInv, Memory
<1> QED BY InitIInv, NextIInv, <1>1, PTL DEF Spec

\* Only a rule the NIC refuses to destroy outlives the running device, and Config keeps
\* its handle (createStaticUdpDestPortFlowControl, stopEna, which ignores the refusal).
THEOREM RulesEndWithDevice == Spec => []RulesOnlyWhileStarted
<1>1. IInv => RulesOnlyWhileStarted
  BY DEF IInv, Rules
<1> QED BY InitIInv, NextIInv, <1>1, PTL DEF Spec

\* Undefined behaviour has one of the three causes (onExit, stopEna).
THEOREM FaultsExplained == Spec => []FaultsHaveKnownCause
<1>1. IInv => FaultsHaveKnownCause
  BY DEF IInv
<1> QED BY InitIInv, NextIInv, <1>1, PTL DEF Spec

\* With a pool per queue, a run gives everything back unless stopEna or stopDpdk meet a
\* failure, and a failure they ignore costs no more than itself (onExit).
THEOREM AllGivenBack == Spec => []EverythingGivenBack
<1>1. IInv => EverythingGivenBack
  BY DEF IInv, Rules, GivenBack, EverythingGivenBack
<1> QED BY InitIInv, NextIInv, <1>1, PTL DEF Spec

(***************************************************************************)
(* The process runs out of steps.                                          *)
(***************************************************************************)
Ended == {"exit0", "exit1", "abort"}

\* Where main() is, counted backwards from the end: of onExit's last statistics
\* call for startEna and the launch, of one pass through internalExit for stopEna.
Ahead ==
  [eal |-> 10, device |-> 9, configure |-> 8, memzone |-> 7, pools |-> 6, queues |-> 5,
   devStart |-> 4, flows |-> 3, launch |-> 2, wait |-> 1, onExit |-> 0,
   destroyFlows |-> 6, stopDevice |-> 5, freePools |-> 4, freeMemzone |-> 3,
   closeDevice |-> 2, stopDpdk |-> 1, exit0 |-> 0, exit1 |-> 0, abort |-> 0]

\* the turns the loops over queues and rules still have to make
QueueTurns ==
  IF step \in {"eal", "device", "configure", "memzone"} THEN config.rx + config.tx
  ELSE IF step = "pools" THEN config.rx + config.tx + 1 - index ELSE 0

RuleTurns ==
  IF step \in BeforeStart THEN config.flows
  ELSE IF step = "flows" THEN config.flows + 1 - index ELSE 0

\* the passes through internalExit, of six calls each, that onExit can still start
ExitTurns ==
  IF step \in Ended THEN 0
  ELSE IF step \in StopSteps \union {"onExit"} THEN Checks + 2 - index ELSE Checks + 1

StepsLeft == 8 * ExitTurns + RuleTurns + QueueTurns + Ahead[step]

\* no loop goes past its end
LoopsEnd ==
  /\ step = "pools" => index <= config.rx + config.tx + 1
  /\ step = "flows" => index <= config.flows + 1
  /\ step = "wait" => index = 1
  /\ step = "onExit" => index <= Checks + 1
  /\ step \in StopSteps => index <= Checks + 2

DevRank == [idle |-> 0, configured |-> 1, started |-> 2, stopped |-> 3, closed |-> 4]
ZoneRank == [none |-> 0, reserved |-> 1, freed |-> 2]
EalRank == [off |-> 0, on |-> 1, cleaned |-> 2]

\* No resource is had twice: none that was given back comes up again. Only the
\* device may look so, when a failed statistics call has stopEna run once more.
ResourcesMoveOneWay ==
  [][/\ EalRank[eal] <= EalRank[eal'] /\ ZoneRank[memzone] <= ZoneRank[memzone']
     /\ "stats" \notin failed' => DevRank[dev] <= DevRank[dev']]_vars

LEMMA LoopsEndKept ==
  ASSUME TypeOK, LoopsEnd, Next
  PROVE  LoopsEnd'
<1> USE DEF LoopsEnd
<1>1. /\ config' = config
      /\ config.rx \in Nat /\ config.tx \in Nat /\ config.flows \in Nat
      /\ index \in Nat /\ Checks \in Nat
  BY ConfigFields, ConfigKept, ChecksAssumption, MaxQueuesAssumption DEF TypeOK
<1>2. CASE StartEna
  <2>1. CASE EalInit \/ CheckDevice \/ Configure \/ ReserveMemzone \/ SetupQueues \/ StartDevice
    BY <1>1, <2>1 DEF EalInit, CheckDevice, Configure, ReserveMemzone, SetupQueues, StartDevice, StopSteps
  <2>2. CASE CreateQueuePool
    BY <1>1, <2>2 DEF CreateQueuePool, Queues, StopSteps
  <2>3. CASE QueuePoolsDone \/ CreateSharedPool \/ AssertFlows \/ CreateRuleFails \/ StartReturns
    BY <2>3 DEF QueuePoolsDone, CreateSharedPool, AssertFlows, CreateRuleFails, StartReturns, StopSteps
  <2>4. CASE StartFails
    BY <2>4 DEF StartFails, StopSteps
  <2>5. CASE CreateRule
    BY <1>1, <2>5 DEF CreateRule, StopSteps
  <2> QED BY <1>2, <2>1, <2>2, <2>3, <2>4, <2>5 DEF StartEna
<1>3. CASE StopEna \/ StopDpdk
  <2>1. step \in StopSteps /\ index' = index
    BY <1>3 DEF StopEna, DestroyFlows, StopDevice, FreePools, FreeSharedPool, FreeMemzone, CloseDevice,
           StopDpdk, StopSteps
  <2>2. step' \in StopSteps \/ step' = "exit0" \/ (step' = "onExit" /\ index # Checks + 2)
    BY <1>3 DEF StopEna, DestroyFlows, StopDevice, FreePools, FreeSharedPool, FreeMemzone, CloseDevice,
           StopDpdk, StopSteps
  <2> QED BY <1>1, <2>1, <2>2 DEF StopSteps
<1>4. CASE Launch \/ WorkersDone \/ CheckPasses \/ CheckFails \/ ChecksDone
  BY <1>1, <1>4 DEF Launch, WorkersDone, CheckPasses, CheckFails, ChecksDone, StopSteps
<1> QED BY <1>2, <1>3, <1>4 DEF Next

\* Each step is a step towards the end.
LEMMA StepsLeftFalls ==
  ASSUME TypeOK, LoopsEnd, LoopsEnd', Next
  PROVE  StepsLeft' < StepsLeft
<1>1. /\ config' = config
      /\ config.rx \in Nat /\ config.tx \in Nat /\ config.flows \in Nat
      /\ index \in Nat /\ Checks \in Nat
  BY ConfigFields, ConfigKept, ChecksAssumption, MaxQueuesAssumption DEF TypeOK
<1> USE DEF StepsLeft, ExitTurns, RuleTurns, QueueTurns, Ahead, Ended, BeforeStart, StopSteps
<1>2. CASE EalInit \/ CheckDevice \/ Configure
  BY <1>1, <1>2 DEF EalInit, CheckDevice, Configure
<1>3. CASE ReserveMemzone
  BY <1>1, <1>3 DEF ReserveMemzone
<1>4. CASE CreateQueuePool
  BY <1>1, <1>4 DEF CreateQueuePool
<1>5. CASE QueuePoolsDone \/ CreateSharedPool
  BY <1>1, <1>5 DEF QueuePoolsDone, CreateSharedPool, LoopsEnd
<1>6. CASE SetupQueues \/ StartDevice
  BY <1>1, <1>6 DEF SetupQueues, StartDevice
<1>7. CASE CreateRule
  BY <1>1, <1>7 DEF CreateRule
<1>8. CASE AssertFlows \/ CreateRuleFails \/ StartReturns
  <2>1. /\ step = "flows" /\ step' \in {"abort", "exit1", "launch"}
        /\ index <= config.flows + 1
    BY <1>1, <1>8 DEF AssertFlows, CreateRuleFails, StartReturns, LoopsEnd
  <2>2. StepsLeft = 8 * (Checks + 1) + (config.flows + 1 - index) + 3
    BY <1>1, <2>1
  <2>3. StepsLeft' = IF step' = "launch" THEN 8 * (Checks + 1) + 2 ELSE 0
    BY <1>1, <2>1
  <2> HIDE DEF StepsLeft
  <2> QED BY <1>1, <2>1, <2>2, <2>3
<1>9. CASE StartFails
  <2>1. step \in BeforeStart /\ step' = "exit1"
    BY <1>9 DEF StartFails, StartSteps
  <2>2. StepsLeft' = 0
    BY <2>1
  <2>3. RuleTurns \in Nat /\ QueueTurns \in Nat /\ ExitTurns \in Nat /\ Ahead[step] \in Nat \ {0}
    BY <1>1, <2>1 DEF LoopsEnd
  <2> HIDE DEF RuleTurns, QueueTurns, ExitTurns, Ahead
  <2> QED BY <2>2, <2>3
<1>10. CASE Launch \/ WorkersDone
  BY <1>1, <1>10 DEF Launch, WorkersDone, LoopsEnd
<1>11. CASE CheckPasses \/ CheckFails \/ ChecksDone
  <2>1. /\ step = "onExit" /\ index' = index + 1 /\ step' \in {"onExit", "destroyFlows"}
    BY <1>11 DEF CheckPasses, CheckFails, ChecksDone
  <2>2. StepsLeft = 8 * (Checks + 2 - index)
    BY <1>1, <2>1
  <2>3. StepsLeft' = 8 * (Checks + 2 - (index + 1)) + Ahead[step']
    BY <1>1, <2>1
  <2>4. Ahead[step'] \in 0 .. 6
    BY <2>1
  <2> HIDE DEF StepsLeft, Ahead
  <2> QED BY <1>1, <2>2, <2>3, <2>4
<1>12. CASE StopEna
  BY <1>1, <1>12 DEF StopEna, DestroyFlows, StopDevice, FreePools, FreeSharedPool, FreeMemzone, CloseDevice
<1>13. CASE StopDpdk
  BY <1>1, <1>13 DEF StopDpdk, LoopsEnd
<1> QED BY <1>2, <1>3, <1>4, <1>5, <1>6, <1>7, <1>8, <1>9, <1>10, <1>11, <1>12, <1>13
    DEF Next, StartEna

\* The process runs out of steps: however many calls fail on the way in and out, the
\* loops of startEna, the statistics calls of onExit and the passes through internalExit
\* they start use up a number of steps fixed by the configuration.
THEOREM ProcessRunsOut ==
  Spec => /\ StepsLeft = 8 * Checks + 18 + config.rx + config.tx + config.flows
          /\ [](StepsLeft \in Nat)
          /\ [][StepsLeft' < StepsLeft]_vars
<1>1. Init => LoopsEnd
  BY DEF Init, LoopsEnd, StopSteps
<1>2. IInv /\ LoopsEnd /\ [Next]_vars => LoopsEnd'
  BY LoopsEndKept DEF IInv, LoopsEnd, vars
<1>3. ASSUME IInv, LoopsEnd PROVE StepsLeft \in Nat
  <2>1. /\ config.rx \in Nat /\ config.tx \in Nat /\ config.flows \in Nat
        /\ index \in Nat /\ Checks \in Nat
    BY ConfigFields, ChecksAssumption, MaxQueuesAssumption, <1>3 DEF IInv, TypeOK
  <2>2. RuleTurns \in Nat /\ QueueTurns \in Nat /\ ExitTurns \in Nat
    BY <1>3, <2>1 DEF RuleTurns, QueueTurns, ExitTurns, LoopsEnd
  <2>3. Ahead[step] \in Nat
    BY <1>3 DEF IInv, TypeOK, StartSteps, StopSteps, Ahead
  <2> QED BY <2>2, <2>3 DEF StepsLeft
<1>4. IInv /\ LoopsEnd /\ LoopsEnd' /\ [Next]_vars => [StepsLeft' < StepsLeft]_vars
  BY StepsLeftFalls DEF IInv
<1>5. ASSUME IInv, Init PROVE StepsLeft = 8 * Checks + 18 + config.rx + config.tx + config.flows
  <2>1. config.rx \in Nat /\ config.tx \in Nat /\ config.flows \in Nat /\ Checks \in Nat
    BY <1>5, ConfigFields, ChecksAssumption, MaxQueuesAssumption DEF IInv
  <2>2. ExitTurns = Checks + 1 /\ RuleTurns = config.flows /\ QueueTurns = config.rx + config.tx
        /\ Ahead[step] = 10
    BY <1>5 DEF Init, ExitTurns, RuleTurns, QueueTurns, Ahead, Ended, StopSteps, BeforeStart
  <2> QED BY <2>1, <2>2 DEF StepsLeft
<1> QED BY InitIInv, NextIInv, <1>1, <1>2, <1>3, <1>4, <1>5, PTL DEF Spec

\* what startEna has not come to is as the process found it
Fresh ==
  step \in BeforeStart => dev \in {"idle", "configured"} /\ memzone # "freed" /\ eal # "cleaned"

LEMMA FreshKept ==
  ASSUME Fresh, Next
  PROVE  Fresh'
<1>1. CASE StartEna
  BY <1>1 DEF Fresh, BeforeStart, StartSteps, StartEna, dpdkVars, startVars,
         EalInit, CheckDevice, Configure, ReserveMemzone, CreateQueuePool,
         QueuePoolsDone, CreateSharedPool, SetupQueues, StartDevice, AssertFlows, CreateRule,
         CreateRuleFails, StartReturns, StartFails
<1>2. CASE StopEna \/ StopDpdk
  BY <1>2 DEF Fresh, BeforeStart, StopEna, DestroyFlows, StopDevice, FreePools, FreeSharedPool,
         FreeMemzone, CloseDevice, StopDpdk
<1>3. CASE Launch \/ WorkersDone \/ CheckPasses \/ CheckFails \/ ChecksDone
  BY <1>3 DEF Fresh, BeforeStart, Launch, WorkersDone, CheckPasses, CheckFails, ChecksDone
<1> QED BY <1>1, <1>2, <1>3 DEF Next

\* A step that reserves or starts meets a resource that is new, one that gives back
\* meets one it still has.
LEMMA RanksRise ==
  ASSUME IInv, Fresh, Next
  PROVE  /\ EalRank[eal] <= EalRank[eal'] /\ ZoneRank[memzone] <= ZoneRank[memzone']
         /\ "stats" \notin failed' => DevRank[dev] <= DevRank[dev']
<1>1. /\ eal \in {"off", "on", "cleaned"} /\ memzone \in {"none", "reserved", "freed"}
      /\ dev \in {"idle", "configured", "started", "stopped", "closed"}
  BY DEF IInv, TypeOK
<1>2. eal' = eal \/ (eal # "cleaned" /\ eal' = "on") \/ eal' = "cleaned"
  BY DEF Next, Fresh, BeforeStart, dpdkVars, StartEna, EalInit, CheckDevice, Configure, ReserveMemzone,
         CreateQueuePool, QueuePoolsDone, CreateSharedPool, SetupQueues, StartDevice, AssertFlows,
         CreateRule, CreateRuleFails, StartReturns, StartFails, Launch, WorkersDone, CheckPasses,
         CheckFails, ChecksDone, StopEna, DestroyFlows, StopDevice, FreePools, FreeSharedPool,
         FreeMemzone, CloseDevice, StopDpdk
<1>3. memzone' = memzone \/ (memzone # "freed" /\ memzone' = "reserved") \/ memzone' = "freed"
  BY DEF Next, Fresh, BeforeStart, dpdkVars, StartEna, EalInit, CheckDevice, Configure, ReserveMemzone,
         CreateQueuePool, QueuePoolsDone, CreateSharedPool, SetupQueues, StartDevice, AssertFlows,
         CreateRule, CreateRuleFails, StartReturns, StartFails, Launch, WorkersDone, CheckPasses,
         CheckFails, ChecksDone, StopEna, DestroyFlows, StopDevice, FreePools, FreeSharedPool,
         FreeMemzone, CloseDevice, StopDpdk
<1>4. \/ dev' = dev \/ dev' = "closed" \/ "stats" \in failed'
      \/ dev \in {"idle", "configured"} /\ dev' \in {"configured", "started"}
         /\ (dev' = "configured" \/ dev' = "started")
      \/ dev = "started" /\ dev' = "stopped"
  <2>1. CASE StartEna
    BY <2>1 DEF Fresh, BeforeStart, dpdkVars, StartEna, EalInit, CheckDevice, Configure, ReserveMemzone,
         CreateQueuePool, QueuePoolsDone, CreateSharedPool, SetupQueues, StartDevice, AssertFlows,
         CreateRule, CreateRuleFails, StartReturns, StartFails
  <2>2. CASE StopDevice
    BY <2>2 DEF StopDevice, IInv, OnePass
  <2>3. CASE Launch \/ WorkersDone \/ CheckPasses \/ CheckFails \/ ChecksDone
    BY <2>3 DEF dpdkVars, Launch, WorkersDone, CheckPasses, CheckFails, ChecksDone
  <2>4. CASE DestroyFlows \/ FreePools \/ FreeSharedPool \/ FreeMemzone \/ CloseDevice \/ StopDpdk
    BY <2>4 DEF dpdkVars, DestroyFlows, FreePools, FreeSharedPool, FreeMemzone, CloseDevice, StopDpdk
  <2> QED BY <2>1, <2>2, <2>3, <2>4 DEF Next, StopEna
<1> QED BY <1>1, <1>2, <1>3, <1>4 DEF EalRank, ZoneRank, DevRank

\* Nothing is reserved, configured or started again once it was given back (startEna,
\* stopEna, stopDpdk).
THEOREM ResourcesAreHadOnce == Spec => ResourcesMoveOneWay
<1>1. Init => Fresh
  BY DEF Init, Fresh
<1>2. IInv /\ Fresh /\ [Next]_vars => Fresh'
  BY FreshKept DEF Fresh, vars, dpdkVars
<1>3. IInv /\ Fresh /\ [Next]_vars
        => [/\ EalRank[eal] <= EalRank[eal'] /\ ZoneRank[memzone] <= ZoneRank[memzone']
            /\ "stats" \notin failed' => DevRank[dev] <= DevRank[dev']]_vars
  BY RanksRise
<1> QED BY InitIInv, NextIInv, <1>1, <1>2, <1>3, PTL DEF Spec, ResourcesMoveOneWay
=============================================================================
