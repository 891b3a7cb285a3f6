---------------------------- MODULE EnaLifecycle ----------------------------
(***************************************************************************)
(* One run of main() of the UDP integration tests: Init::startEna from     *)
(* rte_eal_init on, the launch of the lcores, onExit with its calls of     *)
(* stopEna and stopDpdk, and the end of the process.  The static-route     *)
(* programs have the same onExit; their main() returns the result of the   *)
(* launch, not 0, and "exit0" is that return too.                          *)
(*                                                                         *)
(* DPDK is the environment.  Each of its calls the code checks may fail,   *)
(* and it is here as the resources it hands out: the EAL, the device, the  *)
(* memzone, the mempools and the flow rules.  'faults' records a use DPDK  *)
(* or C++ leave undefined; the model then goes on as if nothing happened.  *)
(***************************************************************************)
EXTENDS Integers, Sequences, FiniteSets

CONSTANTS
  MaxQueues,  \* bound on the lcores of one direction
  Checks      \* statistics calls of onExit, each followed by an error path

ASSUME MaxQueuesAssumption == MaxQueues \in Nat
ASSUME ChecksAssumption == Checks \in Nat

\* Queues 1 .. rx are RXQs, rx + 1 .. rx + tx are TXQs.  'flows' is the size of
\* staticUdpDestPortFlowControlQueue, 'asserts' tells the debug build, which gets
\* past the reading of the environment only with RX on (AssertRxqs of EnaConfig).
ConfigType ==
  {c \in [rx      : 0 .. MaxQueues,
          tx      : 0 .. MaxQueues,
          flows   : 0 .. MaxQueues,
          policy  : {"PER_QUEUE", "SHARED", "OTHER"},
          asserts : BOOLEAN] :
     c.flows \in {0, c.rx} /\ (c.asserts => c.rx > 0)}

Null   == -1
Shared == 0

\* A pool is named by the queue it was created for, or Shared.
PoolId == 0 .. 2 * MaxQueues

VARIABLES
  config,    \* constant
  step,      \* where main() is
  index,     \* the queue or rule of the loop main() is in; the check of onExit
  eal,       \* "off", "on", "cleaned"
  dev,       \* "idle", "configured", "started", "stopped", "closed"
  memzone,   \* "none", "reserved", "freed"
  pools,     \* mempools that exist
  mempool,   \* the 'mempool' attribute of each RXQ and TXQ
  nicRules,  \* flow rules the NIC applies: <<queue, which of the two>>
  rule,      \* the local vector of createStaticUdpDestPortFlowControl
  flowRule,  \* Config::flowRule
  failed,    \* kinds of DPDK calls that failed after startEna
  faults     \* undefined behaviour met

startVars == <<mempool, rule, flowRule>>
dpdkVars  == <<eal, dev, memzone, pools, nicRules>>
vars == <<config, step, index, startVars, dpdkVars, failed, faults>>

Queues == 1 .. (config.rx + config.tx)
RuleId == (1 .. MaxQueues) \X {1, 2}

StartSteps == {"eal", "device", "configure", "memzone", "pools", "queues",
               "devStart", "flows"}
StopSteps  == {"destroyFlows", "stopDevice", "freePools", "freeMemzone",
               "closeDevice", "stopDpdk"}

TypeOK ==
  /\ config \in ConfigType
  /\ step \in StartSteps \union StopSteps
               \union {"launch", "wait", "onExit", "exit0", "exit1", "abort"}
  /\ index \in 1 .. (2 * MaxQueues + Checks + 2)
  /\ eal \in {"off", "on", "cleaned"}
  /\ dev \in {"idle", "configured", "started", "stopped", "closed"}
  /\ memzone \in {"none", "reserved", "freed"}
  /\ pools \subseteq PoolId
  /\ mempool \in [Queues -> PoolId \union {Null}]
  /\ nicRules \subseteq RuleId
  /\ rule \in Seq(RuleId) /\ flowRule \in Seq(RuleId)
  /\ failed \subseteq {"launch", "stats", "destroy", "stop", "memzone", "close",
                       "cleanup"}
  /\ faults \subseteq {"poolFreedTwice", "ruleDestroyedTwice", "useAfterCleanup",
                       "outOfBounds", "badXstats"}

Init ==
  /\ config \in ConfigType
  /\ step = "eal" /\ index = 1
  /\ eal = "off" /\ dev = "idle" /\ memzone = "none"
  /\ pools = {} /\ nicRules = {}
  /\ mempool = [q \in Queues |-> Null]
  /\ rule = <<>> /\ flowRule = <<>>
  /\ failed = {} /\ faults = {}

-----------------------------------------------------------------------------
\* Definitions whose name starts with Mutant are wrong forms of the one that
\* follows them, for the mutation runs; the specification uses none of them.

\* ----- startEna -----

\* Any check or DPDK call of startEna fails: startEna returns, main() logs and
\* returns 1.  Nothing acquired so far is given back.
StartFails ==
  /\ step \in StartSteps \ {"flows"}
  /\ step' = "exit1"
  /\ UNCHANGED <<config, index, startVars, dpdkVars, failed, faults>>

EalInit ==
  /\ step = "eal"
  /\ eal' = "on"
  /\ step' = "device"
  /\ UNCHANGED <<config, index, startVars, dev, memzone, pools, nicRules,
                 failed, faults>>

\* The port, PCI id, queue count and link checks.
CheckDevice ==
  /\ step = "device"
  /\ step' = "configure"
  /\ UNCHANGED <<config, index, startVars, dpdkVars, failed, faults>>

\* rte_eth_dev_configure succeeds; the descriptor and MAC calls that follow
\* may still fail, which is StartFails in the next step.
Configure ==
  /\ step = "configure"
  /\ dev' = "configured"
  /\ step' = "memzone"
  /\ UNCHANGED <<config, index, startVars, eal, memzone, pools, nicRules,
                 failed, faults>>

ReserveMemzone ==
  /\ step = "memzone"
  /\ memzone' = "reserved"
  /\ step' = "pools" /\ index' = 1
  /\ UNCHANGED <<config, startVars, eal, dev, pools, nicRules, failed, faults>>

\* PER_QUEUE: one iteration of the RXQ loop, then of the TXQ loop.
CreateQueuePool ==
  /\ step = "pools" /\ config.policy = "PER_QUEUE" /\ index \in Queues
  /\ pools' = pools \union {index}
  /\ mempool' = [mempool EXCEPT ![index] = index]
  /\ index' = index + 1
  /\ UNCHANGED <<config, step, rule, flowRule, eal, dev, memzone, nicRules,
                 failed, faults>>

QueuePoolsDone ==
  /\ step = "pools" /\ config.policy = "PER_QUEUE" /\ index \notin Queues
  /\ step' = "queues"
  /\ UNCHANGED <<config, index, startVars, dpdkVars, failed, faults>>

MutantCreateSharedPoolRxOnly ==
  /\ step = "pools" /\ config.policy # "PER_QUEUE"
  /\ pools' = pools \union {Shared}
  /\ mempool' = [q \in 1 .. config.rx |-> Shared]
  /\ step' = "queues"
  /\ UNCHANGED <<config, index, rule, flowRule, eal, dev, memzone, nicRules,
                 failed, faults>>

\* Any other policy: one pool, installed in every RXQ and TXQ.
CreateSharedPool ==
  /\ step = "pools" /\ config.policy # "PER_QUEUE"
  /\ pools' = pools \union {Shared}
  /\ mempool' = [q \in Queues |-> Shared]
  /\ step' = "queues"
  /\ UNCHANGED <<config, index, rule, flowRule, eal, dev, memzone, nicRules,
                 failed, faults>>

\* rte_eth_rx_queue_setup and rte_eth_tx_queue_setup of every queue; one that
\* fails is StartFails, and leaves nothing else behind than the pools.
SetupQueues ==
  /\ step = "queues"
  /\ step' = "devStart"
  /\ UNCHANGED <<config, index, startVars, dpdkVars, failed, faults>>

StartDevice ==
  /\ step = "devStart"
  /\ dev' = "started"
  /\ step' = "flows" /\ index' = 1
  /\ UNCHANGED <<config, startVars, eal, memzone, pools, nicRules, failed, faults>>

\* The debug build asserts that there is a rule to install.
AssertFlows ==
  /\ step = "flows" /\ config.asserts /\ config.flows = 0
  /\ step' = "abort"
  /\ UNCHANGED <<config, index, startVars, dpdkVars, failed, faults>>

\* One iteration: rte_flow_create twice.  A first call that fails loses the
\* rules of the earlier iterations with the local vector; the result of the
\* second one, which may be null, is pushed as it is.
CreateRule ==
  /\ step = "flows" /\ index \in 1 .. config.flows
  /\ \E made \in {{<<index, 1>>}, {<<index, 1>>, <<index, 2>>}} :
       /\ nicRules' = nicRules \union made
       /\ rule' = rule \o (IF <<index, 2>> \in made
                             THEN <<<<index, 1>>, <<index, 2>>>>
                             ELSE <<<<index, 1>>>>)
  /\ index' = index + 1
  /\ UNCHANGED <<config, step, mempool, flowRule, eal, dev, memzone, pools,
                 failed, faults>>

CreateRuleFails ==
  /\ step = "flows" /\ index \in 1 .. config.flows
  /\ rule' = <<>>
  /\ step' = "exit1"
  /\ UNCHANGED <<config, index, mempool, flowRule, dpdkVars, failed, faults>>

StartReturns ==
  /\ step = "flows" /\ index > config.flows
  /\ ~(config.asserts /\ config.flows = 0)
  /\ flowRule' = rule /\ rule' = flowRule
  /\ step' = "launch"
  /\ UNCHANGED <<config, index, mempool, dpdkVars, failed, faults>>

\* ----- main() and onExit -----

Launch ==
  /\ step = "launch"
  /\ \/ step' = "wait" /\ UNCHANGED failed
     \/ step' = "onExit" /\ failed' = failed \union {"launch"}
  /\ index' = 1
  /\ UNCHANGED <<config, startVars, dpdkVars, faults>>

WorkersDone ==
  /\ step = "wait"
  /\ step' = "onExit"
  /\ UNCHANGED <<config, index, startVars, dpdkVars, failed, faults>>

AfterCleanup == IF eal = "cleaned" \/ dev = "closed" THEN {"useAfterCleanup"} ELSE {}

CheckPasses ==
  /\ step = "onExit" /\ index <= Checks
  /\ index' = index + 1
  /\ faults' = faults \union AfterCleanup
  /\ UNCHANGED <<config, step, startVars, dpdkVars, failed>>

MutantCheckFailsAgain ==
  /\ step = "onExit" /\ index <= Checks
  /\ step' = "destroyFlows"
  /\ failed' = failed \union {"stats"}
  /\ faults' = faults \union AfterCleanup
  /\ UNCHANGED <<config, index, startVars, dpdkVars>>

\* A failed statistics call runs internalExit and onExit goes on with the next
\* one.  From the second on, the array that is null or was freed is read again.
CheckFails ==
  /\ step = "onExit" /\ index <= Checks
  /\ step' = "destroyFlows" /\ index' = index + 1
  /\ failed' = failed \union {"stats"}
  /\ faults' = faults \union AfterCleanup
                      \union (IF index >= 2 THEN {"badXstats"} ELSE {})
  /\ UNCHANGED <<config, startVars, dpdkVars>>

\* internalExit at the end of onExit; index tells it is the last.
ChecksDone ==
  /\ step = "onExit" /\ index = Checks + 1
  /\ step' = "destroyFlows" /\ index' = index + 1
  /\ UNCHANGED <<config, startVars, dpdkVars, failed, faults>>

\* ----- stopEna -----

Handles == {flowRule[i] : i \in DOMAIN flowRule}

\* The NIC refuses to destroy the rules of 'kept': they stay.
Destroy(rules, kept) ==
  /\ nicRules' = (nicRules \ rules) \union kept
  /\ failed' = IF kept = {} THEN failed ELSE failed \union {"destroy"}

MutantDestroyFlowsFirstOnly ==
  /\ step = "destroyFlows"
  /\ LET first == {r \in Handles : r[2] = 1}
     IN  \E kept \in SUBSET (first \intersect nicRules) : Destroy(first, kept)
  /\ faults' = faults \union AfterCleanup
  /\ step' = "stopDevice"
  /\ UNCHANGED <<config, index, startVars, eal, dev, memzone, pools>>

\* rte_flow_destroy of every rule of flowRule, which keeps its handles, and then
\* the stop of the queues.  The results are not looked at: stopEna goes on with
\* the rules that are left.
DestroyFlows ==
  /\ step = "destroyFlows"
  /\ \E kept \in SUBSET (Handles \intersect nicRules) : Destroy(Handles, kept)
  /\ faults' = faults \union AfterCleanup
                      \union (IF Handles \subseteq nicRules
                                THEN {} ELSE {"ruleDestroyedTwice"})
  /\ step' = "stopDevice"
  /\ UNCHANGED <<config, index, startVars, eal, dev, memzone, pools>>

MutantStopDeviceGoesOn ==
  /\ step = "stopDevice"
  /\ faults' = faults \union AfterCleanup
  /\ \/ dev' = "stopped" /\ UNCHANGED failed
     \/ failed' = failed \union {"stop"} /\ UNCHANGED dev
  /\ step' = "freePools"
  /\ UNCHANGED <<config, index, startVars, eal, memzone, pools, nicRules>>

\* A device that does not stop ends stopEna; internalExit goes on.
StopDevice ==
  /\ step = "stopDevice"
  /\ faults' = faults \union AfterCleanup
  /\ \/ dev' = "stopped" /\ step' = "freePools" /\ UNCHANGED failed
     \/ step' = "stopDpdk" /\ failed' = failed \union {"stop"} /\ UNCHANGED dev
  /\ UNCHANGED <<config, index, startVars, eal, memzone, pools, nicRules>>

MutantFreePoolsRxOnly ==
  /\ step = "freePools" /\ config.policy # "SHARED"
  /\ pools' = pools \ {mempool[q] : q \in 1 .. config.rx}
  /\ step' = "freeMemzone"
  /\ UNCHANGED <<config, index, startVars, eal, dev, memzone, nicRules, failed,
                 faults>>

MutantFreePoolsRxTwice ==
  /\ step = "freePools" /\ config.policy # "SHARED"
  /\ pools' = pools \ {mempool[q] : q \in 1 .. config.rx}
  /\ faults' = faults \union
       (IF config.rx > 0 THEN {"poolFreedTwice"} ELSE {})
  /\ step' = "freeMemzone"
  /\ UNCHANGED <<config, index, startVars, eal, dev, memzone, nicRules, failed>>

\* Not SHARED: the pool of each RXQ, then of each TXQ.
FreePools ==
  /\ step = "freePools" /\ config.policy # "SHARED"
  /\ pools' = pools \ {mempool[q] : q \in Queues}
  /\ faults' = faults \union
       (IF \/ \E q \in Queues : mempool[q] \notin pools
           \/ \E p, q \in Queues : p # q /\ mempool[p] = mempool[q]
          THEN {"poolFreedTwice"} ELSE {})
  /\ step' = "freeMemzone"
  /\ UNCHANGED <<config, index, startVars, eal, dev, memzone, nicRules, failed>>

\* SHARED: both loops look for the pool of a queue and find it in a variable of
\* their own, so that 'pool' is still null where it is to be freed.  The second
\* loop counts RXQs and reads TXQs.
FreeSharedPool ==
  /\ step = "freePools" /\ config.policy = "SHARED"
  /\ LET pool == Null
     IN  pools' = IF pool = Null THEN pools ELSE pools \ {pool}
  /\ faults' = faults \union
       (IF config.rx > 0 /\ config.tx = 0 THEN {"outOfBounds"} ELSE {})
  /\ step' = "freeMemzone"
  /\ UNCHANGED <<config, index, startVars, eal, dev, memzone, nicRules, failed>>

FreeMemzone ==
  /\ step = "freeMemzone"
  /\ \/ memzone' = "freed" /\ step' = "closeDevice" /\ UNCHANGED failed
     \/ step' = "stopDpdk" /\ failed' = failed \union {"memzone"}
        /\ UNCHANGED memzone
  /\ faults' = faults \union
       (IF memzone = "freed" THEN {"useAfterCleanup"} ELSE {})
  /\ UNCHANGED <<config, index, startVars, eal, dev, pools, nicRules>>

\* The result of rte_eth_dev_close is not looked at either.
CloseDevice ==
  /\ step = "closeDevice"
  /\ \/ dev' = "closed" /\ UNCHANGED failed
     \/ failed' = failed \union {"close"} /\ UNCHANGED dev
  /\ step' = "stopDpdk"
  /\ UNCHANGED <<config, index, startVars, eal, memzone, pools, nicRules, faults>>

\* stopDpdk, the end of internalExit: back to onExit or out of main().
StopDpdk ==
  /\ step = "stopDpdk"
  /\ faults' = faults \union (IF eal = "cleaned" THEN {"useAfterCleanup"} ELSE {})
  /\ \/ eal' = "cleaned" /\ UNCHANGED failed
     \/ failed' = failed \union {"cleanup"} /\ UNCHANGED eal
  /\ step' = IF index = Checks + 2 THEN "exit0" ELSE "onExit"
  /\ UNCHANGED <<config, index, startVars, dev, memzone, pools, nicRules>>

StartEna ==
  \/ EalInit \/ CheckDevice \/ Configure \/ ReserveMemzone
  \/ CreateQueuePool \/ QueuePoolsDone \/ CreateSharedPool
  \/ SetupQueues \/ StartDevice
  \/ AssertFlows \/ CreateRule \/ CreateRuleFails \/ StartReturns
  \/ StartFails

StopEna ==
  \/ DestroyFlows \/ StopDevice \/ FreePools \/ FreeSharedPool
  \/ FreeMemzone \/ CloseDevice

Next ==
  \/ StartEna
  \/ Launch \/ WorkersDone
  \/ CheckPasses \/ CheckFails \/ ChecksDone
  \/ StopEna \/ StopDpdk

\* main() runs on; the lcores' functions return (see the README).
Spec == Init /\ [][Next]_vars /\ WF_vars(Next)

-----------------------------------------------------------------------------
\* A started device can write into the mbufs of any queue at any time: while
\* it runs, the memzone is held and the pool of each queue exists.  stopEna
\* frees them, in whatever order its calls fail, only after the device stopped.
BackedWhileStarted ==
  dev = "started" =>
    /\ memzone = "reserved"
    /\ \A q \in Queues : mempool[q] \in pools

\* A flow rule outlives the running device only if the NIC refused to destroy
\* it, and then its handle is not lost: the next pass through stopEna tries it
\* again.  The rules of a start that failed half-way end with the process.
RulesOnlyWhileStarted ==
  nicRules # {} => \/ dev = "started"
                   \/ "destroy" \in failed /\ nicRules \subseteq Handles

\* Undefined behaviour needs one of three known causes: a pool policy that is
\* neither PER_QUEUE nor SHARED, a failed statistics call in onExit, or SHARED
\* with RX on and TX off.  Failing destroy, stop, memzone, close and cleanup
\* calls cause none.
FaultsHaveKnownCause ==
  faults # {} => \/ config.policy = "OTHER"
                 \/ "stats" \in failed
                 \/ config.policy = "SHARED" /\ config.tx = 0

\* With PER_QUEUE pools, a run gives everything back unless a call of stopEna or
\* stopDpdk fails, and one whose failure they ignore costs no more than itself:
\* a refused rule, or the device that does not close.
EverythingGivenBack ==
  step = "exit0" /\ config.policy = "PER_QUEUE"
    /\ failed \subseteq {"launch", "stats", "destroy", "close"}
    => /\ pools = {}
       /\ nicRules = {} \/ "destroy" \in failed
       /\ dev = "closed" \/ "close" \in failed
       /\ memzone = "freed" /\ eal = "cleaned"

\* The process ends, however many calls fail on the way out.
Exits == <>(step \in {"exit0", "exit1", "abort"})

-----------------------------------------------------------------------------
\* A claim of the code that it does not keep.

\* "Free mempool shared by all queues": after a stop without failures no queue's
\* pool exists.  With RX and TX both on, so that each loop has queues to look at
\* and none reads past the end.
SharedPoolIsFreed ==
  /\ step = "exit0" /\ config.policy = "SHARED" /\ failed = {}
  /\ config.rx > 0 /\ config.tx > 0
  => \A q \in Queues : mempool[q] \notin pools
=============================================================================
