--------------------------- MODULE LcoreAssignment ---------------------------
(***************************************************************************)
(* Dpdk::Init::makeLcoreAssignment: pins one lcore per RX queue thread and *)
(* one per TX queue thread on the VCPUs of the host.  Both loops share the *)
(* cursor 'cpu', the pass number 'currPass' and the per-VCPU counters; the *)
(* TX loop starts wherever the RX loop stopped.                            *)
(*                                                                         *)
(* One step visits one VCPU: the body of the inner for loop followed by    *)
(* the wrap-around test.  The configuration is chosen in the initial state *)
(* and never changes, so one run sweeps a set of them.                     *)
(***************************************************************************)
EXTENDS Integers, Sequences, FiniteSets

CONSTANTS
  NumVcpu,  \* VCPUs of the host, config->vcpu().size()
  Configs   \* the configurations to start from

Vcpu   == 0 .. (NumVcpu - 1)
Dir    == {"RX", "TX"}

\* "OTHER" is any other text: startEna accepts it (see EnaConfig).
Policy == {"DISTINCT", "MULTI", "OFF", "OTHER"}

\* What makeLcoreAssignment reads of Dpdk::Config.  A VCPU is reduced to
\* its membership in 'softEnabled' and in 'onNicNode' (the VCPUs whose NUMA
\* node is the NIC's).
ConfigType ==
  [softEnabled : SUBSET Vcpu,
   onNicNode   : SUBSET Vcpu,
   candidates  : [Dir -> SUBSET Vcpu],
   policy      : [Dir -> Policy],
   threads     : [Dir -> Nat],
   queues      : [Dir -> Nat]]

ASSUME NumVcpuAssumption == NumVcpu \in Nat \ {0}
ASSUME ConfigsAssumption == Configs \subseteq ConfigType

VARIABLES
  config,           \* the configuration being assigned, constant
  phase,            \* "RX", "TX": the two loops; "Check"; "Done"; "Failed"
  cpu,              \* candidate VCPU
  currPass,         \* 1 or 2 while assigning, 3 once both passes are over
  assignmentCount,  \* lcores pinned on each VCPU
  queue,            \* the RXQ and TXQ vectors, per direction
  lcore             \* the LCORE vector

vars == <<config, phase, cpu, currPass, assignmentCount, queue, lcore>>

Queue == [vcpu : Vcpu, lcore : Nat]
Lcore == [id : Nat, vcpu : Vcpu, role : Dir, queue : Nat]

TypeOK ==
  /\ config \in ConfigType
  /\ phase \in {"RX", "TX", "Check", "Done", "Failed"}
  /\ cpu \in Vcpu
  /\ currPass \in 1 .. 3
  /\ assignmentCount \in [Vcpu -> Nat]
  /\ queue \in [Dir -> Seq(Queue)]
  /\ lcore \in Seq(Lcore)

-----------------------------------------------------------------------------
\* Definitions whose name starts with Mutant are wrong forms of the one that
\* follows them, for the mutation runs; the specification uses none of them.

MutantEligibleAnyNode(d) == config.softEnabled \intersect config.candidates[d]

\* VCPUs neither notAssignable nor notRxAssignable / notTxAssignable.
Eligible(d) ==
  config.softEnabled \intersect config.onNicNode \intersect config.candidates[d]

MutantPendingOneShort(d) ==
  /\ config.policy[d] # "OFF"
  /\ Len(queue[d]) + 1 < config.threads[d]
  /\ Len(queue[d]) < config.queues[d]
  /\ currPass <= 2

\* The condition of the while loop of direction d, and its "unless OFF".
Pending(d) ==
  /\ config.policy[d] # "OFF"
  /\ Len(queue[d]) < config.threads[d]
  /\ Len(queue[d]) < config.queues[d]
  /\ currPass <= 2

MutantAdvanceSamePass ==
  /\ cpu' = IF cpu + 1 = NumVcpu THEN 0 ELSE cpu + 1
  /\ UNCHANGED currPass

\* Move the cursor; past the last VCPU it returns to 0 and a pass is over.
Advance ==
  /\ cpu' = IF cpu + 1 = NumVcpu THEN 0 ELSE cpu + 1
  /\ currPass' = IF cpu + 1 = NumVcpu THEN currPass + 1 ELSE currPass

Init ==
  /\ config \in Configs
  /\ phase = "RX"
  /\ cpu = 0
  /\ currPass = 1
  /\ assignmentCount = [v \in Vcpu |-> 0]
  /\ queue = [d \in Dir |-> <<>>]
  /\ lcore = <<>>

\* 'continue': not assignable, or taken and this is still the first pass.
Skip(d) ==
  /\ phase = d
  /\ Pending(d)
  /\ \/ cpu \notin Eligible(d)
     \/ assignmentCount[cpu] > 0 /\ currPass = 1
  /\ Advance
  /\ UNCHANGED <<config, phase, assignmentCount, queue, lcore>>

MutantMayTakeAnyPolicy(d) == assignmentCount[cpu] = 0 \/ currPass = 2

\* The VCPU may take one more lcore of direction d in this pass.
MayTake(d) ==
  \/ assignmentCount[cpu] = 0
  \/ currPass = 2 /\ config.policy[d] = "MULTI"

\* Record the next queue of direction d and its lcore, both on this VCPU.
Record(d) ==
  /\ queue' = [queue EXCEPT ![d] = Append(@, [vcpu  |-> cpu,
                                              lcore |-> Len(lcore)])]
  /\ lcore' = Append(lcore, [id    |-> Len(lcore), vcpu  |-> cpu,
                             role  |-> d,          queue |-> Len(queue[d])])

MutantAssignRestart(d) ==
  /\ phase = d
  /\ Pending(d)
  /\ cpu \in Eligible(d)
  /\ MayTake(d)
  /\ Record(d)
  /\ assignmentCount' = [assignmentCount EXCEPT ![cpu] = @ + 1]
  /\ cpu' = 0 /\ currPass' = currPass + 1
  /\ UNCHANGED <<config, phase>>

Assign(d) ==
  /\ phase = d
  /\ Pending(d)
  /\ cpu \in Eligible(d)
  /\ MayTake(d)
  /\ Record(d)
  /\ assignmentCount' = [assignmentCount EXCEPT ![cpu] = @ + 1]
  /\ Advance
  /\ UNCHANGED <<config, phase>>

\* A taken VCPU in the second pass and the policy does not allow sharing.
Exhausted(d) ==
  /\ phase = d
  /\ Pending(d)
  /\ cpu \in Eligible(d)
  /\ assignmentCount[cpu] > 0
  /\ currPass = 2
  /\ config.policy[d] # "MULTI"
  /\ phase' = "Failed"
  /\ UNCHANGED <<config, cpu, currPass, assignmentCount, queue, lcore>>

EndLoop(d) ==
  /\ phase = d
  /\ ~Pending(d)
  /\ phase' = IF d = "RX" THEN "TX" ELSE "Check"
  /\ UNCHANGED <<config, cpu, currPass, assignmentCount, queue, lcore>>

MutantSatisfiedBySome(d) == config.policy[d] # "OFF" => queue[d] # <<>>

\* A direction that is not OFF must have got all of its threads.
Satisfied(d) ==
  config.policy[d] # "OFF" => Len(queue[d]) = config.threads[d]

CheckCounts ==
  /\ phase = "Check"
  /\ phase' = IF \A d \in Dir : Satisfied(d) THEN "Done" ELSE "Failed"
  /\ UNCHANGED <<config, cpu, currPass, assignmentCount, queue, lcore>>

Visit(d) == Skip(d) \/ Assign(d) \/ Exhausted(d) \/ EndLoop(d)

Next == (\E d \in Dir : Visit(d)) \/ CheckCounts

\* The caller runs the function to its return.
Spec == Init /\ [][Next]_vars /\ WF_vars(Next)

-----------------------------------------------------------------------------
\* What the rest of the program makes of the assignment.

\* makeDpdkInitParams: the "--lcores" map, VCPU to the lcores pinned on it.
LcoreMap ==
  [v \in {lcore[i].vcpu : i \in DOMAIN lcore} |->
     {lcore[i].id : i \in {j \in DOMAIN lcore : lcore[j].vcpu = v}}]

NoIdentity == [rc |-> "NO_RESOURCE", isRX |-> FALSE, isTX |-> FALSE,
               rxqIndex |-> -1, txqIndex |-> -1]

MutantIdentityFromLcoreId(n) ==
  IF n \notin 0 .. (Len(lcore) - 1)
  THEN NoIdentity
  ELSE LET l == lcore[n + 1]
       IN  [rc       |-> "OK",
            isRX     |-> l.role = "RX",
            isTX     |-> l.role = "TX",
            rxqIndex |-> IF l.role = "RX" THEN n ELSE -1,
            txqIndex |-> IF l.role = "TX" THEN n ELSE -1]

\* Worker::id for a caller whose DPDK lcore id is n.
WorkerId(n) ==
  IF n \notin 0 .. (Len(lcore) - 1)
  THEN NoIdentity
  ELSE LET l == lcore[n + 1]
       IN  [rc       |-> "OK",
            isRX     |-> l.role = "RX",
            isTX     |-> l.role = "TX",
            rxqIndex |-> IF l.role = "RX" THEN l.queue ELSE -1,
            txqIndex |-> IF l.role = "TX" THEN l.queue ELSE -1]

-----------------------------------------------------------------------------
\* Two lcores land on one VCPU only if the policy of the later one is MULTI:
\* pass number, counters and the policy test of both loops must cooperate.
SharingIsMulti ==
  \A i, j \in DOMAIN lcore :
    i < j /\ lcore[i].vcpu = lcore[j].vcpu
      => config.policy[lcore[j].role] = "MULTI"

\* Every lcore runs on a VCPU that is soft enabled, on the NIC's NUMA node
\* and in the candidate list of the lcore's own direction.
PinnedWhereAllowed ==
  \A i \in DOMAIN lcore :
    /\ lcore[i].vcpu \in config.softEnabled
    /\ lcore[i].vcpu \in config.onNicNode
    /\ lcore[i].vcpu \in config.candidates[lcore[i].role]

\* Each queue is served by exactly one lcore: what Worker::id tells lcore n
\* leads back to a queue record naming lcore n, pinned where the "--lcores"
\* map puts it, and every queue is the answer of some lcore.
QueueServedByItsLcore ==
  /\ \A n \in 0 .. (Len(lcore) - 1) :
       LET w == WorkerId(n)
           d == IF w.isRX THEN "RX" ELSE "TX"
           q == IF w.isRX THEN w.rxqIndex ELSE w.txqIndex
       IN  /\ w.rc = "OK"
           /\ q + 1 \in DOMAIN queue[d]
           /\ queue[d][q + 1].lcore = n
           /\ n \in LcoreMap[queue[d][q + 1].vcpu]
  /\ Len(lcore) = Len(queue["RX"]) + Len(queue["TX"])

\* The RX loop refuses a DISTINCT configuration only when it really has
\* fewer eligible VCPUs or queues than threads.
RxDistinctRefusedOnlyIfShort ==
  phase = "Failed" /\ config.policy["RX"] = "DISTINCT"
    /\ Len(queue["RX"]) # config.threads["RX"]
    => \/ config.threads["RX"] > Cardinality(Eligible("RX"))
       \/ config.threads["RX"] > config.queues["RX"]

\* While RX is assigned, a VCPU is doubled up only when every VCPU eligible
\* for RX already runs an lcore.
RxDoublesUpLast ==
  phase = "RX" /\ (\E v \in Vcpu : assignmentCount[v] > 1)
    => \A v \in Eligible("RX") : assignmentCount[v] > 0

\* Success means that each direction in use got all its threads, no more
\* than it has queues, each on a queue of its own.
SuccessIsComplete ==
  phase = "Done" =>
    \A d \in Dir :
      IF config.policy[d] = "OFF" THEN queue[d] = <<>>
      ELSE /\ Len(queue[d]) = config.threads[d]
           /\ config.threads[d] <= config.queues[d]

\* The assignment always returns: the pass number ends both loops.
Terminates == <>(phase \in {"Done", "Failed"})

-----------------------------------------------------------------------------
\* Claims of the documentation that the code does not keep.

\* The error says that no assignable VCPU is left for TX: a DISTINCT request
\* that the free VCPUs could have satisfied is never refused.
TxDistinctRefusedOnlyIfShort ==
  LET free == {v \in Eligible("TX") :
                 \A q \in DOMAIN queue["RX"] : queue["RX"][q].vcpu # v}
  IN  phase = "Failed" /\ Satisfied("RX") /\ config.policy["TX"] = "DISTINCT"
        => config.threads["TX"] > Cardinality(free)
=============================================================================
