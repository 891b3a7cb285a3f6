-------------------------- MODULE MCLcoreAssignment --------------------------
(***************************************************************************)
(* Three VCPUs, up to three threads per direction, every policy pair and   *)
(* every pair of candidate lists; one VCPU may be soft-disabled or on the  *)
(* other NUMA node.  startEna never leaves the TX thread count different   *)
(* from the TX queue count (EnaConfig), and leaves both 0 for OFF.         *)
(***************************************************************************)
EXTENDS LcoreAssignment

MCNumVcpu == 3

CONSTANTS MaxThreads, RxQueueCounts

\* All three VCPUs usable, or VCPU 1 disabled, or VCPU 2 on the other node.
Hosts == {<<0 .. 2, 0 .. 2>>, <<{0, 2}, 0 .. 2>>, <<0 .. 2, {0, 1}>>}

Off == [policy |-> "OFF", threads |-> 0, queues |-> 0, candidates |-> 0 .. 2]

InUse(threads, queues) ==
  [policy     : {"DISTINCT", "MULTI", "OTHER"},
   threads    : threads,
   queues     : queues,
   candidates : SUBSET (0 .. 2)]

RxSettings == InUse(1 .. MaxThreads, RxQueueCounts) \union {Off}

TxSettings ==
  {s \in InUse(1 .. MaxThreads, 1 .. MaxThreads) : s.threads = s.queues}
    \union {Off}

PerDirection(rx, tx) == [d \in {"RX", "TX"} |-> IF d = "RX" THEN rx ELSE tx]

MCConfigs ==
  {[softEnabled |-> h[1], onNicNode |-> h[2],
    candidates  |-> PerDirection(rx.candidates, tx.candidates),
    policy      |-> PerDirection(rx.policy, tx.policy),
    threads     |-> PerDirection(rx.threads, tx.threads),
    queues      |-> PerDirection(rx.queues, tx.queues)] :
      h \in Hosts, rx \in RxSettings, tx \in TxSettings}
=============================================================================
