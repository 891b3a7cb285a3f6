------------------------ MODULE LcoreAssignmentProofs ------------------------
(***************************************************************************)
(* Proofs about makeLcoreAssignment, for every number of VCPUs and every   *)
(* set of configurations.                                                  *)
(***************************************************************************)
EXTENDS LcoreAssignment, FiniteSetTheorems, TLAPS

USE NumVcpuAssumption, ConfigsAssumption

\* The counters never miss an lcore: a VCPU that runs one has a count.
CountsKeepUp ==
  \A i \in DOMAIN lcore : assignmentCount[lcore[i].vcpu] > 0

\* lcore i and its queue record name each other.
RecordsAgree ==
  /\ \A i \in DOMAIN lcore :
       /\ lcore[i].id = i - 1
       /\ lcore[i].queue + 1 \in DOMAIN queue[lcore[i].role]
       /\ queue[lcore[i].role][lcore[i].queue + 1]
            = [vcpu |-> lcore[i].vcpu, lcore |-> i - 1]
  /\ Len(lcore) = Len(queue["RX"]) + Len(queue["TX"])

\* The inductive invariant.
IInv ==
  /\ TypeOK
  /\ CountsKeepUp
  /\ SharingIsMulti
  /\ PinnedWhereAllowed
  /\ RecordsAgree

-----------------------------------------------------------------------------
\* Moving the cursor stays on the host's VCPUs and ends at most in pass 3.
LEMMA AdvanceType ==
  ASSUME TypeOK, Advance, currPass <= 2
  PROVE  cpu' \in Vcpu /\ currPass' \in 1 .. 3
BY DEF TypeOK, Advance, Vcpu

\* Type correctness: the cursor, the pass number and the two vectors stay in
\* their types whatever the loops do.
THEOREM TypeCorrect == Spec => []TypeOK
<1>1. Init => TypeOK
  BY DEF Init, TypeOK, Vcpu
<1>2. TypeOK /\ [Next]_vars => TypeOK'
  <2> SUFFICES ASSUME TypeOK, [Next]_vars
               PROVE  TypeOK'
    OBVIOUS
  <2>1. ASSUME NEW d \in Dir, Skip(d)
        PROVE  TypeOK'
    BY <2>1, AdvanceType DEF Skip, Pending, TypeOK
  <2>2. ASSUME NEW d \in Dir, Assign(d)
        PROVE  TypeOK'
    <3>1. cpu' \in Vcpu /\ currPass' \in 1 .. 3
      BY <2>2, AdvanceType DEF Assign, Pending
    <3>2. queue' \in [Dir -> Seq(Queue)]
      BY <2>2 DEF Assign, Record, TypeOK, Queue
    <3>3. lcore' \in Seq(Lcore)
      BY <2>2 DEF Assign, Record, TypeOK, Queue, Lcore
    <3>4. assignmentCount' \in [Vcpu -> Nat]
      BY <2>2 DEF Assign, TypeOK
    <3> QED
      BY <2>2, <3>1, <3>2, <3>3, <3>4 DEF Assign, TypeOK
  <2>3. ASSUME NEW d \in Dir, Exhausted(d)
        PROVE  TypeOK'
    BY <2>3 DEF Exhausted, TypeOK
  <2>4. ASSUME NEW d \in Dir, EndLoop(d)
        PROVE  TypeOK'
    BY <2>4 DEF EndLoop, TypeOK
  <2>5. CASE CheckCounts
    BY <2>5 DEF CheckCounts, TypeOK
  <2>6. CASE UNCHANGED vars
    BY <2>6 DEF vars, TypeOK
  <2> QED
    BY <2>1, <2>2, <2>3, <2>4, <2>5, <2>6 DEF Next, Visit
<1> QED
  BY <1>1, <1>2, PTL DEF Spec

-----------------------------------------------------------------------------
\* What Assign appends: the vectors before it are prefixes of those after.
LEMMA AssignAppends ==
  ASSUME TypeOK, NEW d \in Dir, Assign(d)
  PROVE  /\ lcore' = Append(lcore, [id |-> Len(lcore), vcpu |-> cpu,
                                    role |-> d, queue |-> Len(queue[d])])
         /\ lcore \in Seq(Lcore) /\ lcore' \in Seq(Lcore)
         /\ DOMAIN lcore' = 1 .. Len(lcore) + 1
         /\ Len(lcore') = Len(lcore) + 1
         /\ \A i \in 1 .. Len(lcore) : lcore'[i] = lcore[i]
         /\ lcore'[Len(lcore) + 1] = [id |-> Len(lcore), vcpu |-> cpu,
                                      role |-> d, queue |-> Len(queue[d])]
         /\ queue' \in [Dir -> Seq(Queue)]
         /\ Len(queue'[d]) = Len(queue[d]) + 1
         /\ \A q \in 1 .. Len(queue[d]) : queue'[d][q] = queue[d][q]
         /\ queue'[d][Len(queue[d]) + 1] = [vcpu |-> cpu, lcore |-> Len(lcore)]
         /\ \A e \in Dir \ {d} : queue'[e] = queue[e]
<1> DEFINE newLcore == [id |-> Len(lcore), vcpu |-> cpu,
                        role |-> d, queue |-> Len(queue[d])]
           newQueue == [vcpu |-> cpu, lcore |-> Len(lcore)]
<1>0. /\ lcore \in Seq(Lcore) /\ Len(lcore) \in Nat
      /\ queue[d] \in Seq(Queue) /\ Len(queue[d]) \in Nat
      /\ cpu \in Vcpu
  BY DEF TypeOK
<1>1. lcore \in Seq(Lcore) /\ newLcore \in Lcore
  BY <1>0 DEF Lcore
<1>2. queue[d] \in Seq(Queue) /\ newQueue \in Queue
  BY <1>0 DEF Queue
<1>3. lcore' = Append(lcore, newLcore)
  BY DEF Assign, Record
<1>4. queue' = [queue EXCEPT ![d] = Append(queue[d], newQueue)]
  BY DEF Assign, Record
<1>5. queue'[d] = Append(queue[d], newQueue)
  BY <1>4 DEF TypeOK
<1> HIDE DEF newLcore, newQueue
<1>6. /\ lcore' \in Seq(Lcore)
      /\ DOMAIN lcore' = 1 .. Len(lcore) + 1
      /\ Len(lcore') = Len(lcore) + 1
      /\ \A i \in 1 .. Len(lcore) : lcore'[i] = lcore[i]
      /\ lcore'[Len(lcore) + 1] = newLcore
  BY <1>1, <1>3
<1>7. /\ Len(queue'[d]) = Len(queue[d]) + 1
      /\ \A q \in 1 .. Len(queue[d]) : queue'[d][q] = queue[d][q]
      /\ queue'[d][Len(queue[d]) + 1] = newQueue
  BY <1>2, <1>5
<1>8. /\ queue' \in [Dir -> Seq(Queue)]
      /\ \A e \in Dir \ {d} : queue'[e] = queue[e]
  BY <1>2, <1>4 DEF TypeOK
<1> QED
  BY <1>1, <1>3, <1>6, <1>7, <1>8 DEF newLcore, newQueue

\* The lcore Assign adds runs on the cursor's VCPU, for its direction.
LEMMA AppendedLcore ==
  ASSUME TypeOK, NEW d \in Dir, Assign(d), NEW i, i = Len(lcore) + 1
  PROVE  lcore'[i].vcpu = cpu /\ lcore'[i].role = d
<1>1. lcore'[i] = [id |-> Len(lcore), vcpu |-> cpu,
                   role |-> d, queue |-> Len(queue[d])]
  BY AssignAppends
<1> QED
  BY <1>1

\* What the type invariant says of the LCORE vector.
LEMMA LcoreFacts ==
  ASSUME TypeOK
  PROVE  /\ DOMAIN lcore = 1 .. Len(lcore) /\ Len(lcore) \in Nat
         /\ \A i \in 1 .. Len(lcore) :
              /\ lcore[i].vcpu \in Vcpu
              /\ lcore[i].role \in Dir
              /\ lcore[i].queue \in Nat
<1>1. lcore \in Seq(Lcore)
  BY DEF TypeOK
<1>2. DOMAIN lcore = 1 .. Len(lcore) /\ Len(lcore) \in Nat
  BY <1>1
<1>3. ASSUME NEW i \in 1 .. Len(lcore)
      PROVE  lcore[i] \in Lcore
  BY <1>1, <1>2
<1> QED
  BY <1>2, <1>3 DEF Lcore

\* Every other step leaves the vectors, the counters and the configuration.
LEMMA OthersKeep ==
  ASSUME NEW d \in Dir,
         Skip(d) \/ Exhausted(d) \/ EndLoop(d) \/ CheckCounts \/ UNCHANGED vars
  PROVE  UNCHANGED <<config, assignmentCount, queue, lcore>>
BY DEF Skip, Exhausted, EndLoop, CheckCounts, vars

\* Assign preserves each conjunct of the invariant but the type.
LEMMA AssignKeepsCounts ==
  ASSUME IInv, NEW d \in Dir, Assign(d)
  PROVE  CountsKeepUp'
<1>0. TypeOK
  BY DEF IInv
<1>1. /\ assignmentCount \in [Vcpu -> Nat] /\ cpu \in Vcpu
      /\ assignmentCount' = [assignmentCount EXCEPT ![cpu] = assignmentCount[cpu] + 1]
  BY <1>0 DEF TypeOK, Assign
<1>2. \A v \in Vcpu : assignmentCount[v] > 0 => assignmentCount'[v] > 0
  BY <1>1
<1>3. assignmentCount'[cpu] > 0
  BY <1>1
<1>4. SUFFICES ASSUME NEW i \in 1 .. Len(lcore) + 1
               PROVE  assignmentCount'[lcore'[i].vcpu] > 0
  BY <1>0, AssignAppends DEF CountsKeepUp
<1>5. CASE i \in 1 .. Len(lcore)
  <2>1. assignmentCount[lcore[i].vcpu] > 0 /\ lcore[i].vcpu \in Vcpu
    BY <1>0, <1>5, LcoreFacts DEF IInv, CountsKeepUp
  <2>2. lcore'[i] = lcore[i]
    BY <1>0, <1>5, AssignAppends
  <2> QED
    BY <1>2, <2>1, <2>2
<1>6. CASE i = Len(lcore) + 1
  <2>1. lcore'[i].vcpu = cpu
    BY <1>0, <1>6, AppendedLcore
  <2> QED
    BY <1>3, <2>1
<1>7. i \in 1 .. Len(lcore) \/ i = Len(lcore) + 1
  BY <1>0, LcoreFacts
<1> QED
  BY <1>5, <1>6, <1>7

\* A VCPU that already runs an lcore is taken again under MULTI only, so the new
\* lcore may share whatever it shares.
LEMMA AssignKeepsSharing ==
  ASSUME IInv, NEW d \in Dir, Assign(d)
  PROVE  SharingIsMulti'
<1>0. TypeOK
  BY DEF IInv
<1>1. config' = config
  BY DEF Assign
<1>2. assignmentCount[cpu] = 0 \/ config.policy[d] = "MULTI"
  BY DEF Assign, MayTake
<1> SUFFICES ASSUME NEW i \in 1 .. Len(lcore) + 1,
                    NEW j \in 1 .. Len(lcore) + 1, i < j,
                    lcore'[i].vcpu = lcore'[j].vcpu
             PROVE  config.policy[lcore'[j].role] = "MULTI"
  BY <1>0, <1>1, AssignAppends DEF SharingIsMulti
<1>3. /\ i \in 1 .. Len(lcore)
      /\ j \in 1 .. Len(lcore) \/ j = Len(lcore) + 1
      /\ DOMAIN lcore = 1 .. Len(lcore)
  BY <1>0, LcoreFacts
<1>4. lcore'[i] = lcore[i]
  BY <1>0, <1>3, AssignAppends
<1>5. CASE j \in 1 .. Len(lcore)
  <2>1. lcore'[j] = lcore[j]
    BY <1>0, <1>5, AssignAppends
  <2> QED
    BY <1>3, <1>4, <1>5, <2>1 DEF IInv, SharingIsMulti
<1>6. CASE j = Len(lcore) + 1
  <2>1. lcore'[j].vcpu = cpu /\ lcore'[j].role = d
    BY <1>0, <1>6, AppendedLcore
  <2>2. assignmentCount[lcore[i].vcpu] > 0
    BY <1>3 DEF IInv, CountsKeepUp
  <2>3. lcore[i].vcpu = cpu
    BY <1>4, <2>1
  <2>4. assignmentCount[cpu] # 0
    BY <2>2, <2>3
  <2> QED
    BY <1>2, <2>1, <2>4
<1> QED
  BY <1>3, <1>5, <1>6

\* The new lcore is pinned on the eligible VCPU the cursor is on.
LEMMA AssignKeepsPinning ==
  ASSUME IInv, NEW d \in Dir, Assign(d)
  PROVE  PinnedWhereAllowed'
<1>0. TypeOK
  BY DEF IInv
<1>1. config' = config /\ cpu \in Eligible(d)
  BY DEF Assign
<1>2. cpu \in config.softEnabled /\ cpu \in config.onNicNode
        /\ cpu \in config.candidates[d]
  BY <1>1 DEF Eligible
<1> SUFFICES ASSUME NEW i \in 1 .. Len(lcore) + 1
             PROVE  /\ lcore'[i].vcpu \in config.softEnabled
                    /\ lcore'[i].vcpu \in config.onNicNode
                    /\ lcore'[i].vcpu \in config.candidates[lcore'[i].role]
  BY <1>0, <1>1, AssignAppends DEF PinnedWhereAllowed
<1>3. CASE i \in 1 .. Len(lcore)
  <2>1. lcore'[i] = lcore[i] /\ i \in DOMAIN lcore
    BY <1>0, <1>3, AssignAppends, LcoreFacts
  <2> QED
    BY <2>1 DEF IInv, PinnedWhereAllowed
<1>4. CASE i = Len(lcore) + 1
  <2>1. lcore'[i].vcpu = cpu /\ lcore'[i].role = d
    BY <1>0, <1>4, AppendedLcore
  <2> QED
    BY <1>2, <2>1
<1>5. i \in 1 .. Len(lcore) \/ i = Len(lcore) + 1
  BY <1>0, LcoreFacts
<1> QED
  BY <1>3, <1>4, <1>5

\* The new queue record and the new LCORE entry name each other; the entries
\* already there keep their partners.
LEMMA AssignKeepsRecords ==
  ASSUME IInv, NEW d \in Dir, Assign(d)
  PROVE  RecordsAgree'
<1>0. TypeOK
  BY DEF IInv
<1>1. /\ DOMAIN lcore = 1 .. Len(lcore) /\ Len(lcore) \in Nat
      /\ \A e \in Dir : DOMAIN queue[e] = 1 .. Len(queue[e]) /\ Len(queue[e]) \in Nat
      /\ \A i \in DOMAIN lcore : lcore[i].role \in Dir /\ lcore[i].queue \in Nat
  BY <1>0, LcoreFacts DEF TypeOK
<1>2. \A e \in Dir : DOMAIN queue'[e] = 1 .. Len(queue'[e])
  <2>1. queue' \in [Dir -> Seq(Queue)]
    BY <1>0, AssignAppends
  <2> QED
    BY <2>1
<1>3. ASSUME NEW i \in 1 .. Len(lcore)
      PROVE  /\ lcore'[i].id = i - 1
             /\ lcore'[i].queue + 1 \in DOMAIN queue'[lcore'[i].role]
             /\ queue'[lcore'[i].role][lcore'[i].queue + 1]
                  = [vcpu |-> lcore'[i].vcpu, lcore |-> i - 1]
  <2> DEFINE e == lcore[i].role
             k == lcore[i].queue + 1
  <2>1. lcore'[i] = lcore[i] /\ i \in DOMAIN lcore
    BY <1>0, <1>1, AssignAppends
  <2>2. /\ lcore[i].id = i - 1
        /\ k \in DOMAIN queue[e]
        /\ queue[e][k] = [vcpu |-> lcore[i].vcpu, lcore |-> i - 1]
    BY <2>1 DEF IInv, RecordsAgree
  <2>3. e \in Dir
    BY <1>1, <2>1
  <2> HIDE DEF e, k
  <2>4. k \in DOMAIN queue'[e] /\ queue'[e][k] = queue[e][k]
    <3>1. CASE e = d
      <4>1. k \in 1 .. Len(queue[d])
        BY <1>1, <2>2, <2>3, <3>1
      <4>2. queue'[d][k] = queue[d][k] /\ Len(queue'[d]) = Len(queue[d]) + 1
        BY <1>0, <4>1, AssignAppends
      <4> QED
        BY <1>1, <1>2, <3>1, <4>1, <4>2
    <3>2. CASE e # d
      <4>1. queue'[e] = queue[e]
        <5>1. \A f \in Dir \ {d} : queue'[f] = queue[f]
          BY <1>0, AssignAppends
        <5> QED BY <2>3, <3>2, <5>1
      <4> QED
        BY <2>2, <4>1
    <3> QED
      BY <3>1, <3>2
  <2> QED
    BY <2>1, <2>2, <2>4 DEF e, k
<1>4. ASSUME NEW i, i = Len(lcore) + 1
      PROVE  /\ lcore'[i].id = i - 1
             /\ lcore'[i].queue + 1 \in DOMAIN queue'[lcore'[i].role]
             /\ queue'[lcore'[i].role][lcore'[i].queue + 1]
                  = [vcpu |-> lcore'[i].vcpu, lcore |-> i - 1]
  <2>1. lcore'[i] = [id |-> Len(lcore), vcpu |-> cpu,
                     role |-> d, queue |-> Len(queue[d])]
    BY <1>0, <1>4, AssignAppends
  <2>2. i - 1 = Len(lcore)
    BY <1>1, <1>4
  <2>3. Len(queue[d]) + 1 \in DOMAIN queue'[d]
    <3>1. Len(queue'[d]) = Len(queue[d]) + 1
      BY <1>0, AssignAppends
    <3> QED
      BY <1>1, <1>2, <3>1
  <2>4. queue'[d][Len(queue[d]) + 1] = [vcpu |-> cpu, lcore |-> Len(lcore)]
    BY <1>0, AssignAppends
  <2> QED
    BY <2>1, <2>2, <2>3, <2>4
<1>5. Len(lcore') = Len(queue'["RX"]) + Len(queue'["TX"])
  <2>1. /\ Len(lcore') = Len(lcore) + 1
        /\ Len(queue'[d]) = Len(queue[d]) + 1
        /\ \A e \in Dir \ {d} : queue'[e] = queue[e]
    BY <1>0, AssignAppends
  <2>2. Len(lcore) = Len(queue["RX"]) + Len(queue["TX"])
    BY DEF IInv, RecordsAgree
  <2> "RX" \in Dir /\ "TX" \in Dir
    BY DEF Dir
  <2>0. Len(queue["RX"]) \in Nat /\ Len(queue["TX"]) \in Nat
    BY <1>1
  <2> DEFINE a == Len(lcore)
             b == Len(queue["RX"])
             c == Len(queue["TX"])
  <2>5. a = b + c /\ b \in Nat /\ c \in Nat
    BY <2>0, <2>2
  <2> HIDE DEF a, b, c
  <2>6. a + 1 = (b + 1) + c /\ a + 1 = b + (c + 1)
    BY <2>5
  <2>3. CASE d = "RX"
    <3>1. Len(queue'["RX"]) = Len(queue["RX"]) + 1
      BY <2>1, <2>3
    <3>2. Len(queue'["TX"]) = Len(queue["TX"])
      BY <2>1, <2>3
    <3> QED
      BY <2>1, <2>6, <3>1, <3>2 DEF a, b, c
  <2>4. CASE d = "TX"
    <3>1. Len(queue'["TX"]) = Len(queue["TX"]) + 1
      BY <2>1, <2>4
    <3>2. Len(queue'["RX"]) = Len(queue["RX"])
      BY <2>1, <2>4
    <3> QED
      BY <2>1, <2>6, <3>1, <3>2 DEF a, b, c
  <2> QED
    BY <2>3, <2>4 DEF Dir
<1>6. DOMAIN lcore' = 1 .. Len(lcore) + 1
  BY <1>0, AssignAppends
<1>7. \A i \in DOMAIN lcore' : i \in 1 .. Len(lcore) \/ i = Len(lcore) + 1
  BY <1>1, <1>6
<1> QED
  BY <1>3, <1>4, <1>5, <1>7 DEF RecordsAgree

\* The invariant holds in every reachable state.
THEOREM Invariant == Spec => []IInv
<1>1. Init => CountsKeepUp /\ SharingIsMulti /\ PinnedWhereAllowed /\ RecordsAgree
  BY DEF Init, CountsKeepUp, SharingIsMulti, PinnedWhereAllowed, RecordsAgree, Dir
<1>2. IInv /\ TypeOK' /\ [Next]_vars => IInv'
  <2> SUFFICES ASSUME IInv, TypeOK', [Next]_vars
               PROVE  IInv'
    OBVIOUS
  <2>1. ASSUME NEW d \in Dir, Assign(d)
        PROVE  IInv'
    BY <2>1, AssignKeepsCounts, AssignKeepsSharing, AssignKeepsPinning,
       AssignKeepsRecords DEF IInv
  <2>2. ASSUME NEW d \in Dir,
               Skip(d) \/ Exhausted(d) \/ EndLoop(d) \/ CheckCounts
                 \/ UNCHANGED vars
        PROVE  IInv'
    <3>1. UNCHANGED <<config, assignmentCount, queue, lcore>>
      BY <2>2, OthersKeep
    <3> QED
      BY <3>1 DEF IInv, CountsKeepUp, SharingIsMulti, PinnedWhereAllowed,
         RecordsAgree
  <2>3. "RX" \in Dir
    BY DEF Dir
  <2> QED
    BY <2>1, <2>2, <2>3 DEF Next, Visit
<1> QED
  BY <1>1, <1>2, TypeCorrect, PTL DEF Spec, IInv

-----------------------------------------------------------------------------
\* Only a MULTI lcore is ever put on a VCPU that already runs one.
THEOREM SharingCorrect == Spec => []SharingIsMulti
BY Invariant, PTL DEF IInv

\* Every lcore is pinned on an enabled VCPU of the NIC's NUMA node that is in
\* the candidate list of its direction.
THEOREM PinningCorrect == Spec => []PinnedWhereAllowed
BY Invariant, PTL DEF IInv

\* Worker::id leads each lcore to the one queue record that names it, on the
\* VCPU the "--lcores" map pins it on.
THEOREM IdentityCorrect == Spec => []QueueServedByItsLcore
<1>1. IInv => QueueServedByItsLcore
  <2> SUFFICES ASSUME IInv, NEW n \in 0 .. (Len(lcore) - 1)
               PROVE  LET w == WorkerId(n)
                          d == IF w.isRX THEN "RX" ELSE "TX"
                          q == IF w.isRX THEN w.rxqIndex ELSE w.txqIndex
                      IN  /\ w.rc = "OK"
                          /\ q + 1 \in DOMAIN queue[d]
                          /\ queue[d][q + 1].lcore = n
                          /\ n \in LcoreMap[queue[d][q + 1].vcpu]
    BY DEF IInv, RecordsAgree, QueueServedByItsLcore
  <2>1. n + 1 \in DOMAIN lcore /\ n \in Int
    BY DEF IInv, TypeOK
  <2>2. PICK l \in Lcore : l = lcore[n + 1]
    BY <2>1 DEF IInv, TypeOK
  <2>3. l.id = n /\ l.queue + 1 \in DOMAIN queue[l.role]
    <3>1. /\ lcore[n + 1].id = (n + 1) - 1
          /\ lcore[n + 1].queue + 1 \in DOMAIN queue[lcore[n + 1].role]
      BY <2>1 DEF IInv, RecordsAgree
    <3>2. (n + 1) - 1 = n
      BY <2>1
    <3> QED
      BY <2>2, <3>1, <3>2
  <2>4. queue[l.role][l.queue + 1] = [vcpu |-> l.vcpu, lcore |-> n]
    <3>1. queue[lcore[n + 1].role][lcore[n + 1].queue + 1]
            = [vcpu |-> lcore[n + 1].vcpu, lcore |-> (n + 1) - 1]
      BY <2>1 DEF IInv, RecordsAgree
    <3>2. (n + 1) - 1 = n
      BY <2>1
    <3> QED
      BY <2>2, <3>1, <3>2
  <2>5. n \in LcoreMap[l.vcpu]
    BY <2>1, <2>2, <2>3 DEF LcoreMap
  <2>6. /\ l.role = "RX" => WorkerId(n) = [rc |-> "OK", isRX |-> TRUE,
              isTX |-> FALSE, rxqIndex |-> l.queue, txqIndex |-> -1]
        /\ l.role = "TX" => WorkerId(n) = [rc |-> "OK", isRX |-> FALSE,
              isTX |-> TRUE, rxqIndex |-> -1, txqIndex |-> l.queue]
    BY <2>2 DEF WorkerId
  <2>7. l.role = "RX" \/ l.role = "TX"
    BY DEF Lcore, Dir
  <2> DEFINE w == WorkerId(n)
             d == IF w.isRX THEN "RX" ELSE "TX"
             q == IF w.isRX THEN w.rxqIndex ELSE w.txqIndex
  <2>8. w.rc = "OK" /\ d = l.role /\ q = l.queue
    <3>1. CASE l.role = "RX"
      <4>1. w.rc = "OK" /\ w.isRX = TRUE /\ w.rxqIndex = l.queue
        BY <2>6, <3>1
      <4> QED
        BY <3>1, <4>1
    <3>2. CASE l.role = "TX"
      <4>1. w.rc = "OK" /\ w.isRX = FALSE /\ w.txqIndex = l.queue
        BY <2>6, <3>2
      <4> QED
        BY <3>2, <4>1
    <3> QED
      BY <2>7, <3>1, <3>2
  <2> HIDE DEF w, d, q
  <2>9. /\ w.rc = "OK"
        /\ q + 1 \in DOMAIN queue[d]
        /\ queue[d][q + 1].lcore = n
        /\ n \in LcoreMap[queue[d][q + 1].vcpu]
    BY <2>3, <2>4, <2>5, <2>8
  <2> QED
    BY <2>9 DEF w, d, q
<1> QED
  BY <1>1, Invariant, PTL
-----------------------------------------------------------------------------
\* The way the two loops divide the work.

\* v has an RX queue
Taken(v) == \E q \in DOMAIN queue["RX"] : queue["RX"][q].vcpu = v

\* no direction gets more than it asked for, one that is OFF nothing
Fits ==
  \A d \in Dir :
    /\ config.policy[d] = "OFF" => queue[d] = <<>>
    /\ Len(queue[d]) <= config.threads[d] /\ Len(queue[d]) <= config.queues[d]

\* in the first pass the VCPUs behind the cursor are used up and the others free,
\* in the second one all are used
RxPasses ==
  phase = "RX" =>
    /\ \A v \in Vcpu : assignmentCount[v] > 0 => Taken(v)
    /\ currPass = 1 => \A v \in Vcpu :
         IF v < cpu THEN assignmentCount[v] <= 1 /\ (v \in Eligible("RX") => assignmentCount[v] > 0)
                    ELSE assignmentCount[v] = 0
    /\ currPass >= 2 => \A v \in Eligible("RX") : assignmentCount[v] > 0

\* why the RX loop ended
RxEnded ==
  phase # "RX" => \/ config.policy["RX"] = "OFF"
                  \/ Len(queue["RX"]) >= config.threads["RX"]
                  \/ Len(queue["RX"]) >= config.queues["RX"]
                  \/ \A v \in Eligible("RX") : Taken(v)

LInv == Fits /\ RxPasses /\ RxEnded /\ SuccessIsComplete

\* VCPUs that each have a queue of one direction are no more than its queues.
LEMMA VcpusOfQueues ==
  ASSUME TypeOK, NEW d \in Dir, NEW E,
         \A v \in E : \E q \in DOMAIN queue[d] : queue[d][q].vcpu = v
  PROVE  Cardinality(E) \in Nat /\ Cardinality(E) <= Len(queue[d])
<1> DEFINE n == Len(queue[d])
           f == [q \in 1 .. n |-> queue[d][q].vcpu]
           S == {f[q] : q \in 1 .. n}
<1>1. n \in Nat /\ DOMAIN queue[d] = 1 .. n
  BY DEF TypeOK
<1>2. IsFiniteSet(1 .. n) /\ Cardinality(1 .. n) = n
  BY <1>1, FS_Interval
<1>3. IsFiniteSet(S) /\ Cardinality(S) <= Cardinality(1 .. n)
  <2>1. f \in Surjection(1 .. n, S)
    BY DEF Surjection
  <2> QED BY <1>2, <2>1, FS_Surjection
<1>4. E \subseteq S
  BY <1>1
<1>5. Cardinality(E) <= Cardinality(S)
  BY <1>3, <1>4, FS_Subset
<1>6. Cardinality(E) \in Nat /\ Cardinality(S) \in Nat
  BY <1>3, <1>4, FS_Subset, FS_CardinalityType
<1> QED BY <1>1, <1>2, <1>3, <1>5, <1>6

\* the number of VCPUs that have an RX queue is no more than that of the queues
LEMMA TakenCount ==
  ASSUME TypeOK, \A v \in Eligible("RX") : Taken(v)
  PROVE  Cardinality(Eligible("RX")) <= Len(queue["RX"])
BY VcpusOfQueues DEF Taken, Dir

\* one more queue for direction d
LEMMA AssignKeepsLInv ==
  ASSUME TypeOK, LInv, NEW d \in Dir, Assign(d)
  PROVE  LInv'
<1> USE DEF LInv
<1>1. /\ config' = config /\ phase' = phase /\ phase = d /\ Pending(d) /\ cpu \in Eligible(d)
      /\ MayTake(d) /\ Advance
      /\ assignmentCount' = [assignmentCount EXCEPT ![cpu] = @ + 1]
  BY DEF Assign
<1>2. /\ cpu \in Vcpu /\ assignmentCount \in [Vcpu -> Nat] /\ currPass \in 1 .. 3
      /\ \A e \in Dir : queue[e] \in Seq(Queue) /\ Len(queue[e]) \in Nat
                        /\ config.threads[e] \in Nat /\ config.queues[e] \in Nat
      /\ Eligible("RX") \subseteq Vcpu
  BY DEF TypeOK, ConfigType, Dir, Eligible
<1>3. Fits'
  <2>1. /\ Len(queue'[d]) <= config.threads[d] /\ Len(queue'[d]) <= config.queues[d]
        /\ config.policy[d] # "OFF"
    <3>1. Len(queue'[d]) = Len(queue[d]) + 1
      BY AssignAppends
    <3>2. Len(queue[d]) < config.threads[d] /\ Len(queue[d]) < config.queues[d]
      BY <1>1 DEF Pending
    <3> QED BY <1>1, <1>2, <3>1, <3>2 DEF Pending
  <2>2. \A e \in Dir \ {d} : queue'[e] = queue[e]
    BY AssignAppends
  <2> QED BY <1>1, <2>1, <2>2 DEF Fits
<1>4. CASE d = "RX"
  <2>1. \A v \in Vcpu : Taken(v) \/ v = cpu => Taken(v)'
    <3>1. /\ queue' \in [Dir -> Seq(Queue)] /\ Len(queue'["RX"]) = Len(queue["RX"]) + 1
          /\ \A q \in 1 .. Len(queue["RX"]) : queue'["RX"][q] = queue["RX"][q]
          /\ queue'["RX"][Len(queue["RX"]) + 1] = [vcpu |-> cpu, lcore |-> Len(lcore)]
      BY <1>4, AssignAppends
    <3>2. /\ DOMAIN queue["RX"] = 1 .. Len(queue["RX"]) /\ Len(queue["RX"]) \in Nat
          /\ DOMAIN queue'["RX"] = 1 .. Len(queue["RX"]) + 1
      BY <1>2, <3>1 DEF Dir
    <3>3. queue'["RX"][Len(queue["RX"]) + 1].vcpu = cpu
      BY <3>1
    <3>4. Len(queue["RX"]) + 1 \in DOMAIN queue'["RX"]
          /\ DOMAIN queue["RX"] \subseteq DOMAIN queue'["RX"]
      BY <3>2
    <3>5. ASSUME NEW v \in Vcpu, v = cpu PROVE Taken(v)'
      BY <3>3, <3>4, <3>5 DEF Taken
    <3>6. ASSUME NEW v \in Vcpu, Taken(v) PROVE Taken(v)'
      <4>1. PICK q \in 1 .. Len(queue["RX"]) : queue["RX"][q].vcpu = v
        BY <3>2, <3>6 DEF Taken
      <4>2. queue'["RX"][q].vcpu = v /\ q \in DOMAIN queue'["RX"]
        BY <3>1, <3>2, <3>4, <4>1
      <4> QED BY <4>2 DEF Taken
    <3> QED BY <3>5, <3>6
  <2>2. /\ \A v \in Vcpu \ {cpu} : assignmentCount'[v] = assignmentCount[v]
        /\ assignmentCount'[cpu] = assignmentCount[cpu] + 1
        /\ \A v \in Vcpu : assignmentCount[v] \in Nat
    BY <1>1, <1>2
  <2>3. RxPasses'
    <3>1. \A v \in Vcpu : assignmentCount'[v] > 0 => Taken(v)'
      BY <1>1, <1>4, <2>1, <2>2 DEF RxPasses
    <3>2. Eligible("RX")' = Eligible("RX")
      BY <1>1 DEF Eligible
    <3>3. \A v \in Vcpu : assignmentCount[v] > 0 => assignmentCount'[v] > 0
      BY <2>2
    <3>4. CASE currPass = 1
      <4>1. \A v \in Vcpu : IF v < cpu + 1
              THEN assignmentCount'[v] <= 1 /\ (v \in Eligible("RX") => assignmentCount'[v] > 0)
              ELSE assignmentCount'[v] = 0
        BY <1>1, <1>2, <1>4, <2>2, <3>4 DEF RxPasses, Vcpu
      <4>2. CASE cpu + 1 = NumVcpu
        BY <1>1, <1>2, <1>4, <3>1, <3>2, <3>4, <4>1, <4>2 DEF RxPasses, Advance, Vcpu
      <4>3. CASE cpu + 1 # NumVcpu
        BY <1>1, <1>2, <1>4, <3>1, <3>2, <3>4, <4>1, <4>3 DEF RxPasses, Advance, Vcpu
      <4> QED BY <4>2, <4>3
    <3>5. CASE currPass >= 2
      <4>1. \A v \in Eligible("RX") : assignmentCount'[v] > 0
        BY <1>1, <1>2, <1>4, <3>3, <3>5 DEF RxPasses
      <4>2. currPass' # 1
        BY <1>1, <1>2, <3>5 DEF Advance
      <4> QED BY <3>1, <3>2, <4>1, <4>2 DEF RxPasses
    <3> QED BY <1>2, <3>4, <3>5
  <2> QED BY <1>1, <1>3, <1>4, <2>3 DEF RxEnded, SuccessIsComplete
<1>5. CASE d = "TX"
  <2>1. queue'["RX"] = queue["RX"] /\ phase = "TX" /\ phase' = "TX"
    BY <1>1, <1>5, AssignAppends DEF Dir
  <2> QED BY <1>1, <1>3, <2>1 DEF RxPasses, RxEnded, SuccessIsComplete, Eligible, Taken
<1> QED BY <1>4, <1>5 DEF Dir

\* A VCPU the loop goes past is not eligible, or it has an lcore.
LEMMA SkipKeepsLInv ==
  ASSUME TypeOK, LInv, NEW d \in Dir, Skip(d)
  PROVE  LInv'
<1> USE DEF LInv
<1>1. /\ UNCHANGED <<config, phase, assignmentCount, queue, lcore>> /\ phase = d /\ Advance
      /\ cpu \notin Eligible(d) \/ (assignmentCount[cpu] > 0 /\ currPass = 1)
  BY DEF Skip
<1>2. /\ cpu \in Vcpu /\ assignmentCount \in [Vcpu -> Nat] /\ currPass \in 1 .. 3
      /\ Eligible("RX") \subseteq Vcpu /\ Eligible("RX")' = Eligible("RX")
  BY <1>1 DEF TypeOK, ConfigType, Eligible
<1>3. RxPasses'
  <2>1. CASE d = "RX" /\ currPass = 1
    <3>1. \A v \in Vcpu : IF v < cpu + 1
            THEN assignmentCount[v] <= 1 /\ (v \in Eligible("RX") => assignmentCount[v] > 0)
            ELSE assignmentCount[v] = 0
      BY <1>1, <1>2, <2>1 DEF RxPasses, Vcpu
    <3>2. \A v \in Vcpu : assignmentCount[v] > 0 => Taken(v)'
      BY <1>1, <2>1 DEF RxPasses, Taken
    <3>3. CASE cpu + 1 = NumVcpu
      BY <1>1, <1>2, <2>1, <3>1, <3>2, <3>3 DEF RxPasses, Advance, Vcpu
    <3>4. CASE cpu + 1 # NumVcpu
      BY <1>1, <1>2, <2>1, <3>1, <3>2, <3>4 DEF RxPasses, Advance, Vcpu
    <3> QED BY <3>3, <3>4
  <2>2. CASE d = "RX" /\ currPass >= 2
    <3>1. currPass' # 1
      BY <1>1, <1>2, <2>2 DEF Advance
    <3>2. \A v \in Vcpu : assignmentCount[v] > 0 => Taken(v)'
      BY <1>1, <2>2 DEF RxPasses, Taken
    <3> QED BY <1>1, <1>2, <2>2, <3>1, <3>2 DEF RxPasses
  <2>3. CASE d = "TX"
    BY <1>1, <2>3 DEF RxPasses
  <2> QED BY <1>2, <2>1, <2>2, <2>3 DEF Dir
<1>4. Fits' /\ RxEnded' /\ SuccessIsComplete'
  BY <1>1 DEF Fits, RxEnded, SuccessIsComplete, Taken, Eligible
<1> QED BY <1>3, <1>4

\* The end of a loop, or of the function.
LEMMA EndKeepsLInv ==
  ASSUME TypeOK, LInv, NEW d \in Dir, Exhausted(d) \/ EndLoop(d) \/ CheckCounts
  PROVE  LInv'
<1> USE DEF LInv
<1>1. UNCHANGED <<config, cpu, currPass, assignmentCount, queue, lcore>>
  BY DEF Exhausted, EndLoop, CheckCounts
<1>2. phase' # "RX"
  BY DEF Exhausted, EndLoop, CheckCounts
<1>3. Fits' /\ RxPasses'
  BY <1>1, <1>2 DEF Fits, RxPasses
<1>4. RxEnded'
  <2>1. CASE phase = "RX"
    <3>1. currPass >= 2 => \A v \in Eligible("RX") : Taken(v)
      BY <2>1 DEF RxPasses, Eligible, TypeOK, ConfigType
    <3>2. CASE Exhausted("RX")
      BY <1>1, <3>1, <3>2 DEF Exhausted, RxEnded, Taken, Eligible
    <3>3. CASE EndLoop("RX")
      <4>1. \/ config.policy["RX"] = "OFF" \/ currPass >= 2
            \/ Len(queue["RX"]) >= config.threads["RX"] \/ Len(queue["RX"]) >= config.queues["RX"]
        <5>1. /\ Len(queue["RX"]) \in Nat /\ config.threads["RX"] \in Nat
              /\ config.queues["RX"] \in Nat /\ currPass \in 1 .. 3
          BY DEF TypeOK, ConfigType, Dir
        <5> QED BY <3>3, <5>1 DEF EndLoop, Pending
      <4> QED BY <1>1, <3>1, <4>1 DEF RxEnded, Taken, Eligible
    <3> QED BY <2>1, <3>2, <3>3 DEF Exhausted, EndLoop, CheckCounts
  <2>2. CASE phase # "RX"
    BY <1>1, <2>2 DEF RxEnded, Taken, Eligible
  <2> QED BY <2>1, <2>2
<1>5. SuccessIsComplete'
  <2>1. CASE phase' = "Done"
    <3>1. \A e \in Dir : Satisfied(e)
      BY <2>1 DEF Exhausted, EndLoop, CheckCounts
    <3> QED BY <1>1, <3>1 DEF SuccessIsComplete, Satisfied, Fits
  <2> QED BY <2>1 DEF SuccessIsComplete
<1> QED BY <1>3, <1>4, <1>5

\* The division of the work holds in every reachable state.
THEOREM LoopInvariant == Spec => []LInv
<1>1. Init => LInv
  <2> SUFFICES ASSUME Init PROVE LInv
    OBVIOUS
  <2>1. \A e \in Dir : config.threads[e] \in Nat /\ config.queues[e] \in Nat
    BY DEF Init, ConfigType
  <2>2. Fits
    BY <2>1 DEF Init, Fits
  <2> QED BY <2>2 DEF Init, LInv, RxPasses, RxEnded, SuccessIsComplete, Vcpu
<1>2. TypeOK /\ LInv /\ [Next]_vars => LInv'
  <2> SUFFICES ASSUME TypeOK, LInv, [Next]_vars PROVE LInv'
    OBVIOUS
  <2>1. CASE UNCHANGED vars
    BY <2>1 DEF vars, LInv, Fits, RxPasses, RxEnded, SuccessIsComplete, Taken, Eligible
  <2>2. "RX" \in Dir
    BY DEF Dir
  <2> QED BY <2>1, <2>2, AssignKeepsLInv, SkipKeepsLInv, EndKeepsLInv DEF Next, Visit
<1> QED BY <1>1, <1>2, TypeCorrect, PTL DEF Spec

\* The RX loop doubles up a VCPU only when every eligible one has an lcore.
THEOREM DoublingIsLast == Spec => []RxDoublesUpLast
<1>1. TypeOK /\ LInv => RxDoublesUpLast
  <2> SUFFICES ASSUME TypeOK, LInv, phase = "RX", NEW v \in Vcpu, assignmentCount[v] > 1
               PROVE  \A w \in Eligible("RX") : assignmentCount[w] > 0
    BY DEF RxDoublesUpLast
  <2>1. currPass \in 1 .. 3 /\ assignmentCount[v] \in Nat
    BY DEF TypeOK
  <2>2. currPass # 1
    BY <2>1 DEF LInv, RxPasses
  <2> QED BY <2>1, <2>2 DEF LInv, RxPasses
<1> QED BY <1>1, LoopInvariant, TypeCorrect, PTL

\* The RX loop of a DISTINCT configuration gives up only for want of VCPUs or queues.
THEOREM RxRefusalJustified == Spec => []RxDistinctRefusedOnlyIfShort
<1>1. TypeOK /\ LInv => RxDistinctRefusedOnlyIfShort
  <2> SUFFICES ASSUME TypeOK, LInv, phase = "Failed", config.policy["RX"] = "DISTINCT",
                      Len(queue["RX"]) # config.threads["RX"]
               PROVE  \/ config.threads["RX"] > Cardinality(Eligible("RX"))
                      \/ config.threads["RX"] > config.queues["RX"]
    BY DEF RxDistinctRefusedOnlyIfShort
  <2>1. /\ Len(queue["RX"]) \in Nat /\ config.threads["RX"] \in Nat
        /\ config.queues["RX"] \in Nat /\ Len(queue["RX"]) <= config.threads["RX"]
    BY DEF TypeOK, ConfigType, Dir, LInv, Fits
  <2>2. CASE \A v \in Eligible("RX") : Taken(v)
    <3>1. Cardinality(Eligible("RX")) <= Len(queue["RX"])
      BY <2>2, TakenCount
    <3>2. Cardinality(Eligible("RX")) \in Nat
      <4>1. IsFiniteSet(Vcpu)
        BY FS_Interval DEF Vcpu
      <4>2. Eligible("RX") \subseteq Vcpu
        BY DEF TypeOK, ConfigType, Eligible
      <4> QED BY <4>1, <4>2, FS_Subset, FS_CardinalityType
    <3> QED BY <2>1, <3>1, <3>2
  <2>3. CASE Len(queue["RX"]) >= config.queues["RX"]
    BY <2>1, <2>3
  <2> QED BY <2>1, <2>2, <2>3 DEF LInv, RxEnded
<1> QED BY <1>1, LoopInvariant, TypeCorrect, PTL

\* Success gives every direction in use all its threads, one that is OFF none.
THEOREM SuccessComplete == Spec => []SuccessIsComplete
BY LoopInvariant, PTL DEF LInv
-----------------------------------------------------------------------------
\* What the function still has to do: the VCPUs both passes have left to
\* visit, and one step to leave each loop and one for the final checks.
Ahead ==
  CASE phase = "RX"    -> 3
    [] phase = "TX"    -> 2
    [] phase = "Check" -> 1
    [] OTHER           -> 0

StepsLeft == (3 - currPass) * NumVcpu - cpu + Ahead

\* When both passes are over the cursor rests on the first VCPU.
CursorRests == currPass = 3 => cpu = 0

\* StepsLeft per pass, without the product.
LEMMA StepsLeftPerPass ==
  ASSUME TypeOK
  PROVE  /\ currPass = 1 => StepsLeft = 2 * NumVcpu - cpu + Ahead
         /\ currPass = 2 => StepsLeft = NumVcpu - cpu + Ahead
         /\ currPass = 3 => StepsLeft = Ahead - cpu
         /\ Ahead \in 0 .. 3 /\ cpu \in 0 .. (NumVcpu - 1)
<1>1. Ahead \in 0 .. 3
  BY DEF Ahead
<1>2. cpu \in 0 .. (NumVcpu - 1)
  BY DEF TypeOK, Vcpu
<1>3. ASSUME currPass = 1 PROVE StepsLeft = 2 * NumVcpu - cpu + Ahead
  BY <1>1, <1>2, <1>3 DEF StepsLeft
<1>4. ASSUME currPass = 2 PROVE StepsLeft = NumVcpu - cpu + Ahead
  <2>1. (3 - currPass) * NumVcpu = NumVcpu
    BY <1>4
  <2> QED BY <2>1 DEF StepsLeft
<1>5. ASSUME currPass = 3 PROVE StepsLeft = Ahead - cpu
  <2>1. (3 - currPass) * NumVcpu = 0
    BY <1>5
  <2> QED BY <1>1, <1>2, <2>1 DEF StepsLeft
<1> QED BY <1>1, <1>2, <1>3, <1>4, <1>5

\* Moving the cursor is a step forward in either pass.
LEMMA AdvanceUsesAStep ==
  ASSUME TypeOK, TypeOK', CursorRests, Advance, currPass <= 2, phase' = phase
  PROVE  CursorRests' /\ StepsLeft' < StepsLeft
<1>1. /\ cpu \in 0 .. (NumVcpu - 1) /\ currPass \in 1 .. 2
      /\ cpu' \in 0 .. (NumVcpu - 1)
      /\ Ahead \in 0 .. 3 /\ Ahead' = Ahead
  BY StepsLeftPerPass DEF TypeOK, Vcpu, Ahead
<1>2. CASE cpu + 1 = NumVcpu
  <2>1. cpu' = 0 /\ currPass' = currPass + 1
    BY <1>2 DEF Advance
  <2>2. StepsLeft' = (3 - currPass') * NumVcpu - cpu' + Ahead'
    BY DEF StepsLeft
  <2>3. CASE currPass = 1
    <3>1. currPass' = 2
      BY <2>1, <2>3
    <3>2. (3 - currPass') * NumVcpu = NumVcpu
      BY <3>1
    <3>3. StepsLeft' = NumVcpu - cpu' + Ahead'
      BY <2>2, <3>2
    <3> QED BY <1>1, <1>2, <2>1, <2>3, <3>1, <3>3, StepsLeftPerPass DEF CursorRests
  <2>4. CASE currPass = 2
    <3>1. currPass' = 3
      BY <2>1, <2>4
    <3>2. (3 - currPass') * NumVcpu = 0
      BY <3>1
    <3>3. StepsLeft' = 0 - cpu' + Ahead'
      BY <2>2, <3>2
    <3> QED BY <1>1, <1>2, <2>1, <2>4, <3>1, <3>3, StepsLeftPerPass DEF CursorRests
  <2> QED BY <1>1, <2>3, <2>4
<1>3. CASE cpu + 1 # NumVcpu
  <2>1. cpu' = cpu + 1 /\ currPass' = currPass
    BY <1>3 DEF Advance
  <2>2. StepsLeft' = (3 - currPass) * NumVcpu - cpu' + Ahead'
    BY <2>1 DEF StepsLeft
  <2>3. CASE currPass = 1
    <3>1. StepsLeft' = 2 * NumVcpu - cpu' + Ahead'
      BY <2>2, <2>3
    <3> QED BY <1>1, <2>1, <2>3, <3>1, StepsLeftPerPass DEF CursorRests
  <2>4. CASE currPass = 2
    <3>1. (3 - currPass) * NumVcpu = NumVcpu
      BY <2>4
    <3>2. StepsLeft' = NumVcpu - cpu' + Ahead'
      BY <2>2, <3>1
    <3> QED BY <1>1, <2>1, <2>4, <3>2, StepsLeftPerPass DEF CursorRests
  <2> QED BY <1>1, <2>3, <2>4
<1> QED BY <1>2, <1>3

\* A step that only moves on to a later phase is a step forward.
LEMMA LaterPhaseUsesAStep ==
  ASSUME TypeOK, CursorRests, UNCHANGED <<cpu, currPass>>, Ahead' < Ahead
  PROVE  CursorRests' /\ StepsLeft' < StepsLeft
<1>1. StepsLeft' = (3 - currPass) * NumVcpu - cpu + Ahead'
  BY DEF StepsLeft
<1>2. Ahead \in Int /\ Ahead' \in Int
  BY DEF Ahead
<1>3. (3 - currPass) * NumVcpu \in Int
  BY DEF TypeOK
<1>4. cpu \in Int
  BY DEF TypeOK, Vcpu
<1>5. StepsLeft = (3 - currPass) * NumVcpu - cpu + Ahead
  BY DEF StepsLeft
<1>6. CursorRests'
  BY DEF CursorRests
<1>7. \A v, c, a, b \in Int : b < a => v - c + b < v - c + a
  OBVIOUS
<1>8. StepsLeft' < StepsLeft
  BY <1>1, <1>2, <1>3, <1>4, <1>5, <1>7, Zenon
<1> QED BY <1>6, <1>8

\* Every step of the function is a step forward.
LEMMA StepsAreUsed ==
  ASSUME TypeOK, TypeOK', CursorRests, Next
  PROVE  CursorRests' /\ StepsLeft' < StepsLeft
<1>1. ASSUME NEW d \in Dir, Skip(d) \/ Assign(d)
      PROVE  CursorRests' /\ StepsLeft' < StepsLeft
  BY <1>1, AdvanceUsesAStep DEF Skip, Assign, Pending
<1>2. ASSUME NEW d \in Dir, Exhausted(d)
      PROVE  CursorRests' /\ StepsLeft' < StepsLeft
  BY <1>2, LaterPhaseUsesAStep DEF Exhausted, Ahead, Dir
<1>3. ASSUME NEW d \in Dir, EndLoop(d)
      PROVE  CursorRests' /\ StepsLeft' < StepsLeft
  BY <1>3, LaterPhaseUsesAStep DEF EndLoop, Ahead, Dir
<1>4. CASE CheckCounts
  BY <1>4, LaterPhaseUsesAStep DEF CheckCounts, Ahead
<1> QED BY <1>1, <1>2, <1>3, <1>4 DEF Next, Visit

\* The assignment runs out of work: whatever the two loops do, each turn and
\* each exit uses up one of at most 2 * NumVcpu + 3 steps, so that no cursor,
\* counter or policy can keep the function from returning.
THEOREM AssignmentRunsOut ==
  Spec => /\ [](StepsLeft \in Nat)
          /\ [][StepsLeft' < StepsLeft]_vars
          /\ StepsLeft = 2 * NumVcpu + 3
<1>1. Init => CursorRests
  BY DEF Init, CursorRests
<1>2. TypeOK /\ TypeOK' /\ CursorRests /\ [Next]_vars => CursorRests'
  BY StepsAreUsed DEF CursorRests, vars
<1>3. TypeOK /\ CursorRests => StepsLeft \in Nat
  <2> SUFFICES ASSUME TypeOK, CursorRests
               PROVE  StepsLeft \in Nat
    OBVIOUS
  <2>1. currPass \in 1 .. 3
    BY DEF TypeOK
  <2> QED BY <2>1, StepsLeftPerPass DEF CursorRests
<1>4. TypeOK /\ TypeOK' /\ CursorRests /\ [Next]_vars
        => [StepsLeft' < StepsLeft]_vars
  BY StepsAreUsed
<1>5. TypeOK /\ Init => StepsLeft = 2 * NumVcpu + 3
  BY StepsLeftPerPass DEF Init, Ahead
<1> QED BY <1>1, <1>2, <1>3, <1>4, <1>5, TypeCorrect, PTL DEF Spec
-----------------------------------------------------------------------------
\* How many lcores a VCPU gets.

\* the lcores pinned on v
OnVcpu(v) == {i \in DOMAIN lcore : lcore[i].vcpu = v}

\* The counters are exact, and behind the cursor a VCPU got at most one lcore per
\* pass, whichever loop visited it.
CountsExact ==
  \A v \in Vcpu :
    /\ IsFiniteSet(OnVcpu(v)) /\ Cardinality(OnVcpu(v)) = assignmentCount[v]
    /\ assignmentCount[v] <= IF v < cpu THEN currPass ELSE currPass - 1

\* No VCPU runs three lcores, not even when RX and TX are both MULTI: the loops
\* share their two passes.
AtMostTwoPerVcpu == \A v \in Vcpu : Cardinality(OnVcpu(v)) <= 2

\* v has two RX queues
TakenTwice(v) ==
  \E p, q \in DOMAIN queue["RX"] : p < q /\ queue["RX"][p].vcpu = v /\ queue["RX"][q].vcpu = v

\* in the second pass of a MULTI configuration the VCPUs behind the cursor are doubled
RxDoubled ==
  phase = "RX" =>
    /\ \A v \in Vcpu : assignmentCount[v] >= 2 => TakenTwice(v)
    /\ config.policy["RX"] = "MULTI" => \A v \in Eligible("RX") :
         currPass = 3 \/ (currPass = 2 /\ v < cpu) => assignmentCount[v] >= 2

\* why the RX loop of a MULTI configuration ended
RxMultiEnded ==
  phase # "RX" /\ config.policy["RX"] = "MULTI" =>
    \/ Len(queue["RX"]) >= config.threads["RX"]
    \/ Len(queue["RX"]) >= config.queues["RX"]
    \/ \A v \in Eligible("RX") : TakenTwice(v)

\* The RX loop refuses a MULTI configuration only when it asks for more than two
\* threads per eligible VCPU, or more than there are queues.
RxMultiRefusedOnlyIfShort ==
  phase = "Failed" /\ config.policy["RX"] = "MULTI"
    /\ Len(queue["RX"]) # config.threads["RX"]
    => \/ config.threads["RX"] > 2 * Cardinality(Eligible("RX"))
       \/ config.threads["RX"] > config.queues["RX"]

\* Assign adds the new lcore to those of the cursor's VCPU.
LEMMA AssignAddsToVcpu ==
  ASSUME TypeOK, NEW d \in Dir, Assign(d), NEW v \in Vcpu
  PROVE  OnVcpu(v)' = IF v = cpu THEN OnVcpu(v) \union {Len(lcore) + 1} ELSE OnVcpu(v)
<1>1. /\ DOMAIN lcore = 1 .. Len(lcore) /\ Len(lcore) \in Nat
      /\ DOMAIN lcore' = 1 .. Len(lcore) + 1
      /\ \A i \in 1 .. Len(lcore) : lcore'[i] = lcore[i]
  BY AssignAppends, LcoreFacts
<1>2. lcore'[Len(lcore) + 1].vcpu = cpu
  BY AppendedLcore
<1>3. DOMAIN lcore' = DOMAIN lcore \union {Len(lcore) + 1}
  BY <1>1
<1>4. \A i \in DOMAIN lcore : lcore'[i].vcpu = lcore[i].vcpu
  BY <1>1
<1> QED BY <1>2, <1>3, <1>4 DEF OnVcpu

\* A turn of either loop keeps the counters exact and the passes bounding them.
LEMMA CountsKept ==
  ASSUME TypeOK, CountsExact, [Next]_vars
  PROVE  CountsExact'
<1>1. /\ cpu \in Vcpu /\ assignmentCount \in [Vcpu -> Nat] /\ currPass \in 1 .. 3
      /\ DOMAIN lcore = 1 .. Len(lcore) /\ Len(lcore) \in Nat
  BY LcoreFacts DEF TypeOK
<1>2. ASSUME NEW d \in Dir, Skip(d) \/ Assign(d), NEW v \in Vcpu,
             assignmentCount'[v] <= IF v <= cpu THEN currPass ELSE currPass - 1,
             assignmentCount'[v] \in Nat
      PROVE  assignmentCount'[v] <= IF v < cpu' THEN currPass' ELSE currPass' - 1
  <2>1. Advance
    BY <1>2 DEF Skip, Assign
  <2> QED BY <1>1, <1>2, <2>1 DEF Advance, Vcpu
<1>3. ASSUME NEW d \in Dir, Assign(d)
      PROVE  CountsExact'
  <2>1. /\ assignmentCount'[cpu] = assignmentCount[cpu] + 1
        /\ \A v \in Vcpu \ {cpu} : assignmentCount'[v] = assignmentCount[v]
    BY <1>1, <1>3 DEF Assign
  <2> SUFFICES ASSUME NEW v \in Vcpu
               PROVE  /\ IsFiniteSet(OnVcpu(v)') /\ Cardinality(OnVcpu(v)') = assignmentCount'[v]
                      /\ assignmentCount'[v] <= IF v < cpu' THEN currPass' ELSE currPass' - 1
    BY DEF CountsExact
  <2>2. /\ IsFiniteSet(OnVcpu(v)) /\ Cardinality(OnVcpu(v)) = assignmentCount[v]
        /\ assignmentCount[v] <= (IF v < cpu THEN currPass ELSE currPass - 1)
    BY DEF CountsExact
  <2>3. IsFiniteSet(OnVcpu(v)') /\ Cardinality(OnVcpu(v)') = assignmentCount'[v]
    <3>1. CASE v = cpu
      <4>1. Len(lcore) + 1 \notin OnVcpu(v)
        BY <1>1 DEF OnVcpu
      <4>2. OnVcpu(v)' = OnVcpu(v) \union {Len(lcore) + 1}
        BY <1>3, <3>1, AssignAddsToVcpu
      <4> QED BY <2>1, <2>2, <3>1, <4>1, <4>2, FS_AddElement
    <3>2. CASE v # cpu
      BY <1>3, <2>1, <2>2, <3>2, AssignAddsToVcpu
    <3> QED BY <3>1, <3>2
  <2>4. /\ assignmentCount'[v] <= IF v <= cpu THEN currPass ELSE currPass - 1
        /\ assignmentCount'[v] \in Nat
    BY <1>1, <2>1, <2>2 DEF Vcpu
  <2> QED BY <1>2, <1>3, <2>3, <2>4
<1>4. ASSUME NEW d \in Dir, Skip(d)
      PROVE  CountsExact'
  <2>1. UNCHANGED <<assignmentCount, lcore>>
    BY <1>4 DEF Skip
  <2> SUFFICES ASSUME NEW v \in Vcpu
               PROVE  assignmentCount'[v] <= IF v < cpu' THEN currPass' ELSE currPass' - 1
    BY <2>1 DEF CountsExact, OnVcpu
  <2>2. assignmentCount[v] <= IF v < cpu THEN currPass ELSE currPass - 1
    BY DEF CountsExact
  <2>3. /\ assignmentCount'[v] <= IF v <= cpu THEN currPass ELSE currPass - 1
        /\ assignmentCount'[v] \in Nat
    BY <1>1, <2>1, <2>2 DEF Vcpu
  <2> QED BY <1>2, <1>4, <2>3
<1>5. ASSUME UNCHANGED <<cpu, currPass, assignmentCount, lcore>>
      PROVE  CountsExact'
  BY <1>5 DEF CountsExact, OnVcpu
<1> QED BY <1>3, <1>4, <1>5 DEF Next, Visit, Exhausted, EndLoop, CheckCounts, vars

\* The counters are exact in every reachable state.
THEOREM CountInvariant == Spec => []CountsExact
<1>1. Init => CountsExact
  <2> SUFFICES ASSUME Init, NEW v \in Vcpu
               PROVE  OnVcpu(v) = {} /\ assignmentCount[v] = 0 /\ cpu = 0 /\ currPass = 1
    BY FS_EmptySet DEF CountsExact, Vcpu
  <2> QED BY DEF Init, OnVcpu
<1> QED BY <1>1, CountsKept, TypeCorrect, PTL DEF Spec

\* No VCPU gets a third lcore (makeLcoreAssignment, currPass and assignmentCount).
THEOREM NoVcpuRunsThree == Spec => []AtMostTwoPerVcpu
<1>1. TypeOK /\ CursorRests /\ CountsExact => AtMostTwoPerVcpu
  <2> SUFFICES ASSUME TypeOK, CursorRests, CountsExact, NEW v \in Vcpu
               PROVE  Cardinality(OnVcpu(v)) <= 2
    BY DEF AtMostTwoPerVcpu
  <2>1. /\ Cardinality(OnVcpu(v)) = assignmentCount[v] /\ assignmentCount[v] \in Nat
        /\ assignmentCount[v] <= IF v < cpu THEN currPass ELSE currPass - 1
    BY DEF CountsExact, TypeOK
  <2>2. currPass \in 1 .. 3 /\ (currPass = 3 => ~(v < cpu))
    BY DEF CursorRests, TypeOK, Vcpu
  <2> QED BY <2>1, <2>2
<1>2. Init => CursorRests
  BY DEF Init, CursorRests
<1>3. TypeOK /\ TypeOK' /\ CursorRests /\ [Next]_vars => CursorRests'
  BY StepsAreUsed DEF CursorRests, vars
<1> QED BY <1>1, <1>2, <1>3, CountInvariant, TypeCorrect, PTL DEF Spec

\* Two RX queues on each eligible VCPU make twice as many queues.
LEMMA TakenTwiceCount ==
  ASSUME TypeOK, \A v \in Eligible("RX") : TakenTwice(v)
  PROVE  Cardinality(Eligible("RX")) \in Nat /\ 2 * Cardinality(Eligible("RX")) <= Len(queue["RX"])
<1> DEFINE n == Len(queue["RX"])
           E == Eligible("RX")
           on == [q \in 1 .. n |-> queue["RX"][q].vcpu]
           Doubles(p, q, v) == p < q /\ on[p] = v /\ on[q] = v
           first == [v \in E |-> CHOOSE p \in 1 .. n : \E q \in 1 .. n : Doubles(p, q, v)]
           second == [v \in E |-> CHOOSE q \in 1 .. n : Doubles(first[v], q, v)]
           A == {first[v] : v \in E}
           B == {second[v] : v \in E}
<1>1. n \in Nat /\ DOMAIN queue["RX"] = 1 .. n
  BY DEF TypeOK, Dir
<1>2. IsFiniteSet(E) /\ Cardinality(E) \in Nat
  <2>1. IsFiniteSet(Vcpu)
    BY FS_Interval DEF Vcpu
  <2>2. E \subseteq Vcpu
    BY DEF TypeOK, ConfigType, Eligible
  <2> QED BY <2>1, <2>2, FS_Subset, FS_CardinalityType
<1>3. \A v \in E : \E p, q \in 1 .. n : Doubles(p, q, v)
  BY <1>1 DEF TakenTwice
<1> HIDE DEF on, E, n
<1>4. \A v \in E : first[v] \in 1 .. n /\ second[v] \in 1 .. n /\ Doubles(first[v], second[v], v)
  <2> SUFFICES ASSUME NEW v \in E
               PROVE  first[v] \in 1 .. n /\ second[v] \in 1 .. n /\ Doubles(first[v], second[v], v)
    OBVIOUS
  <2>1. \E p \in 1 .. n : \E q \in 1 .. n : Doubles(p, q, v)
    BY <1>3
  <2>2. first[v] = CHOOSE p \in 1 .. n : \E q \in 1 .. n : Doubles(p, q, v)
    OBVIOUS
  <2> HIDE DEF Doubles, first
  <2>3. first[v] \in 1 .. n /\ \E q \in 1 .. n : Doubles(first[v], q, v)
    BY <2>1, <2>2
  <2>4. second[v] = CHOOSE q \in 1 .. n : Doubles(first[v], q, v)
    OBVIOUS
  <2> HIDE DEF second
  <2> QED BY <2>3, <2>4
<1> HIDE DEF first, second
<1>5. Cardinality(A) = Cardinality(E) /\ IsFiniteSet(A) /\ A \subseteq 1 .. n
  <2>1. \A v, w \in E : first[v] = first[w] => v = w
    BY <1>4
  <2>2. [v \in E |-> first[v]] \in Bijection(E, A)
    BY <2>1 DEF Bijection, Injection, Surjection, IsInjective
  <2>3. ExistsBijection(E, A)
    BY <2>2 DEF ExistsBijection
  <2>4. A \subseteq 1 .. n
    BY <1>4
  <2> HIDE DEF A
  <2> QED BY <1>2, <2>3, <2>4, FS_Bijection
<1>6. Cardinality(B) = Cardinality(E) /\ IsFiniteSet(B) /\ B \subseteq 1 .. n
  <2>1. \A v, w \in E : second[v] = second[w] => v = w
    BY <1>4
  <2>2. [v \in E |-> second[v]] \in Bijection(E, B)
    BY <2>1 DEF Bijection, Injection, Surjection, IsInjective
  <2>3. ExistsBijection(E, B)
    BY <2>2 DEF ExistsBijection
  <2>4. B \subseteq 1 .. n
    BY <1>4
  <2> HIDE DEF B
  <2> QED BY <1>2, <2>3, <2>4, FS_Bijection
<1>7. A \intersect B = {}
  <2> SUFFICES ASSUME NEW v \in E, NEW w \in E, first[v] = second[w]
               PROVE  FALSE
    OBVIOUS
  <2>1. v = w
    BY <1>4
  <2> QED BY <1>1, <1>4, <2>1
<1> HIDE DEF A, B
<1>8. Cardinality(A \union B) = Cardinality(A) + Cardinality(B)
  <2>1. Cardinality(A \intersect B) = 0
    BY <1>7, FS_EmptySet
  <2>2. Cardinality(A \union B) = Cardinality(A) + Cardinality(B) - Cardinality(A \intersect B)
    BY <1>5, <1>6, FS_Union
  <2> QED BY <1>2, <1>5, <1>6, <2>1, <2>2
<1>9. Cardinality(A \union B) <= n
  <2>1. IsFiniteSet(1 .. n) /\ Cardinality(1 .. n) = n
    BY <1>1, FS_Interval
  <2>2. A \union B \in SUBSET (1 .. n)
    BY <1>5, <1>6
  <2> QED BY <2>1, <2>2, FS_Subset
<1> QED BY <1>1, <1>2, <1>5, <1>6, <1>8, <1>9 DEF E, n

DInv == RxDoubled /\ RxMultiEnded

\* A second RX queue makes the cursor's VCPU a doubled one; the others stay what they are.
LEMMA AssignDoubles ==
  ASSUME TypeOK, RxPasses, Assign("RX"), phase = "RX",
         \A v \in Vcpu : assignmentCount[v] >= 2 => TakenTwice(v)
  PROVE  \A v \in Vcpu : assignmentCount'[v] >= 2 => TakenTwice(v)'
<1> DEFINE n == Len(queue["RX"])
<1>1. /\ n \in Nat /\ DOMAIN queue["RX"] = 1 .. n /\ "RX" \in Dir
      /\ cpu \in Vcpu /\ assignmentCount \in [Vcpu -> Nat]
  BY DEF TypeOK, Dir
<1>2. /\ queue' \in [Dir -> Seq(Queue)] /\ Len(queue'["RX"]) = n + 1
      /\ \A q \in 1 .. n : queue'["RX"][q] = queue["RX"][q]
      /\ queue'["RX"][n + 1] = [vcpu |-> cpu, lcore |-> Len(lcore)]
  BY <1>1, AssignAppends
<1>3. DOMAIN queue'["RX"] = 1 .. n + 1 /\ queue'["RX"][n + 1].vcpu = cpu
  BY <1>1, <1>2
<1>4. ASSUME NEW v \in Vcpu, TakenTwice(v)
      PROVE  TakenTwice(v)'
  <2>1. PICK p \in 1 .. n, q \in 1 .. n :
          p < q /\ queue["RX"][p].vcpu = v /\ queue["RX"][q].vcpu = v
    BY <1>1, <1>4 DEF TakenTwice
  <2>2. p \in 1 .. n + 1 /\ q \in 1 .. n + 1
    BY <1>1
  <2> QED BY <1>2, <1>3, <2>1, <2>2 DEF TakenTwice
<1>5. ASSUME NEW v \in Vcpu, v = cpu, Taken(v)
      PROVE  TakenTwice(v)'
  <2>1. PICK p \in 1 .. n : queue["RX"][p].vcpu = v
    BY <1>1, <1>5 DEF Taken
  <2>2. p \in 1 .. n + 1 /\ n + 1 \in 1 .. n + 1 /\ p < n + 1
    BY <1>1
  <2>3. queue'["RX"][p].vcpu = v /\ queue'["RX"][n + 1].vcpu = v
    BY <1>2, <1>3, <1>5, <2>1
  <2> QED BY <1>3, <2>2, <2>3 DEF TakenTwice
<1>6. /\ assignmentCount'[cpu] = assignmentCount[cpu] + 1
      /\ \A v \in Vcpu \ {cpu} : assignmentCount'[v] = assignmentCount[v]
  BY <1>1 DEF Assign
<1>7. assignmentCount[cpu] > 0 => Taken(cpu)
  BY <1>1 DEF RxPasses
<1> QED BY <1>1, <1>4, <1>5, <1>6, <1>7

\* The RX loop of a MULTI configuration doubles the VCPUs in the order of the cursor.
LEMMA DInvKept ==
  ASSUME TypeOK, TypeOK', LInv, CursorRests, DInv, [Next]_vars
  PROVE  DInv'
<1>1. /\ cpu \in Vcpu /\ assignmentCount \in [Vcpu -> Nat] /\ currPass \in 1 .. 3
      /\ Eligible("RX") \subseteq Vcpu /\ "RX" \in Dir
      /\ Len(queue["RX"]) \in Nat /\ config.threads["RX"] \in Nat /\ config.queues["RX"] \in Nat
  <2>1. /\ cpu \in Vcpu /\ assignmentCount \in [Vcpu -> Nat] /\ currPass \in 1 .. 3
        /\ config \in ConfigType /\ queue["RX"] \in Seq(Queue)
    BY DEF TypeOK, Dir
  <2>2. config.softEnabled \subseteq Vcpu
        /\ config.threads \in [Dir -> Nat] /\ config.queues \in [Dir -> Nat]
    BY <2>1 DEF ConfigType
  <2> QED BY <2>1, <2>2 DEF Eligible, Dir
<1>2. currPass = 3 => cpu = 0
  BY DEF CursorRests
<1>3. CASE phase = "RX" /\ Assign("RX")
  <2>1. /\ UNCHANGED <<config, phase>> /\ Advance /\ Eligible("RX")' = Eligible("RX")
        /\ currPass <= 2
        /\ assignmentCount'[cpu] = assignmentCount[cpu] + 1
        /\ \A v \in Vcpu \ {cpu} : assignmentCount'[v] = assignmentCount[v]
    BY <1>1, <1>3 DEF Assign, Pending, Eligible
  <2>2. \A v \in Vcpu : assignmentCount'[v] >= 2 => TakenTwice(v)'
    BY <1>3, AssignDoubles DEF LInv, DInv, RxDoubled
  <2>3. ASSUME config.policy["RX"] = "MULTI", NEW v \in Eligible("RX"),
               currPass' = 3 \/ (currPass' = 2 /\ v < cpu')
        PROVE  assignmentCount'[v] >= 2
    <3>1. currPass = 2 /\ v <= cpu
      BY <1>1, <2>1, <2>3 DEF Advance, Vcpu
    <3>2. CASE v = cpu
      <4>1. assignmentCount[cpu] > 0
        BY <1>3, <3>1, <3>2 DEF LInv, RxPasses
      <4> QED BY <1>1, <2>1, <3>2, <4>1
    <3>3. CASE v # cpu
      <4>1. v < cpu
        BY <1>1, <3>1, <3>3 DEF Vcpu
      <4> QED BY <1>1, <1>3, <2>1, <2>3, <3>1, <3>3, <4>1 DEF DInv, RxDoubled
    <3> QED BY <3>2, <3>3
  <2> QED BY <1>3, <2>1, <2>2, <2>3 DEF DInv, RxDoubled, RxMultiEnded
<1>4. CASE phase = "RX" /\ Skip("RX")
  <2>1. /\ UNCHANGED <<config, phase, assignmentCount, queue>> /\ Advance /\ currPass <= 2
        /\ Eligible("RX")' = Eligible("RX")
        /\ cpu \notin Eligible("RX") \/ currPass = 1
    BY <1>4 DEF Skip, Pending, Eligible
  <2>2. ASSUME config.policy["RX"] = "MULTI", NEW v \in Eligible("RX"),
               currPass' = 3 \/ (currPass' = 2 /\ v < cpu')
        PROVE  assignmentCount[v] >= 2
    <3>1. currPass = 2 /\ v <= cpu /\ v # cpu
      BY <1>1, <2>1, <2>2 DEF Advance, Vcpu
    <3>2. v < cpu
      BY <1>1, <3>1 DEF Vcpu
    <3> QED BY <1>4, <2>2, <3>1, <3>2 DEF DInv, RxDoubled
  <2> QED BY <1>4, <2>1, <2>2 DEF DInv, RxDoubled, RxMultiEnded, TakenTwice
<1>5. CASE phase = "RX" /\ (Exhausted("RX") \/ EndLoop("RX"))
  <2>1. /\ UNCHANGED <<config, queue>> /\ phase' # "RX" /\ Eligible("RX")' = Eligible("RX")
        /\ config.policy["RX"] = "MULTI" => ~Pending("RX")
    BY <1>5 DEF Exhausted, EndLoop, Eligible
  <2>2. ASSUME config.policy["RX"] = "MULTI", currPass = 3, NEW v \in Eligible("RX")
        PROVE  TakenTwice(v)
    BY <1>1, <1>5, <2>2 DEF DInv, RxDoubled
  <2>3. config.policy["RX"] = "MULTI"
          => \/ Len(queue["RX"]) >= config.threads["RX"] \/ Len(queue["RX"]) >= config.queues["RX"]
             \/ currPass = 3
    BY <1>1, <2>1 DEF Pending
  <2> QED BY <2>1, <2>2, <2>3 DEF DInv, RxDoubled, RxMultiEnded, TakenTwice
<1>6. CASE phase # "RX" /\ \E d \in Dir : Assign(d)
  <2>1. phase' # "RX" /\ config' = config /\ queue'["RX"] = queue["RX"]
    BY <1>6, AssignAppends DEF Assign, Dir
  <2> QED BY <1>6, <2>1 DEF DInv, RxDoubled, RxMultiEnded, TakenTwice, Eligible
<1>7. CASE \/ phase # "RX" /\ ((\E d \in Dir : Skip(d) \/ Exhausted(d) \/ EndLoop(d)) \/ CheckCounts)
           \/ UNCHANGED vars
  <2>1. /\ UNCHANGED <<config, assignmentCount, queue>>
        /\ (phase # "RX" /\ phase' # "RX") \/ UNCHANGED <<phase, cpu, currPass>>
    BY <1>7 DEF Skip, Exhausted, EndLoop, CheckCounts, Dir, vars
  <2> QED BY <2>1 DEF DInv, RxDoubled, RxMultiEnded, TakenTwice, Eligible
<1>8. ASSUME NEW d \in Dir, Visit(d), phase = "RX"
      PROVE  d = "RX"
  BY <1>8 DEF Visit, Skip, Assign, Exhausted, EndLoop
<1>9. phase = "RX" => ~CheckCounts
  BY DEF CheckCounts
<1> QED BY <1>3, <1>4, <1>5, <1>6, <1>7, <1>8, <1>9 DEF Next, Visit

\* The RX loop of a MULTI configuration gives up only for want of VCPUs, at two threads
\* each, or of queues (makeLcoreAssignment).
THEOREM RxMultiRefusalJustified == Spec => []RxMultiRefusedOnlyIfShort
<1>1. TypeOK /\ LInv /\ DInv => RxMultiRefusedOnlyIfShort
  <2> SUFFICES ASSUME TypeOK, LInv, DInv, phase = "Failed", config.policy["RX"] = "MULTI",
                      Len(queue["RX"]) # config.threads["RX"]
               PROVE  \/ config.threads["RX"] > 2 * Cardinality(Eligible("RX"))
                      \/ config.threads["RX"] > config.queues["RX"]
    BY DEF RxMultiRefusedOnlyIfShort
  <2>1. /\ Len(queue["RX"]) \in Nat /\ config.threads["RX"] \in Nat
        /\ config.queues["RX"] \in Nat /\ Len(queue["RX"]) < config.threads["RX"]
    BY DEF TypeOK, ConfigType, Dir, LInv, Fits
  <2>2. CASE \A v \in Eligible("RX") : TakenTwice(v)
    BY <2>1, <2>2, TakenTwiceCount
  <2>3. CASE Len(queue["RX"]) >= config.queues["RX"]
    BY <2>1, <2>3
  <2> QED BY <2>1, <2>2, <2>3 DEF DInv, RxMultiEnded
<1>2. Init => DInv /\ CursorRests
  BY DEF Init, DInv, RxDoubled, RxMultiEnded, CursorRests, Eligible, Vcpu
<1>3. TypeOK /\ TypeOK' /\ CursorRests /\ [Next]_vars => CursorRests'
  BY StepsAreUsed DEF CursorRests, vars
<1>4. TypeOK /\ TypeOK' /\ LInv /\ CursorRests /\ DInv /\ [Next]_vars => DInv'
  BY DInvKept
<1> QED BY <1>1, <1>2, <1>3, <1>4, LoopInvariant, TypeCorrect, PTL DEF Spec
-----------------------------------------------------------------------------
\* What the TX loop finds when the RX loop has left it its VCPUs.

TxTaken(v) == \E q \in DOMAIN queue["TX"] : queue["TX"][q].vcpu = v

\* RX is OFF, or each of its lcores has a VCPU of its own that TX may not have
Undisturbed ==
  \/ config.policy["RX"] = "OFF"
  \/ config.policy["RX"] # "MULTI" /\ Eligible("RX") \intersect Eligible("TX") = {}

TxMayComplete == Undisturbed /\ Satisfied("RX") /\ config.policy["TX"] # "MULTI"

\* an RX loop gives lcores to its own VCPUs only, and one that shares none is done with
\* the first pass or wants more than there is
RxRests ==
  phase = "RX" =>
    /\ \A v \in Vcpu : assignmentCount[v] > 0 => v \in Eligible("RX") /\ config.policy["RX"] # "OFF"
    /\ config.policy["RX"] = "OFF" => currPass = 1
    /\ config.policy["RX"] \notin {"OFF", "MULTI"} =>
         \/ currPass = 1
         \/ currPass = 2 /\ cpu = 0
         \/ Len(queue["RX"]) < config.threads["RX"]

\* the loop has used up its VCPUs from c, where it started, to the end, and then
\* those from the first one on
TxPasses ==
  phase = "TX" /\ TxMayComplete =>
    /\ \A v \in Eligible("TX") : assignmentCount[v] > 0 => TxTaken(v)
    /\ currPass = 1 => \E c \in 0 .. NumVcpu : \A v \in Eligible("TX") :
         assignmentCount[v] > 0 <=> c <= v /\ v < cpu
    /\ currPass = 2 => \E c \in 0 .. NumVcpu : \A v \in Eligible("TX") :
         assignmentCount[v] > 0 <=> v < cpu \/ c <= v
    /\ currPass = 3 => \A v \in Eligible("TX") : assignmentCount[v] > 0

\* why the TX loop ended
TxEnded ==
  phase \notin {"RX", "TX"} /\ TxMayComplete =>
    \/ config.policy["TX"] = "OFF"
    \/ Len(queue["TX"]) >= config.threads["TX"]
    \/ Len(queue["TX"]) >= config.queues["TX"]
    \/ \A v \in Eligible("TX") : TxTaken(v)

TInv == RxRests /\ TxPasses /\ TxEnded

\* What is left of TxDistinctRefusedOnlyIfShort, which does not hold: it does when RX is
\* OFF, and when RX shares no VCPU and may not have those of TX.
TxUndisturbedRefusedOnlyIfShort ==
  /\ phase = "Failed" /\ config.policy["TX"] = "DISTINCT"
  /\ Undisturbed /\ Satisfied("RX") /\ Len(queue["TX"]) # config.threads["TX"]
  => \/ config.threads["TX"] > Cardinality(Eligible("TX"))
     \/ config.threads["TX"] > config.queues["TX"]

\* One more RX queue: in the first pass, as the second one finds nothing free.
LEMMA RxAssignRests ==
  ASSUME TypeOK, LInv, TInv, Assign("RX")
  PROVE  TInv'
<1>1. /\ config' = config /\ phase' = phase /\ phase = "RX" /\ Pending("RX") /\ cpu \in Eligible("RX")
      /\ MayTake("RX") /\ Advance
  BY DEF Assign
<1>2. cpu \in Vcpu /\ currPass \in 1 .. 3 /\ assignmentCount[cpu] \in Nat /\ NumVcpu \in Nat \ {0}
  BY DEF TypeOK
<1>3. ASSUME config.policy["RX"] # "MULTI" PROVE currPass = 1
  <2>1. currPass >= 2 => assignmentCount[cpu] > 0
    BY <1>1 DEF LInv, RxPasses
  <2>2. assignmentCount[cpu] = 0
    BY <1>1, <1>3 DEF MayTake
  <2> QED BY <1>2, <2>1, <2>2
<1>4. currPass = 1 => currPass' = 1 \/ (currPass' = 2 /\ cpu' = 0)
  BY <1>1, <1>2 DEF Advance
<1>5. \A v \in Vcpu : assignmentCount'[v] > 0 => v \in Eligible("RX")' /\ config'.policy["RX"] # "OFF"
  <2>1. Eligible("RX")' = Eligible("RX") /\ config.policy["RX"] # "OFF"
    BY <1>1 DEF Eligible, Pending
  <2>2. \A v \in Vcpu \ {cpu} : assignmentCount'[v] = assignmentCount[v]
    BY DEF Assign, TypeOK
  <2> QED BY <1>1, <2>1, <2>2 DEF TInv, RxRests
<1>6. RxRests'
  BY <1>1, <1>3, <1>4, <1>5 DEF RxRests, Pending
<1> QED BY <1>1, <1>6 DEF TInv, TxPasses, TxEnded

\* One more TX queue, on a VCPU of the cursor's that no lcore had.
LEMMA TxAssignTakes ==
  ASSUME TypeOK, TInv, Assign("TX")
  PROVE  TInv'
<1>1. /\ config' = config /\ phase' = phase /\ phase = "TX" /\ Pending("TX") /\ cpu \in Eligible("TX")
      /\ MayTake("TX") /\ Advance
      /\ assignmentCount' = [assignmentCount EXCEPT ![cpu] = @ + 1]
  BY DEF Assign
<1>2. /\ cpu \in Vcpu /\ currPass \in 1 .. 2 /\ assignmentCount \in [Vcpu -> Nat]
      /\ NumVcpu \in Nat \ {0} /\ Eligible("TX") \subseteq Vcpu
  BY <1>1 DEF TypeOK, ConfigType, Eligible, Pending
<1>3. /\ queue'["RX"] = queue["RX"] /\ Len(queue'["TX"]) = Len(queue["TX"]) + 1
      /\ \A q \in 1 .. Len(queue["TX"]) : queue'["TX"][q] = queue["TX"][q]
      /\ queue'["TX"][Len(queue["TX"]) + 1].vcpu = cpu
      /\ DOMAIN queue["TX"] = 1 .. Len(queue["TX"]) /\ Len(queue["TX"]) \in Nat
      /\ DOMAIN queue'["TX"] = 1 .. Len(queue["TX"]) + 1
  <2>1. "TX" \in Dir /\ "RX" \in Dir \ {"TX"}
    BY DEF Dir
  <2>2. /\ queue' \in [Dir -> Seq(Queue)] /\ queue'["RX"] = queue["RX"]
        /\ Len(queue'["TX"]) = Len(queue["TX"]) + 1
        /\ \A q \in 1 .. Len(queue["TX"]) : queue'["TX"][q] = queue["TX"][q]
        /\ queue'["TX"][Len(queue["TX"]) + 1] = [vcpu |-> cpu, lcore |-> Len(lcore)]
    BY <2>1, AssignAppends
  <2>3. queue["TX"] \in Seq(Queue) /\ queue'["TX"] \in Seq(Queue)
    BY <2>1, <2>2 DEF TypeOK
  <2> QED BY <2>2, <2>3
<1>4. /\ Eligible("TX")' = Eligible("TX") /\ TxMayComplete' = TxMayComplete
  BY <1>1, <1>3 DEF Eligible, TxMayComplete, Undisturbed, Satisfied
<1>5. /\ \A v \in Vcpu \ {cpu} : assignmentCount'[v] = assignmentCount[v]
      /\ assignmentCount'[cpu] > 0
  BY <1>1, <1>2
<1>6. SUFFICES ASSUME TxMayComplete
               PROVE  TxPasses'
  BY <1>1, <1>4 DEF TInv, RxRests, TxPasses, TxEnded
<1>7. \A v \in Eligible("TX") : assignmentCount'[v] > 0 => TxTaken(v)'
  <2>1. ASSUME NEW v \in Eligible("TX"), v = cpu PROVE TxTaken(v)'
    BY <1>3, <2>1 DEF TxTaken
  <2>2. ASSUME NEW v \in Eligible("TX"), TxTaken(v) PROVE TxTaken(v)'
    <3>1. PICK q \in 1 .. Len(queue["TX"]) : queue["TX"][q].vcpu = v
      BY <1>3, <2>2 DEF TxTaken
    <3>2. queue'["TX"][q].vcpu = v /\ q \in DOMAIN queue'["TX"]
      BY <1>3, <3>1
    <3> QED BY <3>2 DEF TxTaken
  <2> QED BY <1>1, <1>2, <1>5, <1>6, <2>1, <2>2 DEF TInv, TxPasses
<1>8. CASE currPass = 1
  <2>1. PICK c \in 0 .. NumVcpu : \A v \in Eligible("TX") :
          assignmentCount[v] > 0 <=> c <= v /\ v < cpu
    BY <1>1, <1>6, <1>8 DEF TInv, TxPasses
  <2> DEFINE start == IF c <= cpu THEN c ELSE cpu
  <2>2. start \in 0 .. NumVcpu
    BY <1>2 DEF Vcpu
  <2>3. \A v \in Eligible("TX") : assignmentCount'[v] > 0 <=> start <= v /\ v < cpu + 1
    <3> SUFFICES ASSUME NEW v \in Eligible("TX")
                 PROVE  assignmentCount'[v] > 0 <=> start <= v /\ v < cpu + 1
      OBVIOUS
    <3>1. v \in Int /\ cpu \in Int /\ c \in Int
      BY <1>2, <2>1 DEF Vcpu
    <3>2. CASE v = cpu
      BY <1>5, <3>1, <3>2
    <3>3. CASE v # cpu
      BY <1>2, <1>5, <2>1, <3>1, <3>3
    <3> QED BY <3>2, <3>3
  <2> HIDE DEF start
  <2>4. CASE cpu + 1 = NumVcpu
    <3>1. currPass' = 2 /\ cpu' = 0
      BY <1>1, <1>8, <2>4 DEF Advance
    <3>2. \A v \in Eligible("TX") : assignmentCount'[v] > 0 <=> v < cpu' \/ start <= v
      BY <1>2, <2>2, <2>3, <2>4, <3>1 DEF Vcpu
    <3> QED BY <1>4, <1>7, <2>2, <3>1, <3>2 DEF TxPasses
  <2>5. CASE cpu + 1 # NumVcpu
    <3>1. currPass' = 1 /\ cpu' = cpu + 1
      BY <1>1, <1>8, <2>5 DEF Advance
    <3> QED BY <1>4, <1>7, <2>2, <2>3, <3>1 DEF TxPasses
  <2> QED BY <2>4, <2>5
<1>9. CASE currPass = 2
  <2>1. PICK c \in 0 .. NumVcpu : \A v \in Eligible("TX") :
          assignmentCount[v] > 0 <=> v < cpu \/ c <= v
    BY <1>1, <1>6, <1>9 DEF TInv, TxPasses
  <2>2. \A v \in Eligible("TX") : assignmentCount'[v] > 0 <=> v < cpu + 1 \/ c <= v
    <3> SUFFICES ASSUME NEW v \in Eligible("TX")
                 PROVE  assignmentCount'[v] > 0 <=> v < cpu + 1 \/ c <= v
      OBVIOUS
    <3>1. v \in Int /\ cpu \in Int /\ c \in Int
      BY <1>2, <2>1 DEF Vcpu
    <3>2. CASE v = cpu
      BY <1>5, <3>1, <3>2
    <3>3. CASE v # cpu
      BY <1>2, <1>5, <2>1, <3>1, <3>3
    <3> QED BY <3>2, <3>3
  <2>3. CASE cpu + 1 = NumVcpu
    <3>1. currPass' = 3
      BY <1>1, <1>9, <2>3 DEF Advance
    <3>2. \A v \in Eligible("TX") : assignmentCount'[v] > 0
      BY <1>2, <2>2, <2>3 DEF Vcpu
    <3> QED BY <1>4, <1>7, <3>1, <3>2 DEF TxPasses
  <2>4. CASE cpu + 1 # NumVcpu
    <3>1. currPass' = 2 /\ cpu' = cpu + 1
      BY <1>1, <1>9, <2>4 DEF Advance
    <3> QED BY <1>4, <1>7, <2>1, <2>2, <3>1 DEF TxPasses
  <2> QED BY <2>3, <2>4
<1> QED BY <1>2, <1>8, <1>9

\* A loop goes past a VCPU it may not have.
LEMMA SkipKeepsTInv ==
  ASSUME TypeOK, TInv, NEW d \in Dir, Skip(d)
  PROVE  TInv'
<1>1. /\ UNCHANGED <<config, phase, assignmentCount, queue, lcore>> /\ phase = d /\ Advance /\ Pending(d)
      /\ cpu \notin Eligible(d) \/ (assignmentCount[cpu] > 0 /\ currPass = 1)
  BY DEF Skip
<1>2. /\ cpu \in Vcpu /\ currPass \in 1 .. 2 /\ NumVcpu \in Nat \ {0} /\ Eligible("TX") \subseteq Vcpu
  BY <1>1 DEF TypeOK, ConfigType, Eligible, Pending
<1>3. /\ Eligible("TX")' = Eligible("TX") /\ TxMayComplete' = TxMayComplete
      /\ \A v : TxTaken(v)' = TxTaken(v)
  BY <1>1 DEF Eligible, TxMayComplete, Undisturbed, Satisfied, TxTaken
<1>4. RxRests'
  BY <1>1 DEF TInv, RxRests, Pending, Eligible
<1>5. TxEnded'
  BY <1>1 DEF TxEnded, Dir
<1>6. TxPasses'
  <2> SUFFICES ASSUME phase = "TX", TxMayComplete PROVE TxPasses'
    BY <1>1, <1>3 DEF TxPasses
  <2>1. \A v \in Eligible("TX") : assignmentCount[v] > 0 => TxTaken(v)'
    BY <1>3 DEF TInv, TxPasses
  <2>2. CASE currPass = 1
    <3>1. PICK c \in 0 .. NumVcpu : \A v \in Eligible("TX") :
            assignmentCount[v] > 0 <=> c <= v /\ v < cpu
      BY <2>2 DEF TInv, TxPasses
    <3>2. cpu \notin Eligible("TX")
      BY <1>1, <1>2, <3>1 DEF Vcpu
    <3>3. \A v \in Eligible("TX") : assignmentCount[v] > 0 <=> c <= v /\ v < cpu + 1
      BY <1>2, <3>1, <3>2 DEF Vcpu
    <3>4. CASE cpu + 1 = NumVcpu
      <4>1. currPass' = 2 /\ cpu' = 0
        BY <1>1, <2>2, <3>4 DEF Advance
      <4>2. \A v \in Eligible("TX") : assignmentCount[v] > 0 <=> v < cpu' \/ c <= v
        BY <1>2, <3>1, <3>3, <3>4, <4>1 DEF Vcpu
      <4> QED BY <1>1, <1>3, <2>1, <3>1, <4>1, <4>2 DEF TxPasses
    <3>5. CASE cpu + 1 # NumVcpu
      <4>1. currPass' = 1 /\ cpu' = cpu + 1
        BY <1>1, <2>2, <3>5 DEF Advance
      <4> QED BY <1>1, <1>3, <2>1, <3>1, <3>3, <4>1 DEF TxPasses
    <3> QED BY <3>4, <3>5
  <2>3. CASE currPass = 2
    <3>1. PICK c \in 0 .. NumVcpu : \A v \in Eligible("TX") :
            assignmentCount[v] > 0 <=> v < cpu \/ c <= v
      BY <2>3 DEF TInv, TxPasses
    <3>2. cpu \notin Eligible("TX")
      BY <1>1, <2>3
    <3>3. \A v \in Eligible("TX") : assignmentCount[v] > 0 <=> v < cpu + 1 \/ c <= v
      BY <1>2, <3>1, <3>2 DEF Vcpu
    <3>4. CASE cpu + 1 = NumVcpu
      <4>1. currPass' = 3
        BY <1>1, <2>3, <3>4 DEF Advance
      <4>2. \A v \in Eligible("TX") : assignmentCount[v] > 0
        BY <1>2, <3>3, <3>4 DEF Vcpu
      <4> QED BY <1>1, <1>3, <2>1, <4>1, <4>2 DEF TxPasses
    <3>5. CASE cpu + 1 # NumVcpu
      <4>1. currPass' = 2 /\ cpu' = cpu + 1
        BY <1>1, <2>3, <3>5 DEF Advance
      <4> QED BY <1>1, <1>3, <2>1, <3>1, <3>3, <4>1 DEF TxPasses
    <3> QED BY <3>4, <3>5
  <2> QED BY <1>2, <2>2, <2>3
<1> QED BY <1>4, <1>5, <1>6 DEF TInv

\* The RX loop leaves every VCPU of TX free, and the cursor in the first pass or at the
\* start of the second.
LEMMA TxStarts ==
  ASSUME TypeOK, TInv, EndLoop("RX")
  PROVE  TInv'
<1>1. /\ UNCHANGED <<config, cpu, currPass, assignmentCount, queue, lcore>>
      /\ phase = "RX" /\ phase' = "TX" /\ ~Pending("RX")
  BY DEF EndLoop
<1>2. cpu \in Vcpu /\ currPass \in 1 .. 3 /\ NumVcpu \in Nat \ {0} /\ Eligible("TX") \subseteq Vcpu
      /\ assignmentCount \in [Vcpu -> Nat]
      /\ Len(queue["RX"]) \in Nat /\ config.threads["RX"] \in Nat
  BY DEF TypeOK, ConfigType, Eligible, Dir
<1>3. Eligible("TX")' = Eligible("TX") /\ TxMayComplete' = TxMayComplete
  BY <1>1 DEF Eligible, TxMayComplete, Undisturbed, Satisfied
<1> SUFFICES ASSUME TxMayComplete PROVE TxPasses'
  BY <1>1, <1>3 DEF TInv, RxRests, TxPasses, TxEnded
<1>4. ASSUME NEW v \in Eligible("TX") PROVE assignmentCount[v] = 0
  <2> SUFFICES ASSUME assignmentCount[v] # 0 PROVE FALSE
    OBVIOUS
  <2>1. v \in Eligible("RX") /\ config.policy["RX"] # "OFF"
    BY <1>1, <1>2 DEF TInv, RxRests
  <2> QED BY <2>1 DEF TxMayComplete, Undisturbed
<1>5. currPass = 1 \/ (currPass = 2 /\ cpu = 0)
  <2>1. config.policy["RX"] # "MULTI"
    BY DEF TxMayComplete, Undisturbed
  <2>2. config.policy["RX"] # "OFF" => Len(queue["RX"]) = config.threads["RX"]
    BY DEF TxMayComplete, Satisfied
  <2> QED BY <1>1, <1>2, <2>1, <2>2 DEF TInv, RxRests
<1>6. CASE currPass = 1
  <2>1. cpu \in 0 .. NumVcpu /\ \A v \in Eligible("TX") : assignmentCount[v] > 0 <=> cpu <= v /\ v < cpu
    BY <1>2, <1>4 DEF Vcpu
  <2> QED BY <1>1, <1>3, <1>4, <1>6, <2>1 DEF TxPasses
<1>7. CASE currPass = 2 /\ cpu = 0
  <2>1. NumVcpu \in 0 .. NumVcpu
        /\ \A v \in Eligible("TX") : assignmentCount[v] > 0 <=> v < cpu \/ NumVcpu <= v
    BY <1>2, <1>4, <1>7 DEF Vcpu
  <2> QED BY <1>1, <1>3, <1>4, <1>7, <2>1 DEF TxPasses
<1> QED BY <1>5, <1>6, <1>7

\* The end of the TX loop, or of the function.
LEMMA EndKeepsTInv ==
  ASSUME TypeOK, TInv, Exhausted("RX") \/ Exhausted("TX") \/ EndLoop("TX") \/ CheckCounts
  PROVE  TInv'
<1>1. /\ UNCHANGED <<config, cpu, currPass, assignmentCount, queue, lcore>>
      /\ phase' \notin {"RX", "TX"}
  BY DEF Exhausted, EndLoop, CheckCounts
<1>2. TxMayComplete' = TxMayComplete /\ Eligible("TX")' = Eligible("TX") /\ \A v : TxTaken(v)' = TxTaken(v)
  BY <1>1 DEF Eligible, TxMayComplete, Undisturbed, Satisfied, TxTaken
<1>3. /\ currPass \in 1 .. 3 /\ cpu \in Vcpu /\ Eligible("TX") \subseteq Vcpu /\ NumVcpu \in Nat
      /\ \A e \in Dir : Len(queue[e]) \in Nat /\ config.threads[e] \in Nat /\ config.queues[e] \in Nat
  BY DEF TypeOK, ConfigType, Eligible, Dir
<1> SUFFICES ASSUME TxMayComplete PROVE TxEnded'
  BY <1>1, <1>2 DEF TInv, RxRests, TxPasses, TxEnded
<1>4. CASE Exhausted("RX")
  <2>1. Len(queue["RX"]) < config.threads["RX"] /\ config.policy["RX"] # "OFF"
    BY <1>4 DEF Exhausted, Pending
  <2> QED BY <1>3, <2>1 DEF TxMayComplete, Satisfied, Dir
<1>5. CASE Exhausted("TX")
  <2>1. phase = "TX" /\ cpu \in Eligible("TX") /\ assignmentCount[cpu] > 0 /\ currPass = 2
    BY <1>5 DEF Exhausted
  <2>2. PICK c \in 0 .. NumVcpu : \A v \in Eligible("TX") :
          assignmentCount[v] > 0 <=> v < cpu \/ c <= v
    BY <2>1 DEF TInv, TxPasses
  <2>3. c <= cpu
    BY <1>3, <2>1, <2>2 DEF Vcpu
  <2>4. \A v \in Eligible("TX") : assignmentCount[v] > 0
    BY <1>3, <2>2, <2>3 DEF Vcpu
  <2>5. \A v \in Eligible("TX") : TxTaken(v)
    BY <2>1, <2>4 DEF TInv, TxPasses
  <2> QED BY <1>1, <1>2, <2>5 DEF TxEnded
<1>6. CASE EndLoop("TX")
  <2>1. phase = "TX" /\ ~Pending("TX")
    BY <1>6 DEF EndLoop
  <2>2. CASE currPass = 3
    <3>1. \A v \in Eligible("TX") : TxTaken(v)
      BY <2>1, <2>2 DEF TInv, TxPasses
    <3> QED BY <1>1, <1>2, <3>1 DEF TxEnded
  <2>3. CASE currPass # 3
    <3>1. \/ config.policy["TX"] = "OFF" \/ Len(queue["TX"]) >= config.threads["TX"]
          \/ Len(queue["TX"]) >= config.queues["TX"]
      BY <1>3, <2>1, <2>3 DEF Pending, Dir
    <3> QED BY <1>1, <3>1 DEF TxEnded
  <2> QED BY <2>2, <2>3
<1>7. CASE CheckCounts
  <2>1. phase = "Check"
    BY <1>7 DEF CheckCounts
  <2> QED BY <1>1, <1>2, <2>1 DEF TInv, TxEnded
<1> QED BY <1>4, <1>5, <1>6, <1>7

LEMMA TInvKept ==
  ASSUME TypeOK, LInv, TInv, [Next]_vars
  PROVE  TInv'
<1>2. CASE UNCHANGED vars
  BY <1>2 DEF vars, TInv, RxRests, TxPasses, TxEnded, TxMayComplete, Undisturbed, Satisfied, Eligible, TxTaken
<1>3. CASE CheckCounts
  BY <1>3, EndKeepsTInv
<1>4. CASE Visit("RX")
  BY <1>4, RxAssignRests, SkipKeepsTInv, TxStarts, EndKeepsTInv DEF Visit, Dir
<1>5. CASE Visit("TX")
  BY <1>5, TxAssignTakes, SkipKeepsTInv, EndKeepsTInv DEF Visit, Dir
<1> QED BY <1>2, <1>3, <1>4, <1>5 DEF Next, Dir

\* Where the TX loop may leave VCPUs free is known: the pass it inherits hides those before
\* the cursor only if RX took one that TX may have too, or RX is MULTI. In every
\* other configuration a DISTINCT TX request is refused only for want of VCPUs or queues
\* (makeLcoreAssignment, currPass and cpu shared by both loops).
THEOREM TxRefusalJustified == Spec => []TxUndisturbedRefusedOnlyIfShort
<1>1. Init => TInv
  BY DEF Init, TInv, RxRests, TxPasses, TxEnded
<1>2. TypeOK /\ LInv /\ TInv => TxUndisturbedRefusedOnlyIfShort
  <2> SUFFICES ASSUME TypeOK, LInv, TInv, phase = "Failed", config.policy["TX"] = "DISTINCT",
                      Undisturbed, Satisfied("RX"), Len(queue["TX"]) # config.threads["TX"]
               PROVE  \/ config.threads["TX"] > Cardinality(Eligible("TX"))
                      \/ config.threads["TX"] > config.queues["TX"]
    BY DEF TxUndisturbedRefusedOnlyIfShort
  <2>1. /\ Len(queue["TX"]) \in Nat /\ config.threads["TX"] \in Nat
        /\ config.queues["TX"] \in Nat /\ Len(queue["TX"]) <= config.threads["TX"]
    BY DEF TypeOK, ConfigType, Dir, LInv, Fits
  <2>2. CASE \A v \in Eligible("TX") : TxTaken(v)
    <3>1. Cardinality(Eligible("TX")) \in Nat /\ Cardinality(Eligible("TX")) <= Len(queue["TX"])
      BY <2>2, VcpusOfQueues DEF TxTaken, Dir
    <3> QED BY <2>1, <3>1
  <2>3. CASE Len(queue["TX"]) >= config.queues["TX"]
    BY <2>1, <2>3
  <2> QED BY <2>1, <2>2, <2>3 DEF TInv, TxEnded, TxMayComplete
<1> QED BY <1>1, <1>2, TInvKept, LoopInvariant, TypeCorrect, PTL DEF Spec
=============================================================================
