-------------------------- MODULE LogRuntimeProofs --------------------------
(***************************************************************************)
(* Proofs about LogRuntime: types, exact stamps and whole tags, that       *)
(* messages written with the mutex held do not mix, and that no thread     *)
(* waits in vain or runs for ever.                                         *)
(***************************************************************************)
EXTENDS LogRuntime, TLAPS

(***************************************************************************)
(* Arithmetic of quotients and remainders.                                 *)
(***************************************************************************)
LEMMA DivMod ==
  ASSUME NEW a \in Nat, NEW n \in Nat \ {0}
  PROVE  /\ a \div n \in Nat /\ a % n \in 0 .. n - 1
         /\ a = (a \div n) * n + (a % n)
BY SMTT(60)

LEMMA IntMod ==
  ASSUME NEW a \in Int, NEW n \in Nat \ {0}
  PROVE  /\ a % n \in 0 .. n - 1
         /\ \E q \in Int : a = q * n + (a % n)
<1>1. a \div n \in Int /\ a % n \in 0 .. n - 1 /\ a = (a \div n) * n + (a % n)
  BY SMTT(60)
<1> QED BY <1>1

LEMMA Multiple ==
  ASSUME NEW q \in Int, NEW n \in Nat \ {0}
  PROVE  (q * n) % n = 0
BY SMTT(60)

LEMMA EpochType ==
  ASSUME TypeOK
  PROVE  epoch \in Nat /\ NS \in Nat \ {0} /\ Seconds \in Nat \ {0} /\ Now \subseteq Nat
BY LogAssumption DEF TypeOK

\* The seconds of a stamp before they are cut to unsigned.
Whole(now) == (now \div NS) - (epoch \div NS) - IF now % NS < epoch % NS THEN 1 ELSE 0

LEMMA WholeSeconds ==
  ASSUME TypeOK, NEW now \in Now
  PROVE  /\ Whole(now) \in Int
         /\ ElapsedTime(now).ns \in 0 .. NS - 1
         /\ ElapsedTime(now).sec = Whole(now) % Seconds
         /\ ElapsedTime(now).sec \in 0 .. Seconds - 1
         /\ Whole(now) * NS + ElapsedTime(now).ns = now - epoch
<1>1. now \in Nat /\ epoch \in Nat /\ NS \in Nat \ {0} /\ Seconds \in Nat \ {0}
  BY EpochType
<1>2. /\ now % NS \in 0 .. NS - 1 /\ epoch % NS \in 0 .. NS - 1
      /\ now \div NS \in Nat /\ epoch \div NS \in Nat
      /\ now = (now \div NS) * NS + (now % NS)
      /\ epoch = (epoch \div NS) * NS + (epoch % NS)
  BY <1>1, DivMod
<1>3. Whole(now) \in Int
  BY <1>2 DEF Whole
<1>4. ElapsedTime(now).sec = Whole(now) % Seconds
  BY DEF ElapsedTime, Whole
<1>5. ElapsedTime(now).ns = (now % NS) - (epoch % NS) + IF now % NS < epoch % NS THEN NS ELSE 0
  BY DEF ElapsedTime
<1>6. ElapsedTime(now).ns \in 0 .. NS - 1
  BY <1>1, <1>2, <1>5
<1>7. ElapsedTime(now).sec \in 0 .. Seconds - 1
  BY <1>1, <1>3, <1>4, IntMod
<1>8. Whole(now) * NS + ElapsedTime(now).ns = now - epoch
  <2>1. CASE now % NS < epoch % NS
    <3>1. Whole(now) = (now \div NS) - (epoch \div NS) - 1
      BY <2>1 DEF Whole
    <3>2. ElapsedTime(now).ns = (now % NS) - (epoch % NS) + NS
      BY <2>1, <1>5
    <3>3. ((now \div NS) - (epoch \div NS) - 1) * NS
          = (now \div NS) * NS - (epoch \div NS) * NS - NS
      BY <1>1, <1>2
    <3> QED BY <1>1, <1>2, <3>1, <3>2, <3>3
  <2>2. CASE ~(now % NS < epoch % NS)
    <3>1. Whole(now) = (now \div NS) - (epoch \div NS)
      BY <2>2, <1>2 DEF Whole
    <3>2. ElapsedTime(now).ns = (now % NS) - (epoch % NS)
      BY <2>2, <1>5, <1>2
    <3>3. ((now \div NS) - (epoch \div NS)) * NS = (now \div NS) * NS - (epoch \div NS) * NS
      BY <1>1, <1>2
    <3> QED BY <1>1, <1>2, <3>1, <3>2, <3>3
  <2> QED BY <2>1, <2>2
<1> QED BY <1>3, <1>4, <1>6, <1>7, <1>8

\* A stamp is exact up to whole turns of the unsigned seconds.
LEMMA ElapsedExact ==
  ASSUME TypeOK, NEW now \in Now
  PROVE  (ElapsedTime(now).sec * NS + ElapsedTime(now).ns - (now - epoch)) % (Seconds * NS) = 0
<1> DEFINE sec == ElapsedTime(now).sec
           ns == ElapsedTime(now).ns
<1>1. NS \in Nat \ {0} /\ Seconds \in Nat \ {0} /\ Seconds * NS \in Nat \ {0}
  BY EpochType
<1>2. /\ Whole(now) \in Int /\ ns \in Int /\ sec \in Int
      /\ sec = Whole(now) % Seconds /\ Whole(now) * NS + ns = now - epoch
  BY WholeSeconds, <1>1
<1> HIDE DEF sec, ns
<1>3. PICK q \in Int : Whole(now) = q * Seconds + sec
  <2>1. \E q \in Int : Whole(now) = q * Seconds + (Whole(now) % Seconds)
    BY <1>1, <1>2, IntMod
  <2> QED BY <1>2, <2>1
<1>4. (q * Seconds + sec) * NS = (q * Seconds) * NS + sec * NS
  BY <1>1, <1>2
<1>5. (q * Seconds) * NS = q * (Seconds * NS)
  BY <1>1
<1>6. sec * NS + ns - (now - epoch) = (-q) * (Seconds * NS)
  <2>1. now - epoch = q * (Seconds * NS) + sec * NS + ns
    BY <1>2, <1>3, <1>4, <1>5
  <2>2. (-q) * (Seconds * NS) = -(q * (Seconds * NS))
    BY <1>1
  <2>3. q * (Seconds * NS) \in Int /\ sec * NS \in Int
    BY <1>1, <1>2
  <2> QED BY <1>2, <2>1, <2>2, <2>3
<1>7. ((-q) * (Seconds * NS)) % (Seconds * NS) = 0
  <2> DEFINE m == Seconds * NS
  <2>1. m \in Nat \ {0} /\ -q \in Int
    BY <1>1
  <2> HIDE DEF m
  <2>2. ((-q) * m) % m = 0
    BY <2>1, Multiple
  <2> QED BY <2>2 DEF m
<1> QED BY <1>6, <1>7 DEF sec, ns

\* Between the epoch and TagSeconds + 1 seconds after it the seconds have few digits.
LEMMA ElapsedShort ==
  ASSUME TypeOK, NEW now \in Now, now >= epoch, now - epoch < (TagSeconds + 1) * NS
  PROVE  ElapsedTime(now).sec <= TagSeconds
<1> DEFINE ns == ElapsedTime(now).ns
<1>1. /\ NS \in Nat \ {0} /\ Seconds \in Nat \ {0} /\ TagSeconds \in Nat
      /\ now \in Nat /\ epoch \in Nat
  BY EpochType, LogAssumption
<1>2. /\ Whole(now) \in Int /\ ns \in 0 .. NS - 1
      /\ ElapsedTime(now).sec = Whole(now) % Seconds /\ Whole(now) * NS + ns = now - epoch
  BY WholeSeconds
<1> HIDE DEF ns
<1>3. Whole(now) >= 0
  <2> SUFFICES ASSUME Whole(now) <= -1 PROVE FALSE
    BY <1>2
  <2>1. Whole(now) * NS <= -NS
    BY <1>1, <1>2, SMTT(60)
  <2> QED BY <1>1, <1>2, <2>1
<1>4. Whole(now) <= TagSeconds
  <2> SUFFICES ASSUME Whole(now) >= TagSeconds + 1 PROVE FALSE
    BY <1>1, <1>2
  <2>1. Whole(now) * NS >= (TagSeconds + 1) * NS
    BY <1>1, <1>2, SMTT(60)
  <2> QED BY <1>1, <1>2, <2>1
<1>5. Whole(now) % Seconds <= Whole(now)
  BY <1>1, <1>2, <1>3, SMTT(60)
<1>6. Whole(now) % Seconds \in Int
  BY <1>1, <1>2, IntMod
<1> QED BY <1>1, <1>2, <1>4, <1>5, <1>6

(***************************************************************************)
(* Types.                                                                  *)
(***************************************************************************)

ThreadType ==
  [at : {"idle", "stamp", "acquire", "write", "print"}, calls : Nat,
   severity : Severities \cup {0}, form : Forms, written : Nat]

PieceType ==
  [thread : Threads, call : Nat, severity : Severities \cup {0}, form : Forms, piece : Nat]

LEMMA SeverityBound == Severities \cup {0} \subseteq 0 .. 5
BY LogAssumption

LEMMA Typed ==
  ASSUME TypeOK
  PROVE  thread \in [Threads -> ThreadType] /\ stderr \in Seq(PieceType)
BY DEF TypeOK, ThreadType, PieceType

LEMMA PieceWellFormed ==
  ASSUME TypeOK, NEW t \in Threads, NEW i \in Nat
  PROVE  Piece(t, i) \in PieceType
BY DEF TypeOK, Piece, PieceType

\* The model's states are well formed (LogRuntime, every definition).
THEOREM TypeCorrect == Spec => []TypeOK
<1>1. Init => TypeOK
  BY DEF Init, TypeOK, Idle, Forms
<1>2. TypeOK /\ [Next]_vars => TypeOK'
  <2> SUFFICES ASSUME TypeOK, [Next]_vars PROVE TypeOK'
    OBVIOUS
  <2>1. CASE ResetEpoch
    BY <2>1 DEF ResetEpoch, TypeOK
  <2>2. ASSUME NEW level \in Levels, SetSeverityLimit(level) PROVE TypeOK'
    BY <2>2 DEF SetSeverityLimit, TypeOK
  <2>3. CASE StartThreads
    BY <2>3 DEF StartThreads, TypeOK
  <2>4. ASSUME NEW t \in Threads, Begin(t) PROVE TypeOK'
    <3>1. PICK severity \in Severities, form \in Forms :
            Become(t, IF Enabled(severity)
                      THEN [thread[t] EXCEPT !.at = "stamp", !.severity = severity, !.form = form]
                      ELSE Idle(thread[t].calls + 1))
      BY <2>4 DEF Begin
    <3> DEFINE asking == [thread[t] EXCEPT !.at = "stamp", !.severity = severity, !.form = form]
    <3>2. asking \in ThreadType
      BY Typed DEF ThreadType
    <3>3. Idle(thread[t].calls + 1) \in ThreadType
      BY DEF TypeOK, ThreadType, Idle, Forms
    <3>4. thread' \in [Threads -> ThreadType]
      <4>1. CASE Enabled(severity)
        BY <3>1, <3>2, <4>1 DEF Become, TypeOK, ThreadType
      <4>2. CASE ~Enabled(severity)
        BY <3>1, <3>3, <4>2 DEF Become, TypeOK, ThreadType
      <4> QED BY <4>1, <4>2
    <3> QED BY <2>4, <3>4 DEF Begin, TypeOK, ThreadType
  <2>5. ASSUME NEW t \in Threads, Stamp(t) PROVE TypeOK'
    <3>1. PICK now \in Now :
            header' = [header EXCEPT ![t] =
              {[now |-> now, stamp |-> ElapsedTime(now),
                tag |-> thread[t].form = "vargs" \/ ElapsedTime(now).sec <= TagSeconds]}]
      BY <2>5 DEF Stamp
    <3>2. ElapsedTime(now) = [sec |-> ElapsedTime(now).sec, ns |-> ElapsedTime(now).ns]
      BY DEF ElapsedTime
    <3>3. ElapsedTime(now) \in [sec : 0 .. Seconds - 1, ns : 0 .. NS - 1]
      BY <3>2, WholeSeconds
    <3> DEFINE tag == thread[t].form = "vargs" \/ ElapsedTime(now).sec <= TagSeconds
    <3>4. tag \in BOOLEAN
      OBVIOUS
    <3> HIDE DEF tag
    <3>5. {[now |-> now, stamp |-> ElapsedTime(now), tag |-> tag]}
            \in SUBSET [now : Now, tag : BOOLEAN, stamp : [sec : 0 .. Seconds - 1, ns : 0 .. NS - 1]]
      BY <3>3, <3>4
    <3>6. header' \in [Threads -> SUBSET [now : Now, tag : BOOLEAN,
                                         stamp : [sec : 0 .. Seconds - 1, ns : 0 .. NS - 1]]]
      BY <3>1, <3>5 DEF TypeOK, tag
    <3>7. thread' \in [Threads -> ThreadType]
      <4> DEFINE at == IF thread[t].form = "vargs" THEN "print"
                       ELSE IF thread[t].severity = TRACE THEN "write" ELSE "acquire"
      <4>1. at \in {"print", "write", "acquire"}
        OBVIOUS
      <4>2. thread' = [thread EXCEPT ![t] = [thread[t] EXCEPT !.at = at]]
        BY <2>5 DEF Stamp, Become
      <4> HIDE DEF at
      <4>3. [thread[t] EXCEPT !.at = at] \in ThreadType
        BY <4>1, Typed DEF ThreadType
      <4> QED BY <4>2, <4>3, Typed
    <3>8. UNCHANGED <<epoch, severityLimit, main, lock, stderr>>
      BY <2>5 DEF Stamp
    <3> QED BY <3>6, <3>7, <3>8 DEF TypeOK, ThreadType
  <2>6. ASSUME NEW t \in Threads, Acquire(t) PROVE TypeOK'
    <3>1. thread' \in [Threads -> ThreadType]
      <4>1. [thread[t] EXCEPT !.at = "write"] \in ThreadType
        BY Typed DEF ThreadType
      <4> QED BY <2>6, <4>1, Typed DEF Acquire, Become
    <3>2. /\ lock' = lock \cup {t}
          /\ UNCHANGED <<epoch, severityLimit, main, header, stderr>>
      BY <2>6 DEF Acquire
    <3> QED BY <3>1, <3>2 DEF TypeOK, ThreadType
  <2>7. ASSUME NEW t \in Threads, WritePiece(t) PROVE TypeOK'
    <3>1. stderr' = Append(stderr, Piece(t, thread[t].written + 1))
      BY <2>7 DEF WritePiece
    <3>2. stderr' \in Seq(PieceType)
      <4>1. thread[t].written + 1 \in Nat
        BY Typed DEF ThreadType
      <4>2. Piece(t, thread[t].written + 1) \in PieceType
        BY <4>1, PieceWellFormed
      <4> QED BY <3>1, <4>2, Typed
    <3>3. thread' \in [Threads -> ThreadType]
      <4>1. thread[t] \in ThreadType
        BY Typed
      <4>2. [thread[t] EXCEPT !.written = @ + 1] \in ThreadType
        BY <4>1 DEF ThreadType
      <4> QED BY <2>7, <4>2, Typed DEF WritePiece, Become
    <3>4. header' = [header EXCEPT ![t] = {}] /\ UNCHANGED <<epoch, severityLimit, main, lock>>
      BY <2>7 DEF WritePiece
    <3> QED BY <3>2, <3>3, <3>4 DEF TypeOK, ThreadType, PieceType
  <2>8. ASSUME NEW t \in Threads, Finish(t) PROVE TypeOK'
    BY <2>8 DEF Finish, Unlocked, Become, Idle, Forms, TypeOK
  <2>9. ASSUME NEW t \in Threads, PrintMessage(t) PROVE TypeOK'
    <3>1. stderr' = Append(stderr, Piece(t, 1))
      BY <2>9 DEF PrintMessage
    <3>2. stderr' \in Seq(PieceType)
      <4>1. Piece(t, 1) \in PieceType
        BY PieceWellFormed
      <4> QED BY <3>1, <4>1, Typed
    <3>3. thread' \in [Threads -> ThreadType]
      <4>1. thread[t].calls \in Nat
        BY Typed DEF ThreadType
      <4>2. Idle(thread[t].calls + 1) \in ThreadType
        BY <4>1 DEF Idle, ThreadType, Forms
      <4> QED BY <2>9, <4>2, Typed DEF PrintMessage, Become
    <3>4. header' = [header EXCEPT ![t] = {}] /\ UNCHANGED <<epoch, severityLimit, main, lock>>
      BY <2>9 DEF PrintMessage
    <3> QED BY <3>2, <3>3, <3>4 DEF TypeOK, ThreadType, PieceType
  <2>10. CASE UNCHANGED vars
    BY <2>10 DEF vars, TypeOK
  <2> QED BY <2>1, <2>2, <2>3, <2>4, <2>5, <2>6, <2>7, <2>8, <2>9, <2>10 DEF Next, Step
<1> QED BY <1>1, <1>2, PTL DEF Spec

(***************************************************************************)
(* Stamps.  The epoch is fixed once there are threads, so a header that    *)
(* was stamped keeps agreeing with it.                                     *)
(***************************************************************************)
Stamped ==
  /\ main = "setup" => \A t \in Threads : header[t] = {}
  /\ \A t \in Threads : \A h \in header[t] :
       h.stamp = ElapsedTime(h.now) /\ (~h.tag => h.stamp.sec > TagSeconds)

\* only main's first step and the threads' own steps touch what Stamped speaks of
StampSteps == main = "threads" /\ epoch' = epoch /\ main' = main

LEMMA StampedKept ==
  ASSUME TypeOK, Stamped, StampSteps, header' = header
  PROVE  Stamped'
BY DEF Stamped, StampSteps, ElapsedTime

LEMMA StampedCleared ==
  ASSUME TypeOK, Stamped, StampSteps, NEW t \in Threads, header' = [header EXCEPT ![t] = {}]
  PROVE  Stamped'
BY DEF Stamped, StampSteps, ElapsedTime, TypeOK

\* a thread that does anything was started by main
Started ==
  main = "setup" => \A t \in Threads : thread[t].at = "idle"

THEOREM StampedAlways == Spec => [](Stamped /\ Started)
<1>1. Init => Stamped /\ Started
  BY DEF Init, Stamped, Started, Idle
<1>2. TypeOK /\ Stamped /\ Started /\ [Next]_vars => (Stamped /\ Started)'
  <2> SUFFICES ASSUME TypeOK, Stamped, Started, [Next]_vars PROVE (Stamped /\ Started)'
    OBVIOUS
  <2> USE Typed
  <2>1. CASE ResetEpoch
    BY <2>1 DEF ResetEpoch, Stamped, Started
  <2>2. ASSUME NEW level \in Levels, SetSeverityLimit(level) PROVE (Stamped /\ Started)'
    BY <2>2 DEF SetSeverityLimit, Stamped, Started, ElapsedTime
  <2>3. CASE StartThreads
    BY <2>3 DEF StartThreads, Stamped, Started, ElapsedTime
  <2>4. ASSUME NEW t \in Threads, Begin(t) PROVE (Stamped /\ Started)'
    <3>1. main = "threads" /\ StampSteps /\ header' = header
      BY <2>4 DEF Begin, StampSteps
    <3> QED BY <3>1, StampedKept DEF Started, StampSteps
  <2>5. ASSUME NEW t \in Threads, Stamp(t) PROVE (Stamped /\ Started)'
    <3>1. main = "threads" /\ StampSteps
      BY <2>5 DEF Stamp, StampSteps, Started, TypeOK
    <3>2. PICK now \in Now :
            header' = [header EXCEPT ![t] =
              {[now |-> now, stamp |-> ElapsedTime(now),
                tag |-> thread[t].form = "vargs" \/ ElapsedTime(now).sec <= TagSeconds]}]
      BY <2>5 DEF Stamp
    <3>3. ElapsedTime(now).sec \in Int /\ TagSeconds \in Int
      BY WholeSeconds, EpochType, LogAssumption
    <3>4. \A h \in header'[t] :
            h.now = now /\ h.stamp = ElapsedTime(now) /\ (~h.tag => h.stamp.sec > TagSeconds)
      <4> DEFINE tag == thread[t].form = "vargs" \/ ElapsedTime(now).sec <= TagSeconds
      <4>1. tag \in BOOLEAN /\ (~tag => ElapsedTime(now).sec > TagSeconds)
        BY <3>3
      <4>2. header'[t] = {[now |-> now, stamp |-> ElapsedTime(now), tag |-> tag]}
        BY <3>2 DEF TypeOK
      <4> HIDE DEF tag
      <4> QED BY <4>1, <4>2
    <3>5. \A s \in Threads \ {t} : header'[s] = header[s]
      BY <3>2 DEF TypeOK
    <3>6. \A any : ElapsedTime(any)' = ElapsedTime(any)
      BY <3>1 DEF ElapsedTime, StampSteps
    <3>7. \A s \in Threads : \A h \in header'[s] :
            h.stamp = ElapsedTime(h.now) /\ (~h.tag => h.stamp.sec > TagSeconds)
      BY <3>4, <3>5 DEF Stamped
    <3> QED BY <3>1, <3>6, <3>7 DEF Stamped, Started, StampSteps, ElapsedTime
  <2>6. ASSUME NEW t \in Threads, Acquire(t) PROVE (Stamped /\ Started)'
    <3>1. main = "threads" /\ StampSteps /\ header' = header
      BY <2>6 DEF Acquire, StampSteps, Started, TypeOK
    <3> QED BY <3>1, StampedKept DEF Started, StampSteps
  <2>7. ASSUME NEW t \in Threads, WritePiece(t) PROVE (Stamped /\ Started)'
    <3>1. main = "threads" /\ StampSteps /\ header' = [header EXCEPT ![t] = {}]
      BY <2>7 DEF WritePiece, StampSteps, Started, TypeOK
    <3> QED BY <3>1, StampedCleared DEF Started, StampSteps
  <2>8. ASSUME NEW t \in Threads, Finish(t) PROVE (Stamped /\ Started)'
    <3>1. main = "threads" /\ StampSteps /\ header' = header
      BY <2>8 DEF Finish, StampSteps, Started, TypeOK
    <3> QED BY <3>1, StampedKept DEF Started, StampSteps
  <2>9. ASSUME NEW t \in Threads, PrintMessage(t) PROVE (Stamped /\ Started)'
    <3>1. main = "threads" /\ StampSteps /\ header' = [header EXCEPT ![t] = {}]
      BY <2>9 DEF PrintMessage, StampSteps, Started, TypeOK
    <3> QED BY <3>1, StampedCleared DEF Started, StampSteps
  <2>10. CASE UNCHANGED vars
    BY <2>10 DEF vars, Stamped, Started, ElapsedTime
  <2> QED BY <2>1, <2>2, <2>3, <2>4, <2>5, <2>6, <2>7, <2>8, <2>9, <2>10 DEF Next, Step
<1> QED BY <1>1, <1>2, TypeCorrect, PTL DEF Spec

\* Every stamp is the time since the epoch, up to whole turns of the unsigned
\* seconds (LogRuntime::elapsedTime).
THEOREM ExactStamps == Spec => []StampsAreExact
<1>1. TypeOK /\ Stamped => StampsAreExact
  <2> SUFFICES ASSUME TypeOK, Stamped, NEW t \in Threads, NEW h \in header[t]
               PROVE  /\ h.stamp.ns \in 0 .. NS - 1
                      /\ (h.stamp.sec * NS + h.stamp.ns - Elapsed(h)) % (Seconds * NS) = 0
    BY DEF StampsAreExact
  <2>1. h.now \in Now
    BY DEF TypeOK
  <2>2. h.stamp = ElapsedTime(h.now)
    BY DEF Stamped
  <2> QED BY <2>1, <2>2, WholeSeconds, ElapsedExact DEF Elapsed
<1> QED BY <1>1, TypeCorrect, StampedAlways, PTL

\* A header loses the end of its severity tag only when the clock is behind the
\* epoch or too many seconds after it (logTimestampAndSeverity).
THEOREM WholeTags == Spec => []HeadersTellSeverity
<1>1. TypeOK /\ Stamped => HeadersTellSeverity
  <2> SUFFICES ASSUME TypeOK, Stamped, NEW t \in Threads, NEW h \in header[t], ~h.tag,
                      ~(Elapsed(h) < 0), ~(Elapsed(h) >= (TagSeconds + 1) * NS)
               PROVE  FALSE
    BY DEF HeadersTellSeverity
  <2>1. h.now \in Now /\ h.now \in Int /\ epoch \in Int
    BY EpochType DEF TypeOK
  <2>2. h.stamp = ElapsedTime(h.now) /\ h.stamp.sec > TagSeconds
    BY DEF Stamped
  <2>3. h.now >= epoch /\ h.now - epoch < (TagSeconds + 1) * NS
    <3>1. (TagSeconds + 1) * NS \in Int
      BY EpochType, LogAssumption
    <3> QED BY <2>1, <3>1 DEF Elapsed
  <2>4. ElapsedTime(h.now).sec <= TagSeconds
    BY <2>1, <2>3, ElapsedShort
  <2>5. ElapsedTime(h.now).sec \in Int /\ TagSeconds \in Int
    BY <2>1, WholeSeconds, EpochType, LogAssumption
  <2> QED BY <2>2, <2>4, <2>5
<1> QED BY <1>1, TypeCorrect, StampedAlways, PTL

(***************************************************************************)
(* The mutex.                                                              *)
(***************************************************************************)
AsksForLock(t) == thread[t].form = "stream" /\ thread[t].severity < TRACE

\* who writes, and with which protection
Inside ==
  /\ \A t \in Threads :
       /\ thread[t].at = "acquire" => AsksForLock(t)
       /\ thread[t].at = "write" => (thread[t].form = "stream" /\ (AsksForLock(t) => t \in lock))
       /\ thread[t].at = "print" => thread[t].form = "vargs"
  /\ \A t \in lock : thread[t].at = "write"
  /\ \A s, t \in lock : s = t

\* A piece is of a call its thread has reached; if the thread is still in that
\* call and the piece asked for the mutex, the thread has it.
Past ==
  \A i \in DOMAIN stderr :
    LET t == stderr[i].thread
    IN /\ stderr[i].call <= thread[t].calls
       /\ stderr[i].call = thread[t].calls /\ UnderLock(stderr[i]) => t \in lock

\* After the first piece of the message in the critical section no piece of
\* another protected message follows.
Current ==
  \A i, k \in DOMAIN stderr :
    (/\ i < k /\ UnderLock(stderr[i]) /\ UnderLock(stderr[k])
     /\ stderr[i].thread \in lock /\ stderr[i].call = thread[stderr[i].thread].calls)
      => Message(stderr[k]) = Message(stderr[i])

MutexInv == Inside /\ Past /\ Current /\ LockedMessagesWhole

\* what a step of t does to the calls and to the lock, whether it writes or not
Advances(t) ==
  /\ thread'[t].calls = thread[t].calls \/ (thread'[t].calls = thread[t].calls + 1 /\ t \notin lock')
  /\ \A u \in Threads \ {t} : thread'[u].calls = thread[u].calls
  /\ lock' = lock \/ (lock' = lock \ {t} /\ thread'[t].calls = thread[t].calls + 1)

\* A step that writes nothing.
LEMMA SilentStep ==
  ASSUME TypeOK, MutexInv, NEW t \in Threads, Advances(t), stderr' = stderr
  PROVE  Past' /\ Current' /\ LockedMessagesWhole'
<1> USE Typed
<1>1. \A i \in DOMAIN stderr : stderr[i] \in PieceType
  OBVIOUS
<1>2. thread[t].calls \in Nat
  BY DEF ThreadType
<1>3. Past'
  <2> SUFFICES ASSUME NEW i \in DOMAIN stderr
               PROVE  /\ stderr[i].call <= thread'[stderr[i].thread].calls
                      /\ stderr[i].call = thread'[stderr[i].thread].calls /\ UnderLock(stderr[i])
                           => stderr[i].thread \in lock'
    BY DEF Past, UnderLock
  <2> DEFINE p == stderr[i]
  <2>1. p \in PieceType /\ p.thread \in Threads /\ p.call \in Nat
    BY <1>1 DEF PieceType
  <2>2. p.call <= thread[p.thread].calls
        /\ (p.call = thread[p.thread].calls /\ UnderLock(p) => p.thread \in lock)
    BY DEF MutexInv, Past
  <2>3. thread[p.thread].calls \in Nat
    BY <2>1 DEF ThreadType
  <2>4. thread'[p.thread].calls \in {thread[p.thread].calls, thread[p.thread].calls + 1}
    BY <2>1 DEF Advances
  <2>5. p.call <= thread'[p.thread].calls
    BY <2>1, <2>2, <2>3, <2>4
  <2>6. ASSUME p.call = thread'[p.thread].calls, UnderLock(p) PROVE p.thread \in lock'
    <3>1. thread'[p.thread].calls = thread[p.thread].calls
      BY <2>2, <2>3, <2>4, <2>6
    <3> QED BY <1>2, <2>1, <2>2, <2>6, <3>1 DEF Advances
  <2> QED BY <2>5, <2>6
<1>4. Current'
  <2> SUFFICES ASSUME NEW i \in DOMAIN stderr, NEW k \in DOMAIN stderr, i < k,
                      UnderLock(stderr[i]), UnderLock(stderr[k]),
                      stderr[i].thread \in lock',
                      stderr[i].call = thread'[stderr[i].thread].calls
               PROVE  Message(stderr[k]) = Message(stderr[i])
    BY DEF Current, UnderLock, Message
  <2>1. stderr[i].thread \in Threads
    BY <1>1 DEF PieceType
  <2>2. stderr[i].thread \in lock /\ stderr[i].call = thread[stderr[i].thread].calls
    BY <1>2, <2>1 DEF Advances
  <2> QED BY <2>2 DEF MutexInv, Current
<1>5. LockedMessagesWhole'
  BY DEF MutexInv, LockedMessagesWhole, UnderLock, Message
<1> QED BY <1>3, <1>4, <1>5

\* A step that writes one piece of the current call of a thread.
LEMMA WritingStep ==
  ASSUME TypeOK, MutexInv, NEW t \in Threads, Advances(t), lock' = lock,
         NEW number \in Nat, stderr' = Append(stderr, Piece(t, number)),
         UnderLock(Piece(t, number)) => t \in lock
  PROVE  Past' /\ Current' /\ LockedMessagesWhole'
<1> USE Typed
<1> DEFINE n == Len(stderr)
           p == Piece(t, number)
<1>0. p.thread = t /\ p.call = thread[t].calls /\ p \in PieceType
  BY PieceWellFormed DEF Piece
<1> HIDE DEF p
<1>1. \A i \in 1 .. n : stderr[i] \in PieceType /\ stderr'[i] = stderr[i]
  OBVIOUS
<1>2. /\ n \in Nat /\ DOMAIN stderr = 1 .. n /\ DOMAIN stderr' = 1 .. n + 1 /\ stderr'[n + 1] = p
      /\ UnderLock(p) => t \in lock
  BY DEF p
<1>3. \A u \in Threads :
        /\ thread'[u].calls \in {thread[u].calls, thread[u].calls + 1}
        /\ u \in lock => thread'[u].calls = thread[u].calls
  BY DEF Advances
<1>4. \A u \in Threads : thread[u].calls \in Nat
  BY DEF ThreadType
<1>5. \A i \in 1 .. n : stderr[i].thread \in Threads /\ stderr[i].call \in Nat
  BY <1>1 DEF PieceType
<1> HIDE DEF n
<1>6. Past'
  <2> SUFFICES ASSUME NEW i \in 1 .. n + 1
               PROVE  /\ stderr'[i].call <= thread'[stderr'[i].thread].calls
                      /\ stderr'[i].call = thread'[stderr'[i].thread].calls /\ UnderLock(stderr'[i])
                           => stderr'[i].thread \in lock'
    BY <1>2 DEF Past, UnderLock
  <2>1. CASE i \in 1 .. n
    <3>1. /\ stderr[i].call <= thread[stderr[i].thread].calls
          /\ (stderr[i].call = thread[stderr[i].thread].calls /\ UnderLock(stderr[i])
               => stderr[i].thread \in lock)
      BY <1>2, <2>1 DEF MutexInv, Past
    <3> DEFINE q == stderr[i]
    <3>2. stderr'[i] = q /\ q.thread \in Threads /\ q.call \in Nat
      BY <1>1, <1>5, <2>1
    <3>3. thread[q.thread].calls \in Nat
      BY <1>4, <3>2
    <3>4. thread'[q.thread].calls \in Nat /\ thread'[q.thread].calls >= thread[q.thread].calls
      <4>1. thread'[q.thread].calls \in {thread[q.thread].calls, thread[q.thread].calls + 1}
        BY <1>3, <3>2
      <4> DEFINE before == thread[q.thread].calls
                 after == thread'[q.thread].calls
      <4>2. before \in Nat /\ after \in {before, before + 1}
        BY <3>3, <4>1
      <4> HIDE DEF before, after
      <4>3. after \in Nat /\ after >= before
        BY <4>2
      <4> QED BY <4>3 DEF before, after
    <3>5. q.thread \in lock => thread'[q.thread].calls = thread[q.thread].calls
      BY <1>3, <3>2
    <3>6. q.call <= thread'[q.thread].calls
      BY <3>1, <3>2, <3>3, <3>4
    <3>7. q.call = thread'[q.thread].calls /\ UnderLock(q) => q.thread \in lock
      BY <3>1, <3>2, <3>3, <3>4, <3>6
    <3> QED BY <3>2, <3>6, <3>7
  <2>2. CASE i = n + 1
    BY <1>0, <1>2, <1>3, <1>4, <2>2
  <2> QED BY <1>2, <2>1, <2>2
<1>7. Current'
  <2> SUFFICES ASSUME NEW i \in 1 .. n + 1, NEW k \in 1 .. n + 1, i < k,
                      UnderLock(stderr'[i]), UnderLock(stderr'[k]),
                      stderr'[i].thread \in lock,
                      stderr'[i].call = thread'[stderr'[i].thread].calls
               PROVE  Message(stderr'[k]) = Message(stderr'[i])
    BY <1>2 DEF Current, UnderLock, Message
  <2>1. i \in 1 .. n /\ stderr'[i] = stderr[i]
    BY <1>1, <1>2
  <2>2. stderr[i].call = thread[stderr[i].thread].calls /\ stderr[i].thread \in lock
    BY <1>3, <1>5, <2>1
  <2>3. CASE k \in 1 .. n
    <3>1. stderr'[k] = stderr[k]
      BY <1>1, <2>3
    <3> QED BY <1>2, <2>1, <2>2, <2>3, <3>1 DEF MutexInv, Current
  <2>4. CASE k = n + 1
    <3>1. t \in lock
      BY <1>2, <2>4
    <3>2. stderr[i].thread = t
      BY <2>1, <2>2, <3>1 DEF MutexInv, Inside
    <3> QED BY <1>0, <1>2, <2>1, <2>2, <2>4, <3>2 DEF Message
  <2> QED BY <1>2, <2>3, <2>4
<1>8. LockedMessagesWhole'
  <2> SUFFICES ASSUME NEW i \in 1 .. n + 1, NEW j \in 1 .. n + 1, i < j, UnderLock(stderr'[i]),
                      Message(stderr'[i]) = Message(stderr'[j]),
                      NEW k \in i .. j, UnderLock(stderr'[k])
               PROVE  Message(stderr'[k]) = Message(stderr'[i])
    BY <1>2 DEF LockedMessagesWhole, UnderLock, Message
  <2>1. i \in 1 .. n /\ stderr'[i] = stderr[i]
    BY <1>1, <1>2
  <2>2. CASE j \in 1 .. n
    <3>1. k \in 1 .. n /\ stderr'[k] = stderr[k] /\ stderr'[j] = stderr[j]
      BY <1>1, <1>2, <2>2
    <3> QED BY <1>2, <2>1, <2>2, <3>1 DEF MutexInv, LockedMessagesWhole
  <2>3. CASE j = n + 1 /\ k \in 1 .. n /\ k # i
    <3>1. stderr[i].thread = t /\ stderr[i].call = thread[t].calls
      BY <1>0, <1>2, <2>1, <2>3 DEF Message
    <3>2. t \in lock
      BY <1>2, <2>1, <3>1 DEF MutexInv, Past
    <3>3. stderr'[k] = stderr[k] /\ i < k
      BY <1>1, <1>2, <2>3
    <3> QED BY <1>2, <2>1, <2>3, <3>1, <3>2, <3>3 DEF MutexInv, Current
  <2>4. CASE j = n + 1 /\ k = n + 1
    BY <2>4
  <2>5. CASE k = i
    BY <2>5
  <2> QED BY <1>2, <2>2, <2>3, <2>4, <2>5
<1> QED BY <1>6, <1>7, <1>8

\* The mutex protects what is written under it, in every reachable state.
LEMMA MutexHeldRightly == Spec => []MutexInv
<1>1. Init => MutexInv
  BY DEF Init, MutexInv, Inside, Past, Current, LockedMessagesWhole, Idle
<1>2. TypeOK /\ MutexInv /\ [Next]_vars => MutexInv'
  <2> SUFFICES ASSUME TypeOK, MutexInv, [Next]_vars PROVE MutexInv'
    OBVIOUS
  <2> USE Typed
  <2>1. CASE UNCHANGED <<thread, lock, stderr>>
    BY <2>1 DEF MutexInv, Inside, AsksForLock, Past, Current, LockedMessagesWhole, UnderLock, Message
  <2>2. ASSUME NEW t \in Threads, Begin(t) PROVE MutexInv'
    <3>1. PICK severity \in Severities, form \in Forms :
            Become(t, IF Enabled(severity)
                      THEN [thread[t] EXCEPT !.at = "stamp", !.severity = severity, !.form = form]
                      ELSE Idle(thread[t].calls + 1))
      BY <2>2 DEF Begin
    <3> DEFINE asking == [thread[t] EXCEPT !.at = "stamp", !.severity = severity, !.form = form]
    <3>2. thread[t].at = "idle" /\ lock' = lock /\ stderr' = stderr /\ t \notin lock
      BY <2>2 DEF Begin, MutexInv, Inside
    <3>3. CASE Enabled(severity)
      <4>1. asking \in ThreadType /\ asking.calls = thread[t].calls /\ asking.at = "stamp"
        BY DEF ThreadType
      <4>2. thread' = [thread EXCEPT ![t] = asking]
        BY <3>1, <3>3 DEF Become
      <4> HIDE DEF asking
      <4>4. Advances(t)
        BY <3>2, <4>1, <4>2 DEF Advances
      <4>5. Past' /\ Current' /\ LockedMessagesWhole'
        BY <3>2, <4>4, SilentStep
      <4>6. Inside'
        BY <3>2, <4>1, <4>2 DEF MutexInv, Inside, AsksForLock
      <4> QED BY <4>5, <4>6 DEF MutexInv
    <3>4. CASE ~Enabled(severity)
      <4> DEFINE idle == Idle(thread[t].calls + 1)
      <4>1. thread[t].calls \in Nat
        BY DEF ThreadType
      <4>2. idle \in ThreadType /\ idle.calls = thread[t].calls + 1 /\ idle.at = "idle"
        BY <4>1 DEF Idle, ThreadType, Forms
      <4>3. thread' = [thread EXCEPT ![t] = idle]
        BY <3>1, <3>4 DEF Become
      <4> HIDE DEF idle
      <4>4. Advances(t)
        BY <3>2, <4>2, <4>3 DEF Advances
      <4>5. Past' /\ Current' /\ LockedMessagesWhole'
        BY <3>2, <4>4, SilentStep
      <4>6. Inside'
        BY <3>2, <4>2, <4>3 DEF MutexInv, Inside, AsksForLock
      <4> QED BY <4>5, <4>6 DEF MutexInv
    <3> QED BY <3>3, <3>4
  <2>3. ASSUME NEW t \in Threads, Stamp(t) PROVE MutexInv'
    <3> DEFINE at == IF thread[t].form = "vargs" THEN "print"
                     ELSE IF thread[t].severity = TRACE THEN "write" ELSE "acquire"
               next == [thread[t] EXCEPT !.at = at]
    <3>1. thread' = [thread EXCEPT ![t] = next] /\ thread[t].at = "stamp"
          /\ lock' = lock /\ stderr' = stderr
      BY <2>3 DEF Stamp, Become
    <3>2. t \notin lock
      BY <3>1 DEF MutexInv, Inside
    <3>3. at \in {"print", "write", "acquire"}
      OBVIOUS
    <3>4. /\ at = "acquire" => AsksForLock(t)
          /\ at = "write" => (thread[t].form = "stream" /\ ~AsksForLock(t))
          /\ at = "print" => thread[t].form = "vargs"
      <4>1. thread[t] \in ThreadType
        OBVIOUS
      <4>2. thread[t].form \in Forms /\ thread[t].severity \in Severities \cup {0}
        BY <4>1 DEF ThreadType
      <4>3. thread[t].severity \in 0 .. 5
        BY <4>2, SeverityBound
      <4> QED BY <4>2, <4>3 DEF AsksForLock, Forms, TRACE
    <3> HIDE DEF at
    <3>5. /\ next \in ThreadType /\ next.calls = thread[t].calls /\ next.at = at
          /\ next.form = thread[t].form /\ next.severity = thread[t].severity
      BY <3>3 DEF ThreadType
    <3> HIDE DEF next
    <3>6. Advances(t)
      BY <3>1, <3>5 DEF Advances
    <3>7. Past' /\ Current' /\ LockedMessagesWhole'
      BY <3>1, <3>6, SilentStep
    <3>8. Inside'
      <4>1. \A u \in Threads : thread'[u] = IF u = t THEN next ELSE thread[u]
        BY <3>1
      <4> QED BY <3>1, <3>2, <3>3, <3>4, <3>5, <4>1 DEF MutexInv, Inside, AsksForLock
    <3> QED BY <3>7, <3>8 DEF MutexInv
  <2>4. ASSUME NEW t \in Threads, Acquire(t) PROVE MutexInv'
    <3> DEFINE next == [thread[t] EXCEPT !.at = "write"]
    <3>1. /\ thread' = [thread EXCEPT ![t] = next] /\ thread[t].at = "acquire"
          /\ lock = {} /\ lock' = {t} /\ stderr' = stderr
      BY <2>4 DEF Acquire, Become, Locked
    <3>2. /\ next \in ThreadType /\ next.calls = thread[t].calls /\ next.at = "write"
          /\ next.form = thread[t].form /\ next.severity = thread[t].severity
      BY DEF ThreadType
    <3> HIDE DEF next
    <3>3. \A u \in Threads : thread'[u] = IF u = t THEN next ELSE thread[u]
      BY <3>1
    <3>4. Inside'
      BY <3>1, <3>2, <3>3 DEF MutexInv, Inside, AsksForLock
    <3>5. \A i \in DOMAIN stderr : thread'[stderr[i].thread].calls = thread[stderr[i].thread].calls
      <4> SUFFICES ASSUME NEW i \in DOMAIN stderr
                   PROVE  thread'[stderr[i].thread].calls = thread[stderr[i].thread].calls
        OBVIOUS
      <4>1. stderr[i] \in PieceType
        OBVIOUS
      <4>2. stderr[i].thread \in Threads
        BY <4>1 DEF PieceType
      <4> QED BY <3>2, <3>3, <4>2
    <3>6. Past'
      BY <3>1, <3>5 DEF MutexInv, Past, UnderLock
    <3>7. Current'
      <4> SUFFICES ASSUME NEW i \in DOMAIN stderr, UnderLock(stderr[i]),
                          stderr[i].call = thread'[stderr[i].thread].calls
                   PROVE  FALSE
        BY <3>1 DEF Current, UnderLock
      <4> QED BY <3>1, <3>5 DEF MutexInv, Past
    <3> QED BY <3>1, <3>4, <3>6, <3>7 DEF MutexInv, LockedMessagesWhole, UnderLock, Message
  <2>5. ASSUME NEW t \in Threads, WritePiece(t) PROVE MutexInv'
    <3> DEFINE next == [thread[t] EXCEPT !.written = @ + 1]
               p == Piece(t, thread[t].written + 1)
    <3>1. /\ thread' = [thread EXCEPT ![t] = next] /\ thread[t].at = "write"
          /\ lock' = lock /\ stderr' = Append(stderr, p)
      BY <2>5 DEF WritePiece, Become
    <3>2. /\ next.calls = thread[t].calls /\ next.at = "write"
          /\ next.form = thread[t].form /\ next.severity = thread[t].severity
      <4>1. thread[t] \in ThreadType
        OBVIOUS
      <4> QED BY <3>1, <4>1 DEF ThreadType
    <3>3. thread[t].written + 1 \in Nat
      BY DEF ThreadType
    <3>5. UnderLock(p) => AsksForLock(t)
      BY DEF Piece, UnderLock, AsksForLock
    <3>6. UnderLock(p) => t \in lock
      BY <3>1, <3>5 DEF MutexInv, Inside
    <3> HIDE DEF next, p
    <3>7. Past' /\ Current' /\ LockedMessagesWhole'
      <4>1. Advances(t)
        BY <3>1, <3>2 DEF Advances
      <4> QED BY <3>1, <3>3, <3>6, <4>1, WritingStep DEF p
    <3>8. Inside'
      BY <3>1, <3>2 DEF MutexInv, Inside, AsksForLock
    <3> QED BY <3>7, <3>8 DEF MutexInv
  <2>6. ASSUME NEW t \in Threads, Finish(t) PROVE MutexInv'
    <3> DEFINE next == Idle(thread[t].calls + 1)
    <3>1. /\ thread' = [thread EXCEPT ![t] = next] /\ thread[t].at = "write"
          /\ lock' = lock \ {t} /\ stderr' = stderr
      BY <2>6 DEF Finish, Unlocked, Become
    <3>2. thread[t].calls \in Nat
      BY DEF ThreadType
    <3>3. next \in ThreadType /\ next.calls = thread[t].calls + 1 /\ next.at = "idle"
      BY <3>2 DEF Idle, ThreadType, Forms
    <3> HIDE DEF next
    <3>4. Past' /\ Current' /\ LockedMessagesWhole'
      <4>1. Advances(t)
        BY <3>1, <3>3 DEF Advances
      <4> QED BY <3>1, <4>1, SilentStep
    <3>5. Inside'
      BY <3>1, <3>3 DEF MutexInv, Inside, AsksForLock
    <3> QED BY <3>4, <3>5 DEF MutexInv
  <2>7. ASSUME NEW t \in Threads, PrintMessage(t) PROVE MutexInv'
    <3> DEFINE next == Idle(thread[t].calls + 1)
               p == Piece(t, 1)
    <3>1. /\ thread' = [thread EXCEPT ![t] = next] /\ thread[t].at = "print"
          /\ lock' = lock /\ stderr' = Append(stderr, p)
      BY <2>7 DEF PrintMessage, Become
    <3>2. thread[t].calls \in Nat
      BY DEF ThreadType
    <3>3. next \in ThreadType /\ next.calls = thread[t].calls + 1 /\ next.at = "idle"
      BY <3>2 DEF Idle, ThreadType, Forms
    <3>5. p.form = thread[t].form
      BY DEF Piece
    <3>6. t \notin lock /\ thread[t].form = "vargs"
      BY <3>1 DEF MutexInv, Inside
    <3>7. ~UnderLock(p)
      BY <3>5, <3>6 DEF UnderLock
    <3> HIDE DEF next, p
    <3>8. Past' /\ Current' /\ LockedMessagesWhole'
      <4>1. Advances(t)
        BY <3>1, <3>3, <3>6 DEF Advances
      <4> QED BY <3>1, <3>7, <4>1, WritingStep DEF p
    <3>9. Inside'
      BY <3>1, <3>3, <3>6 DEF MutexInv, Inside, AsksForLock
    <3> QED BY <3>8, <3>9 DEF MutexInv
  <2>8. CASE ResetEpoch \/ (\E level \in Levels : SetSeverityLimit(level)) \/ StartThreads
             \/ UNCHANGED vars
    <3>1. UNCHANGED <<thread, lock, stderr>>
      BY <2>8 DEF ResetEpoch, SetSeverityLimit, StartThreads, vars
    <3> QED BY <2>1, <3>1
  <2> QED BY <2>2, <2>3, <2>4, <2>5, <2>6, <2>7, <2>8 DEF Next, Step
<1> QED BY <1>1, <1>2, TypeCorrect, PTL DEF Spec

\* Of two messages written with the mutex held one is complete before the other
\* begins (the stream form of the log macros).
THEOREM MessagesStayWhole == Spec => []LockedMessagesWhole
<1>1. MutexInv => LockedMessagesWhole
  BY DEF MutexInv
<1> QED BY <1>1, MutexHeldRightly, PTL

(***************************************************************************)
(* Nobody waits for the mutex in vain, and no thread has steps for ever.   *)
(***************************************************************************)
\* t is past its last call
Through(t) == thread[t] = Idle(Calls)

\* one of the actions of t has its guard
CanMove(t) ==
  \/ thread[t].at = "idle" /\ thread[t].calls < Calls /\ Severities # {}
  \/ thread[t].at = "stamp" /\ Now # {}
  \/ thread[t].at = "acquire" /\ lock = {}
  \/ thread[t].at = "write" /\ thread[t].written <= Pieces
  \/ thread[t].at = "print"

\* A thread that holds the mutex can go on, so that those waiting for it never wait
\* for each other.
NobodyWaitsInVain ==
  main = "threads" =>
    /\ (\A t \in Threads : Through(t)) \/ \E t \in Threads : CanMove(t)
    /\ \A t \in lock : CanMove(t)

\* what the current call of t has behind it
DoneOfCall(t) ==
  IF thread[t].at = "idle" THEN 0
  ELSE IF thread[t].at = "stamp" THEN 1
  ELSE IF thread[t].at = "write" THEN 3 + thread[t].written ELSE 2

\* the steps t can still take: a call has no more than Pieces + 4
WorkLeft(t) == (Calls - thread[t].calls) * (Pieces + 4) - DoneOfCall(t)

\* no thread goes past its last call or its last piece
InBounds ==
  \A t \in Threads :
    /\ thread[t].calls <= Calls /\ thread[t].written <= Pieces
    /\ IF thread[t].at = "idle" THEN thread[t] = Idle(thread[t].calls)
                                ELSE thread[t].calls < Calls
    /\ thread[t].at # "write" => thread[t].written = 0

\* What a step makes of its thread.
LEMMA StepTurns ==
  ASSUME TypeOK, NEW t \in Threads, Step(t)
  PROVE  \E next \in ThreadType :
           /\ thread' = [thread EXCEPT ![t] = next]
           /\ \/ /\ thread[t].at = "idle" /\ thread[t].calls < Calls /\ next.at = "stamp"
                 /\ next.calls = thread[t].calls /\ next.written = thread[t].written
              \/ /\ thread[t].at = "idle" /\ thread[t].calls < Calls
                 /\ next = Idle(thread[t].calls + 1)
              \/ /\ thread[t].at = "stamp" /\ next.at \in {"print", "write", "acquire"}
                 /\ next.calls = thread[t].calls /\ next.written = thread[t].written
              \/ /\ thread[t].at = "acquire" /\ next.at = "write"
                 /\ next.calls = thread[t].calls /\ next.written = thread[t].written
              \/ /\ thread[t].at = "write" /\ thread[t].written < Pieces /\ next.at = "write"
                 /\ next.calls = thread[t].calls /\ next.written = thread[t].written + 1
              \/ /\ thread[t].at = "write" /\ thread[t].written = Pieces
                 /\ next = Idle(thread[t].calls + 1)
              \/ thread[t].at = "print" /\ next = Idle(thread[t].calls + 1)
<1> USE Typed
<1>1. /\ thread[t] \in ThreadType /\ thread[t].calls \in Nat /\ thread[t].written \in Nat
  BY DEF ThreadType
<1>2. Idle(thread[t].calls + 1) \in ThreadType
  BY <1>1 DEF Idle, ThreadType, Forms
<1>3. CASE Begin(t)
  <2>1. PICK severity \in Severities, form \in Forms :
          Become(t, IF Enabled(severity)
                    THEN [thread[t] EXCEPT !.at = "stamp", !.severity = severity, !.form = form]
                    ELSE Idle(thread[t].calls + 1))
    BY <1>3 DEF Begin
  <2>2. thread[t].at = "idle" /\ thread[t].calls < Calls
    BY <1>3 DEF Begin
  <2> DEFINE next == [thread[t] EXCEPT !.at = "stamp", !.severity = severity, !.form = form]
  <2>3. /\ next \in ThreadType /\ next.at = "stamp"
        /\ next.calls = thread[t].calls /\ next.written = thread[t].written
    BY <1>1 DEF ThreadType
  <2>4. CASE Enabled(severity)
    <3>1. thread' = [thread EXCEPT ![t] = next]
      BY <2>1, <2>4 DEF Become
    <3> HIDE DEF next
    <3> QED BY <2>2, <2>3, <3>1
  <2>5. CASE ~Enabled(severity)
    <3>1. thread' = [thread EXCEPT ![t] = Idle(thread[t].calls + 1)]
      BY <2>1, <2>5 DEF Become
    <3> QED BY <1>2, <2>2, <3>1
  <2> QED BY <2>4, <2>5
<1>4. CASE Stamp(t)
  <2> DEFINE at == IF thread[t].form = "vargs" THEN "print"
                   ELSE IF thread[t].severity = TRACE THEN "write" ELSE "acquire"
             next == [thread[t] EXCEPT !.at = at]
  <2>1. thread' = [thread EXCEPT ![t] = next] /\ thread[t].at = "stamp"
    BY <1>4 DEF Stamp, Become
  <2>2. at \in {"print", "write", "acquire"}
    OBVIOUS
  <2> HIDE DEF at
  <2>3. /\ next \in ThreadType /\ next.at = at
        /\ next.calls = thread[t].calls /\ next.written = thread[t].written
    BY <1>1, <2>2 DEF ThreadType
  <2> HIDE DEF next
  <2> QED BY <2>1, <2>2, <2>3
<1>5. CASE Acquire(t)
  <2> DEFINE next == [thread[t] EXCEPT !.at = "write"]
  <2>1. thread' = [thread EXCEPT ![t] = next] /\ thread[t].at = "acquire"
    BY <1>5 DEF Acquire, Become
  <2>2. /\ next \in ThreadType /\ next.at = "write"
        /\ next.calls = thread[t].calls /\ next.written = thread[t].written
    BY <1>1 DEF ThreadType
  <2> HIDE DEF next
  <2> QED BY <2>1, <2>2
<1>6. CASE WritePiece(t)
  <2> DEFINE next == [thread[t] EXCEPT !.written = @ + 1]
  <2>0. thread[t].written + 1 \in Nat
    BY <1>1
  <2>1. thread' = [thread EXCEPT ![t] = next] /\ thread[t].at = "write" /\ thread[t].written < Pieces
    BY <1>6 DEF WritePiece, Become
  <2>2. /\ next \in ThreadType /\ next.at = thread[t].at
        /\ next.calls = thread[t].calls /\ next.written = thread[t].written + 1
    BY <1>1, <2>0 DEF ThreadType
  <2> HIDE DEF next
  <2> QED BY <2>1, <2>2
<1>7. CASE Finish(t) \/ PrintMessage(t)
  <2>1. /\ thread' = [thread EXCEPT ![t] = Idle(thread[t].calls + 1)]
        /\ (thread[t].at = "write" /\ thread[t].written = Pieces) \/ thread[t].at = "print"
    BY <1>7 DEF Finish, PrintMessage, Become
  <2> QED BY <1>2, <2>1
<1> QED BY <1>3, <1>4, <1>5, <1>6, <1>7 DEF Step

\* The steps of a thread are counted down, within the bounds of its loops.
LEMMA WorkFalls ==
  ASSUME TypeOK, InBounds, NEW t \in Threads, Step(t)
  PROVE  InBounds' /\ WorkLeft(t)' < WorkLeft(t)
         /\ \A u \in Threads \ {t} : WorkLeft(u)' = WorkLeft(u)
<1> USE Typed
<1>1. PICK next \in ThreadType :
           /\ thread' = [thread EXCEPT ![t] = next]
           /\ \/ /\ thread[t].at = "idle" /\ thread[t].calls < Calls /\ next.at = "stamp"
                 /\ next.calls = thread[t].calls /\ next.written = thread[t].written
              \/ /\ thread[t].at = "idle" /\ thread[t].calls < Calls
                 /\ next = Idle(thread[t].calls + 1)
              \/ /\ thread[t].at = "stamp" /\ next.at \in {"print", "write", "acquire"}
                 /\ next.calls = thread[t].calls /\ next.written = thread[t].written
              \/ /\ thread[t].at = "acquire" /\ next.at = "write"
                 /\ next.calls = thread[t].calls /\ next.written = thread[t].written
              \/ /\ thread[t].at = "write" /\ thread[t].written < Pieces /\ next.at = "write"
                 /\ next.calls = thread[t].calls /\ next.written = thread[t].written + 1
              \/ /\ thread[t].at = "write" /\ thread[t].written = Pieces
                 /\ next = Idle(thread[t].calls + 1)
              \/ thread[t].at = "print" /\ next = Idle(thread[t].calls + 1)
  BY StepTurns
<1>2. /\ thread[t] \in ThreadType /\ thread[t].calls \in Nat /\ thread[t].written \in Nat
      /\ Calls \in Nat /\ Pieces \in Nat \ {0} /\ next.calls \in Nat /\ next.written \in Nat
  BY LogAssumption DEF ThreadType
<1>3. /\ thread'[t] = next /\ \A u \in Threads \ {t} : thread'[u] = thread[u]
  BY <1>1
<1>4. /\ thread[t].calls <= Calls /\ thread[t].written <= Pieces
      /\ (thread[t].at # "idle" => thread[t].calls < Calls)
      /\ (thread[t].at = "idle" => thread[t] = Idle(thread[t].calls))
      /\ (thread[t].at # "write" => thread[t].written = 0)
  BY DEF InBounds
<1>5. \A n \in Nat : Idle(n).calls = n /\ Idle(n).at = "idle" /\ Idle(n).written = 0
  BY DEF Idle
<1>6. \/ next = Idle(thread[t].calls + 1) /\ thread[t].calls < Calls
         /\ next.calls = thread[t].calls + 1 /\ next.at = "idle" /\ next.written = 0
      \/ next.calls = thread[t].calls /\ next.at # "idle" /\ thread[t].calls < Calls
         /\ next.written <= Pieces /\ (next.at # "write" => next.written = 0)
  <2>1. thread[t].calls + 1 \in Nat
    BY <1>2
  <2>2. CASE next = Idle(thread[t].calls + 1)
    <3>1. next.calls = thread[t].calls + 1 /\ next.at = "idle" /\ next.written = 0
      BY <1>5, <2>1, <2>2
    <3>2. thread[t].calls < Calls
      BY <1>1, <1>4
    <3> QED BY <2>2, <3>1, <3>2
  <2>3. CASE next # Idle(thread[t].calls + 1)
    BY <1>1, <1>2, <1>4, <2>3
  <2> QED BY <2>2, <2>3
<1>7. InBounds'
  <2> SUFFICES ASSUME NEW u \in Threads
               PROVE  /\ thread'[u].calls <= Calls /\ thread'[u].written <= Pieces
                      /\ IF thread'[u].at = "idle" THEN thread'[u] = Idle(thread'[u].calls)
                                                   ELSE thread'[u].calls < Calls
                      /\ thread'[u].at # "write" => thread'[u].written = 0
    BY DEF InBounds, Idle
  <2>1. CASE u = t
    <3>1. next.calls <= Calls /\ next.written <= Pieces
      BY <1>2, <1>6
    <3>2. IF next.at = "idle" THEN next = Idle(next.calls) ELSE next.calls < Calls
      BY <1>6
    <3> QED BY <1>3, <1>6, <2>1, <3>1, <3>2
  <2>2. CASE u # t
    BY <1>3, <2>2 DEF InBounds
  <2> QED BY <2>1, <2>2
<1>8. WorkLeft(t)' < WorkLeft(t)
  <2> DEFINE K == Pieces + 4
             was == DoneOfCall(t)
             now == IF next.at = "idle" THEN 0
                    ELSE IF next.at = "stamp" THEN 1
                    ELSE IF next.at = "write" THEN 3 + next.written ELSE 2
  <2>1. DoneOfCall(t)' = now
    BY <1>3 DEF DoneOfCall
  <2>2. WorkLeft(t)' = (Calls - next.calls) * K - now
    BY <1>3, <2>1 DEF WorkLeft
  <2>3. was \in 0 .. Pieces + 3
    BY <1>2, <1>4 DEF DoneOfCall
  <2>4. CASE next.calls = thread[t].calls + 1
    <3>1. now = 0
      BY <1>2, <1>6, <2>4
    <3>2. (Calls - next.calls) * K = (Calls - thread[t].calls) * K - K
      BY <1>2, <2>4
    <3> DEFINE product == (Calls - thread[t].calls) * K
    <3>3. product \in Int /\ K = Pieces + 4 /\ WorkLeft(t) = product - was
      BY <1>2 DEF WorkLeft
    <3>4. WorkLeft(t)' = product - K - now
      BY <2>2, <3>2
    <3> HIDE DEF product, K, was, now
    <3> QED BY <1>2, <2>3, <3>1, <3>3, <3>4
  <2>5. CASE next.calls = thread[t].calls
    <3>1. now \in Nat /\ now > was
      <4>1. next.at # "idle"
        BY <1>2, <1>6, <2>5
      <4>2. next # Idle(thread[t].calls + 1)
        BY <1>2, <1>5, <4>1
      <4>3. CASE thread[t].at = "idle" /\ next.at = "stamp"
        BY <4>3 DEF DoneOfCall
      <4>4. CASE thread[t].at = "stamp" /\ next.at \in {"print", "write", "acquire"}
        BY <1>2, <4>4 DEF DoneOfCall
      <4>5. CASE thread[t].at = "acquire" /\ next.at = "write"
        BY <1>2, <4>5 DEF DoneOfCall
      <4>6. CASE thread[t].at = "write" /\ next.at = "write" /\ next.written = thread[t].written + 1
        BY <1>2, <4>6 DEF DoneOfCall
      <4> HIDE DEF now, was
      <4> QED BY <1>1, <4>2, <4>3, <4>4, <4>5, <4>6
    <3> DEFINE product == (Calls - thread[t].calls) * K
    <3>2. product \in Int /\ WorkLeft(t) = product - was /\ WorkLeft(t)' = product - now
      BY <1>2, <2>2, <2>5 DEF WorkLeft
    <3> HIDE DEF product, was, now
    <3> QED BY <2>3, <3>1, <3>2
  <2> QED BY <1>6, <2>4, <2>5
<1>9. \A u \in Threads \ {t} : WorkLeft(u)' = WorkLeft(u)
  BY <1>3 DEF WorkLeft, DoneOfCall
<1> QED BY <1>7, <1>8, <1>9

LEMMA WorkType ==
  ASSUME TypeOK, InBounds, NEW t \in Threads
  PROVE  WorkLeft(t) \in Nat
<1> USE Typed
<1>1. /\ thread[t].calls \in Nat /\ thread[t].written \in Nat /\ Calls \in Nat /\ Pieces \in Nat
  BY LogAssumption DEF ThreadType
<1>2. /\ thread[t].calls <= Calls /\ thread[t].written <= Pieces
      /\ thread[t].at # "idle" => thread[t].calls < Calls
  BY DEF InBounds
<1> DEFINE left == Calls - thread[t].calls
           K == Pieces + 4
<1>3. left \in Nat /\ K \in Nat /\ DoneOfCall(t) \in 0 .. K
  BY <1>1, <1>2 DEF DoneOfCall
<1>4. (left = 0 => DoneOfCall(t) = 0) /\ WorkLeft(t) = left * K - DoneOfCall(t)
  BY <1>1, <1>2 DEF DoneOfCall, WorkLeft
<1> HIDE DEF left, K
<1>5. left * K \in Nat /\ (left > 0 => left * K >= K)
  BY <1>3, SMTT(30)
<1> QED BY <1>3, <1>4, <1>5

\* The bounds of the threads' loops hold in every reachable state.
LEMMA BoundsInvariant == Spec => []InBounds
<1>1. Init => InBounds
  <2> SUFFICES ASSUME Init, NEW t \in Threads
               PROVE  /\ thread[t] = Idle(0) /\ Idle(0).calls = 0 /\ Idle(0).written = 0
                      /\ Idle(0).at = "idle"
    BY LogAssumption DEF InBounds
  <2> QED BY DEF Init, Idle
<1>2. TypeOK /\ InBounds /\ [Next]_vars => InBounds'
  <2> SUFFICES ASSUME TypeOK, InBounds, [Next]_vars, ~\E t \in Threads : Step(t)
               PROVE  InBounds'
    BY WorkFalls
  <2>1. thread' = thread
    BY DEF Next, ResetEpoch, SetSeverityLimit, StartThreads, vars
  <2> QED BY <2>1 DEF InBounds, Idle
<1> QED BY <1>1, <1>2, TypeCorrect, PTL DEF Spec

\* Each thread runs out of steps: a macro has no more than Pieces + 4, whatever the
\* others do, and none of their steps takes one of its own.
THEOREM ThreadsRunOut ==
  Spec => /\ [](\A t \in Threads : WorkLeft(t) \in Nat)
          /\ [][\A t \in Threads :
                  /\ Step(t) => WorkLeft(t)' < WorkLeft(t)
                  /\ Step(t) \/ WorkLeft(t)' = WorkLeft(t)]_vars
<1>1. TypeOK /\ InBounds => \A t \in Threads : WorkLeft(t) \in Nat
  BY WorkType
<1>2. TypeOK /\ InBounds /\ [Next]_vars
        => [\A t \in Threads : /\ Step(t) => WorkLeft(t)' < WorkLeft(t)
                               /\ Step(t) \/ WorkLeft(t)' = WorkLeft(t)]_vars
  <2> SUFFICES ASSUME TypeOK, InBounds, Next, NEW t \in Threads, ~Step(t)
               PROVE  WorkLeft(t)' = WorkLeft(t)
    BY WorkFalls
  <2>1. CASE \E u \in Threads : Step(u)
    BY <2>1, WorkFalls
  <2>2. CASE ~\E u \in Threads : Step(u)
    <3>1. thread' = thread
      BY <2>2 DEF Next, ResetEpoch, SetSeverityLimit, StartThreads
    <3> QED BY <3>1 DEF WorkLeft, DoneOfCall
  <2> QED BY <2>1, <2>2
<1> QED BY <1>1, <1>2, BoundsInvariant, TypeCorrect, PTL DEF Spec

\* As long as a call is left, some thread can go on, the one that holds the mutex
\* always (the critical section of the stream macros).
THEOREM MutexIsNeverWaitedForInVain ==
  ASSUME Severities # {}, Now # {}
  PROVE  Spec => []NobodyWaitsInVain
<1>1. ASSUME TypeOK, MutexInv, InBounds PROVE NobodyWaitsInVain
  <2> USE Typed
  <2>1. \A t \in lock : CanMove(t)
    <3> SUFFICES ASSUME NEW t \in lock PROVE CanMove(t)
      OBVIOUS
    <3>1. t \in Threads /\ thread[t].at = "write"
      BY <1>1 DEF TypeOK, MutexInv, Inside
    <3> QED BY <1>1, <3>1 DEF InBounds, CanMove
  <2>2. ASSUME NEW t \in Threads, ~Through(t), ~CanMove(t) PROVE lock # {}
    <3>1. thread[t].calls \in Nat /\ Calls \in Nat
          /\ thread[t].at \in {"idle", "stamp", "acquire", "write", "print"}
      BY <1>1, LogAssumption DEF ThreadType
    <3>2. thread[t].at # "idle"
      BY <1>1, <2>2, <3>1 DEF InBounds, Through, CanMove
    <3> QED BY <1>1, <2>2, <3>1, <3>2 DEF InBounds, CanMove
  <2>3. lock \subseteq Threads
    BY <1>1 DEF TypeOK
  <2> QED BY <2>1, <2>2, <2>3 DEF NobodyWaitsInVain
<1> QED BY <1>1, MutexHeldRightly, BoundsInvariant, TypeCorrect, PTL DEF Spec
=============================================================================
