----------------------------- MODULE LogRuntime -----------------------------
(***************************************************************************)
(* Logging.  main sets the epoch and the severity limit before it starts   *)
(* the threads; each thread then runs the log macros.  A macro tests the   *)
(* severity limit, stamps the message and writes it: as a stream in pieces *)
(* with the mutex held (TRACE without it), or in one call of fprintf.  The *)
(* clock is CLOCK_REALTIME, which may be set back at any time.             *)
(***************************************************************************)
EXTENDS Integers, SequencesExt

CONSTANTS
  Threads,
  Calls,          \* log macros each thread runs
  Pieces,         \* number of << of a stream message; the first one is the header
  Severities,     \* severities the calls use, 0 (FATAL) to 5 (TRACE)
  Levels,         \* limits main asks for
  BuildSeverity,  \* REINVENT_UTIL_LOGGING_BUILD_SEVERITY
  NS,             \* nanoseconds per second
  Now,            \* the times the clock may show, in nanoseconds
  Seconds,        \* 2^32: the seconds of a stamp are an unsigned
  TagSeconds      \* with more seconds than this a header has no room for the whole tag

ASSUME LogAssumption ==
  /\ Calls \in Nat /\ Pieces \in Nat \ {0}
  /\ Severities \subseteq 0 .. 5 /\ BuildSeverity \in 0 .. 5 /\ Levels \subseteq Nat
  /\ NS \in Nat \ {0} /\ Seconds \in Nat \ {0} /\ TagSeconds \in Nat
  /\ Now \subseteq Nat

TRACE == 5

VARIABLES
  epoch,          \* d_epoch, in nanoseconds
  severityLimit,  \* d_severityLimit
  main,           \* what main has reached: "setup" or "threads"
  thread,         \* what each thread does
  header,         \* the header each thread has stamped and not written yet, if any
  lock,           \* the threads in the critical section of LogRuntime::lock
  stderr          \* what reached the error stream: pieces of messages

vars == <<epoch, severityLimit, main, thread, header, lock, stderr>>

Forms == {"stream", "vargs"}
Idle(calls) ==
  [at |-> "idle", calls |-> calls, severity |-> 0, form |-> "stream", written |-> 0]

Init ==
  /\ epoch = 0 /\ severityLimit = 2
  /\ main = "setup"
  /\ thread = [t \in Threads |-> Idle(0)]
  /\ header = [t \in Threads |-> {}]
  /\ lock = {} /\ stderr = <<>>

----------------------------------------------------------------------------
(* main, before the threads are there.                                     *)

ResetEpoch ==
  /\ main = "setup"
  /\ epoch' \in Now
  /\ UNCHANGED <<severityLimit, main, thread, header, lock, stderr>>

SetSeverityLimit(level) ==
  /\ main = "setup"
  /\ severityLimit' = IF level \in 1 .. BuildSeverity THEN level ELSE severityLimit
  /\ UNCHANGED <<epoch, main, thread, header, lock, stderr>>

StartThreads ==
  /\ main = "setup"
  /\ main' = "threads"
  /\ UNCHANGED <<epoch, severityLimit, thread, header, lock, stderr>>

----------------------------------------------------------------------------
(* The log macros.                                                         *)

Become(t, state) == thread' = [thread EXCEPT ![t] = state]

\* a call above the build severity is not in the program; FATAL is not filtered
Enabled(severity) ==
  \/ severity = 0
  \/ severity <= BuildSeverity /\ severityLimit >= severity

Begin(t) ==
  /\ main = "threads" /\ thread[t].at = "idle" /\ thread[t].calls < Calls
  /\ \E severity \in Severities, form \in Forms :
       Become(t, IF Enabled(severity)
                 THEN [thread[t] EXCEPT !.at = "stamp", !.severity = severity, !.form = form]
                 ELSE Idle(thread[t].calls + 1))
  /\ UNCHANGED <<epoch, severityLimit, main, header, lock, stderr>>

MutantElapsedTime(now) ==
  LET borrow == now % NS < epoch % NS
  IN [sec |-> ((now \div NS) - (epoch \div NS)) % Seconds,
      ns |-> (now % NS) - (epoch % NS) + IF borrow THEN NS ELSE 0]

MutantElapsedBorrow(now) ==
  LET borrow == now % NS <= epoch % NS
  IN [sec |-> ((now \div NS) - (epoch \div NS) - IF borrow THEN 1 ELSE 0) % Seconds,
      ns |-> (now % NS) - (epoch % NS) + IF borrow THEN NS ELSE 0]

\* elapsedTime subtracts the parts, with a borrow, and cuts the seconds to unsigned
ElapsedTime(now) ==
  LET borrow == now % NS < epoch % NS
  IN [sec |-> ((now \div NS) - (epoch \div NS) - IF borrow THEN 1 ELSE 0) % Seconds,
      ns |-> (now % NS) - (epoch % NS) + IF borrow THEN NS ELSE 0]

\* the stamp is taken before the mutex: logTimestampAndSeverity fills a buffer
\* that may be too short for the whole tag, fprintf has no such bound
Stamp(t) ==
  /\ thread[t].at = "stamp"
  /\ Become(t, [thread[t] EXCEPT !.at = IF thread[t].form = "vargs" THEN "print"
                                        ELSE IF thread[t].severity = TRACE THEN "write"
                                        ELSE "acquire"])
  /\ \E now \in Now :
       LET tag == thread[t].form = "vargs" \/ ElapsedTime(now).sec <= TagSeconds
       IN header' = [header EXCEPT ![t] =
                       {[now |-> now, stamp |-> ElapsedTime(now), tag |-> tag]}]
  /\ UNCHANGED <<epoch, severityLimit, main, lock, stderr>>

MutantLocked == {}

\* the threads that keep others out of the critical section
Locked == lock

Acquire(t) ==
  /\ thread[t].at = "acquire" /\ Locked = {}
  /\ lock' = lock \cup {t}
  /\ Become(t, [thread[t] EXCEPT !.at = "write"])
  /\ UNCHANGED <<epoch, severityLimit, main, header, stderr>>

Piece(t, i) ==
  [thread |-> t, call |-> thread[t].calls, severity |-> thread[t].severity,
   form |-> thread[t].form, piece |-> i]

\* one << to std::cerr
WritePiece(t) ==
  /\ thread[t].at = "write" /\ thread[t].written < Pieces
  /\ stderr' = Append(stderr, Piece(t, thread[t].written + 1))
  /\ Become(t, [thread[t] EXCEPT !.written = @ + 1])
  /\ header' = [header EXCEPT ![t] = {}]
  /\ UNCHANGED <<epoch, severityLimit, main, lock>>

MutantUnlocked(t) == lock

\* the guard of the macro goes out of scope
Unlocked(t) == lock \ {t}

Finish(t) ==
  /\ thread[t].at = "write" /\ thread[t].written = Pieces
  /\ lock' = Unlocked(t)
  /\ Become(t, Idle(thread[t].calls + 1))
  /\ UNCHANGED <<epoch, severityLimit, main, header, stderr>>

\* fprintf, which writes the message to the unbuffered stderr as a whole
PrintMessage(t) ==
  /\ thread[t].at = "print"
  /\ stderr' = Append(stderr, Piece(t, 1))
  /\ header' = [header EXCEPT ![t] = {}]
  /\ Become(t, Idle(thread[t].calls + 1))
  /\ UNCHANGED <<epoch, severityLimit, main, lock>>

Step(t) == Begin(t) \/ Stamp(t) \/ Acquire(t) \/ WritePiece(t) \/ Finish(t) \/ PrintMessage(t)

Next ==
  \/ ResetEpoch \/ (\E level \in Levels : SetSeverityLimit(level)) \/ StartThreads
  \/ \E t \in Threads : Step(t)

\* a thread keeps running, and a mutex released is obtained sooner or later
Spec == Init /\ [][Next]_vars /\ WF_vars(StartThreads) /\ \A t \in Threads : WF_vars(Step(t))

----------------------------------------------------------------------------
(* Properties.                                                             *)

TypeOK ==
  /\ epoch \in Now \cup {0} /\ severityLimit \in Levels \cup {2}
  /\ main \in {"setup", "threads"}
  /\ thread \in [Threads -> [at : {"idle", "stamp", "acquire", "write", "print"}, calls : Nat,
                            severity : Severities \cup {0}, form : Forms, written : Nat]]
  /\ header \in [Threads -> SUBSET [now : Now, tag : BOOLEAN,
                                    stamp : [sec : 0 .. Seconds - 1, ns : 0 .. NS - 1]]]
  /\ lock \subseteq Threads
  /\ stderr \in Seq([thread : Threads, call : Nat, severity : Severities \cup {0},
                     form : Forms, piece : Nat])

\* a message that asked for the mutex
UnderLock(p) == p.form = "stream" /\ p.severity < TRACE
Message(p) == <<p.thread, p.call>>

\* Between two pieces of a message written with the mutex held there is nothing
\* of another such message.  Only a TRACE stream, for which the macro takes no
\* mutex, and the fprintf form can land inside one.
LockedMessagesWhole ==
  \A i, j \in DOMAIN stderr :
    (/\ i < j /\ UnderLock(stderr[i]) /\ Message(stderr[i]) = Message(stderr[j])) =>
      \A k \in i .. j : UnderLock(stderr[k]) => Message(stderr[k]) = Message(stderr[i])

Elapsed(h) == h.now - epoch

\* A stamp is the time between epoch and clock, a whole number of times 2^32
\* seconds aside, even with the clock set back behind the epoch, and its
\* nanoseconds stay below a second.
StampsAreExact ==
  \A t \in Threads : \A h \in header[t] :
    /\ h.stamp.ns \in 0 .. NS - 1
    /\ (h.stamp.sec * NS + h.stamp.ns - Elapsed(h)) % (Seconds * NS) = 0

\* A header lacks the end of its severity tag only if the clock is so far from
\* the epoch that the seconds need too many digits: no epoch was set, or the
\* clock was set back behind it.
HeadersTellSeverity ==
  \A t \in Threads : \A h \in header[t] :
    ~h.tag => Elapsed(h) < 0 \/ Elapsed(h) >= (TagSeconds + 1) * NS

\* Every thread gets all its messages out: nobody waits for the mutex for ever.
EveryCallReturns == <>(\A t \in Threads : thread[t] = Idle(Calls))
=============================================================================
