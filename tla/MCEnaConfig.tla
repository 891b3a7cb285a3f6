---------------------------- MODULE MCEnaConfig ----------------------------
(***************************************************************************)
(* Up to two queues, thread counts and lists up to three, so that each may *)
(* be too short, exact or too long.  The flow control variable has up to   *)
(* three entries, each right for its place or wrong in one way.            *)
(***************************************************************************)
EXTENDS EnaConfig

Right(i)  == [colon |-> "middle", maskOk |-> TRUE, queue |-> i - 1]

Entries(i) ==
  {Right(i),
   [Right(i) EXCEPT !.colon = "none"],
   [Right(i) EXCEPT !.colon = "last"],
   [Right(i) EXCEPT !.maskOk = FALSE],
   [Right(i) EXCEPT !.queue = i]}

MCFlows ==
  UNION {{s \in [1 .. n -> UNION {Entries(i) : i \in 1 .. n}] :
            \A i \in 1 .. n : s[i] \in Entries(i)} : n \in 1 .. 3}
=============================================================================
