--------------------------- MODULE MCEnaLifecycle ---------------------------
(***************************************************************************)
(* Up to two lcores per direction: OFF, one queue, and two queues that can *)
(* share or not share a pool, with and without flow rules, in both builds. *)
(* onExit makes five statistics calls.  With two, either may fail before   *)
(* or after the other, and up to three passes lead through stopEna; the    *)
(* model treats every call from the second on alike.                       *)
(***************************************************************************)
EXTENDS EnaLifecycle
=============================================================================
