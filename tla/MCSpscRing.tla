----------------------------- MODULE MCSpscRing -----------------------------
(***************************************************************************)
(* A ring of four slots, so three values fit, the indices wrap, and a load *)
(* may return up to three stale indices.  Two values tell orders apart.    *)
(***************************************************************************)
EXTENDS SpscRing
=============================================================================
