---------------------------- MODULE MCUdpDatapath ----------------------------
(***************************************************************************)
(* Two lcores: two servers, a client and a server, two clients.  Clients   *)
(* have three packets, as many as ts has entries, or four or none.  Pools  *)
(* of 2 run empty and those of 3 just do not; of the shared pools that of  *)
(* 3 runs empty, and 6 is just enough for two clients.                     *)
(***************************************************************************)
EXTENDS UdpDatapath

CONSTANTS l1, l2

Config(tx, packets, poolSize, shared) ==
  [tx |-> tx, packets |-> packets, poolSize |-> poolSize, shared |-> shared, routed |-> FALSE]

MCConfigs ==
  {Config(tx, 3, n, FALSE) : tx \in {{}, {l1}, {l1, l2}}, n \in {2, 3}}
  \union {Config(tx, 3, 3, TRUE) : tx \in {{}, {l1}, {l1, l2}}}
  \union {Config({l1, l2}, 3, 6, TRUE), Config({l1}, 4, 3, FALSE), Config({l1}, 0, 2, FALSE)}
  \union {[Config({l1}, 3, 2, FALSE) EXCEPT !.routed = TRUE]}
=============================================================================
