--------------------------- MODULE MCRemoteCalls ---------------------------
(* The client of the graph server on small sets, and the pure functions     *)
(* around remote calls over bounded inputs.                                 *)
EXTENDS RemoteCalls

MCDelays == {1, 2, 3, 7, 20, 63}
MCFailures == 1..6
MCBases == 0..30
=============================================================================
