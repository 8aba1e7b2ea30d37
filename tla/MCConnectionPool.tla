-------------------------- MODULE MCConnectionPool --------------------------
(* ConnectionPool on small sets.                                           *)
EXTENDS ConnectionPool
=============================================================================
