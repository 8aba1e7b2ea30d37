----------------------------- MODULE MCService -----------------------------
(* Service on small sets: every process uses the owner name of main.rs.    *)
EXTENDS Service

CONSTANTS service

MCOwnerOf == [p \in Workers |-> service]
=============================================================================
