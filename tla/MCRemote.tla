------------------------------- MODULE MCRemote -------------------------------
(* A server with an empty file, one of two chunks, and one that grows and  *)
(* shrinks.                                                                *)
EXTENDS Remote, TLC

CONSTANTS f1, f2, f3

MCLengths == (f1 :> {0}) @@ (f2 :> {2}) @@ (f3 :> {1, 3})
=============================================================================
