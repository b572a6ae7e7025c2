------------------------------ MODULE MCSession ------------------------------
(* Two roots with a file each, and two targets: one with a quota that takes *)
(* one file of the larger content, one without.                             *)
EXTENDS Session, TLC

CONSTANTS r1, r2, f1, f2, h1, h2, t1, t2, b1

MCRootOf == (f1 :> r1) @@ (f2 :> r2)
MCSizeOf == (h1 :> 1) @@ (h2 :> 2)
MCOrder == (t1 :> 1) @@ (t2 :> 2)
MCQuota == (t1 :> 2) @@ (t2 :> None)
=============================================================================
