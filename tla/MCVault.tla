------------------------------- MODULE MCVault -------------------------------
(* Small vaults for TLC: two roots with a file each, or one with both. *)
EXTENDS Vault, TLC

CONSTANTS r1, r2, f1, f2, h1, h2, t1, b1, b2, g1, g2, c1

MCTwoRoots == (f1 :> r1) @@ (f2 :> r2)
MCOneRoot == (f1 :> r1) @@ (f2 :> r1)
MCOneFile == (f1 :> r1)
MCSizeOf == (h1 :> 1) @@ (h2 :> 1)
MCOneSize == (h1 :> 1)

(* The two contents are alike, and so are the two files with their roots.  *)
Hashes == Permutations({h1, h2})
Files == {r1 :> r1, (f1 :> f2) @@ (f2 :> f1) @@ (r1 :> r2) @@ (r2 :> r1)}
MCSymmetry == {h @@ f : h \in Hashes, f \in Files}

(* Backups are alike, and so are collections. *)
Processes == {h @@ b @@ g : h \in Hashes, b \in Permutations({b1, b2}), g \in Permutations({g1, g2})}
=============================================================================
