------------------------------- MODULE Archive -------------------------------
(***************************************************************************)
(* What a vault promises its user, without database, targets or processes: *)
(* versions are kept under ever growing numbers, some of them can be       *)
(* restored, and one that can be restored stays so until it is deleted.    *)
(***************************************************************************)
EXTENDS Naturals

VARIABLES
  kept,  \* the versions; each has a field id
  good,  \* those that can be restored
  last   \* the number of the last version kept

vars == <<kept, good, last>>

Init == kept = {} /\ good = {} /\ last = 0

(* A backup keeps one more version, under a number no version ever had. *)
Keep ==
  /\ \E v \in kept' :
       /\ kept' = kept \cup {v}
       /\ v.id > last
       /\ last' = v.id
  /\ good \subseteq good' /\ good' \subseteq kept'

(* Versions become restorable: a block they share with another is written. *)
Complete ==
  /\ UNCHANGED <<kept, last>>
  /\ good \subseteq good' /\ good' \subseteq kept

(* A collection deletes one version, and no other suffers. *)
Forget ==
  /\ \E v \in kept :
       /\ kept' = kept \ {v}
       /\ good' = good \ {v}
  /\ UNCHANGED last

Next == Keep \/ Complete \/ Forget

Spec == Init /\ [][Next]_vars
=============================================================================
