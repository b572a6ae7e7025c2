------------------------------- MODULE Source -------------------------------
(***************************************************************************)
(* What a backup may expect of a FileSource (network/mod.rs), without      *)
(* connection, frames or server: it lists the files once, then hashes one  *)
(* after the other and perhaps copies it.  A call fails, or what it        *)
(* returns is the file's own; a file is asked for once, and nothing is     *)
(* held of it but by a copy that was asked for.                            *)
(***************************************************************************)
EXTENDS Naturals

CONSTANT File  \* the files of the source

VARIABLES
  op,      \* the call under way; "hashed" between a hash and the copy
  file,    \* the file it is about
  left,    \* the files still to be asked for
  answer,  \* what the hash returned: nothing, the file's own, or another's
  held,    \* what was copied of each file, in the same words
  broken   \* a copy gave up half way, and the source was used on

vars == <<op, file, left, answer, held, broken>>

Init ==
  /\ op = "list" /\ left = {} /\ answer = "none"
  /\ held = [f \in File |-> "none"]
  /\ broken = FALSE

(* The files that changed are to be asked for. *)
Listed ==
  /\ op = "list" /\ op' = "none"
  /\ left' \subseteq File
  /\ UNCHANGED <<file, answer, held, broken>>

Hash(f) ==
  /\ op = "none" /\ op' = "hash"
  /\ f \in left /\ left' = left \ {f}
  /\ file' = f
  /\ UNCHANGED <<answer, held, broken>>
Refuse(f) ==
  /\ op = "none"
  /\ f \in left /\ left' = left \ {f}
  /\ UNCHANGED <<op, file, answer, held, broken>>

Hashed ==
  /\ op = "hash" /\ op' = "hashed"
  /\ answer' = "own"
  /\ UNCHANGED <<file, left, held, broken>>

Copy ==
  /\ op = "hashed" /\ op' = "copy"
  /\ answer' = "none"
  /\ UNCHANGED <<file, left, held, broken>>

Copied ==
  /\ op = "copy" /\ op' = "none"
  /\ held' = [held EXCEPT ![file] = "own"]
  /\ UNCHANGED <<file, left, answer, broken>>

(* A call fails or is not made, and with a copy the source may break. *)
Fail ==
  /\ op # "none" /\ op' = "none"
  /\ answer' = "none"
  /\ broken' => broken \/ op = "copy"
  /\ UNCHANGED <<file, left, held>>

(* Nothing is promised of a source that is broken. *)
Unreliable == broken /\ broken'

Next ==
  \/ Listed \/ Hashed \/ Copy \/ Copied \/ Fail \/ Unreliable
  \/ \E f \in File : Hash(f) \/ Refuse(f)

Spec == Init /\ [][Next]_vars
=============================================================================
