-------------------------------- MODULE Files --------------------------------
(***************************************************************************)
(* The two file systems a backup stands between: the source files it reads *)
(* (a FileSource, network/mod.rs) and the block files it writes below the  *)
(* targets (copier.rs).                                                    *)
(*                                                                         *)
(* A file's content is named by its hash: two contents have one hash only  *)
(* if they are equal.  A block file that is not yet written to its end     *)
(* (whole = FALSE) has length 0.                                           *)
(***************************************************************************)
EXTENDS Store

CONSTANTS
  Faults,    \* what may go wrong, a subset of FaultKind
  SizeOf,    \* the length of a content
  MaxEdits   \* bound: how often a source file is changed

(* source: a source file cannot be read or has gone; disk: a block cannot  *)
(* be written; full: no target has room; db: a statement fails; crash: a   *)
(* process dies; live: sources change under a running backup; offline: a   *)
(* target is disabled or not mounted during a check.                       *)
FaultKind == {"source", "disk", "full", "db", "crash", "live", "offline"}

ASSUME FilesAssumption ==
  /\ Faults \subseteq FaultKind
  /\ SizeOf \in [Hash -> Nat]
  /\ MaxEdits \in Nat

VARIABLES
  source,  \* the files that exist at the sources: path -> [hash, mtime]
  edits,   \* how many edits were made
  disk,    \* the files below the targets: path -> [content, whole]
  clock    \* Utc::now().timestamp_millis(), as far as it tells paths apart

fileVars == <<source, edits, disk, clock>>

SourceFile == [hash : Hash, mtime : Nat]
DiskFile   == [content : Hash, whole : BOOLEAN]

FilesTypeOK ==
  /\ DOMAIN source \subseteq File
  /\ \A f \in DOMAIN source : source[f] \in SourceFile
  /\ edits \in Nat
  /\ DOMAIN disk \subseteq Path
  /\ \A p \in DOMAIN disk : disk[p] \in DiskFile
  /\ clock \in Nat

FilesInit ==
  /\ source \in [File -> [hash : Hash, mtime : {0}]]
  /\ edits = 0
  /\ disk = << >>
  /\ clock = 0

(* What list_files reports of a file: its size and its mtime in seconds.   *)
Stat(f) == [mtime |-> source[f].mtime, size |-> SizeOf[source[f].hash]]

(* The user writes a file.  Two writes within a second leave one mtime.    *)
Edit(f) ==
  /\ edits < MaxEdits
  /\ edits' = edits + 1
  /\ \E h \in Hash :
       IF f \in DOMAIN source
       THEN \E m \in {source[f].mtime, source[f].mtime + 1} :
              source' = [source EXCEPT ![f] = [hash |-> h, mtime |-> m]]
       ELSE source' = Put(source, f, [hash |-> h, mtime |-> 1])
  /\ UNCHANGED <<disk, clock>>

(* The user removes a file. *)
Unlink(f) ==
  /\ edits < MaxEdits
  /\ f \in DOMAIN source
  /\ edits' = edits + 1
  /\ source' = Without(source, {f})
  /\ UNCHANGED <<disk, clock>>

-----------------------------------------------------------------------------
(* Mutant: a path without the timestamp, one for each content. *)
BuildPathTimeless(t, h) == [target |-> t, hash |-> h, stamp |-> 0]

(* build_rel_path: no two calls fall into the same millisecond. *)
BuildPath(t, h) == [target |-> t, hash |-> h, stamp |-> clock + 1]

(* The copy creates (or truncates) the destination and begins to write the *)
(* content the source has now; the rest of it follows when the copy ends,  *)
(* into nowhere if the file was unlinked meanwhile.                        *)
CreateFile(p, h) == disk' = Put(disk, p, [content |-> h, whole |-> FALSE])
CompleteFile(p) ==
  disk' = IF p \in DOMAIN disk THEN [disk EXCEPT ![p].whole = TRUE] ELSE disk
RemoveFile(p) == disk' = Without(disk, {p})

Length(p) == IF disk[p].whole THEN SizeOf[disk[p].content] ELSE 0

(* The bytes of hash h are on the disk, at the place its row names. *)
Stored(h) ==
  /\ h \in DOMAIN block
  /\ block[h].path \in DOMAIN disk
  /\ disk[block[h].path] = [content |-> h, whole |-> TRUE]
=============================================================================
