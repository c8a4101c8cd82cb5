----------------------------- MODULE IndexStore -----------------------------
(***************************************************************************)
(* What git --add promises the other commands about the index and the      *)
(* blobs, however its processes interleave, fail or die: the index is      *)
(* replaced in one step, by a sorted list of entries whose objects have a  *)
(* file, and as long as nothing has failed those files are written to      *)
(* their end.  An object file is created empty, filled once and never      *)
(* removed.                                                                *)
(*                                                                         *)
(* UpdateCache implements this specification; Commit takes it for the      *)
(* git --add processes that run beside it.                                 *)
(***************************************************************************)
EXTENDS DirCache

CONSTANTS
  NoFile,   \* a file that does not exist
  Contents  \* the lists of entries an index may hold

ASSUME ContentsAssumption == Contents \subseteq Seq(Entry) /\ NoFile \notin Contents

VARIABLES
  index,    \* the entries of .dircache/index, or NoFile
  objects,  \* what the object file of each blob holds
  faulty    \* a system call has failed or a process was killed

store == <<index, objects, faulty>>

StoreTypeOK ==
  /\ index \in {NoFile} \cup Contents
  /\ objects \in [Blob -> Held]
  /\ faulty \in BOOLEAN

StoreInit ==
  /\ index = NoFile
  /\ objects = [b \in Blob |-> "absent"]
  /\ faulty = FALSE

\* An object that an entry may name.
Usable(b) == objects[b] = Filled(b) \/ (faulty /\ objects[b] = "partial")

\* Mutant: the index is replaced before its objects are written.
InstallEarly ==
  /\ index' \in Contents
  /\ Sorted(index')
  /\ UNCHANGED <<objects, faulty>>

\* rename of a finished index.lock to index
Install ==
  /\ index' \in Contents
  /\ Sorted(index')
  /\ \A i \in 1 .. Len(index') : Usable(index'[i].sha1)
  /\ UNCHANGED <<objects, faulty>>

\* write_sha1_buffer: open with O_CREAT | O_EXCL, then write
CreateBlob(b) ==
  /\ objects[b] = "absent"
  /\ objects' = [objects EXCEPT ![b] = "partial"]
  /\ UNCHANGED <<index, faulty>>

FillBlob(b) ==
  /\ objects[b] = "partial"
  /\ objects' = [objects EXCEPT ![b] = Filled(b)]
  /\ UNCHANGED <<index, faulty>>

\* The first failing call or killed process.
GoWrong == ~faulty /\ faulty' = TRUE /\ UNCHANGED <<index, objects>>

StoreNext ==
  \/ Install
  \/ \E b \in Blob : CreateBlob(b) \/ FillBlob(b)
  \/ GoWrong

StoreSpec == StoreInit /\ [][StoreNext]_store
=============================================================================
