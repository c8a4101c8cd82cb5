------------------------------ MODULE ShowDiff ------------------------------
(***************************************************************************)
(* "git --diff": show_diff of show-diff.c, which takes no lock, beside the *)
(* git --add processes and the user of UpdateCache.  It reads the index    *)
(* once and then looks at one file after the other, so that the index, the *)
(* objects and the files may all have changed since.                       *)
(***************************************************************************)
EXTENDS UpdateCache

VARIABLES
  dpc,      \* the next system call of show_diff
  dsnap,    \* its active_cache
  di,       \* its loop variable i, from 1
  dfault,   \* one of its system calls has failed
  said      \* ghost: its last report, as of the moment of the report

diff == <<dpc, dsnap, di, dfault, said>>

Verdict == {"none", "ok", "gone", "differs"}

Report ==
  [entry : Entry, verdict : Verdict, old : Held,
   new : {NoFile} \cup WorkFile]

DiffTypeOK ==
  /\ dpc \in {"idle", "read", "stat", "open"}
  /\ dsnap \in Seq(Entry)
  /\ di \in Nat \ {0}
  /\ dfault \in BOOLEAN
  /\ said \in Report

DiffInit ==
  /\ dpc = "idle" /\ dsnap = <<>> /\ di = 1 /\ dfault = FALSE
  /\ said = [entry |-> NoEntry, verdict |-> "none", old |-> "absent", new |-> NoFile]

DiffExit == dpc' = "idle" /\ dsnap' = <<>> /\ di' = 1

DiffStart ==
  /\ dpc = "idle"
  /\ dpc' = "read"
  /\ UNCHANGED <<dsnap, di, dfault, said>>

DiffRead ==
  /\ dpc = "read" /\ Readable(index)
  /\ dsnap' = IF index = NoFile THEN <<>> ELSE index.body
  /\ dpc' = "stat"
  /\ UNCHANGED <<di, dfault, said>>

\* read_cache fails or dies: exit(1)
DiffReadFails ==
  /\ dpc = "read" /\ ~Readable(index)
  /\ DiffExit
  /\ UNCHANGED <<dfault, said>>

DiffEntry == dsnap[di]

\* The report on the current entry, and the next iteration.
Say(verdict, old) ==
  /\ said' = [entry |-> DiffEntry, verdict |-> verdict, old |-> old,
              new |-> work[DiffEntry.name]]
  /\ di' = di + 1 /\ dpc' = "stat"
  /\ UNCHANGED dsnap

\* stat fails with ENOENT
DiffGone ==
  /\ dpc = "stat" /\ di <= Len(dsnap)
  /\ work[DiffEntry.name] = NoFile
  /\ Say("gone", "absent")
  /\ UNCHANGED dfault

\* Mutant: match_stat's result is not used.
MatchStatNot(e) == TRUE

\* match_stat finds no difference
MatchStat(e) == work[e.name].stat = e.stat

DiffOk ==
  /\ dpc = "stat" /\ di <= Len(dsnap)
  /\ work[DiffEntry.name] # NoFile /\ MatchStat(DiffEntry)
  /\ Say("ok", "absent")
  /\ UNCHANGED dfault

DiffChanged ==
  /\ dpc = "stat" /\ di <= Len(dsnap)
  /\ work[DiffEntry.name] # NoFile /\ ~MatchStat(DiffEntry)
  /\ dpc' = "open"
  /\ UNCHANGED <<dsnap, di, dfault, said>>

\* read_sha1_file of the old contents, which diff compares with the file
ShowDifferences ==
  /\ dpc = "open"
  /\ Say("differs", objects[DiffEntry.sha1])
  /\ UNCHANGED dfault

(***************************************************************************)
(* Of an object that is not there, is empty or has lost its header,        *)
(* read_sha1_file returns a null pointer and no size; the fwrite of        *)
(* show_differences may then end the process.                              *)
(***************************************************************************)
ShowDifferencesDies ==
  /\ dpc = "open" /\ objects[DiffEntry.sha1] \in {"absent", "partial"}
  /\ DiffExit
  /\ UNCHANGED <<dfault, said>>

\* Mutant: the loop goes on behind the last entry.
DiffDoneNever == dpc = "stat" /\ di > Len(dsnap) /\ UNCHANGED diff

DiffDone ==
  /\ dpc = "stat" /\ di > Len(dsnap)
  /\ DiffExit
  /\ UNCHANGED <<dfault, said>>

(***************************************************************************)
(* A failing call: read_cache ends the program, stat skips the file, and   *)
(* when the object cannot be opened show_differences is called with a null *)
(* pointer and goes on or ends the process.                                *)
(***************************************************************************)
DiffCallFails ==
  /\ dfault' = TRUE
  /\ \/ dpc = "read" /\ DiffExit /\ UNCHANGED said
     \/ dpc = "stat" /\ di <= Len(dsnap) /\ Say("gone", "absent")
     \/ dpc = "open" /\ Say("differs", "absent")
     \/ dpc = "open" /\ DiffExit /\ UNCHANGED said

DiffStep ==
  \/ DiffRead \/ DiffReadFails \/ DiffGone \/ DiffOk \/ DiffChanged
  \/ ShowDifferences \/ ShowDifferencesDies \/ DiffDone

DiffNext ==
  \/ Next /\ UNCHANGED diff
  \/ (DiffStart \/ DiffStep \/ DiffCallFails) /\ UNCHANGED vars

\* The operating system keeps scheduling show_diff and every git --add.
DiffSpec ==
  /\ Init /\ DiffInit
  /\ [][DiffNext]_<<vars, diff>>
  /\ WF_<<vars, diff>>(DiffStep /\ UNCHANGED vars)
  /\ \A p \in Proc : WF_<<vars, diff>>(Step(p) /\ UNCHANGED diff)

-----------------------------------------------------------------------------

(***************************************************************************)
(* "ok" is true at the moment it is printed: the file then has the         *)
(* contents that the entry names, or as much of them as index_fd keeps,    *)
(* although the index, read before, may have been replaced and the file    *)
(* edited several times in between.                                        *)
(***************************************************************************)
OkIsTrue ==
  said.verdict = "ok" => said.new # NoFile /\ Stream(said.new.data) = said.entry.sha1

(***************************************************************************)
(* When nothing fails, the old contents that diff is given come from a     *)
(* whole object: read_sha1_file, whose result is not tested, is not called *)
(* for an object that git --add is still writing.  Excepted are contents   *)
(* that outgrow the buffer of index_fd: diff is then given a cut object.   *)
(***************************************************************************)
OldIsWhole ==
  said.verdict = "differs" /\ ~dfault /\ faults = 0 => said.old = Filled(said.entry.sha1)

\* What show_diff has read stays sound.
SnapSound == \A i \in 1 .. Len(dsnap) : Sound(dsnap[i]) /\ Whole(dsnap[i])

Reading ==
  /\ DiffTypeOK /\ SnapSound
  /\ dpc = "open" => di <= Len(dsnap)
  /\ OkIsTrue /\ OldIsWhole

\* The inductive invariant.
DiffInv == Inv /\ ObjectsSettled /\ Reading

(***************************************************************************)
(* show_diff and every git --add end, whatever the others do.              *)
(***************************************************************************)
CommandsEnd == AddTerminates /\ (dpc # "idle" ~> dpc = "idle")
=============================================================================
