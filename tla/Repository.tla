----------------------------- MODULE Repository -----------------------------
(***************************************************************************)
(* The commands together over one repository: the git --add processes, the *)
(* user and git --diff of ShowDiff, and the git --commit processes of      *)
(* Commit, now beside the real git --add and not beside IndexStore.  Each  *)
(* command is a program of its own; they meet only in the files, of which  *)
(* git --commit reads the index and the blobs without the lock.            *)
(***************************************************************************)
EXTENDS ShowDiff

CONSTANTS  \* those of Commit, under other names where UpdateCache has one
  Committer, Mode(_), HasZero, OtherName, Word, Hash, Info,
  CommitArgvs,  \* the argument vectors argv[2 .. argc-1] of git --commit
  MaxCommits    \* bound: its invocations

VARIABLES
  faulty,     \* ghost: a call of git --add or git --commit has failed, or one was killed
  made,       \* the variables of Commit
  filled,
  commits,
  cpc,
  cargv,
  snap,
  checked,
  name,
  commit,
  announced

committers == <<made, filled, commits, cpc, cargv, snap, checked, name, commit, announced>>

\* git --commit, which sees the index as any reader does.
C == INSTANCE Commit
       WITH index <- IndexContents, Contents <- Seq(Entry),
            Argvs <- CommitArgvs, MaxRuns <- MaxCommits,
            runs <- commits, pc <- cpc, argv <- cargv

RepositoryInit == Init /\ DiffInit /\ C!Init

\* A step of git --add, the user or git --diff.
OtherStep ==
  /\ DiffNext
  /\ faulty' = (faulty \/ faults' > 0)
  /\ UNCHANGED committers

CommitStep(p) ==
  /\ UNCHANGED <<vars, diff>>
  /\ C!Start(p) \/ C!Step(p) \/ C!CallFails(p) \/ C!Crash(p)

RepositoryNext == OtherStep \/ \E p \in Committer : CommitStep(p)

repository == <<vars, diff, faulty, committers>>

RepositorySpec == RepositoryInit /\ [][RepositoryNext]_repository

-----------------------------------------------------------------------------

(***************************************************************************)
(* What git --commit does beside the real git --add is what Commit says it *)
(* does beside IndexStore.                                                 *)
(***************************************************************************)
ImplementsCommit == C!Init /\ [][C!Next]_(C!vars)

\* A fault of git --add is a fault.
FaultsCounted == faulty \in BOOLEAN /\ (faults > 0 => faulty)
=============================================================================
