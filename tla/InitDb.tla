------------------------------- MODULE InitDb -------------------------------
(***************************************************************************)
(* "git --init": init of init-db.c, which creates .dircache, the object    *)
(* database under it and the fan-out directories 00 to ff, run by several  *)
(* processes in one directory.  An action is one system call; a call may   *)
(* fail and a process may be killed between any two.                       *)
(***************************************************************************)
EXTENDS Integers

CONSTANTS
  Proc,      \* processes that run git --init
  FanOut,    \* the number of fan-out directories, 256 in the code
  MaxRuns,   \* bound: invocations
  MaxFaults  \* bound: failed calls and killed processes

ASSUME FanOutAssumption == FanOut \in Nat

VARIABLES
  env,       \* what SHA1_FILE_DIRECTORY names, if it is set
  dircache,  \* .dircache exists
  objects,   \* .dircache/objects exists
  fan,       \* the fan-out directories that exist
  runs,      \* the number of invocations so far
  faults,    \* the number of faults so far
  pc,        \* per process: the next system call
  dir,       \*   the loop variable i: the fan-out directory that comes next
  exit       \*   how the last invocation ended

Environment == {"unset", "directory", "file", "missing"}

files == <<dircache, objects, fan>>
vars  == <<env, files, runs, faults, pc, dir, exit>>

TypeOK ==
  /\ env \in Environment
  /\ dircache \in BOOLEAN /\ objects \in BOOLEAN
  /\ fan \subseteq 0 .. FanOut - 1
  /\ runs \in Nat /\ faults \in Nat
  /\ pc \in [Proc -> {"idle", "top", "env", "objects", "fan"}]
  /\ dir \in [Proc -> 0 .. FanOut]
  /\ exit \in [Proc -> {"none", "ok", "failed", "killed"}]

Init ==
  /\ env \in Environment
  /\ dircache = FALSE /\ objects = FALSE /\ fan = {}
  /\ runs = 0 /\ faults = 0
  /\ pc = [p \in Proc |-> "idle"]
  /\ dir = [p \in Proc |-> 0]
  /\ exit = [p \in Proc |-> "none"]

-----------------------------------------------------------------------------

Goto(p, l) == pc' = [pc EXCEPT ![p] = l]

\* The process ends; the loop variable goes with it.
Exit(p, how) ==
  /\ Goto(p, "idle")
  /\ dir' = [dir EXCEPT ![p] = 0]
  /\ exit' = [exit EXCEPT ![p] = how]

Start(p) ==
  /\ pc[p] = "idle" /\ runs < MaxRuns
  /\ runs' = runs + 1
  /\ Goto(p, "top")
  /\ exit' = [exit EXCEPT ![p] = "none"]
  /\ UNCHANGED <<env, files, faults, dir>>

\* Mutant: an existing .dircache is taken over, as the inner directories are.
MkdirDircacheAnyway(p) ==
  /\ pc[p] = "top"
  /\ dircache' = TRUE
  /\ Goto(p, "env")
  /\ UNCHANGED <<env, objects, fan, runs, faults, dir, exit>>

\* mkdir(".dircache", 0700)
MkdirDircache(p) ==
  /\ pc[p] = "top" /\ ~dircache
  /\ dircache' = TRUE
  /\ Goto(p, "env")
  /\ UNCHANGED <<env, objects, fan, runs, faults, dir, exit>>

\* the same call fails with EEXIST: exit(1)
DircacheExists(p) ==
  /\ pc[p] = "top" /\ dircache
  /\ Exit(p, "failed")
  /\ UNCHANGED <<env, files, runs, faults>>

\* The ! of C, and the result of stat(sha1_dir, &st).
Not(x) == IF x = 0 THEN 1 ELSE 0
Stat == IF env = "missing" THEN -1 ELSE 0

(***************************************************************************)
(* if (sha1_dir), then !stat(...) < 0 && S_ISDIR(...).  The ! binds        *)
(* tighter than <, so the left operand is 0 or 1 and never negative.       *)
(***************************************************************************)
SharesDb == env # "unset" /\ Not(Stat) < 0 /\ env = "directory"

\* the stat of SHA1_FILE_DIRECTORY, and the early return
CheckEnvironment(p) ==
  /\ pc[p] = "env"
  /\ IF SharesDb
     THEN Exit(p, "ok")
     ELSE Goto(p, "objects") /\ UNCHANGED <<dir, exit>>
  /\ UNCHANGED <<env, files, runs, faults>>

\* mkdir(".dircache/objects", 0700); EEXIST is no error
MkdirObjects(p) ==
  /\ pc[p] = "objects"
  /\ objects' = TRUE
  /\ Goto(p, "fan")
  /\ UNCHANGED <<env, dircache, fan, runs, faults, dir, exit>>

\* mkdir of the fan-out directory i; EEXIST is no error
MkdirFan(p) ==
  /\ pc[p] = "fan" /\ dir[p] < FanOut
  /\ fan' = fan \cup {dir[p]}
  /\ dir' = [dir EXCEPT ![p] = @ + 1]
  /\ UNCHANGED <<env, dircache, objects, runs, faults, pc, exit>>

\* Mutant: the loop ends one directory early.
DoneEarly(p) ==
  /\ pc[p] = "fan" /\ dir[p] + 1 >= FanOut
  /\ Exit(p, "ok")
  /\ UNCHANGED <<env, files, runs, faults>>

\* the loop is over: return 0
Done(p) ==
  /\ pc[p] = "fan" /\ dir[p] >= FanOut
  /\ Exit(p, "ok")
  /\ UNCHANGED <<env, files, runs, faults>>

-----------------------------------------------------------------------------

Fault == faults < MaxFaults /\ faults' = faults + 1

\* A mkdir fails with another error (permissions, disk full): exit(1).
MkdirFails(p) ==
  /\ Fault
  /\ pc[p] \in {"top", "objects"} \/ (pc[p] = "fan" /\ dir[p] < FanOut)
  /\ Exit(p, "failed")
  /\ UNCHANGED <<env, files, runs>>

Crash(p) ==
  /\ Fault
  /\ pc[p] # "idle"
  /\ Exit(p, "killed")
  /\ UNCHANGED <<env, files, runs>>

\* The user removes the repository while no command is at work in it.
RemoveRepository ==
  /\ dircache
  /\ \A p \in Proc : pc[p] \in {"idle", "top"}
  /\ dircache' = FALSE /\ objects' = FALSE /\ fan' = {}
  /\ UNCHANGED <<env, runs, faults, pc, dir, exit>>

Step(p) ==
  \/ MkdirDircache(p) \/ DircacheExists(p) \/ CheckEnvironment(p)
  \/ MkdirObjects(p) \/ MkdirFan(p) \/ Done(p)

Next ==
  \/ \E p \in Proc : Start(p) \/ Step(p) \/ MkdirFails(p) \/ Crash(p)
  \/ RemoveRepository

Spec == Init /\ [][Next]_vars

-----------------------------------------------------------------------------

Inside(p) == pc[p] \in {"env", "objects", "fan"}

(***************************************************************************)
(* Only one process builds a repository: the mkdir of .dircache is what    *)
(* keeps two concurrent git --init apart, although the inner mkdirs would  *)
(* tolerate each other.                                                    *)
(***************************************************************************)
OneInitialiser == \A p, q \in Proc : Inside(p) /\ Inside(q) => p = q

\* The private database, under .dircache.
Complete == dircache /\ objects /\ fan = 0 .. FanOut - 1

(***************************************************************************)
(* An invocation that reports success leaves the private database with     *)
(* every fan-out directory, whatever failed before it, unless there is a   *)
(* shared one to use instead, as the comment in init says.  When the       *)
(* variable SHA1_FILE_DIRECTORY is not set this is where write_sha1_buffer *)
(* creates objects.  When it is set write_sha1_buffer takes the directory  *)
(* it names, of which init makes no part and this says nothing.            *)
(***************************************************************************)
SuccessIsComplete ==
  [][\A p \in Proc :
       exit[p] # "ok" /\ exit'[p] = "ok" => Complete' \/ env = "directory"]_vars

\* The inductive invariant: how far a process has come is on disk, and the
\* loop starts at 0.
Progress ==
  \A p \in Proc :
    /\ Inside(p) => dircache
    /\ pc[p] # "fan" => dir[p] = 0
    /\ pc[p] = "fan" => objects /\ 0 .. dir[p] - 1 \subseteq fan
=============================================================================
