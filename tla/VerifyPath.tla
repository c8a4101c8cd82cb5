----------------------------- MODULE VerifyPath -----------------------------
(***************************************************************************)
(* verify_path, the loop that update_cache and status run over every path. *)
(* It enters its for loop by a goto, before c has a value, and scans a     *)
(* NUL-terminated string by a pointer it never compares with the end.      *)
(***************************************************************************)
EXTENDS Naturals, Sequences

CONSTANTS
  Letter,           \* the characters a path is made of
  Slash, Dot, Nul,  \* '/', '.' and '\0'
  Strings           \* the strings checked, each without its final NUL

ASSUME CharsAssumption ==
  /\ Slash \in Letter /\ Dot \in Letter /\ Nul \notin Letter
  /\ Slash # Dot

ASSUME StringsAssumption == Strings \subseteq Seq(Letter)

VARIABLES
  path,    \* the string
  next,    \* the slot of the next character that *path++ reads
  c,       \* the character read last
  result,  \* the value returned
  spc

scan == <<path, next, c, result, spc>>

\* The characters of the string in memory, its terminating NUL included.
Char(i) == IF i <= Len(path) THEN path[i] ELSE Nul

ScanTypeOK ==
  /\ path \in Strings
  /\ next \in Nat \ {0}
  /\ c \in Letter \cup {Nul}
  /\ result \in {0, 1}
  /\ spc \in {"inside", "loop", "done"}

ScanInit ==
  /\ path \in Strings
  /\ next = 1
  /\ c = Nul
  /\ result = 0
  /\ spc = "inside"

\* c = *path++
Read == c' = Char(next) /\ next' = next + 1

\* Mutant: a slash at the end of the path is accepted.
EnterComponentOrEnd ==
  /\ spc = "inside"
  /\ Char(next) \notin {Slash, Dot}
  /\ Read
  /\ spc' = "loop"
  /\ UNCHANGED <<path, result>>

\* inside: the first character of a component is an ordinary one
EnterComponent ==
  /\ spc = "inside"
  /\ Char(next) \notin {Slash, Dot, Nul}
  /\ Read
  /\ spc' = "loop"
  /\ UNCHANGED <<path, result>>

Reject ==
  /\ spc = "inside"
  /\ Char(next) \in {Slash, Dot, Nul}
  /\ Read
  /\ result' = 0
  /\ spc' = "done"
  /\ UNCHANGED path

Accept ==
  /\ spc = "loop" /\ c = Nul
  /\ result' = 1
  /\ spc' = "done"
  /\ UNCHANGED <<path, next, c>>

EndComponent ==
  /\ spc = "loop" /\ c = Slash
  /\ spc' = "inside"
  /\ UNCHANGED <<path, next, c, result>>

\* Mutant: the end of the string is not tested.
NextCharPastEnd ==
  /\ spc = "loop" /\ c # Slash
  /\ Read
  /\ UNCHANGED <<path, result, spc>>

NextChar ==
  /\ spc = "loop" /\ c \notin {Slash, Nul}
  /\ Read
  /\ UNCHANGED <<path, result, spc>>

ScanNext == EnterComponent \/ Reject \/ Accept \/ EndComponent \/ NextChar

\* The loop is sequential code: it keeps running.
ScanSpec == ScanInit /\ [][ScanNext]_scan /\ WF_scan(ScanNext)

-----------------------------------------------------------------------------

\* Slot i of s is where a component begins.
Begins(s, i) == i = 1 \/ s[i - 1] = Slash

\* A component that begins at slot i is neither empty nor hidden.
BeginsWell(s, i) == Begins(s, i) => i <= Len(s) /\ s[i] \notin {Slash, Dot}

(***************************************************************************)
(* What the comment above verify_path asks for: no component is empty (no  *)
(* double slash, none at either end) and none begins with a dot.           *)
(***************************************************************************)
Acceptable(s) == \A i \in 1 .. Len(s) + 1 : BeginsWell(s, i)

\* The inductive invariant: what has been read so far is acceptable, and c
\* is the character before the pointer.
Scanned ==
  /\ spc # "done" => \A i \in 1 .. next - 1 : BeginsWell(path, i)
  /\ spc = "inside" => next <= Len(path) + 1 /\ Begins(path, next)
  /\ spc = "loop" => next >= 2 /\ c = Char(next - 1)

(***************************************************************************)
(* verify_path returns 1 exactly for the acceptable paths.                 *)
(***************************************************************************)
VerdictCorrect == spc = "done" => (result = 1 <=> Acceptable(path))

(***************************************************************************)
(* The pointer never passes the slot behind the terminating NUL, so        *)
(* verify_path reads nothing outside the string.                           *)
(***************************************************************************)
StopsAtNul == next <= Len(path) + 2

(***************************************************************************)
(* The scan ends.                                                          *)
(***************************************************************************)
ScanEnds == <>(spc = "done")
=============================================================================
