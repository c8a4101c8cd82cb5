---------------------------- MODULE CacheNamePos ----------------------------
(***************************************************************************)
(* The binary search cache_name_pos of update-cache.c, one action per      *)
(* branch of its loop, over every cache and every name it may be given.    *)
(* The same loop is in remove.c.                                           *)
(***************************************************************************)
EXTENDS DirCache

CONSTANT Caches  \* the caches searched, all of them sorted

ASSUME CachesAssumption == \A c \in Caches : c \in Seq(Entry) /\ Sorted(c)

VARIABLES
  cache,  \* active_cache
  name,   \* the name looked for
  first,  \* the local variables of the loop, as in the code
  last,
  pos,    \* the value returned
  pc

search == <<cache, name, first, last, pos, pc>>

SearchTypeOK ==
  /\ cache \in Caches
  /\ name \in Path
  /\ first \in 0 .. Len(cache)
  /\ last \in 0 .. Len(cache)
  /\ pos \in Int
  /\ pc \in {"loop", "done"}

SearchInit ==
  /\ cache \in Caches
  /\ name \in Path
  /\ first = 0
  /\ last = Len(cache)
  /\ pos = 0
  /\ pc = "loop"

\* int next = (last + first) >> 1
Middle == (last + first) \div 2

\* active_cache[next]->name
Probed == cache[Middle + 1].name

\* Mutant: the encoding of a hit lacks its -1.
MatchUnshifted ==
  /\ pc = "loop" /\ last > first
  /\ name = Probed
  /\ pos' = -Middle
  /\ pc' = "done"
  /\ UNCHANGED <<cache, name, first, last>>

Match ==
  /\ pc = "loop" /\ last > first
  /\ name = Probed
  /\ pos' = -Middle - 1
  /\ pc' = "done"
  /\ UNCHANGED <<cache, name, first, last>>

GoLeft ==
  /\ pc = "loop" /\ last > first
  /\ name < Probed
  /\ last' = Middle
  /\ UNCHANGED <<cache, name, first, pos, pc>>

\* Mutant: first is not moved past the probed slot.
GoRightStuck ==
  /\ pc = "loop" /\ last > first
  /\ name > Probed
  /\ first' = Middle
  /\ UNCHANGED <<cache, name, last, pos, pc>>

GoRight ==
  /\ pc = "loop" /\ last > first
  /\ name > Probed
  /\ first' = Middle + 1
  /\ UNCHANGED <<cache, name, last, pos, pc>>

NotFound ==
  /\ pc = "loop" /\ last <= first
  /\ pos' = first
  /\ pc' = "done"
  /\ UNCHANGED <<cache, name, first, last>>

SearchNext == Match \/ GoLeft \/ GoRight \/ NotFound

\* The loop is sequential code: it keeps running.
SearchSpec == SearchInit /\ [][SearchNext]_search /\ WF_search(SearchNext)

-----------------------------------------------------------------------------

(***************************************************************************)
(* The search window: everything below first is smaller than the name and  *)
(* everything from last on is larger.  This is the loop invariant.         *)
(***************************************************************************)
Window ==
  /\ first <= last
  /\ \A i \in 1 .. first : cache[i].name < name
  /\ \A i \in last + 1 .. Len(cache) : name < cache[i].name

(***************************************************************************)
(* The result of cache_name_pos is the encoded slot of the name, or the    *)
(* slot where inserting it keeps the cache sorted.  Its callers add, replace *)
(* and remove on the strength of this.                                     *)
(***************************************************************************)
PosCorrect == pc = "done" => IsNamePos(cache, name, pos)

(***************************************************************************)
(* The search ends: each iteration shrinks the window by at least one.     *)
(***************************************************************************)
SearchEnds == <>(pc = "done")
=============================================================================
