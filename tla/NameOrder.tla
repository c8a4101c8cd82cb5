----------------------------- MODULE NameOrder ------------------------------
(***************************************************************************)
(* cache_name_compare of update-cache.c and remove.c, called for every     *)
(* pair of three names.  The other modules number the paths and compare    *)
(* numbers, which is right if the function is a total order.               *)
(***************************************************************************)
EXTENDS Integers, Sequences

CONSTANT Names  \* names as sequences of bytes

ASSUME NamesAssumption == Names \subseteq Seq(0 .. 255)

VARIABLES
  names,   \* the three names
  todo,    \* the pairs that have not been compared
  order    \* the result of each call, 2 before it

comparison == <<names, todo, order>>

Pairs == (1 .. 3) \X (1 .. 3)

OrderInit ==
  /\ names \in [1 .. 3 -> Names]
  /\ todo = Pairs
  /\ order = [pair \in Pairs |-> 2]

\* memcmp of the first n bytes: the difference of the first pair that differs
MemCmp(s, t, n) ==
  IF \A k \in 1 .. n : s[k] = t[k] THEN 0
  ELSE LET k == CHOOSE k \in 1 .. n : s[k] # t[k] /\ \A j \in 1 .. k - 1 : s[j] = t[j]
       IN  s[k] - t[k]

\* Mutant: the lengths are not compared.
CacheNameComparePrefix(s, t) == MemCmp(s, t, IF Len(s) < Len(t) THEN Len(s) ELSE Len(t))

CacheNameCompare(s, t) ==
  LET cmp == MemCmp(s, t, IF Len(s) < Len(t) THEN Len(s) ELSE Len(t))
  IN  IF cmp # 0 THEN cmp
      ELSE IF Len(s) < Len(t) THEN -1
      ELSE IF Len(s) > Len(t) THEN 1
      ELSE 0

Call ==
  \E pair \in todo :
    /\ \A other \in todo : pair[1] * 3 + pair[2] <= other[1] * 3 + other[2]
    /\ order' = [order EXCEPT ![pair] = CacheNameCompare(names[pair[1]], names[pair[2]])]
    /\ todo' = todo \ {pair}
    /\ UNCHANGED names

OrderNext == Call

OrderSpec == OrderInit /\ [][OrderNext]_comparison

-----------------------------------------------------------------------------

(***************************************************************************)
(* The results are those of a total order on names, which the binary       *)
(* search of cache_name_pos needs: opposite for exchanged names and        *)
(* transitive, and only a name itself compares equal to it, also when one  *)
(* name is the beginning of another.                                       *)
(***************************************************************************)
TotalOrder ==
  todo = {} =>
    /\ \A x, y \in 1 .. 3 :
         /\ order[<<x, y>>] < 0 <=> order[<<y, x>>] > 0
         /\ order[<<x, y>>] = 0 <=> names[x] = names[y]
    /\ \A x, y, z \in 1 .. 3 :
         order[<<x, y>>] < 0 /\ order[<<y, z>>] < 0 => order[<<x, z>>] < 0
=============================================================================
