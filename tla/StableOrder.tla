---------------------------- MODULE StableOrder ----------------------------
(***************************************************************************)
(* Places put in the order of their keys, the way Python's sorted() does   *)
(* it: equal keys keep the order they were in.  A definition by counting,  *)
(* and not by recursion, which can be reasoned about for any length.       *)
(***************************************************************************)
EXTENDS Integers, Sequences, FiniteSets

\* The pair (key, place), the smaller first.
Precedes(keys, i, j) ==
    \/ keys[i] < keys[j]
    \/ keys[i] = keys[j] /\ i < j

\* How many of the places P come before j.
Rank(keys, P, j) == Cardinality({i \in P : Precedes(keys, i, j)})

\* The places P, the first first.
InOrder(keys, P) ==
    [k \in 1..Cardinality(P) |-> CHOOSE j \in P : Rank(keys, P, j) = k - 1]

\* What s has at the places P, by the keys.
Arranged(s, keys, P) ==
    LET order == InOrder(keys, P) IN [k \in 1..Cardinality(P) |-> s[order[k]]]
=============================================================================
