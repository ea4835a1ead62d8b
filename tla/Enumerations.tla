----------------------------- MODULE Enumerations -----------------------------
(* Sets of numbers in ascending order, and sequences without some of their      *)
(* members: what SetToSortSeq and SelectSeq compute, without a recursion.       *)
EXTENDS Naturals, FiniteSets

\* The k-th member is the one with k - 1 members below it.
InOrder(S) ==
    [k \in 1..Cardinality(S) |-> CHOOSE n \in S : Cardinality({m \in S : m < n}) = k - 1]

Dropping(s, gone) ==
    LET kept == InOrder({i \in DOMAIN s : s[i] \notin gone}) IN
    [k \in DOMAIN kept |-> s[kept[k]]]
=============================================================================
