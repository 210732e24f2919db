------------------------------ MODULE QtLists ------------------------------
(* Lists of Qt as sequences.                                               *)
EXTENDS Integers, Sequences, FiniteSets

(* The i-th of a set of numbers.                                           *)
Nth(S, i) == CHOOSE x \in S : Cardinality({y \in S : y < x}) = i - 1

(* What a list has at some positions.                                      *)
Only(list, kept) == [i \in 1..Cardinality(kept) |-> list[Nth(kept, i)]]

(* A list without an element: QList::removeAll.                            *)
Removed(list, gone) == Only(list, {i \in DOMAIN list : list[i] # gone})

(* Without the first occurrence of it: QList::removeOne.                   *)
RemovedOne(list, gone) ==
    Only(list, {i \in DOMAIN list : list[i] = gone => \E j \in DOMAIN list : j < i /\ list[j] = gone})

=============================================================================
