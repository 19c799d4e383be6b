---------------------------- MODULE MCOrderedSet ----------------------------
(***************************************************************************)
(* Instances of OrderedSet for TLC.                                        *)
(***************************************************************************)
EXTENDS OrderedSet, TLC

Symmetry == Permutations(Elements)

\* A listener may insert and remove elements, but leaves the iterators alone.
InsertOrRemove ==
    \/ \E e \in Elements, i \in 1 .. N + 1 : Insert(e, i)
    \/ \E i, j \in 1 .. N : RemoveNextElements(i, j)

ChangingSpec == Init /\ [][PassiveNext \/ InsertOrRemove]_vars
=============================================================================
