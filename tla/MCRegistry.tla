----------------------------- MODULE MCRegistry -----------------------------
(***************************************************************************)
(* Finite instances of Registry: one worker, or two data directories on    *)
(* one machine.                                                            *)
(***************************************************************************)
EXTENDS Registry, TLC

CONSTANTS n1, n2, hw1

\* One machine, one worker.
OneNode == {n1}

HwOne == [n \in OneNode |-> hw1]

\* Two data directories, and so two node ids, on one machine.
TwoNodes == {n1, n2}

\* The two ids are interchangeable.
Symmetry == Permutations(TwoNodes)

HwShared == [n \in TwoNodes |-> hw1]
=============================================================================
