------------------------------ MODULE MCWorker ------------------------------
(***************************************************************************)
(* Finite instances of Worker.                                             *)
(***************************************************************************)
EXTENDS Worker, TLC

CONSTANTS f1, f2, f3, p1, p2

Files == {f1, f2, f3}

Names == {p1, p2}

\* with_extension("partial") cuts a name at its last dot: f1 and f2 may be
\* "llama-3.2-q4" and "llama-3.2-q8".
PartialOf == (f1 :> p1) @@ (f2 :> p1) @@ (f3 :> p2)

\* The requests are interchangeable.
Symmetry == Permutations(Job)
=============================================================================
