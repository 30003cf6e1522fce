---------------------------- MODULE MCPlacement ----------------------------
(***************************************************************************)
(* Finite instances of Placement.                                          *)
(***************************************************************************)
EXTENDS Placement

GPU(vendor, major, minor, free) ==
    [vendor |-> vendor, major |-> major, minor |-> minor, free |-> free]

\* One to four alike GPUs on two machines, with all distributions of memory.
Alike ==
    LET machine == UNION {[S -> {GPU("nvidia", 8, 9, free) : free \in 0 .. MaxMemory}] :
                            S \in SUBSET Index}
    IN  [Node -> machine]

Kinds ==
    {GPU("nvidia", 5, 2, 1), GPU("nvidia", 7, 5, 2), GPU("nvidia", 8, 6, 1),
     GPU("nvidia", 8, 9, 1), GPU("nvidia", 12, 0, 2), GPU("nvidia", 0, 0, 0),
     GPU("apple", 2, 0, 2), GPU("apple", 4, 0, 2), GPU("apple", 0, 0, 1)}

\* GPUs of all kinds: a machine with up to two and one with at most one.
Mixed ==
    {f \in [Node -> UNION {[S -> Kinds] : S \in SUBSET Index}] :
        DOMAIN f[2] \subseteq {0}}

Fleets == Alike \cup Mixed
=============================================================================
