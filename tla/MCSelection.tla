---------------------------- MODULE MCSelection ----------------------------
(* Small instances of Selection for TLC. *)
EXTENDS Selection, TLC

CONSTANTS d1, d2

\* Evening as it is; a weekday window, where the soft cap is the limit; a small Weekend.
Windows == {[limit |-> 3, softCap |-> 2], [limit |-> 2, softCap |-> 2],
            [limit |-> 3, softCap |-> 1]}

Symmetry == Permutations(Domains)
=============================================================================
