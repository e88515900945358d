--------------------------- MODULE MCUpdateCheck ---------------------------
(* A small instance of UpdateCheck for TLC. *)
EXTENDS UpdateCheck, TLC

CONSTANTS p1, p2, new, newer

MCProcesses == {p1, p2}
MCDigests == {new, newer}

ProcessSymmetry == Permutations(MCProcesses)
                     \union Permutations(MCDigests)
=============================================================================
