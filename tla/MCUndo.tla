------------------------------- MODULE MCUndo -------------------------------
(* Symmetry for TLC's runs of Undo.                                        *)
EXTENDS Undo, TLC

Symmetry ==
    Permutations(Files) \cup Permutations(Runs)
        \cup Permutations(Binaries) \cup Permutations(Contents \ Binaries)
=============================================================================
