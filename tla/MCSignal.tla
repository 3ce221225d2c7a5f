------------------------------ MODULE MCSignal ------------------------------
(* Small instances of Signal for TLC.                                      *)
EXTENDS Signal, TLC

Symmetry == Permutations(Nodes) \cup Permutations(Cookies)
            \cup Permutations(Values)
=============================================================================
