----------------------------- MODULE MCJobQueue -----------------------------
(* Small instances of JobQueue for TLC.                                    *)
EXTENDS JobQueue, TLC

\* Threads and jobs of one kind are interchangeable.
Symmetry == Permutations(Workers) \cup Permutations(Clients)
            \cup Permutations(Jobs) \cup Permutations(Flushes)
=============================================================================
