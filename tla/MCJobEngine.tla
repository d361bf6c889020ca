---------------------------- MODULE MCJobEngine ----------------------------
(* JobEngine on small instances. *)
EXTENDS JobEngine, TLC

\* Workers are interchangeable, and so are requests.  Safety runs only.
Symmetry == Permutations(Workers) \cup Permutations(Requests)
=============================================================================
