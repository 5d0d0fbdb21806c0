--------------------------- MODULE MCTaskLifecycle ---------------------------
(* Small instances of TaskLifecycle for TLC.                                *)
EXTENDS TaskLifecycle, TLC

\* Sessions, execution ids and agents are interchangeable.
Symmetry == Permutations(Procs) \cup Permutations(Execs) \cup Permutations(Agents)

=============================================================================
