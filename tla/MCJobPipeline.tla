---------------------------- MODULE MCJobPipeline ----------------------------
(***************************************************************************)
(* Model checking of JobPipeline.  The tasks are all of one job (an HTTP   *)
(* client that uses an identifier again) or each of its own.               *)
(***************************************************************************)
EXTENDS JobPipeline, FiniteSets, TLC

\* All tasks have the same job identifier.
OneJob == [t \in Tasks |-> CHOOSE j \in Jobs : TRUE]

Symmetry == Permutations(Workers) \cup Permutations(Tasks) \cup Permutations(Backends)

=============================================================================
