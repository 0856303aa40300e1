--------------------------- MODULE MCResultStorage ---------------------------
(***************************************************************************)
(* Model checking of ResultStorage.  The clients are divided, so that two  *)
(* writers and a listener fit: writers call what changes a job, the others *)
(* read it and listen.                                                     *)
(***************************************************************************)
EXTENDS ResultStorage, TLC

CONSTANT Writers

WriterSymmetry == Permutations(Writers)

RolesNext ==
    \/ \E c \in Writers : WriteCall(c)
    \/ \E c \in Clients \ Writers : ListenCall(c) \/ ReadCall(c)
    \/ \E c \in Clients : StorageStep(c)

RolesSpec == StorageInit /\ [][RolesNext]_storageVars

=============================================================================
