------------------------------ MODULE MCBoard -------------------------------
(***************************************************************************)
(* The git operations of the project board for TLC.                         *)
(***************************************************************************)
EXTENDS RepositoryOperations, TLC

ASSUME BoardAssumption == RepositoryConstants
=============================================================================
