----------------------- MODULE MCWorkspaceRegistries -----------------------
(***************************************************************************)
(* WorkspaceRegistries on small instances.                                 *)
(***************************************************************************)
EXTENDS WorkspaceRegistries, TLC

\* Windows, agents and keys are interchangeable: only safety runs use this.
Interchangeable == Permutations(Desktops) \cup Permutations(Agents) \cup Permutations(Keys)
=============================================================================
