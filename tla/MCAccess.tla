------------------------------ MODULE MCAccess ------------------------------
(* A project with two workspaces and two employees. *)
EXTENDS Access, TLC

Symmetry == Permutations(Employee) \cup Permutations(Workspace)
=============================================================================
