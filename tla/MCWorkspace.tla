----------------------------- MODULE MCWorkspace -----------------------------
(* The instance of Workspace that TLC checks:  every note matches the empty  *)
(* search, and the last one another.                                         *)
EXTENDS Workspace

CONSTANTS all, some

Matches == [q \in Queries |-> IF q = all THEN Notes ELSE {n \in Notes : n > 1}]
=============================================================================
