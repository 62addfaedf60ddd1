--------------------------- MODULE MCRegistration ---------------------------
(* Instances of Registration for TLC: distinct priorities, so that the      *)
(* registries are not interchangeable.                                      *)
EXTENDS Registration

CONSTANT First   \* the registry to prefer

Priorities == [g \in Registries |-> IF g = First THEN 0 ELSE 1]
=============================================================================
