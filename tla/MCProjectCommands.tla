-------------------------- MODULE MCProjectCommands --------------------------
(* A small instance of ProjectCommands for TLC.  The callers of the hive and   *)
(* its workers are interchangeable: nothing looks at which they are.  The      *)
(* parts never meet, so that the runs, keys, environments, versions and users  *)
(* of other parts, which are interchangeable too, are the same model values.   *)
(* Of the two roles the policy is built with one; one pattern matches          *)
(* everything.                                                                 *)
EXTENDS ProjectCommands, TLC

CONSTANTS read, write, every, viewer

MCPatterns      == {read, every}
MCMeaning       == [g \in MCPatterns |-> IF g = every THEN Actions ELSE {g}]
MCBuiltInRoles  == [r \in Roles |-> IF r = viewer THEN {read} ELSE NoRole]
MCBuiltInClaims == {}

Symmetry == Permutations(Callers) \cup Permutations(WorkerIds)
=============================================================================
