--------------------------- MODULE MCServiceCommands ---------------------------
(* A small instance of ServiceCommands for TLC.  The records never meet, so    *)
(* the agents, holders and processes are the same model values; nothing looks  *)
(* at which they are.                                                          *)
EXTENDS ServiceCommands, TLC

Symmetry == Permutations(Agents)
================================================================================
