---------------------------- MODULE SafeMigration ----------------------------
(***************************************************************************)
(* What a migration of the project database promises its caller: a change  *)
(* is applied as a whole, may be undone until it is acknowledged, and is   *)
(* there for good once commit() has returned Ok.                           *)
(***************************************************************************)
CONSTANT Changes

VARIABLES
  db,    \* the changes the database holds
  acked  \* the changes whose commit() returned Ok

Init == db = {} /\ acked = {}

Apply(c) == db' = db \cup {c} /\ UNCHANGED acked

Undo(c) == c \in db \ acked /\ db' = db \ {c} /\ UNCHANGED acked

Acknowledge(c) == c \in db /\ acked' = acked \cup {c} /\ UNCHANGED db

Next == \E c \in Changes : Apply(c) \/ Undo(c) \/ Acknowledge(c)

Spec == Init /\ [][Next]_<<db, acked>>
=============================================================================
