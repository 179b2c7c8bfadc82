----------------------------- MODULE AtomicState -----------------------------
(***************************************************************************)
(* What a service state file promises to the callers of locked_write: an   *)
(* update is applied to the stored state as one step, the caller is told   *)
(* "true" only for an update that is stored, and no update that was        *)
(* applied disappears, except when the file cannot be read: then a caller  *)
(* may begin the whole state anew with its own update.                     *)
(***************************************************************************)
CONSTANT Updates          \* the changes callers ask for, each used once

VARIABLES
  store,                  \* the updates in the stored state
  acked,                  \* the updates whose caller was told "true"
  unreadable              \* whether a caller has failed to read the state

vars == <<store, acked, unreadable>>

Init ==
  /\ store = {}
  /\ acked = {}
  /\ unreadable = FALSE

Apply(u) ==
  /\ u \notin store
  /\ store' = store \cup {u}
  /\ UNCHANGED <<acked, unreadable>>

\* The stored state counts as empty for the caller that could not read it.
BeginAnew(u) ==
  /\ unreadable
  /\ store' = {u}
  /\ UNCHANGED <<acked, unreadable>>

Acknowledge(u) ==
  /\ u \in store
  /\ acked' = acked \cup {u}
  /\ unreadable' \in BOOLEAN

\* The environment: the file becomes unreadable, or readable again.
Flicker ==
  /\ unreadable' \in BOOLEAN
  /\ UNCHANGED <<store, acked>>

Next ==
  \/ \E u \in Updates : Apply(u) \/ BeginAnew(u) \/ Acknowledge(u)
  \/ Flicker

Spec == Init /\ [][Next]_vars
==============================================================================
