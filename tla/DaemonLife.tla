------------------------------ MODULE DaemonLife ------------------------------
(***************************************************************************)
(* The life of the workspace daemon (crates/ruflo-cli/src/daemon.rs): the  *)
(* commands start, stop, stop --all and enable, and the serve loop, which  *)
(* meet in daemon-state.json and in the registry of daemons.  Nothing is   *)
(* locked: a command and the loop each read the whole state file, and      *)
(* write the whole of it back some steps later.                            *)
(*                                                                         *)
(* What supervisor_step does is in ApplianceHost.  Left out: failing reads *)
(* and writes, the shared name of the temporary file (a write is atomic),  *)
(* and the delay between SIGTERM and the death of the process.  A pid is   *)
(* not used again.                                                         *)
(***************************************************************************)
EXTENDS Naturals

CONSTANTS
  Operators,  \* who runs commands
  MaxPids,    \* BOUND on the processes started
  NoPid       \* no pid recorded

Pids == 1..MaxPids

ASSUME PidAssumption == MaxPids \in Nat /\ NoPid \notin Pids

VARIABLES
  state,     \* daemon-state.json: its members running and pid
  registry,  \* per pid, the file daemons/<pid>: none, empty (made, not written) or full
  proc,      \* where each supervisor process is
  seen,      \* per pid, the state its serve loop has read last
  cmd,       \* per operator, the command under way and what it has read
  halted,    \* history: "one" since a stop, "all" since a stop --all, "no" since a start
  orderly    \* history: commands ran one at a time, and supervisors did too

daemonVars == <<state, registry, proc, seen, cmd, halted, orderly>>

States  == [running : {"unset", "yes", "no"}, pid : Pids \cup {NoPid}]
NoState == [running |-> "unset", pid |-> NoPid]
NoCmd   == [at |-> "idle", state |-> NoState, pid |-> NoPid, todo |-> {}]

Booting == {"boot", "create", "fill"}
Serving == Booting \cup {"loop", "beat"}
Alive   == Serving \cup {"end", "mark", "leave"}

DaemonTypeOK ==
  /\ state \in States
  /\ registry \in [Pids -> {"none", "empty", "full"}]
  /\ proc \in [Pids -> Alive \cup {"unborn", "dead"}]
  /\ seen \in [Pids -> States]
  /\ cmd \in [Operators ->
       [at : {"idle", "spawn", "write", "create", "fill", "kill", "unregister",
              "mark", "walk", "enable"},
        state : States, pid : Pids \cup {NoPid}, todo : SUBSET Pids]]
  /\ halted \in {"no", "one", "all"}
  /\ orderly \in BOOLEAN

DaemonInit ==
  /\ state = NoState
  /\ registry = [p \in Pids |-> "none"]
  /\ proc = [p \in Pids |-> "unborn"]
  /\ seen = [p \in Pids |-> NoState]
  /\ cmd = [o \in Operators |-> NoCmd]
  /\ halted = "no"
  /\ orderly = TRUE

\* is_supervisor_process
IsSupervisor(p) == p \in Pids /\ proc[p] \in Alive
Unborn    == {p \in Pids : proc[p] = "unborn"}
NewPid    == CHOOSE p \in Unborn : \A q \in Unborn : p <= q
At(o, a)  == cmd[o].at = a
Move(o, a) == cmd' = [cmd EXCEPT ![o].at = a]
Finish(o) == cmd' = [cmd EXCEPT ![o] = NoCmd]

\* No other command is under way, and no supervisor that nobody has recorded.
InTurn(o) ==
  /\ \A q \in Operators \ {o} : At(q, "idle")
  /\ \A p \in Pids : proc[p] = "boot" => state.pid = p

\* write_daemon_state with running := r over what was read.
Write(read, r) == state' = [read EXCEPT !.running = r]

\* register_global_daemon is fs::write: the file is made empty, then written,
\* to a file without a name if it has been removed in between.
MakeRecord(p) == registry' = [registry EXCEPT ![p] = "empty"]
FillRecord(p) == registry' = [registry EXCEPT ![p] = IF @ = "empty" THEN "full" ELSE @]
DropRecord(p) == registry' = [registry EXCEPT ![p] = "none"]

------------------------------------------------------------------------------
(* serve_loop *)

Go(p, from, to) == proc[p] = from /\ proc' = [proc EXCEPT ![p] = to]

Boot(p) ==
  /\ Go(p, "boot", "create")
  /\ state' = [running |-> "yes", pid |-> p]
  /\ UNCHANGED <<registry, seen, cmd, halted, orderly>>

Register(p) ==
  /\ \/ Go(p, "create", "fill") /\ MakeRecord(p)
     \/ Go(p, "fill", "loop") /\ FillRecord(p)
  /\ UNCHANGED <<state, seen, cmd, halted, orderly>>

Poll(p) ==
  /\ \/ state.running = "no" /\ Go(p, "loop", "end")
     \/ state.running # "no" /\ Go(p, "loop", "beat")
  /\ UNCHANGED <<state, registry, seen, cmd, halted, orderly>>

\* The heartbeat; after it the loop ends when its ttl is over.
Beat(p) ==
  /\ \E to \in {"loop", "end"} : Go(p, "beat", to)
  /\ state' = [running |-> "yes", pid |-> p]
  /\ UNCHANGED <<registry, seen, cmd, halted, orderly>>

End(p) ==
  /\ Go(p, "end", "mark")
  /\ seen' = [seen EXCEPT ![p] = state]
  /\ UNCHANGED <<state, registry, cmd, halted, orderly>>

MarkEnded(p) ==
  /\ Go(p, "mark", "leave")
  /\ Write(seen[p], "no")
  /\ UNCHANGED <<registry, seen, cmd, halted, orderly>>

Leave(p) ==
  /\ Go(p, "leave", "dead")
  /\ DropRecord(p)
  /\ UNCHANGED <<state, seen, cmd, halted, orderly>>

\* A signal from elsewhere or a reboot: file and record stay as they are.
Die(p) ==
  /\ proc[p] \in Alive
  /\ proc' = [proc EXCEPT ![p] = "dead"]
  /\ UNCHANGED <<state, registry, seen, cmd, halted, orderly>>

------------------------------------------------------------------------------
(* start *)

\* Refused, with nothing changed, when the recorded supervisor runs.
Start(o) ==
  /\ At(o, "idle")
  /\ Unborn # {}
  /\ ~(state.running = "yes" /\ IsSupervisor(state.pid))
  /\ Move(o, "spawn")
  /\ halted' = "no"
  /\ orderly' = (orderly /\ InTurn(o))
  /\ UNCHANGED <<state, registry, proc, seen>>

\* --foreground does not look: the command is the supervisor.
StartForeground(o) ==
  /\ At(o, "idle")
  /\ Unborn # {}
  /\ proc' = [proc EXCEPT ![NewPid] = "boot"]
  /\ halted' = "no"
  /\ orderly' = (orderly /\ InTurn(o) /\ \A p \in Pids : ~IsSupervisor(p))
  /\ UNCHANGED <<state, registry, seen, cmd>>

Spawn(o) ==
  /\ At(o, "spawn")
  /\ Unborn # {}
  /\ proc' = [proc EXCEPT ![NewPid] = "boot"]
  /\ cmd' = [cmd EXCEPT ![o].at = "write", ![o].pid = NewPid]
  /\ UNCHANGED <<state, registry, seen, halted, orderly>>

WriteStarted(o) ==
  /\ At(o, "write")
  /\ state' = [running |-> "yes", pid |-> cmd[o].pid]
  /\ Move(o, "create")
  /\ UNCHANGED <<registry, proc, seen, halted, orderly>>

RegisterStarted(o) ==
  /\ \/ At(o, "create") /\ MakeRecord(cmd[o].pid) /\ Move(o, "fill")
     \/ At(o, "fill") /\ FillRecord(cmd[o].pid) /\ Finish(o)
  /\ UNCHANGED <<state, proc, seen, halted, orderly>>

------------------------------------------------------------------------------
(* stop *)

Stop(o) ==
  /\ At(o, "idle")
  /\ cmd' = [cmd EXCEPT ![o].at = "kill", ![o].state = state]
  /\ orderly' = (orderly /\ InTurn(o))
  /\ UNCHANGED <<state, registry, proc, seen, halted>>

\* terminate_recorded_supervisor
Terminate(p) == proc' = IF IsSupervisor(p) THEN [proc EXCEPT ![p] = "dead"] ELSE proc

\* FAULT: the supervisor is left to find the mark.
StopLeavesIt(o) ==
  /\ At(o, "kill")
  /\ Move(o, "unregister")
  /\ UNCHANGED <<state, registry, proc, seen, halted, orderly>>

StopKill(o) ==
  /\ At(o, "kill")
  /\ Terminate(cmd[o].state.pid)
  /\ Move(o, "unregister")
  /\ UNCHANGED <<state, registry, seen, halted, orderly>>

StopUnregister(o) ==
  /\ At(o, "unregister")
  /\ registry' = [p \in Pids |-> IF p = cmd[o].state.pid THEN "none" ELSE registry[p]]
  /\ Move(o, "mark")
  /\ UNCHANGED <<state, proc, seen, halted, orderly>>

\* A supervisor not recorded when the stop looked, which has written nothing
\* yet, counts as started after the stop.
StopMark(o) ==
  /\ At(o, "mark")
  /\ Write(cmd[o].state, "no")
  /\ Finish(o)
  /\ halted' = IF \E p \in Pids : proc[p] = "boot" THEN "no" ELSE "one"
  /\ UNCHANGED <<registry, proc, seen, orderly>>

\* stop_all walks the registry; a supervisor whose record is still being
\* written when it is read is not signalled, and its record removed all the same.
StopAll(o) ==
  /\ At(o, "idle")
  /\ cmd' = [cmd EXCEPT ![o].at = "walk", ![o].todo = {p \in Pids : registry[p] # "none"}]
  /\ orderly' = (orderly /\ InTurn(o) /\ \A p \in Pids : proc[p] \notin Booting)
  /\ UNCHANGED <<state, registry, proc, seen, halted>>

StopAllOne(o) ==
  /\ At(o, "walk")
  /\ \E p \in cmd[o].todo :
       /\ IF registry[p] = "full" THEN Terminate(p) ELSE UNCHANGED proc
       /\ DropRecord(p)
       /\ cmd' = [cmd EXCEPT ![o].todo = @ \ {p}]
  /\ UNCHANGED <<state, seen, halted, orderly>>

StopAllDone(o) ==
  /\ At(o, "walk")
  /\ cmd[o].todo = {}
  /\ Finish(o)
  /\ halted' = IF halted = "no" THEN "all" ELSE halted
  /\ UNCHANGED <<state, registry, proc, seen, orderly>>

------------------------------------------------------------------------------
(* enable: changes the list of workers, and writes back the rest as it was. *)

Enable(o) ==
  /\ At(o, "idle")
  /\ cmd' = [cmd EXCEPT ![o].at = "enable", ![o].state = state]
  /\ orderly' = (orderly /\ InTurn(o))
  /\ UNCHANGED <<state, registry, proc, seen, halted>>

EnableWrite(o) ==
  /\ At(o, "enable")
  /\ state' = cmd[o].state
  /\ Finish(o)
  /\ UNCHANGED <<registry, proc, seen, halted, orderly>>

------------------------------------------------------------------------------
DaemonNext ==
  \/ \E p \in Pids :
       \/ Boot(p) \/ Register(p) \/ Poll(p) \/ Beat(p)
       \/ End(p) \/ MarkEnded(p) \/ Leave(p) \/ Die(p)
  \/ \E o \in Operators :
       \/ Start(o) \/ StartForeground(o) \/ Spawn(o) \/ WriteStarted(o) \/ RegisterStarted(o)
       \/ Stop(o) \/ StopKill(o) \/ StopUnregister(o) \/ StopMark(o)
       \/ StopAll(o) \/ StopAllOne(o) \/ StopAllDone(o)
       \/ Enable(o) \/ EnableWrite(o)

DaemonSpec == DaemonInit /\ [][DaemonNext]_daemonVars

------------------------------------------------------------------------------
(* Correctness *)

\* What is stopped stays stopped.  If commands run one at a time and nobody
\* starts a second supervisor beside a running one, then from the end of a
\* stop, or of a stop --all of supervisors that have registered, to the next
\* start no supervisor serves, whatever heartbeat, enable or end by ttl the
\* stop met; after a stop the state file says so too.
StopSticks ==
  orderly =>
    /\ halted # "no" => \A p \in Pids : proc[p] \notin Serving
    /\ halted = "one" => state.running = "no"

\* A stop marks the state file "so a serve loop that polls state exits"
\* (daemon.rs): as long as a supervisor is in its loop, a stop that is over
\* can be read in the file.  A supervisor breaks it that was not there yet when
\* stop read the file, so that it is not signalled, and whose heartbeat has
\* read running=true before stop wrote.
PollersSeeStop ==
  halted = "one" /\ (\E p \in Pids : proc[p] \in {"loop", "beat"}) => state.running = "no"
=============================================================================
