------------------------------ MODULE Lifecycle ------------------------------
(***************************************************************************)
(* The agents, tasks, sessions and the swarm of a workspace                *)
(* (crates/ruflo-cli/src/lifecycle.rs).  Agents are rows of the appliance  *)
(* database; but whoever lists or looks up agents first copies the JSON    *)
(* records of .swarm/agents over these rows (migrate_json_agents), and a   *)
(* restored session writes such records.                                   *)
(*                                                                         *)
(* A command is one step, but for `swarm start`, which runs its workers    *)
(* between start_swarm and finish_swarm while other commands go on.  Left  *)
(* out: failing reads and writes, refused arguments, logs, and the agent   *)
(* pool file, which nothing reads.                                         *)
(***************************************************************************)
EXTENDS Naturals, FiniteSets

CONSTANTS
  Agents,      \* ids of agents
  Residents,   \* those that supervisor_step registers
  Tasks,       \* BOUND: the ids given to tasks
  Sessions,    \* BOUND: the ids given to sessions
  MaxRetries,  \* max_retries of a task
  MaxRuns,     \* BOUND on the swarm runs under way
  MaxTarget,   \* BOUND on the agents asked for
  Unset        \* no such file

SwarmStatus == {"ready", "running", "completed", "failed", "stopped"}

ASSUME LifeAssumption ==
  /\ Residents \subseteq Agents
  /\ IsFiniteSet(Agents)
  /\ Unset \notin SwarmStatus
  /\ MaxRetries \in Nat /\ MaxRuns \in Nat

VARIABLES
  row,       \* appliance_agents: the status of each agent, or none
  json,      \* .swarm/agents: likewise
  task,      \* .swarm/tasks
  session,   \* .claude-flow/sessions
  swarm,     \* .swarm/state.json: the status of the swarm
  runs       \* swarm runs between start_swarm and finish_swarm

lifeVars == <<row, json, task, session, swarm, runs>>

AgentStatus  == {"none", "idle", "terminated"}
TaskRecords  ==
  [status : {"pending", "assigned", "queued", "failed", "cancelled"},
   retries : 0..MaxRetries]
SessionRecords ==
  [agents : [Agents -> AgentStatus], tasks : [Tasks -> TaskRecords \cup {Unset}],
   swarm : SwarmStatus \cup {Unset}]

LifeTypeOK ==
  /\ row \in [Agents -> AgentStatus]
  /\ json \in [Agents -> AgentStatus]
  /\ task \in [Tasks -> TaskRecords \cup {Unset}]
  /\ DOMAIN session = Sessions
  /\ \A s \in Sessions : session[s] # Unset => session[s] \in SessionRecords
  /\ swarm \in SwarmStatus \cup {Unset}
  /\ runs \in 0..MaxRuns

NewTask == [status |-> "pending", retries |-> 0]

\* The workspace is initialized; it may have records of an older version.
LifeInit ==
  /\ row = [a \in Agents |-> "none"]
  /\ \E legacy \in SUBSET (Agents \ Residents) :
       json = [a \in Agents |-> IF a \in legacy THEN "idle" ELSE "none"]
  /\ task = [t \in Tasks |-> Unset]
  /\ session = [s \in Sessions |-> Unset]
  /\ swarm = Unset
  /\ runs = 0

\* What list_agents and get_agent answer, and leave in the rows.
Listed  == [a \in Agents |-> IF json[a] # "none" THEN json[a] ELSE row[a]]
Exists(a) == Listed[a] # "none"
Active  == {a \in Agents : Listed[a] \notin {"none", "terminated"}}
SetAgents(as, st) == row' = [a \in Agents |-> IF a \in as THEN st ELSE Listed[a]]
Absent  == {a \in Agents \ Residents : ~Exists(a)}

------------------------------------------------------------------------------
(* Agents *)

\* agent list, status, metrics, health, logs, swarm status; and the refusals
\* that come after a lookup.
ListAgents ==
  /\ SetAgents({}, "idle")
  /\ UNCHANGED <<json, task, session, swarm, runs>>

\* FAULT: the id of a terminated agent is free again.
SpawnAgentAgain(a) ==
  /\ Listed[a] \in {"none", "terminated"}
  /\ SetAgents({a}, "idle")
  /\ UNCHANGED <<json, task, session, swarm, runs>>

SpawnAgent(a) ==
  /\ ~Exists(a)
  /\ SetAgents({a}, "idle")
  /\ UNCHANGED <<json, task, session, swarm, runs>>

StopAgent(a) ==
  /\ Exists(a)
  /\ SetAgents({a}, "terminated")
  /\ UNCHANGED <<json, task, session, swarm, runs>>

\* supervisor_step (daemon.rs) upserts the residents without a lookup.
RegisterResident(a) ==
  /\ row' = [row EXCEPT ![a] = "idle"]
  /\ UNCHANGED <<json, task, session, swarm, runs>>

------------------------------------------------------------------------------
(* Tasks *)

SetTask(t, record) ==
  task' = [task EXCEPT ![t] = record] /\ UNCHANGED <<json, session, swarm, runs>>

CreateTask(t) ==
  /\ task[t] = Unset
  /\ SetTask(t, NewTask)
  /\ UNCHANGED row

CancelTask(t) ==
  /\ task[t] # Unset
  /\ task[t].status # "failed"
  /\ SetTask(t, [task[t] EXCEPT !.status = "cancelled"])
  /\ UNCHANGED row

Assignable(t) == task[t] # Unset /\ task[t].status \in {"pending", "queued"}

\* To a list of agents that exist, which may be empty: nothing reads the list.
AssignTask(t) ==
  /\ Assignable(t)
  /\ SetTask(t, [task[t] EXCEPT !.status = "assigned"])
  /\ \/ UNCHANGED row
     \/ (\E a \in Agents : Exists(a)) /\ SetAgents({}, "idle")

Unassign(t) ==
  /\ Assignable(t)
  /\ SetTask(t, [task[t] EXCEPT !.status = "pending"])
  /\ UNCHANGED row

\* FAULT: the limit is looked at after the retry.
RetryTaskLate(t) ==
  /\ task[t] # Unset
  /\ task[t].status = "failed"
  /\ SetTask(t, [status |-> "queued", retries |-> task[t].retries + 1])
  /\ UNCHANGED row

\* A task that has failed, which only an imported session brings.
RetryTask(t) ==
  /\ task[t] # Unset
  /\ task[t].status = "failed"
  /\ \/ SetTask(t, [status |-> "queued", retries |-> 0])
     \/ /\ task[t].retries < MaxRetries
        /\ SetTask(t, [status |-> "queued", retries |-> task[t].retries + 1])
  /\ UNCHANGED row

------------------------------------------------------------------------------
(* The swarm *)

WriteSwarm(record) == swarm' = record /\ UNCHANGED <<json, task, session>>
CanGoOn == swarm \notin {Unset, "stopped"}

InitSwarm ==
  /\ WriteSwarm("ready")
  /\ UNCHANGED <<row, runs>>

StartSwarm ==
  /\ CanGoOn
  /\ runs < MaxRuns
  /\ runs' = runs + 1
  /\ WriteSwarm("running")
  /\ UNCHANGED row

\* Looks at no status: a swarm stopped, replaced or restored meanwhile is
\* completed or failed all the same.
FinishSwarm ==
  /\ runs > 0
  /\ runs' = runs - 1
  /\ \/ swarm = Unset /\ UNCHANGED <<json, task, session, swarm>>
     \/ /\ swarm # Unset
        /\ \E st \in {"completed", "failed"} : WriteSwarm(st)
  /\ UNCHANGED row

StopSwarm ==
  /\ swarm # Unset
  /\ WriteSwarm("stopped")
  /\ UNCHANGED <<row, runs>>

\* To n agents: new ones under ids not in use, or the last ones stopped.
ScaleSwarm(n) ==
  /\ CanGoOn
  /\ WriteSwarm(swarm)
  /\ \/ \E as \in SUBSET Absent :
          Cardinality(Active) + Cardinality(as) = n /\ SetAgents(as, "idle")
     \/ \E as \in SUBSET Active :
          Cardinality(Active) - Cardinality(as) = n /\ SetAgents(as, "terminated")
  /\ UNCHANGED runs

\* The first n roles; those of them that exist, terminated or not, are left.
CoordinateSwarm(n) ==
  /\ swarm = Unset \/ CanGoOn
  /\ WriteSwarm(IF swarm = Unset THEN "ready" ELSE swarm)
  /\ \E roles \in SUBSET (Agents \ Residents) :
       Cardinality(roles) = n /\ SetAgents({a \in roles : ~Exists(a)}, "idle")
  /\ UNCHANGED runs

------------------------------------------------------------------------------
(* Sessions *)

SetSession(s, record) ==
  session' = [session EXCEPT ![s] = record] /\ UNCHANGED <<json, task, swarm, runs>>

SaveSession(s) ==
  /\ session[s] = Unset
  /\ SetSession(s, [agents |-> Listed, tasks |-> task, swarm |-> swarm])
  /\ SetAgents({}, "idle")

\* From a file of another workspace, perhaps: here, one with a failed task.
ImportSession(s) ==
  /\ session[s] = Unset
  /\ \E st \in {"idle", "terminated"}, k \in 0..MaxRetries :
       SetSession(s, [agents |-> [a \in Agents |-> IF a \in Residents THEN "none" ELSE st],
                      tasks |-> [t \in Tasks |->
                        [status |-> "failed", retries |-> k]],
                      swarm |-> Unset])
  /\ UNCHANGED row

DeleteSession(s) ==
  /\ session[s] # Unset
  /\ SetSession(s, Unset)
  /\ UNCHANGED row

\* JSON records and rows both become those of the session; so do the tasks,
\* and the swarm if it had one.
RestoreSession(s) ==
  /\ session[s] # Unset
  /\ json' = session[s].agents
  /\ row' = session[s].agents
  /\ task' = session[s].tasks
  /\ swarm' = IF session[s].swarm = Unset THEN swarm ELSE session[s].swarm
  /\ UNCHANGED <<session, runs>>

------------------------------------------------------------------------------
LifeNext ==
  \/ ListAgents
  \/ \E a \in Agents \ Residents : SpawnAgent(a)
  \/ \E a \in Agents : StopAgent(a)
  \/ \E a \in Residents : RegisterResident(a)
  \/ \E t \in Tasks :
       CreateTask(t) \/ CancelTask(t) \/ AssignTask(t) \/ Unassign(t) \/ RetryTask(t)
  \/ InitSwarm \/ StartSwarm \/ FinishSwarm \/ StopSwarm
  \/ \E n \in 1..MaxTarget : ScaleSwarm(n) \/ CoordinateSwarm(n)
  \/ \E s \in Sessions :
       SaveSession(s) \/ ImportSession(s) \/ DeleteSession(s) \/ RestoreSession(s)

------------------------------------------------------------------------------
(* Correctness *)

\* A stop is undone in three ways only: by a restored session; for an agent, by
\* its own JSON record, at the next lookup; for a swarm, by the end of a run that
\* was under way, or a new init.  Nothing that is spawned, scaled, coordinated,
\* started or listed meanwhile brings the agent or the swarm back.  Residents
\* are registered again by the supervisor.
StoppedStays ==
  [][\/ /\ \A a \in Agents \ Residents :
             row[a] = "terminated" =>
               row'[a] = "terminated" \/ (json[a] # "none" /\ row'[a] = json[a])
        /\ swarm = "stopped" => swarm' = "stopped" \/ InitSwarm \/ FinishSwarm
     \/ \E s \in Sessions : RestoreSession(s)]_lifeVars
=============================================================================
