---------------------------- MODULE ApplianceHost ----------------------------
(***************************************************************************)
(* The appliance of ADR 0012: jobs and resident slots in .swarm/memory.db  *)
(* (ApplianceStore), worked off by supervisor_step in the serve loop and   *)
(* in `daemon trigger`, beside run_swarm; every AI child passes the spend  *)
(* ledger (SpendLedger).  Two databases, no transaction spans two          *)
(* statements, and a process may die between any two.                      *)
(*                                                                         *)
(* The rows of the slots are written by three more commands of the user:   *)
(* `agent stop`, `session restore`, and any lookup, which copies the JSON  *)
(* records of .swarm/agents that a restored session leaves behind.         *)
(*                                                                         *)
(* Jobs are numbered in the order of created_ms.                           *)
(***************************************************************************)
EXTENDS SpendLedger

CONSTANTS
  Daemon,      \* the process of the serve loop (its successor after a crash)
  Triggers,    \* slots for processes of `daemon trigger`
  Swarms,      \* slots for processes of run_swarm
  Types,       \* worker types
  MaxJobs,     \* BOUND on the jobs enqueued
  MaxFaults,   \* BOUND on the deaths and failed statements in the middle of a step
  MaxSessions  \* BOUND on the sessions saved

Supervisors == {Daemon} \cup Triggers
Jobs == 1..MaxJobs

ASSUME HostAssumption ==
  /\ Procs = Supervisors \cup Swarms
  /\ Daemon \notin Triggers
  /\ Supervisors \cap Swarms = {}
  /\ Types # {}
  /\ MaxJobs \in Nat
  /\ MaxFaults \in Nat
  /\ MaxSessions \in Nat

VARIABLES
  created,  \* number of jobs enqueued
  job,      \* appliance_jobs: status and worker type of each
  slot,     \* appliance_agents: status of the resident slot of each type
  pc,       \* where each process is
  list,     \* per supervisor: the worker list of its step
  sel,      \* per supervisor: the job it has selected, 0 for none
  serving,  \* whether the process of the serve loop is there
  sessions, \* the statuses of the slots in each saved session
  records,  \* .swarm/agents: the status in each slot's JSON record, "absent" for none
  launches, \* history: how often each job has been let through to its AI child
  faults,   \* history: processes that died in the middle, statements that failed
  copied    \* history: slots whose row was last written from a session or a record

commandVars == <<serving, sessions, records>>
hostVars == <<created, job, slot, pc, list, sel, commandVars, launches, faults, copied>>
vars == <<spendVars, hostVars>>

Working == {"selected", "marked", "launching", "running", "ran", "blocked", "finished"}

SlotStates == {"absent", "idle", "busy", "terminated"}

HostTypeOK ==
  /\ SpendTypeOK
  /\ created \in 0..MaxJobs
  /\ job \in [Jobs -> [status : {"absent", "queued", "running", "done", "failed"},
                       type : Types]]
  /\ slot \in [Types -> SlotStates]
  /\ pc \in [Procs -> {"idle", "enqueued", "registered", "checked"} \cup Working]
  /\ list \in [Supervisors -> SUBSET Types]
  /\ sel \in [Supervisors -> 0..MaxJobs]
  /\ serving \in BOOLEAN
  /\ sessions \in SUBSET [Types -> SlotStates]
  /\ records \in [Types -> SlotStates]
  /\ launches \in [Jobs -> Nat]
  /\ faults \in 0..MaxFaults
  /\ copied \in SUBSET Types

\* The serve loop is given its worker list once, a trigger with each call.
HomeList(p) == IF p = Daemon THEN Types ELSE {}

HostInit ==
  /\ SpendInit
  /\ created = 0
  /\ job = [j \in Jobs |-> [status |-> "absent", type |-> CHOOSE t \in Types : TRUE]]
  /\ slot = [t \in Types |-> "absent"]
  /\ pc = [p \in Procs |-> "idle"]
  /\ list = [p \in Supervisors |-> HomeList(p)]
  /\ sel = [p \in Supervisors |-> 0]
  /\ serving = FALSE
  /\ sessions = {}
  /\ records = [t \in Types |-> "absent"]
  /\ launches = [j \in Jobs |-> 0]
  /\ faults = 0
  /\ copied = {}

Goto(p, label) == pc' = [pc EXCEPT ![p] = label]

\* The step of p is over, by return or crash.
Leave(p) ==
  /\ Goto(p, "idle")
  /\ list' = [q \in Supervisors |-> IF q = p THEN HomeList(p) ELSE list[q]]
  /\ sel' = [q \in Supervisors |-> IF q = p THEN 0 ELSE sel[q]]

SetStatus(j, s) == job' = [job EXCEPT ![j].status = s]

\* FAULT: the slot is given the status of its job.
SetSlotFromJob(p, s) ==
  /\ slot' = [slot EXCEPT ![job[sel[p]].type] = job[sel[p]].status]
  /\ copied' = copied \ {job[sel[p]].type}

SetSlot(p, s) ==
  /\ slot' = [slot EXCEPT ![job[sel[p]].type] = s]
  /\ copied' = copied \ {job[sel[p]].type}

------------------------------------------------------------------------------
(* trigger, supervisor_step, claim_job, finish_job *)

\* `daemon trigger -w t`: enqueue_job, which fails when another job was
\* enqueued in the same millisecond; a supervisor_step for [t] follows.
Trigger(p, t) ==
  /\ pc[p] = "idle"
  /\ created < MaxJobs
  /\ Goto(p, "enqueued")
  /\ list' = [list EXCEPT ![p] = {t}]
  /\ \/ /\ created' = created + 1
        /\ job' = [job EXCEPT ![created + 1] = [status |-> "queued", type |-> t]]
     \/ UNCHANGED <<created, job>>
  /\ UNCHANGED <<spendVars, slot, sel, commandVars, launches, faults, copied>>

\* The step begins: the slots of its worker list are upserted idle.
Register(p) ==
  /\ IF p = Daemon THEN serving /\ pc[p] = "idle" ELSE pc[p] = "enqueued"
  /\ slot' = [t \in Types |-> IF t \in list[p] THEN "idle" ELSE slot[t]]
  /\ copied' = copied \ list[p]
  /\ Goto(p, "registered")
  /\ UNCHANGED <<spendVars, created, job, list, sel, commandVars, launches, faults>>

\* FAULT: jobs whose supervisor seems to have died are queued again.
QueuedOrRunning == {j \in Jobs : job[j].status \in {"queued", "running"}}

\* FAULT: failed jobs are tried again.
QueuedOrFailed == {j \in Jobs : job[j].status \in {"queued", "failed"}}

QueuedJobs == {j \in Jobs : job[j].status = "queued"}

\* claim_job, the SELECT: the oldest queued job of any type, or the step ends.
SelectJob(p) ==
  /\ pc[p] = "registered"
  /\ \/ /\ QueuedJobs = {}
        /\ Leave(p)
     \/ /\ \E j \in QueuedJobs :
             /\ \A k \in QueuedJobs : j <= k
             /\ sel' = [sel EXCEPT ![p] = j]
        /\ Goto(p, "selected")
        /\ UNCHANGED list
  /\ UNCHANGED <<spendVars, created, job, slot, commandVars, launches, faults, copied>>

\* claim_job, the UPDATE: whatever the status has become since.
MarkRunning(p) ==
  /\ pc[p] = "selected"
  /\ SetStatus(sel[p], "running")
  /\ Goto(p, "marked")
  /\ UNCHANGED <<spendVars, created, slot, list, sel, commandVars, launches, faults, copied>>

Occupy(p) ==
  /\ pc[p] = "marked"
  /\ SetSlot(p, "busy")
  /\ Goto(p, "launching")
  /\ UNCHANGED <<spendVars, created, job, list, sel, commandVars, launches, faults>>

\* FAULT: a refused launch counts as a success.
FinishDone(p) ==
  /\ pc[p] \in {"ran", "blocked"}
  /\ SetStatus(sel[p], "done")
  /\ Goto(p, "finished")
  /\ UNCHANGED <<spendVars, created, slot, list, sel, commandVars, launches, faults, copied>>

Finish(p) ==
  /\ pc[p] \in {"ran", "blocked"}
  /\ SetStatus(sel[p], IF pc[p] = "ran" THEN "done" ELSE "failed")
  /\ Goto(p, "finished")
  /\ UNCHANGED <<spendVars, created, slot, list, sel, commandVars, launches, faults, copied>>

\* FAULT: the slot stays busy.
VacateNothing(p) ==
  /\ pc[p] = "finished"
  /\ Leave(p)
  /\ UNCHANGED <<spendVars, created, job, slot, commandVars, launches, faults, copied>>

Vacate(p) ==
  /\ pc[p] = "finished"
  /\ SetSlot(p, "idle")
  /\ Leave(p)
  /\ UNCHANGED <<spendVars, created, job, commandVars, launches, faults>>

------------------------------------------------------------------------------
(* headless::execute and run_swarm at the spend gate *)

\* run_swarm asks spend::check before anything else, and the policy next.
PreCheck(p) ==
  /\ pc[p] = "idle"
  /\ ~paused
  /\ Cardinality(active) < LimitConcurrent
  /\ Cardinality(Since(HourTicks)) < LimitHourly
  /\ Cardinality(Since(DayTicks)) < LimitDaily
  /\ Goto(p, "checked")
  /\ UNCHANGED <<spendVars, created, job, slot, list, sel, commandVars, launches, faults, copied>>

\* Between the first statement of reserve() and the drop of the permit.
AtGate(p) == pc[p] \in {"launching", "running", "checked"}

\* reserve(): its counts, one after the other.
Reserving(p) ==
  /\ AtGate(p)
  /\ CountActive(p) \/ CountHour(p) \/ CountDay(p)
  /\ UNCHANGED hostVars

\* reserve() succeeds.
LetThrough(p) ==
  /\ AtGate(p)
  /\ Insert(p)
  /\ launches' = IF p \in Supervisors
                 THEN [launches EXCEPT ![sel[p]] = @ + 1] ELSE launches
  /\ UNCHANGED <<created, job, slot, pc, list, sel, commandVars, faults, copied>>

\* FAULT: while launches are paused the step waits instead of failing its job.
BlockedNotByPause(p) ==
  /\ AtGate(p)
  /\ \/ Refuse(p) \/ InsertFails(p)
     \/ /\ gate[p] = "out"
        /\ Cardinality(active) >= LimitConcurrent \/ p \in Swarms
        /\ UNCHANGED spendVars
  /\ Goto(p, IF p \in Swarms THEN "idle" ELSE "blocked")
  /\ UNCHANGED <<created, job, slot, list, sel, commandVars, launches, faults, copied>>

\* reserve() is an Err: the headless result is "blocked", the swarm's is
\* empty (the policy may refuse it at this point as well).
Blocked(p) ==
  /\ AtGate(p)
  /\ \/ Refuse(p) \/ InsertFails(p)
     \/ /\ gate[p] = "out"
        /\ paused \/ Cardinality(active) >= LimitConcurrent \/ p \in Swarms
        /\ UNCHANGED spendVars
  /\ Goto(p, IF p \in Swarms THEN "idle" ELSE "blocked")
  /\ UNCHANGED <<created, job, slot, list, sel, commandVars, launches, faults, copied>>

\* The child is spawned; until it ends, or is killed at its timeout, and both
\* its pipes are closed by all that hold them, the step waits.
StartChild(p) ==
  /\ pc[p] = "launching"
  /\ gate[p] = "in"
  /\ Goto(p, "running")
  /\ UNCHANGED <<spendVars, created, job, slot, list, sel, commandVars,
                 launches, faults, copied>>

\* FAULT: the permit is forgotten instead of released.
GiveBackNothing(p) ==
  /\ AtGate(p)
  /\ gate[p] = "in"
  /\ AbandonPermit(p)
  /\ Goto(p, IF p \in Swarms THEN "idle" ELSE "ran")
  /\ UNCHANGED <<created, job, slot, list, sel, commandVars, launches, faults, copied>>

\* execute returns and drops the permit; any status but "blocked" counts as a
\* success.
GiveBack(p) ==
  /\ AtGate(p)
  /\ ReleasePermit(p)
  /\ Goto(p, IF p \in Swarms THEN "idle" ELSE "ran")
  /\ UNCHANGED <<created, job, slot, list, sel, commandVars, launches, faults, copied>>

\* The binary is not there ("unavailable"), or cannot be spawned
\* ("spawn_failed"): no child.  (Also a swarm's child that has ended.)
NoChild(p)   == pc[p] # "running" /\ GiveBack(p)

ChildEnds(p) == pc[p] = "running" /\ GiveBack(p)

------------------------------------------------------------------------------
(* The environment *)

\* The process dies, `daemon stop` sends it SIGTERM included: no destructor
\* runs, so a row it has inserted stays active.
Crash(p) ==
  /\ pc[p] # "idle"
  /\ faults < MaxFaults
  /\ faults' = faults + 1
  /\ AbandonPermit(p)
  /\ Leave(p)
  /\ serving' = (serving /\ p # Daemon)
  /\ UNCHANGED <<created, job, slot, sessions, records, launches, copied>>

\* A statement fails (the database stays locked, the disk is full).  Nothing
\* but claim_job and reserve() looks at the error: the others go on as if the
\* row had been written.
StatementFails(p) ==
  /\ faults < MaxFaults
  /\ faults' = faults + 1
  /\ \/ /\ pc[p] \in {"registered", "selected", "finished"}
        /\ Leave(p)
        /\ UNCHANGED spendVars
     \/ /\ pc[p] \in {"marked", "ran", "blocked"}
        /\ Goto(p, IF pc[p] = "marked" THEN "launching" ELSE "finished")
        /\ UNCHANGED <<spendVars, list, sel>>
     \/ /\ AtGate(p)
        /\ AbandonPermit(p)
        /\ Goto(p, IF p \in Swarms THEN "idle"
                   ELSE IF gate[p] = "in" THEN "ran" ELSE "blocked")
        /\ UNCHANGED <<list, sel>>
  /\ UNCHANGED <<created, job, slot, commandVars, launches, copied>>

\* `daemon start`, and the end of the serve loop between two steps: its time
\* to live is over, or it is stopped or killed.
ServeStarts ==
  /\ ~serving
  /\ serving' = TRUE
  /\ UNCHANGED <<spendVars, created, job, slot, pc, list, sel, sessions, records,
                 launches, faults, copied>>

ServeEnds ==
  /\ serving
  /\ pc[Daemon] = "idle"
  /\ serving' = FALSE
  /\ UNCHANGED <<spendVars, created, job, slot, pc, list, sel, sessions, records,
                 launches, faults, copied>>

\* `daemon budget pause`, `daemon budget resume`, and the clock.
Outside == (Pause \/ Resume \/ SpendTick) /\ UNCHANGED hostVars

------------------------------------------------------------------------------
(* Commands that write slots: sessions, lookups and `agent stop`.  A failed  *)
(* upsert is ignored, and supervisors may write between two of them.         *)

Recorded(kept) == {t \in Types : kept[t] # "absent"}

\* The rows of some types, as written from a session or from JSON records.
Copied(kept, types) == [t \in Types |-> IF t \in types THEN kept[t] ELSE slot[t]]

\* migrate_json_agents, with which every lookup and every listing begins.
Lookup ==
  \E types \in SUBSET Recorded(records) :
    /\ slot' = Copied(records, types)
    /\ copied' = copied \cup types
    /\ UNCHANGED <<spendVars, created, job, pc, list, sel, commandVars,
                   launches, faults>>

\* save_session keeps what list_agents returns, which begins with the lookup.
SaveSession ==
  /\ Cardinality(sessions) < MaxSessions
  /\ \E types \in SUBSET Recorded(records) :
       /\ slot' = Copied(records, types)
       /\ copied' = copied \cup types
       /\ sessions' = sessions \cup {slot'}
  /\ UNCHANGED <<spendVars, created, job, pc, list, sel, serving, records,
                 launches, faults>>

\* restore_session replaces the JSON records, empties the table and writes the
\* session's agents into it, the errors of the last two ignored.
RestoreSession ==
  \E kept \in sessions : \E types \in SUBSET Recorded(kept), emptied \in BOOLEAN :
    /\ records' = kept
    /\ slot' = [t \in Types |-> IF t \in types THEN kept[t]
                               ELSE IF emptied THEN "absent" ELSE slot[t]]
    /\ copied' = IF emptied THEN types ELSE copied \cup types
    /\ UNCHANGED <<spendVars, created, job, pc, list, sel, serving, sessions,
                   launches, faults>>

\* `agent stop resident-t`: the lookup, and the row set to terminated.
StopSlot(t) ==
  \E types \in SUBSET Recorded(records) :
    /\ Copied(records, types)[t] # "absent"
    /\ slot' = [Copied(records, types) EXCEPT ![t] = "terminated"]
    /\ copied' = (copied \cup types) \ {t}
    /\ UNCHANGED <<spendVars, created, job, pc, list, sel, commandVars,
                   launches, faults>>

Commands ==
  \/ ServeStarts \/ ServeEnds
  \/ Lookup \/ SaveSession \/ RestoreSession
  \/ \E t \in Types : StopSlot(t)

------------------------------------------------------------------------------
(* The system *)

\* What the code of one process does next once it has begun, without waiting
\* for its child.
Work(p) ==
  \/ p \in Supervisors /\ SelectJob(p)
  \/ p \in Supervisors /\ MarkRunning(p)
  \/ p \in Supervisors /\ Occupy(p)
  \/ p \in Supervisors /\ Finish(p)
  \/ p \in Supervisors /\ Vacate(p)
  \/ Reserving(p)
  \/ LetThrough(p)
  \/ Blocked(p)
  \/ p \in Supervisors /\ StartChild(p)
  \/ NoChild(p)

Step(p) == Work(p) \/ ChildEnds(p)

HostNext ==
  \/ \E p \in Triggers, t \in Types : Trigger(p, t)
  \/ \E p \in Supervisors : Register(p)
  \/ \E p \in Swarms : PreCheck(p)
  \/ \E p \in Procs : Step(p)
  \/ \E p \in Procs : Crash(p)
  \/ \E p \in Procs : StatementFails(p)
  \/ Commands
  \/ Outside

\* A supervisor that does not wait for a child goes on, and while the serve
\* loop is there it ticks every two seconds.  Nothing is assumed of the child,
\* whose pipes are joined without a bound, of the swarms and of the commands:
\* nothing restarts a serve loop that has ended.
HostFairness == \A p \in Supervisors : WF_vars(Work(p) \/ Register(p))

HostSpec == HostInit /\ [][HostNext]_vars /\ HostFairness

\* USAGE ASSUMPTION of SoloSpec, not enforced by the code: a trigger is not
\* given while another supervisor is in its step.
Solo == \A p \in Supervisors : pc[p] \in {"idle", "enqueued"}

SoloNext ==
  \/ \E p \in Triggers, t \in Types : Trigger(p, t)
  \/ \E p \in Supervisors : Register(p) /\ Solo
  \/ \E p \in Swarms : PreCheck(p)
  \/ \E p \in Procs : Step(p)
  \/ \E p \in Procs : Crash(p)
  \/ \E p \in Procs : StatementFails(p)
  \/ Commands
  \/ Outside

SoloSpec == HostInit /\ [][SoloNext]_vars

------------------------------------------------------------------------------
(* Properties *)

\* The SELECT and the UPDATE of claim_job are two statements, so supervisors
\* that overlap may start one job several times, but each of them only once:
\* they have all selected it before the first of them marked it, and a job
\* whose supervisor died is lost rather than taken again.
LaunchedOncePerSupervisor ==
  \A j \in Jobs : launches[j] <= Cardinality(Supervisors)

\* A job is let through to its AI child at most once, if supervisors do not
\* overlap: over crashes and failures between any two statements.
LaunchedOnce == \A j \in Jobs : launches[j] <= 1

WorkedOn(j) == \E p \in Supervisors : sel[p] = j /\ pc[p] # "selected"

\* Jobs stay "running" for ever, and permits active for ever, only where a
\* process died or the statement that ends them failed, one of them for each
\* such fault at most: no other path through a step, a refusal included,
\* forgets to finish or to release.
LeaksOnlyByFault ==
  /\ Cardinality({j \in Jobs : job[j].status = "running" /\ ~WorkedOn(j)}) <= faults
  /\ Cardinality(active \ {permit[p] : p \in Procs}) <= faults

\* What a job's status says, if supervisors do not overlap: "done" that it was
\* let through to its AI child exactly once, which may still not have been
\* there to start or not have succeeded; "failed", like "queued", that it never
\* was, so that no child can have run for it.
StatusTellsLaunch ==
  \A j \in Jobs :
    /\ job[j].status = "done" => launches[j] = 1
    /\ job[j].status \in {"queued", "failed"} => launches[j] = 0

\* A slot shows busy only for the job being worked on in it, after a fault, or
\* since a restored session or the record it left has overwritten the row.
BusyMeansWork ==
  \A t \in Types : slot[t] = "busy" =>
    \/ faults > 0
    \/ t \in copied
    \/ \E p \in Supervisors : sel[p] # 0 /\ job[sel[p]].type = t

\* A finished job is not taken up again, if supervisors do not overlap, though
\* the UPDATE of claim_job does not look at the status it overwrites.
FinishedForGood ==
  [][\A j \in Jobs : job[j].status \in {"done", "failed"}
       => job'[j].status = job[j].status]_vars

\* A queued job is taken up, however the swarms compete for permits, and
\* whether or not the launches are paused, unless the serve loop is gone at
\* some moment, or waits for ever for the pipes of a child.
QueuedIsTaken ==
  \A j \in Jobs :
    \/ job[j].status = "queued" ~> (job[j].status # "queued" \/ ~serving)
    \/ <>[](pc[Daemon] = "running")

------------------------------------------------------------------------------
(* The inductive invariant behind LaunchedOnce, under SoloSpec *)

Resting == {"idle", "enqueued"}

\* At most one supervisor is in its step.
Alone ==
  \A p, q \in Supervisors : pc[p] \notin Resting /\ pc[q] \notin Resting => p = q

\* Away from the gate a process is out of it, with a child running it is in,
\* and a supervisor has no PreCheck.
GateMatches ==
  /\ \A p \in Procs : ~AtGate(p) => gate[p] = "out"
  /\ \A p \in Procs : pc[p] = "running" => gate[p] = "in"
  /\ \A p \in Supervisors : pc[p] # "checked"

ToLaunch(p) == pc[p] \in {"marked", "blocked"} \/ (pc[p] = "launching" /\ gate[p] # "in")
Launched(p) == pc[p] \in {"running", "ran"} \/ (pc[p] = "launching" /\ gate[p] = "in")

\* What a supervisor in its step knows of its job still holds.
SelectedFor(p) ==
  /\ pc[p] \in Working => sel[p] \in Jobs
  /\ pc[p] = "selected" => job[sel[p]].status = "queued"
  /\ ToLaunch(p) => job[sel[p]].status = "running" /\ launches[sel[p]] = 0
  /\ Launched(p) => job[sel[p]].status = "running" /\ launches[sel[p]] = 1

SelectedInv == \A p \in Supervisors : SelectedFor(p)

\* The launches of a job, by its status.
JobFor(j) ==
  /\ j > created => job[j].status = "absent"
  /\ job[j].status \in {"absent", "queued", "failed"} => launches[j] = 0
  /\ job[j].status = "done" => launches[j] = 1
  /\ launches[j] <= 1

JobsInv == \A j \in Jobs : JobFor(j)

SoloInv == HostTypeOK /\ Alone /\ GateMatches /\ SelectedInv /\ JobsInv
==============================================================================
