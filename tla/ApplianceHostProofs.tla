------------------------- MODULE ApplianceHostProofs -------------------------
(***************************************************************************)
(* For every number of supervisors, swarms, jobs and faults and every      *)
(* limit: the appliance uses the spend ledger as SpendLedger describes, so *)
(* what is proved of the ledger holds in the appliance; its state is well  *)
(* typed; while supervisor steps do not overlap, a job is let through to   *)
(* its AI child at most once and its status tells so; and when they do, at *)
(* most once by each, and what stays behind is counted by the deaths and   *)
(* the failed statements.                                                  *)
(***************************************************************************)
EXTENDS ApplianceHost, SpendLedgerProofs

(* A process that is not inside the gate holds no permit.                    *)
PermitOnlyInside == \A p \in Procs : gate[p] # "in" => permit[p] = NoPermit

GateInv == SpendTypeOK /\ PermitOnlyInside

(* What a step of the host does to the ledger.                               *)
LEMMA HostToLedger ==
  ASSUME HostNext
  PROVE  \/ UNCHANGED spendVars
         \/ SpendNext
         \/ \E p \in Procs : AbandonPermit(p)
<1>1. ASSUME NEW p \in Procs, Step(p) PROVE SpendNext \/ UNCHANGED spendVars
  <2>1. ASSUME \/ SelectJob(p) \/ MarkRunning(p) \/ Occupy(p) \/ Finish(p) \/ Vacate(p)
               \/ StartChild(p)
        PROVE  UNCHANGED spendVars
    BY <2>1 DEF SelectJob, MarkRunning, Occupy, Finish, Vacate, StartChild
  <2>2. ASSUME Reserving(p) PROVE SpendNext
    BY <2>2 DEF Reserving, SpendNext
  <2>3. ASSUME LetThrough(p) PROVE SpendNext
    BY <2>3 DEF LetThrough, SpendNext
  <2>4. ASSUME Blocked(p) PROVE SpendNext \/ UNCHANGED spendVars
    BY <2>4 DEF Blocked, SpendNext
  <2>5. ASSUME GiveBack(p) PROVE SpendNext
    BY <2>5 DEF GiveBack, SpendNext
  <2>6. QED BY <1>1, <2>1, <2>2, <2>3, <2>4, <2>5 DEF Step, Work, NoChild, ChildEnds
<1>2. ASSUME NEW p \in Procs, Crash(p) PROVE AbandonPermit(p)
  BY <1>2 DEF Crash
<1>3. ASSUME Outside PROVE SpendNext
  BY <1>3 DEF Outside, SpendNext
<1>4. ASSUME NEW p \in Procs, StatementFails(p)
      PROVE  AbandonPermit(p) \/ UNCHANGED spendVars
  BY <1>4 DEF StatementFails
<1>5. ASSUME Commands PROVE UNCHANGED spendVars
  BY <1>5 DEF Commands, ServeStarts, ServeEnds, Lookup, SaveSession, RestoreSession, StopSlot
<1>6. QED
  BY <1>1, <1>2, <1>3, <1>4, <1>5 DEF HostNext, Trigger, Register, PreCheck

(* Every step of the host keeps the types of the ledger, and permits inside. *)
LEMMA GateStep == GateInv /\ [HostNext]_vars => GateInv'
<1> SUFFICES ASSUME GateInv, [HostNext]_vars PROVE GateInv'
  OBVIOUS
<1> USE DEF GateInv
<1>1. ASSUME UNCHANGED spendVars PROVE GateInv'
  BY <1>1 DEF spendVars, SpendTypeOK, PermitOnlyInside
<1>2. ASSUME SpendNext PROVE GateInv'
  <2>1. SpendTypeOK'
    BY <1>2, TypeStep
  <2>2. PermitOnlyInside'
    BY <1>2 DEF SpendNext, PermitOnlyInside, SpendTypeOK, CountActive, CountHour,
       CountDay, Refuse, Pass, Insert, InsertFails, ReleasePermit, AbandonPermit,
       Pause, Resume, SpendTick
  <2>3. QED BY <2>1, <2>2
<1>3. ASSUME NEW p \in Procs, AbandonPermit(p) PROVE GateInv'
  BY <1>3 DEF AbandonPermit, SpendTypeOK, PermitOnlyInside
<1>4. QED BY <1>1, <1>2, <1>3, HostToLedger DEF vars

(* Every step of the host is a step of the ledger, or leaves it alone.       *)
LEMMA StepRespects == GateInv /\ [HostNext]_vars => [SpendNext]_spendVars
<1> SUFFICES ASSUME GateInv, [HostNext]_vars PROVE [SpendNext]_spendVars
  OBVIOUS
<1>1. ASSUME NEW p \in Procs, AbandonPermit(p) PROVE [SpendNext]_spendVars
  <2>1. CASE gate[p] # "out"
    BY <1>1, <2>1 DEF SpendNext
  <2>2. CASE gate[p] = "out"
    <3>1. permit[p] = NoPermit
      BY <2>2 DEF GateInv, PermitOnlyInside
    <3>2. gate' = gate /\ permit' = permit
      BY <1>1, <2>2, <3>1 DEF AbandonPermit, GateInv, SpendTypeOK
    <3>3. QED BY <1>1, <3>2 DEF AbandonPermit, spendVars
  <2>3. QED BY <2>1, <2>2
<1>2. QED BY <1>1, HostToLedger DEF vars

LEMMA InitGate == HostInit => GateInv
BY InitHolds DEF HostInit, GateInv, SpendInv, SpendInit, PermitOnlyInside

(* What the appliance does to the ledger, deaths and failed statements       *)
(* included, is a behaviour of the ledger.                                   *)
LEMMA HostUsesLedger == HostSpec => SpendSpec
<1>1. HostSpec => []GateInv
  BY InitGate, GateStep, PTL DEF HostSpec
<1>2. HostInit => SpendInit
  BY DEF HostInit
<1>3. QED BY <1>1, <1>2, StepRespects, PTL DEF HostSpec, SpendSpec

(* Every AI child of the appliance runs under an active permit of its own,   *)
(* and launches exceed a limit by less than the number of processes.         *)
THEOREM HostGate == HostSpec => [](PermitHeld /\ BoundedOvershoot)
<1>1. SpendInv => PermitHeld /\ BoundedOvershoot
  BY DEF SpendInv
<1>2. QED BY <1>1, HostUsesLedger, SpendInvariance, PTL

------------------------------------------------------------------------------
(* Jobs *)

LEMMA Names ==
  /\ Daemon \in Supervisors
  /\ Triggers \subseteq Supervisors
  /\ Supervisors \subseteq Procs
  /\ Swarms \subseteq Procs
  /\ \A p \in Procs : p \in Swarms <=> p \notin Supervisors
BY HostAssumption DEF Supervisors

LEMMA Homes == \A p \in Supervisors : HomeList(p) \in SUBSET Types
BY DEF HomeList

(* Leaving a step, and the writes to a job and to a slot, keep the types.    *)
LEMMA LeaveTypes ==
  ASSUME HostTypeOK, NEW p \in Procs, Leave(p)
  PROVE  /\ pc' \in [Procs -> {"idle", "enqueued", "registered", "checked"} \cup Working]
         /\ list' \in [Supervisors -> SUBSET Types]
         /\ sel' \in [Supervisors -> 0..MaxJobs]
BY Homes, HostAssumption DEF HostTypeOK, Leave, Goto

LEMMA JobTypes ==
  ASSUME HostTypeOK, NEW j \in Jobs,
         NEW s \in {"absent", "queued", "running", "done", "failed"}, SetStatus(j, s)
  PROVE  /\ job' \in [Jobs -> [status : {"absent", "queued", "running", "done", "failed"},
                               type : Types]]
         /\ job'[j].status = s
         /\ \A k \in Jobs : k # j => job'[k] = job[k]
<1>1. [job[j] EXCEPT !.status = s] \in
        [status : {"absent", "queued", "running", "done", "failed"}, type : Types]
  BY DEF HostTypeOK
<1>2. job' = [job EXCEPT ![j] = [job[j] EXCEPT !.status = s]]
  BY DEF SetStatus
<1>3. job'[j] = [job[j] EXCEPT !.status = s]
  BY <1>2 DEF HostTypeOK
<1>4. [job[j] EXCEPT !.status = s].status = s
  BY DEF HostTypeOK
<1>5. QED BY <1>1, <1>2, <1>3, <1>4 DEF HostTypeOK

LEMMA InitTypes == HostInit => HostTypeOK
<1> SUFFICES ASSUME HostInit PROVE HostTypeOK
  OBVIOUS
<1>1. SpendTypeOK
  BY InitGate DEF GateInv
<1>2. (CHOOSE t \in Types : TRUE) \in Types
  BY HostAssumption
<1>3. \A p \in Supervisors : 0 \in 0..MaxJobs
  BY HostAssumption
<1>4. /\ slot \in [Types -> SlotStates] /\ records \in [Types -> SlotStates]
      /\ serving \in BOOLEAN
      /\ sessions \in SUBSET [Types -> SlotStates]
      /\ copied \in SUBSET Types
  BY DEF HostInit, SlotStates
<1>5. /\ created \in 0..MaxJobs /\ faults \in 0..MaxFaults
      /\ launches \in [Jobs -> Nat]
      /\ list \in [Supervisors -> SUBSET Types]
      /\ sel \in [Supervisors -> 0..MaxJobs]
  BY <1>3, Homes, HostAssumption DEF HostInit
<1>6. /\ job \in [Jobs -> [status : {"absent", "queued", "running", "done", "failed"},
                          type : Types]]
      /\ pc \in [Procs -> {"idle", "enqueued", "registered", "checked"} \cup Working]
  BY <1>2 DEF HostInit
<1>7. QED BY <1>1, <1>4, <1>5, <1>6 DEF HostTypeOK

LEMMA JobTypesAny ==
  ASSUME HostTypeOK, NEW j \in 0..MaxJobs,
         NEW s \in {"absent", "queued", "running", "done", "failed"}, SetStatus(j, s)
  PROVE  job' \in [Jobs -> [status : {"absent", "queued", "running", "done", "failed"},
                            type : Types]]
<1>1. CASE j \in Jobs
  BY <1>1, JobTypes
<1>2. CASE j \notin Jobs
  BY <1>2 DEF SetStatus, HostTypeOK
<1>3. QED BY <1>1, <1>2

(* What is copied into the table of the slots keeps its type.                *)
LEMMA CopiedTypes ==
  ASSUME HostTypeOK, NEW kept \in [Types -> SlotStates], NEW types
  PROVE  Copied(kept, types) \in [Types -> SlotStates]
BY DEF HostTypeOK, Copied

(* Every step of the appliance keeps the types.                              *)
LEMMA HostTypeStep == HostTypeOK /\ GateInv /\ [HostNext]_vars => HostTypeOK'
<1> SUFFICES ASSUME HostTypeOK, GateInv, [HostNext]_vars PROVE HostTypeOK'
  OBVIOUS
<1>0. SpendTypeOK'
  BY GateStep DEF GateInv
<1> USE DEF commandVars
<1> DEFINE PcTypes == {"idle", "enqueued", "registered", "checked"} \cup Working
<1>1. ASSUME NEW p \in Triggers, NEW t \in Types, Trigger(p, t) PROVE HostTypeOK'
  <2>1. p \in Supervisors /\ p \in Procs
    BY Names
  <2>2. created' \in 0..MaxJobs
    BY <1>1, HostAssumption DEF Trigger, HostTypeOK
  <2>3. job' \in [Jobs -> [status : {"absent", "queued", "running", "done", "failed"},
                           type : Types]]
    BY <1>1 DEF Trigger, HostTypeOK
  <2>4. pc' \in [Procs -> PcTypes] /\ list' \in [Supervisors -> SUBSET Types]
    BY <1>1, <2>1 DEF Trigger, Goto, HostTypeOK
  <2>5. QED BY <1>0, <1>1, <2>2, <2>3, <2>4 DEF Trigger, HostTypeOK
<1>2. ASSUME NEW p \in Supervisors, Register(p) PROVE HostTypeOK'
  <2>1. pc' \in [Procs -> PcTypes]
    BY <1>2, Names DEF Register, Goto, HostTypeOK
  <2>2. slot' \in [Types -> SlotStates]
    BY <1>2 DEF Register, HostTypeOK, SlotStates
  <2>3. copied' \in SUBSET Types
    BY <1>2 DEF Register, HostTypeOK
  <2>4. QED BY <1>0, <1>2, <2>1, <2>2, <2>3 DEF Register, HostTypeOK
<1>3. ASSUME NEW p \in Swarms, PreCheck(p) PROVE HostTypeOK'
  <2>1. pc' \in [Procs -> PcTypes]
    BY <1>3, Names DEF PreCheck, Goto, HostTypeOK
  <2>2. QED BY <1>0, <1>3, <2>1 DEF PreCheck, HostTypeOK
<1>4. ASSUME NEW p \in Supervisors, SelectJob(p) PROVE HostTypeOK'
  <2>1. CASE Leave(p)
    BY <1>0, <1>4, <2>1, LeaveTypes, Names DEF SelectJob, HostTypeOK
  <2>2. CASE ~Leave(p)
    <3>1. PICK j \in QueuedJobs : sel' = [sel EXCEPT ![p] = j]
      BY <1>4, <2>2 DEF SelectJob
    <3>2. j \in 0..MaxJobs
      BY <3>1, HostAssumption DEF QueuedJobs, Jobs
    <3>3. pc' \in [Procs -> PcTypes]
      BY <1>4, <2>2, Names DEF SelectJob, Goto, HostTypeOK, Working
    <3>4. sel' \in [Supervisors -> 0..MaxJobs]
      BY <3>1, <3>2 DEF HostTypeOK
    <3>5. QED BY <1>0, <1>4, <2>2, <3>3, <3>4 DEF SelectJob, HostTypeOK
  <2>3. QED BY <2>1, <2>2
<1>5. ASSUME NEW p \in Supervisors, MarkRunning(p) PROVE HostTypeOK'
  <2>1. pc' \in [Procs -> PcTypes]
    BY <1>5, Names DEF MarkRunning, Goto, HostTypeOK, Working
  <2>2. sel[p] \in 0..MaxJobs
    BY DEF HostTypeOK
  <2>3. job' \in [Jobs -> [status : {"absent", "queued", "running", "done", "failed"},
                           type : Types]]
    BY <1>5, <2>2, JobTypesAny DEF MarkRunning
  <2>4. QED BY <1>0, <1>5, <2>1, <2>3 DEF MarkRunning, HostTypeOK
<1>6. ASSUME NEW p \in Supervisors, Occupy(p) PROVE HostTypeOK'
  <2>1. pc' \in [Procs -> PcTypes]
    BY <1>6, Names DEF Occupy, Goto, HostTypeOK, Working
  <2>2. slot' \in [Types -> SlotStates] /\ copied' \in SUBSET Types
    BY <1>6 DEF Occupy, SetSlot, HostTypeOK, SlotStates
  <2>3. QED BY <1>0, <1>6, <2>1, <2>2 DEF Occupy, HostTypeOK
<1>7. ASSUME NEW p \in Supervisors, Finish(p) PROVE HostTypeOK'
  <2>1. pc' \in [Procs -> PcTypes]
    BY <1>7, Names DEF Finish, Goto, HostTypeOK, Working
  <2>2. sel[p] \in 0..MaxJobs
    BY DEF HostTypeOK
  <2>3. SetStatus(sel[p], "done") \/ SetStatus(sel[p], "failed")
    BY <1>7 DEF Finish
  <2>4. job' \in [Jobs -> [status : {"absent", "queued", "running", "done", "failed"},
                           type : Types]]
    BY <2>2, <2>3, JobTypesAny
  <2>5. QED BY <1>0, <1>7, <2>1, <2>4 DEF Finish, HostTypeOK
<1>8. ASSUME NEW p \in Supervisors, Vacate(p) PROVE HostTypeOK'
  <2>1. slot' \in [Types -> SlotStates] /\ copied' \in SUBSET Types
    BY <1>8 DEF Vacate, SetSlot, HostTypeOK, SlotStates
  <2>2. p \in Procs
    BY Names
  <2>3. QED BY <1>0, <1>8, <2>1, <2>2, LeaveTypes DEF Vacate, HostTypeOK
<1>9. ASSUME UNCHANGED hostVars PROVE HostTypeOK'
  BY <1>0, <1>9 DEF hostVars, HostTypeOK
<1>10. ASSUME NEW p \in Procs, LetThrough(p) PROVE HostTypeOK'
  <2>1. launches' \in [Jobs -> Nat]
    <3>1. launches \in [Jobs -> Nat]
      BY DEF HostTypeOK
    <3>2. CASE launches' = launches
      BY <3>1, <3>2
    <3>3. CASE launches' = [launches EXCEPT ![sel[p]] = launches[sel[p]] + 1]
      <4>1. CASE sel[p] \in Jobs
        BY <3>1, <3>3, <4>1
      <4>2. CASE sel[p] \notin Jobs
        BY <3>1, <3>3, <4>2
      <4>3. QED BY <4>1, <4>2
    <3>4. QED BY <1>10, <3>2, <3>3 DEF LetThrough
  <2>2. QED BY <1>0, <1>10, <2>1 DEF LetThrough, HostTypeOK
<1>11. ASSUME NEW p \in Procs, Blocked(p) \/ GiveBack(p) \/ StartChild(p) PROVE HostTypeOK'
  <2>1. pc' \in [Procs -> PcTypes]
    BY <1>11 DEF Blocked, GiveBack, StartChild, Goto, HostTypeOK, Working
  <2>2. QED BY <1>0, <1>11, <2>1 DEF Blocked, GiveBack, StartChild, HostTypeOK
<1>12. ASSUME NEW p \in Procs, Crash(p) PROVE HostTypeOK'
  <2>1. faults' \in 0..MaxFaults
    BY <1>12, HostAssumption DEF Crash, HostTypeOK
  <2>2. serving' \in BOOLEAN
    BY <1>12 DEF Crash, HostTypeOK
  <2>3. QED BY <1>0, <1>12, <2>1, <2>2, LeaveTypes DEF Crash, HostTypeOK
<1>13. ASSUME NEW p \in Procs, StatementFails(p) PROVE HostTypeOK'
  <2>1. faults' \in 0..MaxFaults
    BY <1>13, HostAssumption DEF StatementFails, HostTypeOK
  <2>2. UNCHANGED <<created, job, slot, serving, sessions, records, launches, copied>>
    BY <1>13 DEF StatementFails
  <2>3. CASE Leave(p)
    BY <1>0, <2>1, <2>2, <2>3, LeaveTypes DEF HostTypeOK
  <2>4. CASE ~Leave(p)
    <3>1. UNCHANGED <<list, sel>>
      BY <1>13, <2>4 DEF StatementFails
    <3>2. pc' \in [Procs -> PcTypes]
      BY <1>13, <2>4 DEF StatementFails, Goto, HostTypeOK, Working
    <3>3. QED BY <1>0, <2>1, <2>2, <3>1, <3>2 DEF HostTypeOK
  <2>5. QED BY <2>3, <2>4
<1>14. ASSUME NEW p \in Procs, Step(p) PROVE HostTypeOK'
  BY <1>4, <1>5, <1>6, <1>7, <1>8, <1>9, <1>10, <1>11, <1>14 DEF Step, Work, NoChild, ChildEnds, Reserving
<1>15. ASSUME Commands PROVE HostTypeOK'
  <2>1. CASE ServeStarts \/ ServeEnds
    BY <1>0, <2>1 DEF ServeStarts, ServeEnds, HostTypeOK
  <2>2. CASE Lookup
    <3>1. slot' \in [Types -> SlotStates] /\ copied' \in SUBSET Types
      BY <2>2, CopiedTypes DEF Lookup, Recorded, HostTypeOK
    <3>2. QED BY <1>0, <2>2, <3>1 DEF Lookup, HostTypeOK
  <2>3. CASE SaveSession
    <3>1. slot' \in [Types -> SlotStates] /\ copied' \in SUBSET Types
      BY <2>3, CopiedTypes DEF SaveSession, Recorded, HostTypeOK
    <3>2. sessions' \in SUBSET [Types -> SlotStates]
      BY <2>3, <3>1 DEF SaveSession, HostTypeOK
    <3>3. QED BY <1>0, <2>3, <3>1, <3>2 DEF SaveSession, HostTypeOK
  <2>4. CASE RestoreSession
    <3>1. PICK kept \in sessions : \E types \in SUBSET Recorded(kept), emptied \in BOOLEAN :
            /\ records' = kept
            /\ slot' = [t \in Types |-> IF t \in types THEN kept[t]
                                       ELSE IF emptied THEN "absent" ELSE slot[t]]
            /\ copied' = IF emptied THEN types ELSE copied \cup types
      BY <2>4 DEF RestoreSession
    <3>2. records' \in [Types -> SlotStates]
      BY <3>1 DEF HostTypeOK
    <3>3. slot' \in [Types -> SlotStates]
      BY <3>1 DEF HostTypeOK, SlotStates
    <3>4. copied' \in SUBSET Types
      BY <3>1 DEF HostTypeOK, Recorded
    <3>5. QED BY <1>0, <2>4, <3>2, <3>3, <3>4 DEF RestoreSession, HostTypeOK
  <2>5. ASSUME NEW t \in Types, StopSlot(t) PROVE HostTypeOK'
    <3>1. PICK types \in SUBSET Recorded(records) :
            /\ slot' = [Copied(records, types) EXCEPT ![t] = "terminated"]
            /\ copied' = (copied \cup types) \ {t}
      BY <2>5 DEF StopSlot
    <3>2. slot' \in [Types -> SlotStates] /\ copied' \in SUBSET Types
      <4>1. Copied(records, types) \in [Types -> SlotStates]
        BY CopiedTypes DEF HostTypeOK
      <4>2. "terminated" \in SlotStates
        BY DEF SlotStates
      <4>3. QED BY <3>1, <4>1, <4>2 DEF HostTypeOK, Recorded
    <3>3. QED BY <1>0, <2>5, <3>2 DEF StopSlot, HostTypeOK
  <2>6. QED BY <1>15, <2>1, <2>2, <2>3, <2>4, <2>5 DEF Commands
<1>16. QED
  BY <1>1, <1>2, <1>3, <1>9, <1>12, <1>13, <1>14, <1>15 DEF HostNext, Outside, vars

(* The rows of jobs and slots, the steps of the supervisors and the faults   *)
(* are well typed, however supervisors, swarms and triggers overlap.         *)
THEOREM HostTypes == HostSpec => []HostTypeOK
<1>1. HostInit => HostTypeOK /\ GateInv
  BY InitTypes, InitGate
<1>2. HostTypeOK /\ GateInv /\ [HostNext]_vars => (HostTypeOK /\ GateInv)'
  BY HostTypeStep, GateStep
<1>3. QED BY <1>1, <1>2, PTL DEF HostSpec

(* The commands of the user do nothing to processes, jobs and ledger.        *)
LEMMA CommandsApart ==
  Commands => UNCHANGED <<spendVars, created, job, pc, list, sel, launches, faults>>
BY DEF Commands, ServeStarts, ServeEnds, Lookup, SaveSession, RestoreSession, StopSlot,
   commandVars

LEMMA SoloIsHost == SoloNext => HostNext
BY DEF SoloNext, HostNext

(* At most one supervisor leaves its rest: only Register does, and waits.    *)
LEMMA AloneStep == HostTypeOK /\ Alone /\ [SoloNext]_vars => Alone'
<1> SUFFICES ASSUME HostTypeOK, Alone, [SoloNext]_vars PROVE Alone'
  OBVIOUS
<1> USE Names
<1>1. ASSUME \A q \in Supervisors : pc[q] \in Resting => pc'[q] \in Resting PROVE Alone'
  BY <1>1 DEF Alone
<1>2. ASSUME NEW p \in Supervisors, Register(p), Solo PROVE Alone'
  <2>1. \A q \in Supervisors : q # p => pc'[q] \in Resting
    BY <1>2 DEF Register, Solo, Goto, Resting, HostTypeOK
  <2>2. QED BY <2>1 DEF Alone
<1>3. ASSUME NEW p \in Procs, NEW label, Goto(p, label),
             p \in Supervisors => pc[p] \notin Resting \/ label \in Resting
      PROVE  Alone'
  BY <1>1, <1>3 DEF Goto, HostTypeOK
<1>4. ASSUME NEW p \in Triggers, NEW t \in Types, Trigger(p, t) PROVE Alone'
  <2>1. Goto(p, "enqueued") /\ "enqueued" \in Resting /\ p \in Procs
    BY <1>4 DEF Trigger, Resting
  <2>2. QED BY <1>3, <2>1
<1>5. ASSUME NEW p \in Swarms, PreCheck(p) PROVE Alone'
  BY <1>3, <1>5 DEF PreCheck
<1>6. ASSUME NEW p \in Procs, Leave(p) PROVE Alone'
  <2>1. Goto(p, "idle") /\ "idle" \in Resting
    BY <1>6 DEF Leave, Resting
  <2>2. QED BY <1>3, <2>1
<1>7. ASSUME NEW p \in Procs, Step(p) PROVE Alone'
  <2>1. CASE p \in Supervisors /\ SelectJob(p)
    BY <1>3, <1>6, <2>1 DEF SelectJob, Resting
  <2>2. CASE p \in Supervisors /\ (MarkRunning(p) \/ Occupy(p) \/ StartChild(p) \/ Finish(p))
    BY <1>3, <2>2 DEF MarkRunning, Occupy, StartChild, Finish, Resting
  <2>3. CASE p \in Supervisors /\ Vacate(p)
    BY <1>6, <2>3 DEF Vacate
  <2>4. CASE Reserving(p) \/ LetThrough(p)
    BY <1>1, <2>4 DEF Reserving, LetThrough, hostVars
  <2>5. CASE Blocked(p) \/ GiveBack(p)
    BY <1>3, <2>5 DEF Blocked, GiveBack, AtGate, Resting
  <2>6. QED BY <1>7, <2>1, <2>2, <2>3, <2>4, <2>5 DEF Step, Work, NoChild, ChildEnds
<1>8. ASSUME NEW p \in Procs, Crash(p) PROVE Alone'
  BY <1>6, <1>8 DEF Crash
<1>9. ASSUME NEW p \in Procs, StatementFails(p) PROVE Alone'
  <2>1. CASE Leave(p)
    BY <1>6, <2>1
  <2>2. CASE ~Leave(p)
    BY <1>3, <1>9, <2>2 DEF StatementFails, AtGate, Resting
  <2>3. QED BY <2>1, <2>2
<1>10. CASE UNCHANGED hostVars
  BY <1>1, <1>10 DEF hostVars
<1>11. ASSUME Commands PROVE Alone'
  BY <1>1, <1>11, CommandsApart
<1>12. QED
  BY <1>2, <1>4, <1>5, <1>7, <1>8, <1>9, <1>10, <1>11 DEF SoloNext, Outside, vars

(* A process that is not at the gate is out of it.                           *)
LEMMA GatePlaceStep ==
  HostTypeOK /\ GateMatches /\ [HostNext]_vars => GateMatches'
<1> SUFFICES ASSUME HostTypeOK, GateMatches, [HostNext]_vars PROVE GateMatches'
  OBVIOUS
<1> USE Names
<1> DEFINE Keeps(p) == /\ (~AtGate(p) => gate[p] = "out")'
                       /\ (pc[p] = "running" => gate[p] = "in")'
                       /\ (p \in Supervisors => pc'[p] # "checked")
<1>0. ASSUME NEW p \in Procs, \A q \in Procs : q # p => pc'[q] = pc[q] /\ gate'[q] = gate[q],
             Keeps(p)
      PROVE  GateMatches'
  BY <1>0 DEF GateMatches, AtGate
<1>1. ASSUME NEW p \in Procs, NEW label, Goto(p, label), gate' = gate, gate[p] = "out",
             label # "running", p \in Supervisors => label # "checked"
      PROVE  GateMatches'
  BY <1>0, <1>1 DEF Goto, HostTypeOK, GateMatches
<1>2. ASSUME NEW p \in Procs, pc' = pc, AtGate(p), pc[p] # "running" \/ gate'[p] = "in",
             \A q \in Procs : q # p => gate'[q] = gate[q]
      PROVE  GateMatches'
  BY <1>0, <1>2 DEF AtGate, GateMatches
<1>3. ASSUME NEW p \in Procs, NEW label, Goto(p, label), gate' = [gate EXCEPT ![p] = "out"],
             label \notin {"checked", "running"}
      PROVE  GateMatches'
  BY <1>0, <1>3 DEF Goto, HostTypeOK, SpendTypeOK, GateMatches
<1>4. ASSUME NEW p \in Triggers, NEW t \in Types, Trigger(p, t) PROVE GateMatches'
  <2>1. gate[p] = "out" /\ gate' = gate /\ p \in Procs /\ Goto(p, "enqueued")
    BY <1>4 DEF Trigger, GateMatches, AtGate, spendVars
  <2>2. QED BY <1>1, <2>1
<1>5. ASSUME NEW p \in Supervisors, Register(p) PROVE GateMatches'
  <2>1. gate[p] = "out" /\ gate' = gate /\ p \in Procs /\ Goto(p, "registered")
    BY <1>5 DEF Register, GateMatches, AtGate, spendVars
  <2>2. QED BY <1>1, <2>1
<1>6. ASSUME NEW p \in Swarms, PreCheck(p) PROVE GateMatches'
  <2>1. gate[p] = "out" /\ gate' = gate /\ p \in Procs /\ Goto(p, "checked")
    BY <1>6 DEF PreCheck, GateMatches, AtGate, spendVars
  <2>2. QED BY <1>1, <2>1
<1>7. ASSUME NEW p \in Procs, Step(p) PROVE GateMatches'
  <2>1. CASE SelectJob(p) \/ MarkRunning(p) \/ Occupy(p) \/ Finish(p) \/ Vacate(p)
    <3>1. gate[p] = "out" /\ gate' = gate
      BY <2>1 DEF SelectJob, MarkRunning, Occupy, Finish, Vacate, GateMatches, AtGate, spendVars
    <3>2. \E label \in {"idle", "selected", "marked", "launching", "finished"} : Goto(p, label)
      BY <2>1 DEF SelectJob, MarkRunning, Occupy, Finish, Vacate, Leave
    <3>3. QED BY <1>1, <3>1, <3>2
  <2>2. CASE Reserving(p) \/ LetThrough(p)
    <3>1. AtGate(p) /\ pc' = pc
      BY <2>2 DEF Reserving, LetThrough, hostVars
    <3>2. /\ \A q \in Procs : q # p => gate'[q] = gate[q]
          /\ gate[p] # "in"
      BY <2>2 DEF Reserving, LetThrough, CountActive, CountHour, CountDay, Pass, Insert,
         HostTypeOK, SpendTypeOK
    <3>3. pc[p] # "running"
      BY <3>2 DEF GateMatches
    <3>4. QED BY <1>2, <3>1, <3>2, <3>3
  <2>3. CASE Blocked(p) \/ GiveBack(p)
    <3>1. gate' = [gate EXCEPT ![p] = "out"]
      BY <2>3 DEF Blocked, GiveBack, Refuse, InsertFails, ReleasePermit, spendVars,
         HostTypeOK, SpendTypeOK
    <3>2. \E label \in {"idle", "blocked", "ran"} : Goto(p, label)
      BY <2>3 DEF Blocked, GiveBack
    <3>3. QED BY <1>3, <3>1, <3>2
  <2>4. CASE StartChild(p) /\ p \in Supervisors
    BY <1>0, <2>4 DEF StartChild, Goto, AtGate, spendVars, HostTypeOK
  <2>5. QED BY <1>7, <2>1, <2>2, <2>3, <2>4 DEF Step, Work, NoChild, ChildEnds
<1>8. ASSUME NEW p \in Procs, Crash(p) PROVE GateMatches'
  BY <1>3, <1>8 DEF Crash, AbandonPermit, Leave
<1>9. ASSUME NEW p \in Procs, StatementFails(p) PROVE GateMatches'
  <2>1. CASE AtGate(p)
    <3>1. AbandonPermit(p)
      BY <1>9, <2>1 DEF StatementFails, AtGate
    <3>2. \E label \in {"idle", "blocked", "ran"} : Goto(p, label)
      BY <1>9, <2>1 DEF StatementFails, AtGate
    <3>3. QED BY <1>3, <3>1, <3>2 DEF AbandonPermit
  <2>2. CASE ~AtGate(p)
    <3>1. gate[p] = "out" /\ gate' = gate
      BY <1>9, <2>2 DEF StatementFails, GateMatches, spendVars
    <3>2. \E label \in {"idle", "launching", "finished"} : Goto(p, label)
      BY <1>9, <2>2 DEF StatementFails, Leave
    <3>3. QED BY <1>1, <3>1, <3>2
  <2>3. QED BY <2>1, <2>2
<1>10. CASE Outside \/ UNCHANGED vars
  BY <1>10 DEF Outside, Pause, Resume, SpendTick, vars, spendVars, hostVars, GateMatches, AtGate
<1>11. CASE Commands
  BY <1>11, CommandsApart DEF spendVars, GateMatches, AtGate
<1>12. QED
  BY <1>4, <1>5, <1>6, <1>7, <1>8, <1>9, <1>10, <1>11 DEF HostNext

(* A supervisor at rest knows of no job, and one that nothing has happened   *)
(* to knows what it knew.                                                    *)
LEMMA Rested ==
  ASSUME NEW q \in Supervisors, pc'[q] \in Resting
  PROVE  SelectedFor(q)'
BY DEF Resting, SelectedFor, ToLaunch, Launched, Working

LEMMA Undisturbed ==
  ASSUME NEW q \in Supervisors, SelectedFor(q), pc'[q] = pc[q], sel'[q] = sel[q],
         gate'[q] = gate[q], job'[sel[q]] = job[sel[q]], launches'[sel[q]] = launches[sel[q]]
  PROVE  SelectedFor(q)'
BY DEF SelectedFor, ToLaunch, Launched

(* While one supervisor is in its step, the others rest.                     *)
LEMMA OthersRest ==
  ASSUME HostTypeOK, Alone, NEW p \in Supervisors, pc[p] \notin Resting,
         NEW label, Goto(p, label), SelectedFor(p)'
  PROVE  SelectedInv'
<1>1. \A q \in Supervisors : q # p => pc'[q] \in Resting
  BY Names DEF Alone, Goto, HostTypeOK
<1>2. QED BY <1>1, Rested DEF SelectedInv

LEMMA OthersRestToo ==
  ASSUME Alone, NEW p \in Supervisors, pc[p] \notin Resting, pc' = pc, SelectedFor(p)'
  PROVE  SelectedInv'
<1>1. \A q \in Supervisors : q # p => pc'[q] \in Resting
  BY DEF Alone
<1>2. QED BY <1>1, Rested DEF SelectedInv

LEMMA JobsKept ==
  ASSUME JobsInv, UNCHANGED <<created, job, launches>>
  PROVE  JobsInv'
BY DEF JobsInv, JobFor

(* A supervisor's own steps: what it knows of its job stays right.           *)
LEMMA SupervisorStep ==
  ASSUME SoloInv, NEW p \in Supervisors, Step(p)
  PROVE  SelectedInv' /\ JobsInv'
<1> USE DEF SoloInv
<1>0. p \in Procs /\ p \notin Swarms /\ SelectedFor(p) /\ sel[p] \in 0..MaxJobs
  BY Names DEF SelectedInv, HostTypeOK
<1>1. CASE SelectJob(p)
  <2>1. JobsInv'
    BY <1>1, JobsKept DEF SelectJob
  <2>2. CASE Leave(p)
    <3>1. pc'[p] \in Resting /\ pc[p] \notin Resting /\ Goto(p, "idle")
      BY <1>0, <1>1, <2>2 DEF SelectJob, Leave, Goto, HostTypeOK, Resting
    <3>2. QED BY <2>1, <3>1, OthersRest, Rested
  <2>3. CASE ~Leave(p)
    <3>1. PICK j \in QueuedJobs : sel' = [sel EXCEPT ![p] = j]
      BY <1>1, <2>3 DEF SelectJob
    <3>2. j \in Jobs /\ job'[j].status = "queued" /\ sel'[p] = j /\ pc'[p] = "selected"
      BY <1>0, <1>1, <2>3, <3>1 DEF SelectJob, QueuedJobs, Goto, HostTypeOK
    <3>3. SelectedFor(p)'
      BY <3>2 DEF SelectedFor, ToLaunch, Launched
    <3>4. Goto(p, "selected") /\ pc[p] \notin Resting
      BY <1>1, <2>3 DEF SelectJob, Resting
    <3>5. QED BY <2>1, <3>3, <3>4, OthersRest
  <2>4. QED BY <2>1, <2>2, <2>3
<1>2. CASE MarkRunning(p)
  <2>1. sel[p] \in Jobs /\ job[sel[p]].status = "queued"
    BY <1>0, <1>2 DEF MarkRunning, SelectedFor, Working
  <2>2. /\ job'[sel[p]].status = "running"
        /\ \A k \in Jobs : k # sel[p] => job'[k] = job[k]
    BY <1>2, <2>1, JobTypes DEF MarkRunning
  <2>3. launches[sel[p]] = 0 /\ ~(sel[p] > created)
    BY <2>1 DEF JobsInv, JobFor
  <2>4. pc'[p] = "marked"
    BY <1>0, <1>2 DEF MarkRunning, Goto, HostTypeOK
  <2>5. SelectedFor(p)'
    BY <1>2, <2>1, <2>2, <2>3, <2>4 DEF MarkRunning, SelectedFor, ToLaunch, Launched
  <2>6. JobsInv'
    BY <1>2, <2>1, <2>2, <2>3 DEF MarkRunning, JobsInv, JobFor
  <2>7. Goto(p, "marked") /\ pc[p] \notin Resting
    BY <1>2 DEF MarkRunning, Resting
  <2>8. QED BY <2>5, <2>6, <2>7, OthersRest
<1>3. CASE Occupy(p)
  <2>1. gate[p] = "out" /\ pc'[p] = "launching" /\ gate' = gate
    BY <1>0, <1>3 DEF Occupy, GateMatches, AtGate, Goto, HostTypeOK, spendVars
  <2>2. SelectedFor(p)'
    BY <1>0, <1>3, <2>1 DEF Occupy, SelectedFor, ToLaunch, Launched, Working
  <2>3. Goto(p, "launching") /\ pc[p] \notin Resting
    BY <1>3 DEF Occupy, Resting
  <2>4. QED BY <1>3, <2>2, <2>3, OthersRest, JobsKept DEF Occupy
<1>4. CASE Finish(p)
  <2>1. sel[p] \in Jobs /\ job[sel[p]].status = "running"
    BY <1>0, <1>4 DEF Finish, SelectedFor, ToLaunch, Launched, Working
  <2>2. pc'[p] = "finished"
    BY <1>0, <1>4 DEF Finish, Goto, HostTypeOK
  <2>3. SelectedFor(p)'
    BY <1>4, <2>1, <2>2 DEF Finish, SelectedFor, ToLaunch, Launched
  <2>4. JobsInv'
    <3>1. ~(sel[p] > created)
      BY <2>1 DEF JobsInv, JobFor
    <3>2. CASE pc[p] = "ran"
      <4>1. job'[sel[p]].status = "done" /\ \A k \in Jobs : k # sel[p] => job'[k] = job[k]
        BY <1>4, <2>1, <3>2, JobTypes DEF Finish
      <4>2. launches[sel[p]] = 1
        BY <1>0, <3>2 DEF SelectedFor, Launched
      <4>3. QED BY <1>4, <3>1, <4>1, <4>2 DEF Finish, JobsInv, JobFor
    <3>3. CASE pc[p] = "blocked"
      <4>1. job'[sel[p]].status = "failed" /\ \A k \in Jobs : k # sel[p] => job'[k] = job[k]
        BY <1>4, <2>1, <3>3, JobTypes DEF Finish
      <4>2. launches[sel[p]] = 0
        BY <1>0, <3>3 DEF SelectedFor, ToLaunch
      <4>3. QED BY <1>4, <3>1, <4>1, <4>2 DEF Finish, JobsInv, JobFor
    <3>4. QED BY <1>4, <3>2, <3>3 DEF Finish
  <2>5. Goto(p, "finished") /\ pc[p] \notin Resting
    BY <1>4 DEF Finish, Resting
  <2>6. QED BY <2>3, <2>4, <2>5, OthersRest
<1>5. CASE Vacate(p)
  <2>1. pc'[p] \in Resting /\ pc[p] \notin Resting /\ Goto(p, "idle")
    BY <1>0, <1>5 DEF Vacate, Leave, Goto, HostTypeOK, Resting
  <2>2. QED BY <1>5, <2>1, OthersRest, Rested, JobsKept DEF Vacate
<1>6. CASE Reserving(p)
  <2>1. pc[p] = "launching" /\ gate[p] # "in" /\ gate'[p] # "in"
    <3>1. pc[p] = "launching"
      BY <1>0, <1>6 DEF Reserving, AtGate, GateMatches, CountActive, CountHour, CountDay, Pass
    <3>2. \/ gate[p] = "out" /\ gate' = [gate EXCEPT ![p] = "active_ok"]
          \/ gate[p] = "active_ok" /\ gate' = [gate EXCEPT ![p] = "hour_ok"]
          \/ gate[p] = "hour_ok" /\ gate' = [gate EXCEPT ![p] = "cleared"]
      BY <1>6 DEF Reserving, CountActive, CountHour, CountDay, Pass
    <3>3. QED BY <1>0, <3>1, <3>2 DEF HostTypeOK, SpendTypeOK
  <2>2. UNCHANGED hostVars
    BY <1>6 DEF Reserving
  <2>3. SelectedFor(p)'
    BY <1>0, <2>1, <2>2 DEF SelectedFor, ToLaunch, Launched, hostVars
  <2>4. QED BY <2>1, <2>2, <2>3, OthersRestToo, JobsKept DEF hostVars, Resting
<1>7. CASE LetThrough(p)
  <2>1. pc[p] = "launching" /\ gate[p] # "in" /\ gate'[p] = "in"
    BY <1>0, <1>7 DEF LetThrough, AtGate, GateMatches, Insert, HostTypeOK, SpendTypeOK
  <2>2. sel[p] \in Jobs /\ job[sel[p]].status = "running" /\ launches[sel[p]] = 0
    BY <1>0, <2>1 DEF SelectedFor, ToLaunch, Working
  <2>3. /\ launches'[sel[p]] = 1
        /\ \A k \in Jobs : k # sel[p] => launches'[k] = launches[k]
    BY <1>7, <2>2 DEF LetThrough, HostTypeOK
  <2>4. UNCHANGED <<created, job, pc, sel>>
    BY <1>7 DEF LetThrough
  <2>5. SelectedFor(p)'
    BY <2>1, <2>2, <2>3, <2>4 DEF SelectedFor, ToLaunch, Launched
  <2>6. JobsInv'
    BY <2>2, <2>3, <2>4 DEF JobsInv, JobFor
  <2>7. QED BY <2>1, <2>4, <2>5, <2>6, OthersRestToo DEF Resting
<1>8. CASE Blocked(p)
  <2>1. pc[p] = "launching" /\ gate[p] # "in" /\ pc'[p] = "blocked"
    BY <1>0, <1>8 DEF Blocked, AtGate, GateMatches, Refuse, InsertFails, Goto, HostTypeOK
  <2>2. SelectedFor(p)'
    BY <1>0, <1>8, <2>1 DEF Blocked, SelectedFor, ToLaunch, Launched, Working
  <2>3. Goto(p, "blocked") /\ pc[p] \notin Resting
    BY <1>0, <1>8, <2>1 DEF Blocked, Resting
  <2>4. QED BY <1>8, <2>2, <2>3, OthersRest, JobsKept DEF Blocked
<1>9. CASE GiveBack(p)
  <2>1. pc[p] \in {"launching", "running"} /\ gate[p] = "in" /\ pc'[p] = "ran"
    BY <1>0, <1>9 DEF GiveBack, AtGate, GateMatches, ReleasePermit, Goto, HostTypeOK
  <2>2. SelectedFor(p)'
    BY <1>0, <1>9, <2>1 DEF GiveBack, SelectedFor, ToLaunch, Launched, Working
  <2>3. Goto(p, "ran") /\ pc[p] \notin Resting
    BY <1>0, <1>9, <2>1 DEF GiveBack, Resting
  <2>4. QED BY <1>9, <2>2, <2>3, OthersRest, JobsKept DEF GiveBack
<1>10. CASE StartChild(p)
  <2>1. pc[p] = "launching" /\ gate[p] = "in" /\ pc'[p] = "running"
    BY <1>0, <1>10 DEF StartChild, Goto, HostTypeOK
  <2>2. SelectedFor(p)'
    BY <1>0, <1>10, <2>1 DEF StartChild, SelectedFor, ToLaunch, Launched, Working
  <2>3. Goto(p, "running") /\ pc[p] \notin Resting
    BY <1>10, <2>1 DEF StartChild, Resting
  <2>4. QED BY <1>10, <2>2, <2>3, OthersRest, JobsKept DEF StartChild
<1>11. QED
  BY <1>1, <1>2, <1>3, <1>4, <1>5, <1>6, <1>7, <1>8, <1>9, <1>10
     DEF Step, Work, NoChild, ChildEnds

LEMMA SoloStep == SoloInv /\ GateInv /\ [SoloNext]_vars => SoloInv'
<1> SUFFICES ASSUME SoloInv, GateInv, [SoloNext]_vars PROVE SoloInv'
  OBVIOUS
<1> USE DEF SoloInv
<1>0. HostTypeOK' /\ Alone' /\ GateMatches'
  BY HostTypeStep, AloneStep, GatePlaceStep, SoloIsHost
<1>1. ASSUME NEW p \in Triggers, NEW t \in Types, Trigger(p, t) PROVE SelectedInv' /\ JobsInv'
  <2>1. p \in Supervisors /\ p \in Procs
    BY Names
  <2>2. /\ pc'[p] \in Resting
        /\ \A q \in Supervisors : q # p => pc'[q] = pc[q]
        /\ UNCHANGED <<sel, gate, launches>>
    BY <1>1, <2>1, Names DEF Trigger, Goto, Resting, HostTypeOK, spendVars
  <2>3. CASE UNCHANGED <<created, job>>
    <3>1. \A q \in Supervisors : SelectedFor(q)'
      BY <2>2, <2>3, Rested, Undisturbed DEF SelectedInv
    <3>2. QED BY <2>2, <2>3, <3>1, JobsKept DEF SelectedInv
  <2>4. CASE ~UNCHANGED <<created, job>>
    <3>1. /\ created' = created + 1
          /\ job' = [job EXCEPT ![created + 1] = [status |-> "queued", type |-> t]]
      BY <1>1, <2>4 DEF Trigger
    <3>2. created \in Nat /\ created + 1 \in Jobs
      BY <1>1, HostAssumption DEF Trigger, HostTypeOK, Jobs
    <3>3. job[created + 1].status = "absent" /\ launches[created + 1] = 0
      BY <3>2 DEF JobsInv, JobFor
    <3>4. /\ job'[created + 1].status = "queued"
          /\ \A k \in Jobs : k # created + 1 => job'[k] = job[k]
      BY <3>1, <3>2 DEF HostTypeOK
    <3>5. JobsInv'
      <4>1. ASSUME NEW k \in Jobs PROVE JobFor(k)'
        <5>1. k \in Nat
          BY HostAssumption DEF Jobs
        <5>2. CASE k = created + 1
          BY <2>2, <3>1, <3>2, <3>3, <3>4, <5>2 DEF JobFor
        <5>3. CASE k # created + 1
          BY <2>2, <3>1, <3>2, <3>4, <5>1, <5>3 DEF JobsInv, JobFor
        <5>4. QED BY <5>2, <5>3
      <4>2. QED BY <4>1 DEF JobsInv
    <3>6. ASSUME NEW q \in Supervisors, q # p PROVE SelectedFor(q)'
      <4>1. SelectedFor(q) /\ pc'[q] = pc[q]
        BY <2>2, <3>6 DEF SelectedInv
      <4>2. CASE pc[q] = "finished"
        BY <2>2, <4>1, <4>2 DEF SelectedFor, ToLaunch, Launched, Working
      <4>3. CASE pc[q] \in Working \ {"finished"}
        <5>1. sel[q] \in Jobs /\ sel[q] # created + 1
          BY <3>3, <4>1, <4>3 DEF SelectedFor, ToLaunch, Launched, Working
        <5>2. job'[sel[q]] = job[sel[q]]
          BY <3>4, <5>1
        <5>3. QED BY <2>2, <4>1, <5>2, Undisturbed
      <4>4. CASE pc[q] \notin Working
        BY <4>1, <4>4 DEF SelectedFor, ToLaunch, Launched, Working
      <4>5. QED BY <4>2, <4>3, <4>4
    <3>7. QED BY <2>1, <2>2, <3>5, <3>6, Rested DEF SelectedInv
  <2>5. QED BY <2>3, <2>4
<1>2. ASSUME NEW p \in Supervisors, Register(p) PROVE SelectedInv' /\ JobsInv'
  <2>1. /\ pc'[p] = "registered"
        /\ \A q \in Supervisors : q # p => pc'[q] = pc[q]
        /\ UNCHANGED <<sel, gate, launches, job, created>>
    BY <1>2, Names DEF Register, Goto, HostTypeOK, spendVars
  <2>2. SelectedFor(p)'
    BY <2>1 DEF SelectedFor, ToLaunch, Launched, Working
  <2>3. \A q \in Supervisors : q # p => SelectedFor(q)'
    BY <2>1, Undisturbed DEF SelectedInv
  <2>4. QED BY <2>1, <2>2, <2>3, JobsKept DEF SelectedInv
<1>3. ASSUME NEW p \in Swarms, \A q \in Procs : q # p => pc'[q] = pc[q] /\ gate'[q] = gate[q],
             UNCHANGED <<created, job, sel, launches>>
      PROVE  SelectedInv' /\ JobsInv'
  <2>1. \A q \in Supervisors : SelectedFor(q)'
    BY <1>3, Undisturbed, Names DEF SelectedInv
  <2>2. QED BY <1>3, <2>1, JobsKept DEF SelectedInv
<1>4. ASSUME NEW p \in Swarms, PreCheck(p) PROVE SelectedInv' /\ JobsInv'
  BY <1>3, <1>4, Names DEF PreCheck, Goto, HostTypeOK, spendVars
<1>5. ASSUME NEW p \in Swarms, Step(p) PROVE SelectedInv' /\ JobsInv'
  <2>1. p \in Procs /\ p \notin Supervisors
    BY Names
  <2>2. CASE Reserving(p)
    BY <1>3, <2>1, <2>2 DEF Reserving, hostVars, CountActive, CountHour, CountDay, Pass,
       HostTypeOK, SpendTypeOK
  <2>3. CASE LetThrough(p)
    BY <1>3, <2>1, <2>3 DEF LetThrough, Insert, HostTypeOK, SpendTypeOK
  <2>4. CASE Blocked(p)
    BY <1>3, <2>1, <2>4 DEF Blocked, Refuse, InsertFails, Goto, spendVars, HostTypeOK, SpendTypeOK
  <2>5. CASE GiveBack(p)
    BY <1>3, <2>1, <2>5 DEF GiveBack, ReleasePermit, Goto, HostTypeOK, SpendTypeOK
  <2>6. QED BY <1>5, <2>1, <2>2, <2>3, <2>4, <2>5 DEF Step, Work, NoChild, ChildEnds
<1>6. ASSUME NEW p \in Procs, Leave(p), AbandonPermit(p) \/ UNCHANGED spendVars,
             UNCHANGED <<created, job, launches>>
      PROVE  SelectedInv' /\ JobsInv'
  <2>1. \A q \in Supervisors : q # p =>
          pc'[q] = pc[q] /\ gate'[q] = gate[q] /\ sel'[q] = sel[q]
    BY <1>6, Names DEF Leave, Goto, AbandonPermit, spendVars, HostTypeOK, SpendTypeOK
  <2>2. p \in Supervisors => pc'[p] \in Resting
    BY <1>6, Names DEF Leave, Goto, HostTypeOK, Resting
  <2>3. \A q \in Supervisors : SelectedFor(q)'
    BY <1>6, <2>1, <2>2, Rested, Undisturbed DEF SelectedInv
  <2>4. QED BY <1>6, <2>3, JobsKept DEF SelectedInv
<1>7. ASSUME NEW p \in Procs, Crash(p) PROVE SelectedInv' /\ JobsInv'
  BY <1>6, <1>7 DEF Crash
<1>8. ASSUME NEW p \in Procs, StatementFails(p) PROVE SelectedInv' /\ JobsInv'
  <2>1. UNCHANGED <<created, job, launches>>
    BY <1>8 DEF StatementFails
  <2>2. CASE Leave(p)
    BY <1>6, <1>8, <2>1, <2>2 DEF StatementFails
  <2>3. CASE ~Leave(p) /\ p \in Swarms
    <3>1. UNCHANGED sel /\ (AbandonPermit(p) \/ UNCHANGED spendVars)
      BY <1>8, <2>3 DEF StatementFails
    <3>2. \E label : Goto(p, label)
      BY <1>8, <2>3 DEF StatementFails
    <3>3. \A q \in Procs : q # p => pc'[q] = pc[q] /\ gate'[q] = gate[q]
      BY <3>1, <3>2 DEF Goto, AbandonPermit, spendVars, HostTypeOK, SpendTypeOK
    <3>4. QED BY <1>3, <2>1, <2>3, <3>1, <3>3
  <2>4. CASE ~Leave(p) /\ p \in Supervisors
    <3>1. /\ UNCHANGED sel
          /\ pc[p] \notin Resting
          /\ SelectedFor(p)
      BY <1>8, <2>4 DEF StatementFails, AtGate, Resting, SelectedInv
    <3>2. \/ pc[p] = "marked" /\ Goto(p, "launching") /\ UNCHANGED gate
          \/ pc[p] \in {"ran", "blocked"} /\ Goto(p, "finished") /\ UNCHANGED gate
          \/ pc[p] = "launching" /\ gate[p] # "in" /\ Goto(p, "blocked")
          \/ pc[p] \in {"launching", "running"} /\ gate[p] = "in" /\ Goto(p, "ran")
      BY <1>8, <2>4, Names DEF StatementFails, AtGate, GateMatches, spendVars
    <3>3. pc[p] = "marked" => gate[p] = "out"
      BY DEF GateMatches, AtGate
    <3>4. SelectedFor(p)' /\ \E label : Goto(p, label)
      BY <2>1, <3>1, <3>2, <3>3 DEF SelectedFor, ToLaunch, Launched, Working, Goto, HostTypeOK
    <3>5. QED BY <2>1, <2>4, <3>1, <3>4, OthersRest, JobsKept
  <2>5. QED BY <2>2, <2>3, <2>4, Names
<1>9. ASSUME Outside \/ UNCHANGED vars PROVE SelectedInv' /\ JobsInv'
  <2>1. UNCHANGED hostVars /\ UNCHANGED gate
    BY <1>9 DEF Outside, Pause, Resume, SpendTick, vars, spendVars
  <2>2. \A q \in Supervisors : SelectedFor(q)'
    BY <2>1, Undisturbed DEF SelectedInv, hostVars
  <2>3. QED BY <2>1, <2>2, JobsKept DEF SelectedInv, hostVars
<1>10. ASSUME Commands PROVE SelectedInv' /\ JobsInv'
  <2>1. UNCHANGED <<created, job, pc, sel, launches, gate>>
    BY <1>10, CommandsApart DEF spendVars
  <2>2. \A q \in Supervisors : SelectedFor(q)'
    BY <2>1, Undisturbed DEF SelectedInv
  <2>3. QED BY <2>1, <2>2, JobsKept DEF SelectedInv
<1>11. SelectedInv' /\ JobsInv'
  BY <1>1, <1>2, <1>4, <1>5, <1>7, <1>8, <1>9, <1>10, SupervisorStep, Names DEF SoloNext
<1>12. QED BY <1>0, <1>11

LEMMA SoloInit == HostInit => SoloInv
<1> SUFFICES ASSUME HostInit PROVE SoloInv
  OBVIOUS
<1>1. HostTypeOK
  BY InitTypes
<1>2. \A p \in Procs : pc[p] = "idle" /\ gate[p] = "out"
  BY DEF HostInit, SpendInit
<1>3. Alone /\ GateMatches
  BY <1>2, Names DEF Alone, GateMatches, AtGate, Resting
<1>4. SelectedInv
  BY <1>2, Names DEF SelectedInv, SelectedFor, ToLaunch, Launched, Working
<1>5. JobsInv
  BY <1>1 DEF HostInit, JobsInv, JobFor, HostTypeOK
<1>6. QED BY <1>1, <1>3, <1>4, <1>5 DEF SoloInv

(* The inductive invariant holds, as long as supervisors do not overlap.     *)
THEOREM SoloInvariance == SoloSpec => [](SoloInv /\ GateInv)
<1>1. HostInit => SoloInv /\ GateInv
  BY SoloInit, InitGate
<1>2. SoloInv /\ GateInv /\ [SoloNext]_vars => (SoloInv /\ GateInv)'
  BY SoloStep, SoloIsHost, GateStep
<1>3. QED BY <1>1, <1>2, PTL DEF SoloSpec

(* For any number of supervisors, swarms, jobs and permits, and any crashes  *)
(* and failed statements: a job is let through to its AI child at most once, *)
(* if supervisor_step never runs in two processes at a time.                 *)
THEOREM JobsLaunchedOnce == SoloSpec => []LaunchedOnce
<1>1. SoloInv => LaunchedOnce
  BY DEF SoloInv, JobsInv, JobFor, LaunchedOnce
<1>2. QED BY <1>1, SoloInvariance, PTL

(* The status of a job tells whether it was let through to its AI child,     *)
(* under the same assumption: "done" after exactly one permit, "failed"      *)
(* after none, so that no child has run for it.                              *)
THEOREM StatusTrue == SoloSpec => []StatusTellsLaunch
<1>1. SoloInv => StatusTellsLaunch
  BY DEF SoloInv, JobsInv, JobFor, StatusTellsLaunch
<1>2. QED BY <1>1, SoloInvariance, PTL

LEMMA FinishedStep ==
  ASSUME SoloInv, [SoloNext]_vars, NEW j \in Jobs, job[j].status \in {"done", "failed"}
  PROVE  job'[j].status = job[j].status
<1> USE DEF SoloInv
<1>1. ASSUME NEW p \in Triggers, NEW t \in Types, Trigger(p, t)
      PROVE  job'[j].status = job[j].status
  <2>1. j # created + 1
    BY DEF JobsInv, JobFor, HostTypeOK
  <2>2. QED BY <1>1, <2>1 DEF Trigger, HostTypeOK
<1>2. ASSUME NEW p \in Supervisors, Step(p)
      PROVE  job'[j].status = job[j].status
  <2>1. SelectedFor(p)
    BY DEF SelectedInv
  <2>2. CASE MarkRunning(p)
    <3>1. sel[p] \in Jobs /\ sel[p] # j
      BY <2>1, <2>2 DEF MarkRunning, SelectedFor, Working
    <3>2. QED BY <2>2, <3>1, JobTypes DEF MarkRunning
  <2>3. CASE Finish(p)
    <3>1. sel[p] \in Jobs /\ sel[p] # j
      BY <2>1, <2>3 DEF Finish, SelectedFor, ToLaunch, Launched, Working
    <3>2. QED BY <2>3, <3>1, JobTypes DEF Finish
  <2>4. CASE ~MarkRunning(p) /\ ~Finish(p)
    BY <1>2, <2>4 DEF Step, Work, NoChild, ChildEnds, SelectJob, Occupy, Vacate, Reserving,
       LetThrough, Blocked, StartChild, GiveBack, hostVars
  <2>5. QED BY <2>2, <2>3, <2>4
<1>3. ASSUME NEW p \in Swarms, Step(p) PROVE job' = job
  BY <1>3, Names DEF Step, Work, NoChild, ChildEnds, Reserving, LetThrough, Blocked, GiveBack, hostVars
<1>4. CASE Outside \/ UNCHANGED vars
  BY <1>4 DEF Outside, vars, hostVars
<1>5. QED
  BY <1>1, <1>2, <1>3, <1>4, Names, CommandsApart DEF SoloNext, Register, PreCheck, Crash,
     StatementFails

(* No crash, failed statement or later supervisor takes a finished job up    *)
(* again, under the same assumption.                                         *)
THEOREM JobsStayFinished == SoloSpec => FinishedForGood
<1>1. SoloInv /\ [SoloNext]_vars =>
        [\A j \in Jobs : job[j].status \in {"done", "failed"}
           => job'[j].status = job[j].status]_vars
  BY FinishedStep
<1>2. QED BY <1>1, SoloInvariance, PTL DEF SoloSpec, FinishedForGood

------------------------------------------------------------------------------
(* Supervisors that overlap *)

(* The places where a supervisor has marked its job running and not ended it. *)
Busied == {"marked", "launching", "running", "ran", "blocked"}

(* What a supervisor has selected is a job, and one it has marked was never  *)
(* queued again.                                                             *)
SelectedExist ==
  /\ \A j \in Jobs : j > created => job[j].status = "absent"
  /\ \A p \in Supervisors :
       /\ pc[p] \in Working => sel[p] \in 1..created
       /\ pc[p] \in Working \ {"selected"} => job[sel[p]].status \notin {"absent", "queued"}

Occupies(p, t) ==
  pc[p] \in {"launching", "running", "ran", "blocked", "finished"} /\ job[sel[p]].type = t

SlotsInv ==
  \A t \in Types : slot[t] = "busy" =>
    faults > 0 \/ t \in copied \/ \E p \in Supervisors : Occupies(p, t)

(* The supervisors that may still start the AI child of a job.               *)
MayLaunch(j) ==
  {p \in Supervisors : /\ pc[p] \in {"selected", "marked", "launching"}
                       /\ sel[p] = j
                       /\ gate[p] # "in"}

LaunchesFor(j) ==
  /\ job[j].status \in {"absent", "queued"} => launches[j] = 0
  /\ launches[j] + Cardinality(MayLaunch(j)) <= Cardinality(Supervisors)

LaunchesInv == \A j \in Jobs : LaunchesFor(j)

(* What a fault has left behind, or will when the other supervisors of the   *)
(* job have left their steps.                                                *)
LostJobs ==
  {j \in Jobs : /\ job[j].status = "running"
                /\ \A p \in Supervisors : ~(sel[p] = j /\ pc[p] \in Busied)}
LostPermits == active \ {permit[p] : p \in Procs}

LostInv == Cardinality(LostJobs) <= faults /\ Cardinality(LostPermits) <= faults

OverlapInv ==
  /\ HostTypeOK /\ GateInv /\ GateMatches
  /\ SelectedExist /\ SlotsInv /\ LaunchesInv /\ LostInv

(* A process moves alone.                                                    *)
Moves(p) ==
  /\ \A q \in Procs \ {p} : pc'[q] = pc[q] /\ gate'[q] = gate[q] /\ permit'[q] = permit[q]
  /\ \A q \in Supervisors \ {p} : sel'[q] = sel[q]

LEMMA MovesAlone ==
  ASSUME HostTypeOK, NEW p \in Procs,
         \/ p \in Triggers /\ \E t \in Types : Trigger(p, t)
         \/ p \in Supervisors /\ Register(p)
         \/ PreCheck(p) \/ Step(p) \/ Crash(p) \/ StatementFails(p)
  PROVE  Moves(p)
<1> USE Names DEF HostTypeOK, SpendTypeOK, Moves, Goto, Leave, spendVars, hostVars
<1>1. CASE \/ p \in Triggers /\ \E t \in Types : Trigger(p, t)
           \/ p \in Supervisors /\ Register(p)
           \/ PreCheck(p)
  BY <1>1 DEF Trigger, Register, PreCheck
<1>2. CASE SelectJob(p) \/ MarkRunning(p) \/ Occupy(p) \/ Finish(p) \/ Vacate(p)
  BY <1>2 DEF SelectJob, MarkRunning, Occupy, Finish, Vacate
<1>3. CASE Reserving(p) \/ LetThrough(p)
  BY <1>3 DEF Reserving, CountActive, CountHour, CountDay, Pass, LetThrough, Insert
<1>4. CASE Blocked(p) \/ GiveBack(p)
  BY <1>4 DEF Blocked, Refuse, InsertFails, GiveBack, ReleasePermit
<1>5. CASE Crash(p) \/ StatementFails(p)
  BY <1>5 DEF Crash, StatementFails, AbandonPermit
<1>6. CASE p \in Supervisors /\ StartChild(p)
  BY <1>6 DEF StartChild
<1>7. QED BY <1>1, <1>2, <1>3, <1>4, <1>5, <1>6 DEF Step, Work, NoChild, ChildEnds

(* The steps that only move a process on: past the counts of reserve(), out  *)
(* of a step that is over, or to the next statement.                         *)
LEMMA PlainSteps ==
  ASSUME HostTypeOK, GateInv, GateMatches, SelectedExist, NEW p \in Procs,
         \/ p \in Supervisors /\ Register(p)
         \/ p \in Swarms /\ PreCheck(p)
         \/ p \in Supervisors /\ SelectJob(p) /\ Leave(p)
         \/ Reserving(p) \/ Blocked(p)
  PROVE  /\ UNCHANGED <<created, job, launches, faults, active, permit>>
         /\ \A t \in Types : slot'[t] = "busy" =>
              slot[t] = "busy" /\ (t \in copied => t \in copied')
         /\ p \in Supervisors =>
              \/ pc'[p] \notin Working /\ pc[p] \notin Working
              \/ /\ pc[p] = "launching" /\ gate[p] # "in" /\ sel'[p] = sel[p]
                 /\ \/ pc'[p] = "launching" /\ gate'[p] # "in"
                    \/ pc'[p] = "blocked" /\ gate'[p] = "out"
<1> USE Names DEF HostTypeOK, SpendTypeOK, Goto, spendVars, hostVars, Working
<1>1. CASE p \in Supervisors /\ Register(p)
  BY <1>1 DEF Register
<1>2. CASE p \in Swarms /\ PreCheck(p)
  BY <1>2 DEF PreCheck
<1>3. CASE p \in Supervisors /\ SelectJob(p) /\ Leave(p)
  BY <1>3 DEF SelectJob, Leave
<1>4. CASE Reserving(p)
  BY <1>4 DEF Reserving, CountActive, CountHour, CountDay, Pass, AtGate, GateMatches
<1>5. CASE Blocked(p)
  BY <1>5 DEF Blocked, Refuse, InsertFails, AtGate, GateMatches
<1>6. QED BY <1>1, <1>2, <1>3, <1>4, <1>5

Plain(p) ==
  \/ p \in Supervisors /\ Register(p)
  \/ p \in Swarms /\ PreCheck(p)
  \/ p \in Supervisors /\ SelectJob(p) /\ Leave(p)
  \/ Reserving(p) \/ Blocked(p)

Takes(p)  == p \in Supervisors /\ SelectJob(p) /\ ~Leave(p)
Writes(p) == p \in Supervisors /\ (MarkRunning(p) \/ Occupy(p) \/ Finish(p) \/ Vacate(p))
Faulty(p) == Crash(p) \/ StatementFails(p)

ProcessStep(p) ==
  \/ p \in Triggers /\ \E t \in Types : Trigger(p, t)
  \/ Plain(p) \/ Takes(p) \/ Writes(p) \/ LetThrough(p) \/ GiveBack(p) \/ Faulty(p)
  \/ p \in Supervisors /\ StartChild(p)

LEMMA ProcessSteps ==
  [HostNext]_vars => \/ \E p \in Procs : ProcessStep(p) /\ (HostTypeOK => Moves(p))
                     \/ Commands \/ Outside \/ UNCHANGED vars
<1> SUFFICES ASSUME HostNext, ~Commands, ~Outside
             PROVE  \E p \in Procs : ProcessStep(p) /\ (HostTypeOK => Moves(p))
  OBVIOUS
<1>1. ASSUME NEW p \in Procs,
             \/ p \in Triggers /\ \E t \in Types : Trigger(p, t)
             \/ p \in Supervisors /\ Register(p)
             \/ p \in Swarms /\ PreCheck(p)
             \/ Step(p) \/ Crash(p) \/ StatementFails(p)
      PROVE  ProcessStep(p) /\ (HostTypeOK => Moves(p))
  BY <1>1, MovesAlone DEF ProcessStep, Plain, Takes, Writes, Faulty, Step, Work, NoChild, ChildEnds
<1>2. QED BY <1>1, Names DEF HostNext

(* Jobs that are selected *)

LEMMA JobWrites ==
  ASSUME HostTypeOK, SelectedExist, NEW p \in Supervisors, Writes(p)
  PROVE  /\ sel[p] \in Jobs /\ sel[p] \in 1..created
         /\ UNCHANGED <<created, launches, faults, spendVars>>
         /\ \/ /\ pc[p] = "selected" /\ pc'[p] = "marked" /\ sel' = sel
               /\ UNCHANGED <<slot, copied>>
               /\ SetStatus(sel[p], "running")
            \/ /\ pc[p] = "marked" /\ pc'[p] = "launching" /\ sel' = sel /\ UNCHANGED job
               /\ SetSlot(p, "busy")
            \/ /\ pc[p] \in {"ran", "blocked"} /\ pc'[p] = "finished" /\ sel' = sel
               /\ UNCHANGED <<slot, copied>>
               /\ SetStatus(sel[p], "done") \/ SetStatus(sel[p], "failed")
            \/ /\ pc[p] = "finished" /\ pc'[p] = "idle" /\ UNCHANGED job
               /\ SetSlot(p, "idle")
<1>1. sel[p] \in Jobs /\ sel[p] \in 1..created
  BY DEF Writes, MarkRunning, Occupy, Finish, Vacate, SelectedExist, Working, HostTypeOK, Jobs
<1>2. CASE MarkRunning(p)
  BY <1>1, <1>2, Names DEF MarkRunning, Goto, HostTypeOK
<1>3. CASE Occupy(p)
  BY <1>1, <1>3, Names DEF Occupy, Goto, HostTypeOK
<1>4. CASE Finish(p)
  BY <1>1, <1>4, Names DEF Finish, Goto, HostTypeOK
<1>5. CASE Vacate(p)
  BY <1>1, <1>5, Names DEF Vacate, Leave, Goto, HostTypeOK
<1>6. QED BY <1>2, <1>3, <1>4, <1>5 DEF Writes

(* A fault leaves the rows as they are, and counts; the process leaves its   *)
(* step, or goes on as if the statement had not failed.                      *)
LEMMA FaultEffects ==
  ASSUME HostTypeOK, GateInv, GateMatches, NEW p \in Procs, Faulty(p)
  PROVE  /\ UNCHANGED <<created, job, slot, launches, active, copied>>
         /\ faults' = faults + 1 /\ faults \in Nat
         /\ UNCHANGED permit \/ permit' = [permit EXCEPT ![p] = NoPermit]
         /\ p \in Supervisors =>
              \/ pc'[p] \notin Working
              \/ /\ sel'[p] = sel[p]
                 /\ \/ pc[p] = "marked" /\ pc'[p] = "launching"
                    \/ pc[p] \in {"launching", "running", "ran", "blocked"}
                       /\ pc'[p] \in {"ran", "blocked", "finished"}
<1> USE Names DEF HostTypeOK, SpendTypeOK, Goto, spendVars, AbandonPermit, Leave, Working
<1>0. faults \in Nat
  BY HostAssumption
<1>1. CASE Crash(p)
  BY <1>0, <1>1 DEF Crash
<1>2. CASE StatementFails(p)
  <2>1. UNCHANGED <<created, job, slot, launches, active, copied>> /\ faults' = faults + 1
    BY <1>2 DEF StatementFails
  <2>2. UNCHANGED permit \/ permit' = [permit EXCEPT ![p] = NoPermit]
    BY <1>2 DEF StatementFails
  <2>3. ASSUME p \in Supervisors, ~Leave(p)
        PROVE  /\ sel'[p] = sel[p]
               /\ \/ pc[p] = "marked" /\ pc'[p] = "launching"
                  \/ pc[p] \in {"launching", "running", "ran", "blocked"}
                     /\ pc'[p] \in {"ran", "blocked", "finished"}
    BY <1>2, <2>3 DEF StatementFails, AtGate, GateMatches
  <2>4. Leave(p) => pc'[p] \notin Working
    OBVIOUS
  <2>5. QED BY <1>0, <2>1, <2>2, <2>3, <2>4
<1>3. QED BY <1>1, <1>2 DEF Faulty

LEMMA ChildOver ==
  ASSUME HostTypeOK, GateMatches, NEW p \in Procs, GiveBack(p)
  PROVE  /\ UNCHANGED <<created, job, slot, launches, faults, copied>>
         /\ active' = active \ {permit[p]} /\ permit' = [permit EXCEPT ![p] = NoPermit]
         /\ p \in Supervisors =>
              pc[p] \in {"launching", "running"} /\ pc'[p] = "ran" /\ sel'[p] = sel[p]
BY Names DEF GiveBack, ReleasePermit, AtGate, GateMatches, Goto, HostTypeOK

LEMMA LaunchEffects ==
  ASSUME HostTypeOK, GateInv, GateMatches, NEW p \in Procs, LetThrough(p)
  PROVE  /\ UNCHANGED <<created, job, slot, pc, sel, faults, copied>>
         /\ gate[p] # "in" /\ gate'[p] = "in" /\ permit[p] = NoPermit
         /\ \E r \in Permits : active' = active \cup {r} /\ permit' = [permit EXCEPT ![p] = r]
         /\ p \in Supervisors =>
              /\ pc[p] = "launching" /\ launches' = [launches EXCEPT ![sel[p]] = @ + 1]
         /\ p \notin Supervisors => UNCHANGED launches
<1>1. NextPermit \in Permits
  BY DEF LetThrough, Insert, NextPermit
<1>2. QED
  BY <1>1, Names DEF LetThrough, Insert, AtGate, GateMatches, GateInv, PermitOnlyInside, HostTypeOK, SpendTypeOK

LEMMA StartEffects ==
  ASSUME HostTypeOK, NEW p \in Supervisors, StartChild(p)
  PROVE  /\ UNCHANGED <<created, job, slot, sel, launches, faults, active, permit, copied>>
         /\ pc[p] = "launching" /\ pc'[p] = "running" /\ gate[p] = "in" /\ gate' = gate
BY Names DEF StartChild, Goto, HostTypeOK, spendVars

LEMMA SelectedKept ==
  ASSUME HostTypeOK, SelectedExist, NEW p \in Procs, Moves(p), UNCHANGED created,
         \/ UNCHANGED job
         \/ /\ sel[p] \in 1..created /\ job'[sel[p]].status \in {"running", "done", "failed"}
            /\ \A j \in Jobs : j # sel[p] => job'[j] = job[j],
         p \in Supervisors =>
           \/ pc'[p] \notin Working
           \/ /\ pc[p] \in Working /\ sel'[p] = sel[p]
              /\ pc[p] = "selected" => job'[sel[p]].status \notin {"absent", "queued"}
  PROVE  SelectedExist'
<1>0. \A j \in 1..created : j \in Jobs
  BY HostAssumption DEF HostTypeOK, Jobs
<1>1. \A j \in Jobs : j > created => job'[j].status = "absent"
  BY HostAssumption DEF SelectedExist, HostTypeOK, Jobs
<1>2. ASSUME NEW q \in Supervisors, q # p
      PROVE  /\ pc'[q] \in Working => sel'[q] \in 1..created
             /\ pc'[q] \in Working \ {"selected"} => job'[sel'[q]].status \notin {"absent", "queued"}
  BY <1>0, <1>2, Names DEF SelectedExist, Moves, Working
<1>3. ASSUME p \in Supervisors
      PROVE  /\ pc'[p] \in Working => sel'[p] \in 1..created
             /\ pc'[p] \in Working \ {"selected"} => job'[sel'[p]].status \notin {"absent", "queued"}
  BY <1>0, <1>3 DEF SelectedExist, Working
<1>4. QED BY <1>1, <1>2, <1>3 DEF SelectedExist

LEMMA SelectedStep ==
  ASSUME OverlapInv, NEW p \in Procs, ProcessStep(p), Moves(p)
  PROVE  SelectedExist'
<1> USE DEF OverlapInv
<1>0. \A j \in 1..created : j \in Jobs
  BY HostAssumption DEF HostTypeOK, Jobs
<1>1. ASSUME p \in Triggers, NEW t \in Types, Trigger(p, t) PROVE SelectedExist'
  <2>1. pc'[p] = "enqueued" /\ UNCHANGED sel
    BY <1>1, Names DEF Trigger, Goto, HostTypeOK
  <2>2. \A q \in Supervisors : pc'[q] \in Working => pc[q] = pc'[q]
    BY <2>1, Names DEF Moves, Working
  <2>3. CASE UNCHANGED <<created, job>>
    BY <2>1, <2>2, <2>3 DEF SelectedExist
  <2>4. CASE created' = created + 1
             /\ job' = [job EXCEPT ![created + 1] = [status |-> "queued", type |-> t]]
    <3>1. created \in Nat /\ \A j \in Jobs : j # created + 1 => job'[j] = job[j]
      BY <2>4, HostAssumption DEF HostTypeOK
    <3>2. \A j \in 1..created : j \in Jobs /\ job'[j] = job[j] /\ j \in 1..(created + 1)
      BY <1>0, <3>1
    <3>3. \A j \in Jobs : j > created + 1 => job'[j].status = "absent"
      BY <3>1 DEF SelectedExist, Jobs
    <3>4. QED BY <2>1, <2>2, <2>4, <3>2, <3>3 DEF SelectedExist
  <2>5. QED BY <1>1, <2>3, <2>4 DEF Trigger
<1>2. CASE Plain(p)
  <2>1. /\ UNCHANGED <<created, job>>
        /\ p \in Supervisors => \/ pc'[p] \notin Working
                                \/ pc[p] = "launching" /\ sel'[p] = sel[p]
    BY <1>2, PlainSteps DEF Plain
  <2>2. QED BY <2>1, SelectedKept DEF Working
<1>3. CASE Takes(p)
  <2>1. PICK j \in QueuedJobs : sel' = [sel EXCEPT ![p] = j]
    BY <1>3 DEF Takes, SelectJob
  <2>2. j \in 1..created
    BY HostAssumption DEF QueuedJobs, SelectedExist, HostTypeOK, Jobs
  <2>3. sel'[p] = j /\ pc'[p] = "selected" /\ UNCHANGED <<created, job>>
    BY <1>3, <2>1, Names DEF Takes, SelectJob, Goto, HostTypeOK
  <2>4. QED BY <2>2, <2>3, Names DEF SelectedExist, Moves
<1>4. CASE Writes(p)
  <2>1. p \in Supervisors /\ sel[p] \in Jobs /\ sel[p] \in 1..created
        /\ p \in Procs /\ p \notin Swarms
    BY <1>4, JobWrites, Names DEF Writes
  <2>2. \/ /\ pc[p] = "selected" /\ pc'[p] = "marked" /\ sel' = sel
           /\ SetStatus(sel[p], "running")
        \/ /\ pc[p] = "marked" /\ pc'[p] = "launching" /\ sel' = sel /\ UNCHANGED job
        \/ /\ pc[p] \in {"ran", "blocked"} /\ pc'[p] = "finished" /\ sel' = sel
           /\ SetStatus(sel[p], "done") \/ SetStatus(sel[p], "failed")
        \/ /\ pc[p] = "finished" /\ pc'[p] = "idle" /\ UNCHANGED job
    BY <1>4, <2>1, JobWrites
  <2>3. UNCHANGED created
    BY <1>4, <2>1, JobWrites
  <2>4. UNCHANGED job \/ /\ job'[sel[p]].status \in {"running", "done", "failed"}
                         /\ \A k \in Jobs : k # sel[p] => job'[k] = job[k]
    BY <2>1, <2>2, JobTypes
  <2>5. \/ pc'[p] \notin Working
        \/ /\ pc[p] \in Working /\ sel'[p] = sel[p]
           /\ pc[p] = "selected" => job'[sel[p]].status \notin {"absent", "queued"}
    BY <2>1, <2>2, JobTypes DEF Working
  <2>6. QED BY <2>1, <2>3, <2>4, <2>5, SelectedKept
<1>5. CASE LetThrough(p)
  BY <1>5, LaunchEffects DEF SelectedExist
<1>6. CASE GiveBack(p)
  BY <1>6, ChildOver, SelectedKept DEF Working
<1>7. CASE Faulty(p)
  <2>1. /\ UNCHANGED <<created, job>>
        /\ p \in Supervisors => \/ pc'[p] \notin Working
                                \/ /\ sel'[p] = sel[p]
                                   /\ pc[p] \in Busied
    BY <1>7, FaultEffects DEF Busied
  <2>2. QED BY <2>1, SelectedKept DEF Working, Busied
<1>8. CASE p \in Supervisors /\ StartChild(p)
  BY <1>8, StartEffects, SelectedKept DEF Working
<1>9. QED BY <1>1, <1>2, <1>3, <1>4, <1>5, <1>6, <1>7, <1>8 DEF ProcessStep

(* Slots: whose is busy goes on, or leaves and the slot with it.             *)
LEMMA SlotsStep ==
  ASSUME OverlapInv, NEW p \in Procs, ProcessStep(p), Moves(p)
  PROVE  SlotsInv'
<1> USE DEF OverlapInv
<1>0. /\ \A j \in 1..created : j \in Jobs
      /\ \A q \in Supervisors : pc[q] \in Working => sel[q] \in 1..created
      /\ faults \in Nat
  BY HostAssumption DEF HostTypeOK, Jobs, SelectedExist
<1>1. ASSUME faults' = faults, \A j \in 1..created : job'[j].type = job[j].type,
             \A t \in Types : slot'[t] = "busy" =>
               /\ slot[t] = "busy" /\ (t \in copied => t \in copied')
               /\ p \in Supervisors /\ Occupies(p, t) => Occupies(p, t)'
      PROVE  SlotsInv'
  <2>1. \A q \in Supervisors, t \in Types : q # p /\ Occupies(q, t) => Occupies(q, t)'
    BY <1>0, <1>1, Names DEF Moves, Occupies, Working
  <2>2. QED BY <1>1, <2>1 DEF SlotsInv
<1>2. ASSUME p \in Triggers, NEW t \in Types, Trigger(p, t) PROVE SlotsInv'
  <2>1. pc[p] = "idle" /\ UNCHANGED <<slot, faults, copied>>
    BY <1>2 DEF Trigger
  <2>2. \A j \in 1..created : job'[j].type = job[j].type
    <3>1. \A j \in 1..created : j # created + 1 /\ j \in Jobs
      BY <1>0, HostAssumption DEF HostTypeOK
    <3>2. QED BY <1>2, <3>1 DEF Trigger, HostTypeOK
  <2>3. QED BY <1>1, <2>1, <2>2 DEF Occupies
<1>3. CASE Plain(p)
  <2>1. /\ UNCHANGED <<job, faults>>
        /\ \A t \in Types : slot'[t] = "busy" =>
             slot[t] = "busy" /\ (t \in copied => t \in copied')
        /\ p \in Supervisors => \/ pc[p] \notin Working
                                \/ pc'[p] \in {"launching", "blocked"} /\ sel'[p] = sel[p]
    BY <1>3, PlainSteps DEF Plain
  <2>2. QED BY <1>1, <2>1 DEF Occupies, Working
<1>4. CASE Takes(p)
  BY <1>1, <1>4 DEF Takes, SelectJob, Occupies
<1>5. CASE Writes(p)
  <2>0. p \in Supervisors /\ UNCHANGED faults /\ p \in Procs
    BY <1>5, JobWrites DEF Writes
  <2>1. CASE pc[p] = "selected" \/ pc[p] \in {"ran", "blocked"}
    <3>1. /\ sel[p] \in Jobs /\ sel' = sel /\ UNCHANGED <<slot, copied>>
          /\ \E s \in {"running", "done", "failed"} : SetStatus(sel[p], s)
          /\ pc[p] # "selected" => pc'[p] = "finished"
      BY <1>5, <2>0, <2>1, JobWrites
    <3>2. \A j \in Jobs : job'[j].type = job[j].type
      BY <3>1 DEF SetStatus, HostTypeOK
    <3>3. QED BY <1>0, <1>1, <2>0, <2>1, <3>1, <3>2 DEF Occupies, Working
  <2>2. CASE pc[p] = "marked"
    <3>1. sel[p] \in Jobs /\ pc'[p] = "launching" /\ sel' = sel /\ UNCHANGED job
          /\ SetSlot(p, "busy")
      BY <1>5, <2>0, <2>2, JobWrites
    <3>2. \A t \in Types : Occupies(p, t)' <=> t = job[sel[p]].type
      BY <3>1 DEF Occupies
    <3>3. \A t \in Types : t # job[sel[p]].type =>
            slot'[t] = slot[t] /\ (t \in copied => t \in copied')
      BY <3>1 DEF SetSlot, HostTypeOK
    <3>4. \A q \in Supervisors, t \in Types : q # p /\ Occupies(q, t) => Occupies(q, t)'
      BY <3>1, Names DEF Moves, Occupies
    <3>5. \A t \in Types : Occupies(p, t) => FALSE
      BY <2>2 DEF Occupies
    <3>6. QED BY <2>0, <3>2, <3>3, <3>4, <3>5 DEF SlotsInv
  <2>3. CASE pc[p] = "finished"
    <3>1. UNCHANGED job /\ SetSlot(p, "idle")
      BY <1>5, <2>0, <2>3, JobWrites
    <3>2. \A t \in Types : slot'[t] = "busy" =>
            /\ slot[t] = "busy" /\ t # job[sel[p]].type
            /\ t \in copied => t \in copied'
      BY <3>1 DEF SetSlot, HostTypeOK
    <3>3. QED BY <1>1, <2>0, <3>1, <3>2 DEF Occupies
  <2>4. QED BY <1>5, <2>0, <2>1, <2>2, <2>3, JobWrites
<1>6. CASE LetThrough(p)
  <2>1. UNCHANGED <<job, slot, pc, sel, faults, copied>>
    BY <1>6, LaunchEffects
  <2>2. QED BY <1>1, <2>1 DEF Occupies
<1>7. CASE GiveBack(p)
  BY <1>1, <1>7, ChildOver DEF Occupies
<1>8. CASE Faulty(p)
  BY <1>8, FaultEffects DEF SlotsInv
<1>9. CASE p \in Supervisors /\ StartChild(p)
  BY <1>1, <1>9, StartEffects DEF Occupies
<1>10. QED BY <1>2, <1>3, <1>4, <1>5, <1>6, <1>7, <1>8, <1>9 DEF ProcessStep

(* LaunchEffects: a supervisor that may still launch a job comes only while it is *)
(* queued, and goes when it does.                                            *)
LEMMA FewSupervisors ==
  /\ IsFiniteSet(Supervisors) /\ Cardinality(Supervisors) \in Nat
  /\ \A S \in SUBSET Supervisors : /\ IsFiniteSet(S)
                                   /\ Cardinality(S) \in Nat
                                   /\ Cardinality(S) <= Cardinality(Supervisors)
                                   /\ \A T \in SUBSET S : Cardinality(T) <= Cardinality(S)
                                   /\ \A p \in S : Cardinality(S \ {p}) = Cardinality(S) - 1
<1>1. IsFiniteSet(Supervisors)
  BY SpendAssumption, Names, FS_Subset
<1>2. \A S \in SUBSET Supervisors : /\ IsFiniteSet(S)
                                    /\ Cardinality(S) \in Nat
                                    /\ Cardinality(S) <= Cardinality(Supervisors)
  BY <1>1, FS_Subset, FS_CardinalityType
<1>3. ASSUME NEW S \in SUBSET Supervisors
      PROVE  /\ \A T \in SUBSET S : Cardinality(T) <= Cardinality(S)
             /\ \A p \in S : Cardinality(S \ {p}) = Cardinality(S) - 1
  BY <1>2, FS_Subset, FS_RemoveElement
<1>4. QED BY <1>1, <1>2, <1>3, FS_CardinalityType

LEMMA LaunchesKept ==
  ASSUME HostTypeOK, HostTypeOK', NEW j \in Jobs, LaunchesFor(j), launches'[j] = launches[j],
         job'[j].status \in {"absent", "queued"} => job[j].status \in {"absent", "queued"},
         MayLaunch(j)' \subseteq MayLaunch(j)
  PROVE  LaunchesFor(j)'
<1>1. MayLaunch(j) \in SUBSET Supervisors /\ MayLaunch(j)' \in SUBSET MayLaunch(j)
  BY DEF MayLaunch
<1>2. Cardinality(MayLaunch(j)') <= Cardinality(MayLaunch(j))
      /\ Cardinality(MayLaunch(j)') \in Nat /\ Cardinality(MayLaunch(j)) \in Nat
  BY <1>1, FewSupervisors
<1>3. launches[j] \in Nat
  BY DEF HostTypeOK
<1>4. launches'[j] + Cardinality(MayLaunch(j)') <= Cardinality(Supervisors)
  BY <1>2, <1>3, FewSupervisors DEF LaunchesFor
<1>5. QED BY <1>4 DEF LaunchesFor

LEMMA LaunchesStep ==
  ASSUME OverlapInv, HostTypeOK', NEW p \in Procs, ProcessStep(p), Moves(p)
  PROVE  LaunchesInv'
<1> USE DEF OverlapInv
<1>1. ASSUME UNCHANGED launches,
             \A j \in Jobs : job'[j].status \in {"absent", "queued"} =>
                               job[j].status \in {"absent", "queued"},
             \A j \in Jobs : p \in MayLaunch(j)' => p \in MayLaunch(j)
      PROVE  LaunchesInv'
  <2>1. \A j \in Jobs : MayLaunch(j)' \subseteq MayLaunch(j)
    BY <1>1, Names DEF Moves, MayLaunch
  <2>2. QED BY <1>1, <2>1, LaunchesKept DEF LaunchesInv
<1>2. ASSUME p \in Triggers, NEW t \in Types, Trigger(p, t) PROVE LaunchesInv'
  <2>1. pc'[p] = "enqueued" /\ UNCHANGED launches
    BY <1>2, Names DEF Trigger, Goto, HostTypeOK
  <2>2. \A j \in Jobs : job'[j] = job[j] \/ (j = created + 1 /\ job[j].status = "absent")
    BY <1>2, HostAssumption DEF Trigger, HostTypeOK, SelectedExist, Jobs
  <2>3. QED BY <1>1, <2>1, <2>2 DEF MayLaunch
<1>3. CASE Plain(p)
  <2>1. /\ UNCHANGED <<job, launches>>
        /\ p \in Supervisors =>
             \/ pc'[p] \notin Working
             \/ pc[p] = "launching" /\ gate[p] # "in" /\ sel'[p] = sel[p]
    BY <1>3, PlainSteps DEF Plain
  <2>2. QED BY <1>1, <2>1 DEF MayLaunch, Working
<1>4. CASE Takes(p)
  <2>1. PICK i \in QueuedJobs : sel' = [sel EXCEPT ![p] = i]
    BY <1>4 DEF Takes, SelectJob
  <2>2. p \in Supervisors /\ UNCHANGED <<job, launches>> /\ sel'[p] = i
    BY <1>4, <2>1 DEF Takes, SelectJob, HostTypeOK
  <2>3. ASSUME NEW j \in Jobs, j # i PROVE LaunchesFor(j)'
    <3>1. MayLaunch(j)' \subseteq MayLaunch(j)
      BY <2>2, <2>3, Names DEF Moves, MayLaunch
    <3>2. QED BY <2>2, <3>1, LaunchesKept DEF LaunchesInv
  <2>4. LaunchesFor(i)'
    <3>1. i \in Jobs /\ launches'[i] = 0
      BY <2>2 DEF QueuedJobs, LaunchesInv, LaunchesFor
    <3>2. MayLaunch(i)' \in SUBSET Supervisors
      BY DEF MayLaunch
    <3>3. Cardinality(MayLaunch(i)') <= Cardinality(Supervisors)
          /\ Cardinality(MayLaunch(i)') \in Nat
      BY <3>2, FewSupervisors
    <3>4. launches'[i] + Cardinality(MayLaunch(i)') <= Cardinality(Supervisors)
      BY <3>1, <3>3
    <3>5. QED BY <3>1, <3>4 DEF LaunchesFor
  <2>5. QED BY <2>3, <2>4 DEF LaunchesInv
<1>5. CASE Writes(p)
  <2>0. p \in Supervisors /\ UNCHANGED launches /\ p \in Procs /\ UNCHANGED gate
    BY <1>5, JobWrites DEF Writes, spendVars
  <2>1. CASE pc[p] = "selected" \/ pc[p] \in {"ran", "blocked"}
    <3>1. /\ sel[p] \in Jobs /\ sel' = sel
          /\ \E s \in {"running", "done", "failed"} : SetStatus(sel[p], s)
          /\ pc[p] = "selected" \/ pc'[p] = "finished"
      BY <1>5, <2>0, <2>1, JobWrites
    <3>2. \A j \in Jobs : job'[j] = job[j] \/ job'[j].status \in {"running", "done", "failed"}
      BY <3>1, JobTypes
    <3>3. QED BY <1>1, <2>0, <3>1, <3>2 DEF MayLaunch
  <2>2. CASE pc[p] \in {"marked", "finished"}
    <3>1. /\ UNCHANGED job
          /\ \/ pc[p] = "marked" /\ pc'[p] = "launching" /\ sel' = sel
             \/ pc'[p] = "idle"
      BY <1>5, <2>0, <2>2, JobWrites
    <3>2. QED BY <1>1, <2>0, <3>1 DEF MayLaunch
  <2>3. QED BY <1>5, <2>0, <2>1, <2>2, JobWrites
<1>6. CASE LetThrough(p)
  <2>1. /\ UNCHANGED <<job, pc, sel>>
        /\ gate[p] # "in" /\ gate'[p] = "in"
        /\ p \in Supervisors =>
              pc[p] = "launching" /\ launches' = [launches EXCEPT ![sel[p]] = @ + 1]
        /\ p \notin Supervisors => UNCHANGED launches
    BY <1>6, LaunchEffects
  <2>2. CASE p \notin Supervisors
    BY <1>1, <2>1, <2>2 DEF MayLaunch
  <2>3. CASE p \in Supervisors
    <3>1. sel[p] \in Jobs /\ job[sel[p]].status \notin {"absent", "queued"}
      BY <2>1, <2>3, HostAssumption DEF SelectedExist, Working, HostTypeOK, Jobs
    <3>2. ASSUME NEW j \in Jobs, j # sel[p] PROVE LaunchesFor(j)'
      <4>1. MayLaunch(j)' \subseteq MayLaunch(j)
        BY <2>1, <3>2, Names DEF Moves, MayLaunch
      <4>2. launches'[j] = launches[j]
        BY <2>1, <2>3, <3>2 DEF HostTypeOK
      <4>3. QED BY <2>1, <4>1, <4>2, LaunchesKept DEF LaunchesInv
    <3>3. LaunchesFor(sel[p])'
      <4> DEFINE j == sel[p]
      <4>1. MayLaunch(j) \in SUBSET Supervisors /\ p \in MayLaunch(j)
        BY <2>1, <2>3 DEF MayLaunch
      <4>2. {q \in Supervisors : /\ pc'[q] \in {"selected", "marked", "launching"}
                                 /\ sel'[q] = j /\ gate'[q] # "in"} = MayLaunch(j) \ {p}
        BY <2>1, Names DEF Moves, MayLaunch
      <4>3. Cardinality(MayLaunch(j) \ {p}) = Cardinality(MayLaunch(j)) - 1
            /\ Cardinality(MayLaunch(j)) \in Nat
        BY <4>1, FewSupervisors
      <4>4. launches'[j] = launches[j] + 1 /\ launches[j] \in Nat
        BY <2>1, <2>3, <3>1 DEF HostTypeOK
      <4>5. launches[j] + Cardinality(MayLaunch(j)) <= Cardinality(Supervisors)
        BY <3>1 DEF LaunchesInv, LaunchesFor
      <4>6. launches'[j] + Cardinality(MayLaunch(j) \ {p}) <= Cardinality(Supervisors)
        BY <4>3, <4>4, <4>5, FewSupervisors
      <4>7. sel' = sel /\ job' = job
        BY <2>1
      <4>8. QED BY <3>1, <4>2, <4>6, <4>7 DEF LaunchesFor, MayLaunch
    <3>4. QED BY <2>1, <3>2, <3>3 DEF LaunchesInv
  <2>4. QED BY <2>2, <2>3
<1>7. CASE GiveBack(p)
  BY <1>1, <1>7, ChildOver DEF MayLaunch
<1>8. CASE Faulty(p)
  <2>1. /\ UNCHANGED <<job, launches>>
        /\ p \in Supervisors =>
              \/ pc'[p] \notin {"selected", "marked", "launching"}
              \/ sel'[p] = sel[p] /\ pc[p] = "marked" /\ pc'[p] = "launching"
    BY <1>8, FaultEffects DEF Working
  <2>2. p \in Supervisors /\ pc[p] = "marked" => gate[p] # "in"
    BY DEF GateMatches, AtGate
  <2>3. QED BY <1>1, <2>1, <2>2 DEF MayLaunch
<1>9. CASE p \in Supervisors /\ StartChild(p)
  BY <1>1, <1>9, StartEffects DEF MayLaunch
<1>10. QED BY <1>2, <1>3, <1>4, <1>5, <1>6, <1>7, <1>8, <1>9 DEF ProcessStep

(* Leaks *)

LEMMA FewLost ==
  ASSUME HostTypeOK
  PROVE  /\ IsFiniteSet(LostJobs) /\ Cardinality(LostJobs) \in Nat
         /\ IsFiniteSet(LostPermits) /\ Cardinality(LostPermits) \in Nat
         /\ faults \in Nat
<1>1. IsFiniteSet(Jobs) /\ LostJobs \subseteq Jobs
  BY FS_Interval, HostAssumption DEF LostJobs, Jobs
<1>2. LostPermits \subseteq Permits
  BY DEF LostPermits, HostTypeOK, SpendTypeOK
<1>3. QED
  BY <1>1, <1>2, FS_Subset, FS_CardinalityType, SpendAssumption, HostAssumption DEF HostTypeOK

LEMMA LostKept ==
  ASSUME HostTypeOK, HostTypeOK', LostInv, faults' = faults,
         LostJobs' \subseteq LostJobs, LostPermits' \subseteq LostPermits
  PROVE  LostInv'
<1>1. Cardinality(LostJobs') <= Cardinality(LostJobs) /\ Cardinality(LostJobs') \in Nat
  BY FewLost, FS_Subset, FS_CardinalityType
<1>2. Cardinality(LostPermits') <= Cardinality(LostPermits) /\ Cardinality(LostPermits') \in Nat
  BY FewLost, FS_Subset, FS_CardinalityType
<1>3. Cardinality(LostJobs') <= faults' /\ Cardinality(LostPermits') <= faults'
  BY <1>1, <1>2, FewLost DEF LostInv
<1>4. QED BY <1>3 DEF LostInv

LEMMA LostOneMore ==
  ASSUME HostTypeOK, HostTypeOK', LostInv, faults' = faults + 1, NEW x, NEW r,
         LostJobs' \subseteq LostJobs \cup {x}, LostPermits' \subseteq LostPermits \cup {r}
  PROVE  LostInv'
<1>1. ASSUME NEW S, IsFiniteSet(S), NEW y, NEW T, T \subseteq S \cup {y},
             Cardinality(S) <= faults
      PROVE  Cardinality(T) <= faults + 1
  <2>1. IsFiniteSet(S \cup {y})
        /\ Cardinality(S \cup {y}) = IF y \in S THEN Cardinality(S) ELSE Cardinality(S) + 1
    BY <1>1, FS_AddElement
  <2>2. Cardinality(T) <= Cardinality(S \cup {y}) /\ Cardinality(T) \in Nat
    BY <1>1, <2>1, FS_Subset, FS_CardinalityType
  <2>3. Cardinality(S) \in Nat /\ faults \in Nat
    BY <1>1, FewLost, FS_CardinalityType
  <2>4. QED BY <1>1, <2>1, <2>2, <2>3
<1>2. Cardinality(LostJobs') <= faults' /\ Cardinality(LostPermits') <= faults'
  BY <1>1, FewLost DEF LostInv
<1>3. QED BY <1>2 DEF LostInv

BusyWith(p, j) == p \in Supervisors /\ sel[p] = j /\ pc[p] \in Busied

LEMMA LostJobsStep ==
  ASSUME OverlapInv, NEW p \in Procs, ProcessStep(p), Moves(p), ~Faulty(p)
  PROVE  LostJobs' \subseteq LostJobs /\ UNCHANGED faults
<1> USE DEF OverlapInv
<1>1. ASSUME \A j \in Jobs : job'[j].status = "running" =>
                \/ BusyWith(p, j)'
                \/ job[j].status = "running" /\ ~BusyWith(p, j)
      PROVE  LostJobs' \subseteq LostJobs
  BY <1>1, Names DEF LostJobs, Moves, BusyWith
<1>2. ASSUME p \in Triggers, NEW t \in Types, Trigger(p, t)
      PROVE  LostJobs' \subseteq LostJobs /\ UNCHANGED faults
  <2>1. pc[p] = "idle" /\ UNCHANGED faults
    BY <1>2 DEF Trigger
  <2>2. \A j \in Jobs : job'[j] = job[j] \/ job'[j].status = "queued"
    BY <1>2 DEF Trigger, HostTypeOK
  <2>3. QED BY <1>1, <2>1, <2>2 DEF BusyWith, Busied
<1>3. CASE Plain(p)
  <2>1. /\ UNCHANGED <<job, faults>>
        /\ p \in Supervisors =>
             \/ pc[p] \notin Working
             \/ pc'[p] \in {"launching", "blocked"} /\ sel'[p] = sel[p]
    BY <1>3, PlainSteps DEF Plain
  <2>2. QED BY <1>1, <2>1 DEF BusyWith, Busied, Working
<1>4. CASE Takes(p)
  BY <1>1, <1>4 DEF Takes, SelectJob, BusyWith, Busied
<1>5. CASE Writes(p)
  <2>0. p \in Supervisors /\ UNCHANGED faults
    BY <1>5, JobWrites DEF Writes
  <2>1. CASE pc[p] = "selected"
    <3>1. sel[p] \in Jobs /\ sel' = sel /\ SetStatus(sel[p], "running") /\ pc'[p] = "marked"
      BY <1>5, <2>0, <2>1, JobWrites
    <3>2. \A j \in Jobs : j # sel[p] => job'[j] = job[j]
      BY <3>1, JobTypes
    <3>3. QED BY <1>1, <2>0, <2>1, <3>1, <3>2 DEF BusyWith, Busied
  <2>2. CASE pc[p] = "marked"
    <3>1. sel' = sel /\ UNCHANGED job /\ pc'[p] = "launching"
      BY <1>5, <2>0, <2>2, JobWrites
    <3>2. QED BY <1>1, <2>0, <3>1 DEF BusyWith, Busied
  <2>3. CASE pc[p] \in {"ran", "blocked"}
    <3>1. sel[p] \in Jobs /\ \E s \in {"done", "failed"} : SetStatus(sel[p], s)
      BY <1>5, <2>0, <2>3, JobWrites
    <3>2. \A j \in Jobs : /\ j # sel[p] => job'[j] = job[j]
                          /\ j = sel[p] => job'[j].status # "running"
      BY <3>1, JobTypes
    <3>3. QED BY <1>1, <2>0, <3>2 DEF BusyWith
  <2>4. CASE pc[p] = "finished"
    <3>1. UNCHANGED job
      BY <1>5, <2>0, <2>4, JobWrites
    <3>2. QED BY <1>1, <2>0, <2>4, <3>1 DEF BusyWith, Busied
  <2>5. QED BY <1>5, <2>0, <2>1, <2>2, <2>3, <2>4, JobWrites
<1>6. CASE LetThrough(p)
  <2>1. UNCHANGED <<job, pc, sel, faults>>
    BY <1>6, LaunchEffects
  <2>2. QED BY <1>1, <2>1 DEF BusyWith
<1>7. CASE GiveBack(p)
  BY <1>1, <1>7, ChildOver DEF BusyWith, Busied
<1>8. CASE p \in Supervisors /\ StartChild(p)
  <2>1. UNCHANGED <<job, sel, faults>> /\ pc'[p] \in Busied
    BY <1>8, StartEffects DEF Busied
  <2>2. QED BY <1>1, <1>8, <2>1 DEF BusyWith
<1>9. QED BY <1>2, <1>3, <1>4, <1>5, <1>6, <1>7, <1>8 DEF ProcessStep

LEMMA LostPermitsStep ==
  ASSUME OverlapInv, NEW p \in Procs, ProcessStep(p), ~Faulty(p)
  PROVE  LostPermits' \subseteq LostPermits
<1> USE DEF OverlapInv
<1>1. ASSUME UNCHANGED <<active, permit>> PROVE LostPermits' \subseteq LostPermits
  BY <1>1 DEF LostPermits
<1>2. ASSUME p \in Triggers, NEW t \in Types, Trigger(p, t) PROVE UNCHANGED <<active, permit>>
  BY <1>2 DEF Trigger, spendVars
<1>3. CASE Plain(p)
  BY <1>1, <1>3, PlainSteps DEF Plain
<1>4. CASE Takes(p)
  BY <1>1, <1>4 DEF Takes, SelectJob, spendVars
<1>5. CASE Writes(p)
  BY <1>1, <1>5, JobWrites DEF Writes, spendVars
<1>6. CASE LetThrough(p)
  <2>1. PICK r \in Permits : active' = active \cup {r} /\ permit' = [permit EXCEPT ![p] = r]
    BY <1>6, LaunchEffects
  <2>2. permit[p] = NoPermit /\ NoPermit \notin active
    BY <1>6, LaunchEffects, SpendAssumption DEF HostTypeOK, SpendTypeOK
  <2>3. permit'[p] = r /\ \A q \in Procs : q # p => permit'[q] = permit[q]
    BY <2>1 DEF HostTypeOK, SpendTypeOK
  <2>4. QED BY <2>1, <2>2, <2>3 DEF LostPermits
<1>7. CASE GiveBack(p)
  <2>1. active' = active \ {permit[p]} /\ permit' = [permit EXCEPT ![p] = NoPermit]
    BY <1>7, ChildOver
  <2>2. \A q \in Procs : q # p => permit'[q] = permit[q]
    BY <2>1 DEF HostTypeOK, SpendTypeOK
  <2>3. QED BY <2>1, <2>2 DEF LostPermits
<1>8. CASE p \in Supervisors /\ StartChild(p)
  BY <1>1, <1>8, StartEffects
<1>9. QED BY <1>2, <1>1, <1>3, <1>4, <1>5, <1>6, <1>7, <1>8 DEF ProcessStep

(* A fault loses the job that its process was busy with, and the permit.     *)
LEMMA FaultLoses ==
  ASSUME OverlapInv, NEW p \in Procs, Faulty(p), Moves(p)
  PROVE  /\ faults' = faults + 1
         /\ \E j : LostJobs' \subseteq LostJobs \cup {j}
         /\ \E r : LostPermits' \subseteq LostPermits \cup {r}
<1> USE DEF OverlapInv
<1>1. /\ UNCHANGED <<job, active>> /\ faults' = faults + 1
      /\ UNCHANGED permit \/ permit' = [permit EXCEPT ![p] = NoPermit]
  BY FaultEffects
<1>2. LostJobs' \subseteq LostJobs \cup {sel[p]}
  BY <1>1, Names DEF LostJobs, Moves
<1>3. \A q \in Procs : q # p => permit'[q] = permit[q]
  BY DEF Moves
<1>4. LostPermits' \subseteq LostPermits \cup {permit[p]}
  BY <1>1, <1>3 DEF LostPermits
<1>5. QED BY <1>1, <1>2, <1>4

(* A command makes a slot busy only by copying its row.                      *)
LEMMA CommandSlots ==
  ASSUME HostTypeOK, Commands
  PROVE  \A t \in Types : slot'[t] = "busy" =>
           t \in copied' \/ (slot[t] = "busy" /\ (t \in copied => t \in copied'))
<1>1. CASE ServeStarts \/ ServeEnds
  BY <1>1 DEF ServeStarts, ServeEnds
<1>2. CASE Lookup \/ SaveSession
  BY <1>2 DEF Lookup, SaveSession, Copied
<1>3. CASE RestoreSession
  BY <1>3 DEF RestoreSession
<1>4. ASSUME NEW u \in Types, StopSlot(u)
      PROVE  \A t \in Types : slot'[t] = "busy" =>
               t \in copied' \/ (slot[t] = "busy" /\ (t \in copied => t \in copied'))
  <2>1. PICK types \in SUBSET Recorded(records) :
          /\ slot' = [Copied(records, types) EXCEPT ![u] = "terminated"]
          /\ copied' = (copied \cup types) \ {u}
    BY <1>4 DEF StopSlot
  <2>2. QED BY <2>1 DEF Copied
<1>5. QED BY <1>1, <1>2, <1>3, <1>4 DEF Commands

LEMMA OverlapStep == OverlapInv /\ [HostNext]_vars => OverlapInv'
<1> SUFFICES ASSUME OverlapInv, [HostNext]_vars PROVE OverlapInv'
  OBVIOUS
<1>1. HostTypeOK' /\ GateInv' /\ GateMatches'
  BY HostTypeStep, GateStep, GatePlaceStep DEF OverlapInv
<1>2. ASSUME NEW p \in Procs, ProcessStep(p), Moves(p) PROVE OverlapInv'
  <2>1. SelectedExist' /\ SlotsInv' /\ LaunchesInv'
    BY <1>1, <1>2, SelectedStep, SlotsStep, LaunchesStep
  <2>2. LostInv'
    <3>1. CASE Faulty(p)
      <4>1. PICK j : LostJobs' \subseteq LostJobs \cup {j}
        BY <1>2, <3>1, FaultLoses
      <4>2. PICK r : LostPermits' \subseteq LostPermits \cup {r}
        BY <1>2, <3>1, FaultLoses
      <4>3. faults' = faults + 1
        BY <1>2, <3>1, FaultLoses
      <4>4. QED BY <1>1, <4>1, <4>2, <4>3, LostOneMore DEF OverlapInv
    <3>2. CASE ~Faulty(p)
      <4>1. LostJobs' \subseteq LostJobs /\ faults' = faults
        BY <1>2, <3>2, LostJobsStep
      <4>2. LostPermits' \subseteq LostPermits
        BY <1>2, <3>2, LostPermitsStep
      <4>3. QED BY <1>1, <4>1, <4>2, LostKept DEF OverlapInv
    <3>3. QED BY <3>1, <3>2
  <2>3. QED BY <1>1, <2>1, <2>2 DEF OverlapInv
<1>3. ASSUME Outside \/ UNCHANGED vars PROVE OverlapInv'
  <2>1. UNCHANGED hostVars /\ UNCHANGED <<gate, active, permit>>
    BY <1>3 DEF Outside, Pause, Resume, SpendTick, vars, spendVars
  <2>2. SelectedExist' /\ SlotsInv'
    BY <2>1 DEF OverlapInv, SelectedExist, SlotsInv, Occupies, hostVars
  <2>3. LaunchesInv'
    BY <2>1 DEF OverlapInv, LaunchesInv, LaunchesFor, MayLaunch, hostVars
  <2>4. LostInv'
    BY <2>1 DEF OverlapInv, LostInv, LostJobs, LostPermits, hostVars
  <2>5. QED BY <1>1, <2>2, <2>3, <2>4 DEF OverlapInv
<1>4. ASSUME Commands PROVE OverlapInv'
  <2>1. UNCHANGED <<created, job, pc, sel, launches, faults, gate, active, permit>>
    BY <1>4, CommandsApart DEF spendVars
  <2>2. SelectedExist'
    BY <2>1 DEF OverlapInv, SelectedExist
  <2>3. SlotsInv'
    <3>1. \A t \in Types : slot'[t] = "busy" =>
            t \in copied' \/ (slot[t] = "busy" /\ (t \in copied => t \in copied'))
      BY <1>4, CommandSlots DEF OverlapInv
    <3>2. QED BY <2>1, <3>1 DEF OverlapInv, SlotsInv, Occupies
  <2>4. LaunchesInv'
    BY <2>1 DEF OverlapInv, LaunchesInv, LaunchesFor, MayLaunch
  <2>5. LostInv'
    BY <2>1 DEF OverlapInv, LostInv, LostJobs, LostPermits
  <2>6. QED BY <1>1, <2>2, <2>3, <2>4, <2>5 DEF OverlapInv
<1>5. QED BY <1>2, <1>3, <1>4, ProcessSteps DEF OverlapInv

LEMMA OverlapInit == HostInit => OverlapInv
<1> SUFFICES ASSUME HostInit PROVE OverlapInv
  OBVIOUS
<1>1. HostTypeOK /\ GateInv
  BY InitTypes, InitGate
<1>2. /\ \A p \in Procs : pc[p] = "idle" /\ gate[p] = "out" /\ permit[p] = NoPermit
      /\ \A j \in Jobs : job[j].status = "absent" /\ launches[j] = 0
      /\ \A t \in Types : slot[t] = "absent"
      /\ active = {} /\ faults = 0
  BY DEF HostInit, SpendInit
<1>3. GateMatches /\ SelectedExist /\ SlotsInv
  BY <1>2, Names DEF GateMatches, AtGate, SelectedExist, SlotsInv, Working
<1>4. LaunchesInv
  <2>1. ASSUME NEW j \in Jobs PROVE LaunchesFor(j)
    <3>1. MayLaunch(j) = {}
      BY <1>2, Names DEF MayLaunch
    <3>2. Cardinality(MayLaunch(j)) = 0
      BY <3>1, FS_EmptySet
    <3>3. QED BY <1>2, <3>2, FewSupervisors DEF LaunchesFor
  <2>2. QED BY <2>1 DEF LaunchesInv
<1>5. LostInv
  <2>1. LostJobs = {} /\ LostPermits = {}
    BY <1>2 DEF LostJobs, LostPermits
  <2>2. QED BY <1>2, <2>1, FS_EmptySet DEF LostInv
<1>6. QED BY <1>1, <1>3, <1>4, <1>5 DEF OverlapInv

(* The inductive invariant of supervisors that overlap.                      *)
THEOREM OverlapInvariance == HostSpec => []OverlapInv
BY OverlapInit, OverlapStep, PTL DEF HostSpec

(* Supervisors that overlap start a job's AI child no more often than there  *)
(* are supervisors, whatever dies or fails in the middle of their steps.     *)
THEOREM JobsLaunchedOncePerSupervisor == HostSpec => []LaunchedOncePerSupervisor
<1>1. ASSUME OverlapInv, NEW j \in Jobs PROVE launches[j] <= Cardinality(Supervisors)
  <2>1. MayLaunch(j) \in SUBSET Supervisors
    BY DEF MayLaunch
  <2>2. launches[j] + Cardinality(MayLaunch(j)) <= Cardinality(Supervisors)
        /\ launches[j] \in Nat
    BY <1>1 DEF OverlapInv, LaunchesInv, LaunchesFor, HostTypeOK
  <2>3. QED BY <2>1, <2>2, FewSupervisors
<1>2. OverlapInv => LaunchedOncePerSupervisor
  BY <1>1 DEF LaunchedOncePerSupervisor
<1>3. QED BY <1>2, OverlapInvariance, PTL

(* Jobs that stay running, and permits that stay active, with nobody at work *)
(* on them, are no more than the deaths and failed statements.               *)
THEOREM LeaksAreFaults == HostSpec => []LeaksOnlyByFault
<1>1. ASSUME OverlapInv PROVE LeaksOnlyByFault
  <2> DEFINE Leaked == {j \in Jobs : job[j].status = "running" /\ ~WorkedOn(j)}
  <2>1. Leaked \subseteq LostJobs
    BY DEF LostJobs, WorkedOn, Busied
  <2>2. Cardinality(Leaked) <= Cardinality(LostJobs) /\ Cardinality(Leaked) \in Nat
    BY <1>1, <2>1, FewLost, FS_Subset, FS_CardinalityType DEF OverlapInv
  <2>3. Cardinality(Leaked) <= faults
    BY <1>1, <2>2, FewLost DEF OverlapInv, LostInv
  <2>4. Cardinality(active \ {permit[p] : p \in Procs}) <= faults
    BY <1>1 DEF OverlapInv, LostInv, LostPermits
  <2>5. QED BY <2>3, <2>4 DEF LeaksOnlyByFault
<1>2. QED BY <1>1, OverlapInvariance, PTL

(* A slot is busy only for a job being worked on, after a fault, or since    *)
(* its row was written from a saved session or from a JSON record.           *)
THEOREM BusySlotsWork == HostSpec => []BusyMeansWork
<1>1. OverlapInv => BusyMeansWork
  BY DEF OverlapInv, SlotsInv, Occupies, BusyMeansWork, SelectedExist, Working, HostTypeOK
<1>2. QED BY <1>1, OverlapInvariance, PTL
==============================================================================
