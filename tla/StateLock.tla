------------------------------ MODULE StateLock ------------------------------
(***************************************************************************)
(* The service state files of ruflo-cli (crates/ruflo-cli/src/services).   *)
(* Every service keeps its state in <name>.json and guards each read-      *)
(* modify-write with an O_EXCL lock file <name>.lock (LockGuard).  The     *)
(* callers are separate CLI processes: they interleave at every system     *)
(* call, crash anywhere, and find what another one left on disk.           *)
(*                                                                         *)
(* A lock file older than StaleAge is taken for the leftover of a crash    *)
(* and removed; a caller gives up after WaitLimit.  Time is relative: the  *)
(* age of the lock file and one timer per call, all saturating, so no      *)
(* bound on the clock is needed.                                           *)
(***************************************************************************)
EXTENDS Naturals, FiniteSets

CONSTANTS
  Procs,      \* slots for processes; a slot whose process crashed is reused
  Updates,    \* the changes callers ask for; bounds the number of calls
  StaleAge,   \* LOCK_STALE_MS, in ticks
  WaitLimit,  \* the 2000 ms a caller waits for the lock, in ticks
  HoldLimit,  \* TIMING ASSUMPTION of Timely: longest critical section, in ticks
  NoFile,     \* no such file
  Dead,       \* the creator of the lock file has crashed
  Garbage     \* bytes that are not a complete JSON document

ASSUME LimitsAssumption ==
  /\ StaleAge \in Nat
  /\ WaitLimit \in Nat
  /\ HoldLimit \in Nat
  /\ HoldLimit + WaitLimit + 1 <= StaleAge

ASSUME NamesAssumption ==
  /\ NoFile \notin Procs
  /\ Dead \notin Procs
  /\ NoFile # Dead
  /\ NoFile # Garbage
  /\ NoFile \notin Updates
  /\ Garbage \notin Updates

ASSUME UpdatesAssumption == Updates # {}

\* The content of a file is the set of changes in it, or one of these.
Torn   == {Garbage}
Absent == {NoFile}

VARIABLES
  lockOwner,  \* creator of the lock file, Dead, or NoFile
  lockAge,    \* ticks since the lock file was created
  pc,         \* where each process is in its call of locked_write
  timer,      \* ticks since the call began, or since it got the lock
  upd,        \* the change the call applies
  local,      \* the state the call has read and changed
  blind,      \* whether the read of that state failed
  tmp,        \* <name>.json.tmp, one name shared by every process
  store,      \* <name>.json
  acked       \* the changes whose call returned true

vars == <<lockOwner, lockAge, pc, timer, upd, local, blind, tmp, store, acked>>
fileVars == <<tmp, store>>
lockVars == <<lockOwner, lockAge>>

Contending == {"trying", "removing"}
Critical   == {"locked", "editing", "writing", "renaming", "stored", "failed"}
TimerCap   == WaitLimit + HoldLimit + 1

TypeOK ==
  /\ lockOwner \in Procs \cup {Dead, NoFile}
  /\ lockAge \in 0..(StaleAge + 1)
  /\ pc \in [Procs -> {"idle"} \cup Contending \cup Critical]
  /\ timer \in [Procs -> 0..TimerCap]
  /\ upd \in [Procs -> Updates]
  /\ local \in [Procs -> SUBSET Updates]
  /\ blind \in [Procs -> BOOLEAN]
  /\ tmp \in {Absent, Torn} \cup SUBSET Updates
  /\ store \in {Torn} \cup SUBSET Updates
  /\ acked \subseteq Updates

Init ==
  /\ lockOwner = NoFile
  /\ lockAge = 0
  /\ pc = [p \in Procs |-> "idle"]
  /\ timer = [p \in Procs |-> 0]
  /\ upd \in [Procs -> {CHOOSE u \in Updates : TRUE}]
  /\ local = [p \in Procs |-> {}]
  /\ blind = [p \in Procs |-> FALSE]
  /\ tmp = Absent
  /\ store = {}
  /\ acked = {}

Goto(p, label) == pc' = [pc EXCEPT ![p] = label]

\* The call is over, by return or crash: its local variables are gone.
Leave(p) ==
  /\ Goto(p, "idle")
  /\ timer' = [timer EXCEPT ![p] = 0]
  /\ local' = [local EXCEPT ![p] = {}]
  /\ blind' = [blind EXCEPT ![p] = FALSE]

\* A change that no call is applying and that was not applied before.
Unused(u) ==
  /\ store # Torn => u \notin store
  /\ u \notin acked
  /\ \A q \in Procs : pc[q] # "idle" => upd[q] # u

------------------------------------------------------------------------------
(* LockGuard::acquire *)

\* A process calls locked_write; the deadline is set.
Begin(p, u) ==
  /\ pc[p] = "idle"
  /\ Unused(u)
  /\ Goto(p, "trying")
  /\ timer' = [timer EXCEPT ![p] = 0]
  /\ upd' = [upd EXCEPT ![p] = u]
  /\ UNCHANGED <<lockVars, fileVars, local, blind, acked>>

\* open_create_new_private succeeds: O_EXCL, so only when no file is there.
Create(p) ==
  /\ pc[p] = "trying"
  /\ lockOwner = NoFile
  /\ lockOwner' = p
  /\ lockAge' = 0
  /\ Goto(p, "locked")
  /\ timer' = [timer EXCEPT ![p] = 0]
  /\ UNCHANGED <<fileVars, upd, local, blind, acked>>

\* FAULT: the threshold is the waiting time of a caller.
SeeStaleTooEarly(p) ==
  /\ pc[p] = "trying"
  /\ lockOwner # NoFile
  /\ lockAge > WaitLimit
  /\ Goto(p, "removing")
  /\ UNCHANGED <<lockVars, fileVars, timer, upd, local, blind, acked>>

\* The file is there and its age is over the threshold.  The file is only
\* named by its path from here on: nothing ties the removal to this file.
SeeStale(p) ==
  /\ pc[p] = "trying"
  /\ lockOwner # NoFile
  /\ lockAge > StaleAge
  /\ Goto(p, "removing")
  /\ UNCHANGED <<lockVars, fileVars, timer, upd, local, blind, acked>>

\* The removal fails, its result is ignored, and the loop goes on.
RemoveFails(p) ==
  /\ pc[p] = "removing"
  /\ Goto(p, "trying")
  /\ UNCHANGED <<lockVars, fileVars, timer, upd, local, blind, acked>>

\* fs::remove_file on whatever now has the lock's name, result ignored; then
\* back to the head of the loop without a look at the deadline.
RemoveStale(p) ==
  /\ pc[p] = "removing"
  /\ lockOwner' = NoFile
  /\ lockAge' = 0
  /\ Goto(p, "trying")
  /\ UNCHANGED <<fileVars, timer, upd, local, blind, acked>>

\* FAULT: the deadline is computed anew in every round of the loop.
GiveUpNever(p) ==
  /\ FALSE
  /\ UNCHANGED vars

\* The file is there, not stale, and the deadline has passed: None, and
\* locked_write returns false.  (A caller before its deadline sleeps.)
GiveUp(p) ==
  /\ pc[p] = "trying"
  /\ lockOwner # NoFile
  /\ lockAge <= StaleAge
  /\ timer[p] > WaitLimit
  /\ Leave(p)
  /\ UNCHANGED <<lockVars, fileVars, upd, acked>>

\* Creating the file fails for another reason (permissions, disk full): None
\* at once.
CreateFails(p) ==
  /\ pc[p] = "trying"
  /\ Leave(p)
  /\ UNCHANGED <<lockVars, fileVars, upd, acked>>

------------------------------------------------------------------------------
(* locked_write with the guard held: read_state, f, write_state *)

\* FAULT: a file that parses is taken for an empty state as well.
ReadStateEmpty(p) ==
  /\ pc[p] = "locked"
  /\ local' = [local EXCEPT ![p] = {upd[p]}]
  /\ Goto(p, "editing")
  /\ UNCHANGED <<lockVars, fileVars, timer, upd, blind, acked>>

\* read_state turns a file that does not parse into an empty state.
ReadState(p) ==
  /\ pc[p] = "locked"
  /\ local' = [local EXCEPT ![p] =
                 (IF store = Torn THEN {} ELSE store) \cup {upd[p]}]
  /\ Goto(p, "editing")
  /\ UNCHANGED <<lockVars, fileVars, timer, upd, blind, acked>>

\* read_to_string itself fails (permissions, I/O, bytes that are not UTF-8),
\* and read_state takes that for an empty state too.
ReadFails(p) ==
  /\ pc[p] = "locked"
  /\ local' = [local EXCEPT ![p] = {upd[p]}]
  /\ blind' = [blind EXCEPT ![p] = TRUE]
  /\ Goto(p, "editing")
  /\ UNCHANGED <<lockVars, fileVars, timer, upd, acked>>

\* fs::write opens the temporary file with truncation ...
TruncateTmp(p) ==
  /\ pc[p] = "editing"
  /\ tmp' = Torn
  /\ Goto(p, "writing")
  /\ UNCHANGED <<lockVars, timer, upd, local, blind, store, acked>>

\* ... and then writes the bytes.
FillTmp(p) ==
  /\ pc[p] = "writing"
  /\ tmp' = local[p]
  /\ Goto(p, "renaming")
  /\ UNCHANGED <<lockVars, timer, upd, local, blind, store, acked>>

\* fs::write or fs::rename fails (disk full, permissions): write_state is false.
WriteFails(p) ==
  /\ pc[p] \in {"editing", "writing", "renaming"}
  /\ Goto(p, "failed")
  /\ UNCHANGED <<lockVars, fileVars, timer, upd, local, blind, acked>>

\* fs::rename installs whatever the shared temporary name holds; it fails
\* when another process has renamed that file first.
Rename(p) ==
  /\ pc[p] = "renaming"
  /\ store' = IF tmp = Absent THEN store ELSE tmp
  /\ tmp' = Absent
  /\ Goto(p, IF tmp = Absent THEN "failed" ELSE "stored")
  /\ UNCHANGED <<lockVars, timer, upd, local, blind, acked>>

\* FAULT: the result of write_state is ignored.
DropUnchecked(p) ==
  /\ pc[p] \in {"stored", "failed"}
  /\ lockOwner' = NoFile
  /\ lockAge' = 0
  /\ acked' = acked \cup {upd[p]}
  /\ Leave(p)
  /\ UNCHANGED <<fileVars, upd>>

\* Drop of the guard removes the lock's path, whoever created the file, and
\* locked_write returns.
Drop(p) ==
  /\ pc[p] \in {"stored", "failed"}
  /\ lockOwner' = NoFile
  /\ lockAge' = 0
  /\ acked' = IF pc[p] = "stored" THEN acked \cup {upd[p]} ELSE acked
  /\ Leave(p)
  /\ UNCHANGED <<fileVars, upd>>

------------------------------------------------------------------------------
(* The environment *)

\* The process dies; what it left on disk stays.
Crash(p) ==
  /\ pc[p] # "idle"
  /\ Leave(p)
  /\ lockOwner' = IF lockOwner = p THEN Dead ELSE lockOwner
  /\ UNCHANGED <<lockAge, fileVars, upd, acked>>

\* Time passes for the lock file and for every call in progress.
Tick ==
  /\ lockAge' = IF lockOwner # NoFile /\ lockAge <= StaleAge
                THEN lockAge + 1 ELSE lockAge
  /\ timer' = [p \in Procs |->
                 IF pc[p] # "idle" /\ timer[p] < TimerCap
                 THEN timer[p] + 1 ELSE timer[p]]
  /\ UNCHANGED <<lockOwner, fileVars, pc, upd, local, blind, acked>>

\* What the code of one process does next when no system call fails.
Progress(p) ==
  \/ Create(p)
  \/ SeeStale(p)
  \/ RemoveStale(p)
  \/ GiveUp(p)
  \/ ReadState(p)
  \/ TruncateTmp(p)
  \/ FillTmp(p)
  \/ Rename(p)
  \/ Drop(p)

\* What it does next when one fails.
Failure(p) ==
  \/ RemoveFails(p)
  \/ CreateFails(p)
  \/ ReadFails(p)
  \/ WriteFails(p)

Step(p) == Progress(p) \/ Failure(p)

Next ==
  \/ \E p \in Procs, u \in Updates : Begin(p, u)
  \/ \E p \in Procs : Step(p)
  \/ \E p \in Procs : Crash(p)
  \/ Tick

Spec == Init /\ [][Next]_vars

------------------------------------------------------------------------------
(* Timing and usage assumptions under which the lock is sound *)

\* No process is suspended: a caller past its deadline has given up, and a
\* holder past HoldLimit has dropped the lock, before time moves on.
Prompt ==
  \A p \in Procs :
    /\ pc[p] \in Contending => timer[p] <= WaitLimit
    /\ pc[p] \in Critical => timer[p] < HoldLimit

\* After a crash the leftover lock is met by one caller at a time.
SoloRecovery ==
  lockOwner = Dead => \A q \in Procs : pc[q] \notin Contending

PromptTick == Tick /\ Prompt

TimelyNext ==
  \/ \E p \in Procs, u \in Updates : Begin(p, u) /\ SoloRecovery
  \/ \E p \in Procs : Step(p)
  \/ \E p \in Procs : Crash(p)
  \/ PromptTick

TimelySpec == Init /\ [][TimelyNext]_vars

\* The same without SoloRecovery: two callers may meet the leftover lock.
PromptNext ==
  \/ \E p \in Procs, u \in Updates : Begin(p, u)
  \/ \E p \in Procs : Step(p)
  \/ \E p \in Procs : Crash(p)
  \/ PromptTick

PromptSpec == Init /\ [][PromptNext]_vars

\* The operating system runs every process and the clock advances.  Failing
\* system calls, crashes and new calls are under no obligation.  ASSUMPTION: a
\* removal that is tried again and again succeeds in the end; the loop tries
\* it without a pause and without a look at the deadline.
Fairness ==
  /\ \A p \in Procs : WF_vars(Progress(p)) /\ SF_vars(RemoveStale(p))
  /\ WF_vars(PromptTick)

FairTimelySpec == TimelySpec /\ Fairness

------------------------------------------------------------------------------
(* Properties *)

InCritical(p) == pc[p] \in Critical

\* At most one process is between its LockGuard::acquire and the end of the
\* guard, over the takeover of leftover locks and crashes anywhere.
MutualExclusion ==
  \A p, q \in Procs : InCritical(p) /\ InCritical(q) => p = q

\* The comment on locked_write: "The lock is held for the entire cycle,
\* preventing the lost-update race".  A caller is told true only of a change
\* that is in the state file then, and such a change leaves the file only
\* when a caller whose own read failed installs the state it began anew: never
\* by a race, a crash or a failed write.
NoLostUpdate ==
  [][/\ acked' \ acked \subseteq store
     /\ \A u \in acked : u \in store /\ u \notin store' =>
          \E p \in Procs : pc[p] = "renaming" /\ pc'[p] = "stored" /\ blind[p]]_vars

\* Every call of locked_write returns by taking the lock, by its deadline or
\* over the leftover of a crash, though others keep taking the lock before it
\* and their writes keep failing.
CallReturns == \A p \in Procs : pc[p] # "idle" ~> pc[p] = "idle"

\* Under the timing and usage assumptions the protocol of lock file,
\* temporary file and rename implements the atomic state file.
unreadable == \E p \in Procs : blind[p]
Atomic == INSTANCE AtomicState
ImplementsAtomicState == Atomic!Spec

------------------------------------------------------------------------------
(* The inductive invariant behind MutualExclusion and NoLostUpdate *)

\* The lock file is the one of the process in its critical section, and it
\* is young: no live owner's file is ever stale.
OwnerInv ==
  /\ \A p \in Procs : InCritical(p) =>
       lockOwner = p /\ lockAge <= timer[p] /\ timer[p] <= HoldLimit
  /\ lockOwner \in Procs => InCritical(lockOwner)

\* Whoever is about to remove a leftover lock meets it alone; two callers
\* that both met it have come too early to find it stale.
TakeoverInv ==
  /\ \A p \in Procs : pc[p] \in Contending => timer[p] <= WaitLimit + 1
  /\ \A p, q \in Procs :
       p # q /\ pc[p] \in Contending /\ pc[q] \in Contending /\ lockOwner = Dead
         => lockAge <= HoldLimit + timer[p]
  /\ \A p \in Procs : pc[p] = "removing" =>
       /\ lockOwner = Dead
       /\ \A q \in Procs : q # p => pc[q] \notin Contending

\* What the process in its critical section holds is the stored state with
\* its own change, or its own change alone when its read failed, up to the
\* moment it is installed.
DataInv ==
  /\ store \subseteq Updates
  /\ \A p \in Procs :
       /\ pc[p] \in {"editing", "writing", "renaming"} =>
            local[p] = (IF blind[p] THEN {} ELSE store) \cup {upd[p]}
       /\ blind[p] => InCritical(p) /\ pc[p] # "locked"
       /\ pc[p] = "renaming" => tmp = local[p]
       /\ pc[p] = "stored" => upd[p] \in store

IInv == TypeOK /\ OwnerInv /\ TakeoverInv /\ DataInv
==============================================================================
