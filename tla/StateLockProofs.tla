--------------------------- MODULE StateLockProofs ---------------------------
(***************************************************************************)
(* For every number of processes and every limits that satisfy             *)
(* LimitsAssumption: TimelySpec keeps its types, its critical sections are *)
(* mutually exclusive, no acknowledged change is lost, and it implements   *)
(* AtomicState.                                                            *)
(***************************************************************************)
EXTENDS StateLock, TLAPS

(* The initial state satisfies the inductive invariant. *)
LEMMA InitInv == Init => IInv
<1> SUFFICES ASSUME Init PROVE IInv
  OBVIOUS
<1>1. TypeOK
  <2>1. timer \in [Procs -> 0..TimerCap]
    BY LimitsAssumption DEF Init, TimerCap
  <2>2. lockAge \in 0..(StaleAge + 1)
    BY LimitsAssumption DEF Init
  <2>3. upd \in [Procs -> Updates]
    <3> DEFINE first == CHOOSE u \in Updates : TRUE
    <3>1. CASE Procs = {}
      BY <3>1 DEF Init
    <3>2. CASE Updates # {}
      <4>1. first \in Updates
        BY <3>2
      <4>2. QED BY <4>1 DEF Init
    <3>3. QED BY <3>1, <3>2, UpdatesAssumption
  <2>4. QED BY <2>1, <2>2, <2>3 DEF Init, TypeOK
<1>2. OwnerInv
  BY NamesAssumption DEF Init, OwnerInv, InCritical, Critical
<1>3. TakeoverInv
  BY DEF Init, TakeoverInv, Contending
<1>4. DataInv
  BY DEF Init, DataInv
<1>5. QED BY <1>1, <1>2, <1>3, <1>4 DEF IInv

(* Every step keeps the types. *)
LEMMA TypeStep == TypeOK /\ [TimelyNext]_vars => TypeOK'
<1> SUFFICES ASSUME TypeOK, [TimelyNext]_vars PROVE TypeOK'
  OBVIOUS
<1> USE DEF TypeOK, Goto, Leave, Contending, Critical, lockVars, fileVars
<1>1. ASSUME NEW p \in Procs, NEW u \in Updates, Begin(p, u) PROVE TypeOK'
  BY <1>1, LimitsAssumption DEF Begin, TimerCap
<1>2. ASSUME NEW p \in Procs, Create(p) PROVE TypeOK'
  BY <1>2, LimitsAssumption DEF Create, TimerCap
<1>3. ASSUME NEW p \in Procs, SeeStale(p) PROVE TypeOK'
  BY <1>3 DEF SeeStale
<1>4. ASSUME NEW p \in Procs, RemoveStale(p) PROVE TypeOK'
  BY <1>4, LimitsAssumption DEF RemoveStale
<1>5. ASSUME NEW p \in Procs, GiveUp(p) \/ CreateFails(p) PROVE TypeOK'
  <2>1. /\ pc' \in [Procs -> {"idle"} \cup Contending \cup Critical]
        /\ local' \in [Procs -> SUBSET Updates]
        /\ blind' \in [Procs -> BOOLEAN]
    BY <1>5 DEF GiveUp, CreateFails
  <2>2. timer' \in [Procs -> 0..TimerCap]
    BY <1>5, LimitsAssumption DEF GiveUp, CreateFails, TimerCap
  <2>3. UNCHANGED <<lockVars, fileVars, upd, acked>>
    BY <1>5 DEF GiveUp, CreateFails
  <2>4. QED BY <2>1, <2>2, <2>3
<1>6. ASSUME NEW p \in Procs, ReadState(p) PROVE TypeOK'
  <2>1. (IF store = Torn THEN {} ELSE store) \cup {upd[p]} \in SUBSET Updates
    OBVIOUS
  <2>2. QED BY <1>6, <2>1 DEF ReadState
<1>7. ASSUME NEW p \in Procs, TruncateTmp(p) PROVE TypeOK'
  BY <1>7 DEF TruncateTmp
<1>8. ASSUME NEW p \in Procs, FillTmp(p) PROVE TypeOK'
  BY <1>8 DEF FillTmp
<1>9. ASSUME NEW p \in Procs, WriteFails(p) PROVE TypeOK'
  BY <1>9 DEF WriteFails
<1>16. ASSUME NEW p \in Procs, ReadFails(p) \/ RemoveFails(p) PROVE TypeOK'
  <2>1. CASE ReadFails(p)
    BY <2>1 DEF ReadFails
  <2>2. CASE RemoveFails(p)
    BY <2>2 DEF RemoveFails
  <2>3. QED BY <1>16, <2>1, <2>2
<1>10. ASSUME NEW p \in Procs, Rename(p) PROVE TypeOK'
  BY <1>10 DEF Rename
<1>11. ASSUME NEW p \in Procs, Drop(p) PROVE TypeOK'
  BY <1>11, LimitsAssumption DEF Drop, TimerCap
<1>12. ASSUME NEW p \in Procs, Crash(p) PROVE TypeOK'
  BY <1>12, LimitsAssumption DEF Crash, TimerCap
<1>13. ASSUME PromptTick PROVE TypeOK'
  <2>1. lockAge' \in 0..(StaleAge + 1)
    BY <1>13, LimitsAssumption DEF PromptTick, Tick
  <2>2. timer' \in [Procs -> 0..TimerCap]
    BY <1>13, LimitsAssumption DEF PromptTick, Tick, TimerCap
  <2>3. QED BY <1>13, <2>1, <2>2 DEF PromptTick, Tick
<1>14. CASE UNCHANGED vars
  BY <1>14 DEF vars
<1>15. QED
  BY <1>1, <1>2, <1>3, <1>4, <1>5, <1>6, <1>7, <1>8, <1>9, <1>10, <1>11,
     <1>12, <1>13, <1>14, <1>16 DEF TimelyNext, Step, Progress, Failure

(* The lock file belongs to the process in its critical section, whatever   *)
(* the step: nobody removes it while its owner is alive.                    *)
LEMMA OwnerStep ==
  TypeOK /\ OwnerInv /\ TakeoverInv /\ [TimelyNext]_vars => OwnerInv'
<1> SUFFICES ASSUME TypeOK, OwnerInv, TakeoverInv, [TimelyNext]_vars
             PROVE OwnerInv'
  OBVIOUS
<1> USE DEF TypeOK, OwnerInv, InCritical, Goto, Leave, Contending, Critical,
            lockVars, fileVars
<1>1. ASSUME NEW p \in Procs, NEW u \in Updates, Begin(p, u) PROVE OwnerInv'
  BY <1>1 DEF Begin
<1>2. ASSUME NEW p \in Procs, Create(p) PROVE OwnerInv'
  BY <1>2, LimitsAssumption, NamesAssumption DEF Create
<1>3. ASSUME NEW p \in Procs, SeeStale(p) PROVE OwnerInv'
  BY <1>3 DEF SeeStale
<1>4. ASSUME NEW p \in Procs, RemoveStale(p) PROVE OwnerInv'
  BY <1>4, NamesAssumption DEF RemoveStale, TakeoverInv
<1>5. ASSUME NEW p \in Procs, GiveUp(p) \/ CreateFails(p) PROVE OwnerInv'
  BY <1>5 DEF GiveUp, CreateFails
<1>6. ASSUME NEW p \in Procs, ReadState(p) PROVE OwnerInv'
  BY <1>6 DEF ReadState
<1>7. ASSUME NEW p \in Procs, TruncateTmp(p) PROVE OwnerInv'
  BY <1>7 DEF TruncateTmp
<1>8. ASSUME NEW p \in Procs, FillTmp(p) PROVE OwnerInv'
  BY <1>8 DEF FillTmp
<1>9. ASSUME NEW p \in Procs, WriteFails(p) PROVE OwnerInv'
  BY <1>9 DEF WriteFails
<1>16. ASSUME NEW p \in Procs, ReadFails(p) \/ RemoveFails(p) PROVE OwnerInv'
  BY <1>16 DEF ReadFails, RemoveFails
<1>10. ASSUME NEW p \in Procs, Rename(p) PROVE OwnerInv'
  BY <1>10 DEF Rename
<1>11. ASSUME NEW p \in Procs, Drop(p) PROVE OwnerInv'
  BY <1>11, NamesAssumption DEF Drop
<1>12. ASSUME NEW p \in Procs, Crash(p) PROVE OwnerInv'
  BY <1>12, NamesAssumption DEF Crash
<1>13. ASSUME PromptTick PROVE OwnerInv'
  <2>1. UNCHANGED <<lockOwner, pc>>
    BY <1>13 DEF PromptTick, Tick
  <2>2. ASSUME NEW p \in Procs, InCritical(p)
        PROVE lockAge' <= timer'[p] /\ timer'[p] <= HoldLimit
    <3>1. lockAge <= timer[p] /\ timer[p] < HoldLimit
      BY <1>13, <2>2 DEF PromptTick, Prompt
    <3>2. timer[p] \in Nat /\ lockAge \in Nat
      BY LimitsAssumption DEF TimerCap
    <3>3. timer'[p] = timer[p] + 1
      BY <1>13, <2>2, <3>1, <3>2, LimitsAssumption DEF PromptTick, Tick, TimerCap
    <3>4. lockAge' \in {lockAge, lockAge + 1}
      BY <1>13 DEF PromptTick, Tick
    <3>5. QED BY <3>1, <3>2, <3>3, <3>4, LimitsAssumption
  <2>3. QED BY <2>1, <2>2
<1>14. CASE UNCHANGED vars
  BY <1>14 DEF vars
<1>15. QED
  BY <1>1, <1>2, <1>3, <1>4, <1>5, <1>6, <1>7, <1>8, <1>9, <1>10, <1>11,
     <1>12, <1>13, <1>14, <1>16 DEF TimelyNext, Step, Progress, Failure

(* A caller that finds the file stale is the only one that met the leftover *)
(* lock: whoever else met it has given up before it was stale.              *)
LEMMA TakeoverStep ==
  TypeOK /\ OwnerInv /\ TakeoverInv /\ [TimelyNext]_vars => TakeoverInv'
<1> SUFFICES ASSUME TypeOK, OwnerInv, TakeoverInv, [TimelyNext]_vars
             PROVE TakeoverInv'
  OBVIOUS
<1> USE DEF TypeOK, TakeoverInv, Goto, Leave, Contending, lockVars, fileVars
<1>0. /\ lockAge \in Nat
      /\ \A p \in Procs : timer[p] \in Nat
      /\ StaleAge \in Nat /\ WaitLimit \in Nat /\ HoldLimit \in Nat
  BY LimitsAssumption DEF TimerCap
<1>1. ASSUME NEW p \in Procs, NEW u \in Updates, Begin(p, u), SoloRecovery
      PROVE TakeoverInv'
  BY <1>0, <1>1 DEF Begin, SoloRecovery
<1>2. ASSUME NEW p \in Procs, Create(p) PROVE TakeoverInv'
  BY <1>0, <1>2, NamesAssumption DEF Create
<1>3. ASSUME NEW p \in Procs, SeeStale(p) PROVE TakeoverInv'
  <2>1. lockOwner = Dead
    <3>1. lockOwner \notin Procs
      BY <1>0, <1>3, LimitsAssumption DEF SeeStale, OwnerInv
    <3>2. QED BY <1>3, <3>1 DEF SeeStale
  <2>2. ASSUME NEW q \in Procs, q # p, pc[q] \in Contending PROVE FALSE
    <3>1. lockAge <= HoldLimit + timer[p] /\ timer[p] <= WaitLimit + 1
      BY <1>3, <2>1, <2>2 DEF SeeStale
    <3>2. QED BY <1>0, <1>3, <3>1, LimitsAssumption DEF SeeStale
  <2>3. QED BY <1>3, <2>1, <2>2 DEF SeeStale
<1>4. ASSUME NEW p \in Procs, RemoveStale(p) PROVE TakeoverInv'
  BY <1>0, <1>4, NamesAssumption DEF RemoveStale
<1>5. ASSUME NEW p \in Procs, GiveUp(p) \/ CreateFails(p) PROVE TakeoverInv'
  BY <1>0, <1>5 DEF GiveUp, CreateFails
<1>6. ASSUME NEW p \in Procs, ReadState(p) PROVE TakeoverInv'
  BY <1>6 DEF ReadState
<1>7. ASSUME NEW p \in Procs, TruncateTmp(p) PROVE TakeoverInv'
  BY <1>7 DEF TruncateTmp
<1>8. ASSUME NEW p \in Procs, FillTmp(p) PROVE TakeoverInv'
  BY <1>8 DEF FillTmp
<1>9. ASSUME NEW p \in Procs, WriteFails(p) PROVE TakeoverInv'
  BY <1>9 DEF WriteFails
<1>16. ASSUME NEW p \in Procs, ReadFails(p) \/ RemoveFails(p) PROVE TakeoverInv'
  BY <1>16 DEF ReadFails, RemoveFails
<1>10. ASSUME NEW p \in Procs, Rename(p) PROVE TakeoverInv'
  BY <1>10 DEF Rename
<1>11. ASSUME NEW p \in Procs, Drop(p) PROVE TakeoverInv'
  <2>1. lockOwner = p
    BY <1>11 DEF Drop, OwnerInv, InCritical, Critical
  <2>2. \A q \in Procs : pc[q] # "removing"
    BY <2>1, NamesAssumption
  <2>3. QED BY <1>0, <1>11, <2>2, NamesAssumption DEF Drop
<1>12. ASSUME NEW p \in Procs, Crash(p) PROVE TakeoverInv'
  <2>1. CASE lockOwner = p
    <3>1. lockAge <= HoldLimit
      BY <1>0, <1>12, <2>1 DEF OwnerInv
    <3>2. \A q \in Procs : pc[q] # "removing"
      BY <2>1, NamesAssumption
    <3>3. \A q \in Procs : pc'[q] \in Contending => q # p /\ timer'[q] = timer[q]
      BY <1>12 DEF Crash
    <3>4. QED BY <1>0, <1>12, <2>1, <3>1, <3>2, <3>3 DEF Crash
  <2>2. CASE lockOwner # p
    BY <1>0, <1>12, <2>2 DEF Crash
  <2>3. QED BY <2>1, <2>2
<1>13. ASSUME PromptTick PROVE TakeoverInv'
  <2>1. UNCHANGED <<lockOwner, pc>>
    BY <1>13 DEF PromptTick, Tick
  <2>2. ASSUME NEW p \in Procs, pc[p] \in Contending
        PROVE timer'[p] = timer[p] + 1 /\ timer[p] <= WaitLimit
    <3>1. timer[p] <= WaitLimit
      BY <1>13, <2>2 DEF PromptTick, Prompt
    <3>2. QED BY <1>0, <1>13, <2>2, <3>1 DEF PromptTick, Tick, TimerCap
  <2>3. lockAge' \in {lockAge, lockAge + 1}
    BY <1>13 DEF PromptTick, Tick
  <2>4. QED BY <1>0, <2>1, <2>2, <2>3
<1>14. CASE UNCHANGED vars
  BY <1>14 DEF vars
<1>15. QED
  BY <1>1, <1>2, <1>3, <1>4, <1>5, <1>6, <1>7, <1>8, <1>9, <1>10, <1>11,
     <1>12, <1>13, <1>14, <1>16 DEF TimelyNext, Step, Progress, Failure

(* Two processes in their critical sections would own the same file. *)
LEMMA OwnerExcludes == OwnerInv => MutualExclusion
BY DEF OwnerInv, MutualExclusion

(* The process in its critical section works on the stored state.           *)
LEMMA DataStep ==
  TypeOK /\ OwnerInv /\ DataInv /\ [TimelyNext]_vars => DataInv'
<1> SUFFICES ASSUME TypeOK, OwnerInv, DataInv, [TimelyNext]_vars PROVE DataInv'
  OBVIOUS
<1>0. MutualExclusion
  BY OwnerExcludes
<1> USE DEF TypeOK, DataInv, InCritical, Critical, Goto, Leave, lockVars, fileVars
<1>1. ASSUME NEW p \in Procs, NEW u \in Updates, Begin(p, u) PROVE DataInv'
  BY <1>1 DEF Begin
<1>2. ASSUME NEW p \in Procs, Create(p) PROVE DataInv'
  BY <1>2 DEF Create
<1>3. ASSUME NEW p \in Procs, SeeStale(p) PROVE DataInv'
  BY <1>3 DEF SeeStale
<1>4. ASSUME NEW p \in Procs, RemoveStale(p) \/ RemoveFails(p) PROVE DataInv'
  BY <1>4 DEF RemoveStale, RemoveFails
<1>5. ASSUME NEW p \in Procs, GiveUp(p) \/ CreateFails(p) PROVE DataInv'
  BY <1>5 DEF GiveUp, CreateFails
<1>6. ASSUME NEW p \in Procs, ReadState(p) PROVE DataInv'
  <2>1. store # Torn
    BY NamesAssumption DEF Torn
  <2>2. ~blind[p]
    BY <1>6 DEF ReadState
  <2>3. local'[p] = (IF blind[p] THEN {} ELSE store) \cup {upd[p]}
    BY <1>6, <2>1, <2>2 DEF ReadState
  <2>4. QED BY <1>6, <2>3 DEF ReadState
<1>7. ASSUME NEW p \in Procs, TruncateTmp(p) PROVE DataInv'
  <2>1. \A q \in Procs : pc[q] # "renaming"
    BY <1>0, <1>7 DEF TruncateTmp, MutualExclusion
  <2>2. QED BY <1>7, <2>1 DEF TruncateTmp
<1>8. ASSUME NEW p \in Procs, FillTmp(p) PROVE DataInv'
  <2>1. \A q \in Procs : pc[q] # "renaming"
    BY <1>0, <1>8 DEF FillTmp, MutualExclusion
  <2>2. QED BY <1>8, <2>1 DEF FillTmp
<1>9. ASSUME NEW p \in Procs, WriteFails(p) PROVE DataInv'
  BY <1>9 DEF WriteFails
<1>10. ASSUME NEW p \in Procs, Rename(p) PROVE DataInv'
  <2>1. tmp = (IF blind[p] THEN {} ELSE store) \cup {upd[p]}
    BY <1>10 DEF Rename
  <2>2. tmp # Absent
    BY <2>1, NamesAssumption DEF Absent
  <2>3. \A q \in Procs : q # p => pc[q] \notin Critical
    BY <1>0, <1>10 DEF Rename, MutualExclusion
  <2>4. store' = (IF blind[p] THEN {} ELSE store) \cup {upd[p]}
    BY <1>10, <2>1, <2>2 DEF Rename
  <2>5. store' \subseteq Updates /\ upd[p] \in store'
    BY <2>4
  <2>6. QED BY <1>10, <2>2, <2>3, <2>5 DEF Rename
<1>11. ASSUME NEW p \in Procs, Drop(p) PROVE DataInv'
  BY <1>11 DEF Drop
<1>12. ASSUME NEW p \in Procs, Crash(p) PROVE DataInv'
  BY <1>12 DEF Crash
<1>13. ASSUME PromptTick PROVE DataInv'
  BY <1>13 DEF PromptTick, Tick
<1>14. CASE UNCHANGED vars
  BY <1>14 DEF vars
<1>16. ASSUME NEW p \in Procs, ReadFails(p) PROVE DataInv'
  BY <1>16 DEF ReadFails
<1>15. QED
  BY <1>1, <1>2, <1>3, <1>4, <1>5, <1>6, <1>7, <1>8, <1>9, <1>10, <1>11,
     <1>12, <1>13, <1>14, <1>16 DEF TimelyNext, Step, Progress, Failure

(* The inductive invariant holds throughout. *)
THEOREM Invariance == TimelySpec => []IInv
<1>1. IInv /\ [TimelyNext]_vars => IInv'
  BY TypeStep, OwnerStep, TakeoverStep, DataStep DEF IInv
<1>2. QED BY InitInv, <1>1, PTL DEF TimelySpec

(* TypeOK: every variable keeps its type. *)
THEOREM TypeCorrect == TimelySpec => []TypeOK
<1>1. IInv => TypeOK
  BY DEF IInv
<1>2. QED BY Invariance, <1>1, PTL

(* MutualExclusion: with prompt processes, and leftover locks met by one    *)
(* caller at a time, LockGuard admits one process at a time.                *)
THEOREM Exclusion == TimelySpec => []MutualExclusion
<1>1. IInv => MutualExclusion
  BY OwnerExcludes DEF IInv
<1>2. QED BY Invariance, <1>1, PTL

(* What the steps do to the state file and the acknowledgements: only a      *)
(* rename writes the file, with the caller's change in it and nothing lost    *)
(* unless the caller's read had failed, and only a drop acknowledges.         *)
LEMMA FileStep ==
  ASSUME IInv, [TimelyNext]_vars
  PROVE  \/ UNCHANGED <<store, acked>>
         \/ \E p \in Procs :
              /\ pc[p] = "renaming" /\ pc'[p] = "stored"
              /\ store' = (IF blind[p] THEN {} ELSE store) \cup {upd[p]}
              /\ UNCHANGED <<acked, blind>>
         \/ \E p \in Procs :
              /\ upd[p] \in store
              /\ acked' = acked \cup {upd[p]}
              /\ UNCHANGED store
<1>1. ASSUME NEW p \in Procs, Rename(p)
      PROVE /\ pc[p] = "renaming" /\ pc'[p] = "stored"
            /\ store' = (IF blind[p] THEN {} ELSE store) \cup {upd[p]}
            /\ UNCHANGED <<acked, blind>>
  <2>1. tmp = (IF blind[p] THEN {} ELSE store) \cup {upd[p]} /\ upd[p] \in Updates
    BY <1>1 DEF Rename, IInv, DataInv, TypeOK
  <2>2. tmp # Absent
    BY <2>1, NamesAssumption DEF Absent
  <2>3. pc \in [Procs -> {"idle"} \cup Contending \cup Critical]
    BY DEF IInv, TypeOK
  <2>4. QED BY <1>1, <2>1, <2>2, <2>3 DEF Rename, Goto
<1>2. ASSUME NEW p \in Procs, Drop(p)
      PROVE \/ UNCHANGED <<store, acked>>
            \/ /\ upd[p] \in store
               /\ acked' = acked \cup {upd[p]}
               /\ UNCHANGED store
  BY <1>2 DEF Drop, fileVars, IInv, DataInv
<1>3. CASE \E p \in Procs, u \in Updates : Begin(p, u) /\ SoloRecovery
  BY <1>3 DEF Begin, fileVars
<1>4. ASSUME NEW p \in Procs, Step(p), ~Rename(p), ~Drop(p)
      PROVE UNCHANGED <<store, acked>>
  BY <1>4 DEF Step, Progress, Failure, Create, SeeStale, RemoveStale, RemoveFails,
     GiveUp, CreateFails, ReadState, ReadFails, TruncateTmp, FillTmp, WriteFails,
     fileVars
<1>5. CASE \E p \in Procs : Crash(p)
  BY <1>5 DEF Crash, fileVars
<1>6. CASE PromptTick
  BY <1>6 DEF PromptTick, Tick, fileVars
<1>7. CASE UNCHANGED vars
  BY <1>7 DEF vars
<1>8. QED BY <1>1, <1>2, <1>3, <1>4, <1>5, <1>6, <1>7 DEF TimelyNext

(* NoLostUpdate: locked_write acknowledges stored changes only, and no        *)
(* race, takeover, crash or failed write removes one; a caller that could     *)
(* not read the file is the only one that does.                               *)
THEOREM NothingLost == TimelySpec => NoLostUpdate
<1> DEFINE Kept ==
      /\ acked' \ acked \subseteq store
      /\ \A u \in acked : u \in store /\ u \notin store' =>
           \E p \in Procs : pc[p] = "renaming" /\ pc'[p] = "stored" /\ blind[p]
<1>1. IInv /\ [TimelyNext]_vars => [Kept]_vars
  <2> SUFFICES ASSUME IInv, [TimelyNext]_vars PROVE Kept
    OBVIOUS
  <2>1. CASE UNCHANGED <<store, acked>>
    BY <2>1
  <2>2. ASSUME NEW p \in Procs, pc[p] = "renaming", pc'[p] = "stored",
               store' = (IF blind[p] THEN {} ELSE store) \cup {upd[p]},
               UNCHANGED acked
        PROVE  Kept
    BY <2>2
  <2>3. ASSUME NEW p \in Procs, upd[p] \in store, acked' = acked \cup {upd[p]},
               UNCHANGED store
        PROVE  Kept
    BY <2>3
  <2>4. QED BY <2>1, <2>2, <2>3, FileStep
<1>2. QED BY Invariance, <1>1, PTL DEF TimelySpec, NoLostUpdate

(* Every step of the protocol is an AtomicState step.                         *)
LEMMA StepRefines ==
  IInv /\ [TimelyNext]_vars => [Atomic!Next]_<<store, acked, unreadable>>
<1> SUFFICES ASSUME IInv, [TimelyNext]_vars
             PROVE  [Atomic!Next]_<<store, acked, unreadable>>
  OBVIOUS
<1>0. unreadable' \in BOOLEAN
  BY DEF unreadable
<1>1. CASE UNCHANGED <<store, acked>>
  BY <1>0, <1>1 DEF Atomic!Next, Atomic!Flicker
<1>2. ASSUME NEW p \in Procs, UNCHANGED <<acked, blind>>,
             store' = (IF blind[p] THEN {} ELSE store) \cup {upd[p]}
      PROVE  [Atomic!Next]_<<store, acked, unreadable>>
  <2>1. upd[p] \in Updates
    BY DEF IInv, TypeOK
  <2>2. UNCHANGED unreadable
    BY <1>2 DEF unreadable
  <2>3. CASE blind[p]
    <3>1. unreadable
      BY <2>3 DEF unreadable
    <3>2. Atomic!BeginAnew(upd[p])
      BY <1>2, <2>2, <2>3, <3>1 DEF Atomic!BeginAnew
    <3>3. QED BY <2>1, <3>2 DEF Atomic!Next
  <2>4. CASE ~blind[p] /\ upd[p] \in store
    BY <1>2, <2>2, <2>4
  <2>5. CASE ~blind[p] /\ upd[p] \notin store
    <3>1. Atomic!Apply(upd[p])
      BY <1>2, <2>2, <2>5 DEF Atomic!Apply
    <3>2. QED BY <2>1, <3>1 DEF Atomic!Next
  <2>6. QED BY <2>3, <2>4, <2>5
<1>3. ASSUME NEW p \in Procs, upd[p] \in store, acked' = acked \cup {upd[p]},
             UNCHANGED store
      PROVE  Atomic!Next
  <2>1. upd[p] \in Updates
    BY DEF IInv, TypeOK
  <2>2. Atomic!Acknowledge(upd[p])
    BY <1>0, <1>3 DEF Atomic!Acknowledge
  <2>3. QED BY <2>1, <2>2 DEF Atomic!Next
<1>4. QED BY <1>1, <1>2, <1>3, FileStep

(* ImplementsAtomicState: the lock file, temporary file and rename together   *)
(* give the callers an atomic state file, begun anew only by a caller that    *)
(* could not read it.                                                         *)
THEOREM Refinement == TimelySpec => ImplementsAtomicState
<1>1. Init => Atomic!Init
  BY DEF Init, Atomic!Init, unreadable
<1>2. QED
  BY Invariance, StepRefines, <1>1, PTL DEF TimelySpec, ImplementsAtomicState, Atomic!Spec, Atomic!vars
==============================================================================
