--------------------------- MODULE MigrationProofs ---------------------------
(* What Migration guarantees for every set of processes and every age limit. *)
EXTENDS Migration, TLAPS

------------------------------------------------------------------------------
(* The inductive invariant *)

\* The lock file against the sessions: whoever is inside holds it, whoever is
\* removing a leftover has seen it old, whoever is left with the second
\* removal of a rolled back commit finds at most its own file.
LockInv ==
  /\ OneSession
  /\ \A p \in Procs : pc[p] \in Session => lock /\ age <= StaleAge
  /\ \A p \in Procs : pc[p] = "removing" => lock /\ age > StaleAge
  /\ \A p, q \in Procs : pc[p] = "removing" /\ pc[q] = "removing" => p = q
  /\ \A p \in Procs : pc[p] = "closing" =>
       age <= StaleAge /\ \A q \in Procs : pc[q] \notin Session

\* The database against the copy of the session that is at work on it.
CopyInv ==
  \A p \in Procs :
    /\ pc[p] \in {"copied", "backed", "migrating", "staged", "restored", "marked"}
         => db = backup[p]
    /\ pc[p] = "staged" => staged[p] = db \cup {p}
    /\ pc[p] \in Copied => db \in {backup[p], backup[p] \cup {p}}
    /\ pc[p] \in {"validated", "unmarked"} => p \in db
    /\ pc[p] \in Copied \cup {"copied"} => acked \subseteq backup[p]

\* The marker against the session: from the backup until the change is
\* validated or undone it is that session's, and names its copy.
MarkerInv ==
  /\ MarkerTruth
  /\ \A p \in Procs :
       pc[p] \in {"backed", "migrating", "staged", "replaced", "validated",
                  "failing", "restored"} =>
         /\ marker \in Markers
         /\ marker.by = p
         /\ marker.copy = backup[p]
         /\ marker.status # "rolled_back"

AckedInv == acked \subseteq db

MigInv == MigTypeOK /\ LockInv /\ CopyInv /\ MarkerInv /\ AckedInv

------------------------------------------------------------------------------
(* Type correctness *)

LEMMA MigInitInv == MigInit => MigInv
<1> SUFFICES ASSUME MigInit PROVE MigInv
  OBVIOUS
<1>1. MigTypeOK
  <2>1. lock \in BOOLEAN /\ cloned \in [Procs -> BOOLEAN]
    BY Zenon DEF MigInit
  <2>2. age \in 0..(StaleAge + 1)
    BY StaleAgeAssumption DEF StaleAgeAssumption, MigInit
  <2> QED
    BY <2>1, <2>2 DEF MigInit, MigTypeOK
<1>2. LockInv
  BY DEF MigInit, LockInv, OneSession, Session, Copied
<1>3. CopyInv /\ MarkerInv /\ AckedInv
  BY NoMarkerAssumption
     DEF NoMarkerAssumption, MigInit, CopyInv, MarkerInv, MarkerTruth, AckedInv, Copied
<1> QED
  BY <1>1, <1>2, <1>3 DEF MigInv

LEMMA TypeStep == MigTypeOK /\ [TimelyNext]_vars => MigTypeOK'
<1> USE StaleAgeAssumption DEF StaleAgeAssumption, files, locals, At, Goto, Unlock, TryUnlock, Session, Copied
<1> SUFFICES ASSUME MigTypeOK, [TimelyNext]_vars PROVE MigTypeOK'
  OBVIOUS
<1>1. CASE UNCHANGED vars
  BY <1>1 DEF vars, MigTypeOK
<1>2. CASE Tick
  <2>1. lock' \in BOOLEAN /\ cloned' \in [Procs -> BOOLEAN]
    BY <1>2, Zenon DEF Tick, MigTypeOK
  <2>2. age' \in 0..(StaleAge + 1)
    BY <1>2 DEF Tick, MigTypeOK
  <2> QED
    BY <1>2, <2>1, <2>2 DEF Tick, MigTypeOK
<1>3. ASSUME NEW p \in Procs,
             \/ Begin(p) \/ BeginFails(p) \/ SeeStale(p)
             \/ RemoveStale(p) \/ RemoveStaleFails(p) \/ Crash(p)
      PROVE  MigTypeOK'
  <2>1. lock' \in BOOLEAN /\ cloned' \in [Procs -> BOOLEAN]
    BY <1>3, Zenon DEF Begin, BeginFails, CreateLock, SeeStale, RemoveStale, RemoveStaleFails, Crash, MigTypeOK
  <2>2. age' \in 0..(StaleAge + 1)
    BY <1>3 DEF Begin, BeginFails, CreateLock, SeeStale, RemoveStale, RemoveStaleFails, Crash, MigTypeOK
  <2> QED
    BY <1>3, <2>1, <2>2 DEF Begin, BeginFails, CreateLock, SeeStale, RemoveStale, RemoveStaleFails, Crash, MigTypeOK
<1>4. ASSUME NEW p \in Procs,
             \/ CopyDatabase(p) \/ Stage(p) \/ Replace(p) \/ Validate(p)
             \/ Unmark(p) \/ Finish(p) \/ Restore(p)
      PROVE  MigTypeOK'
  <2>1. lock' \in BOOLEAN /\ cloned' \in [Procs -> BOOLEAN]
    BY <1>4, Zenon DEF CopyDatabase, Stage, Replace, Validate, Unmark, Finish, Restore, MigTypeOK
  <2>2. age' \in 0..(StaleAge + 1)
    BY <1>4 DEF CopyDatabase, Stage, Replace, Validate, Unmark, Finish, Restore, MigTypeOK
  <2>3. db' \in SUBSET Procs /\ acked' \in SUBSET Procs
    BY <1>4 DEF CopyDatabase, Stage, Replace, Validate, Unmark, Finish, Restore, MigTypeOK
  <2> QED
    BY <1>4, <2>1, <2>2, <2>3 DEF CopyDatabase, Stage, Replace, Validate, Unmark, Finish, Restore, MigTypeOK
<1>5. ASSUME NEW p \in Procs,
             MarkBackup(p) \/ MarkMigrating(p) \/ MarkRolledBack(p) \/ TearMarker(p)
      PROVE  MigTypeOK'
  BY <1>5 DEF MarkBackup, MarkMigrating, MarkRolledBack, TearMarker, Mark, MigTypeOK, Markers
<1>6. ASSUME NEW p \in Procs,
             Fails(p) \/ FailsBack(p) \/ Rollback(p) \/ EndRollback(p) \/ Drop(p)
      PROVE  MigTypeOK'
  <2>1. lock' \in BOOLEAN /\ cloned' \in [Procs -> BOOLEAN]
    BY <1>6, Zenon DEF Fails, FailsBack, Rollback, EndRollback, Drop, MigTypeOK
  <2>2. age' \in 0..(StaleAge + 1)
    BY <1>6 DEF Fails, FailsBack, Rollback, EndRollback, Drop, MigTypeOK
  <2> QED
    BY <1>6, <2>1, <2>2 DEF Fails, FailsBack, Rollback, EndRollback, Drop, MigTypeOK
<1> QED
  BY <1>1, <1>2, <1>3, <1>4, <1>5, <1>6 DEF TimelyNext, Sessions, Work

------------------------------------------------------------------------------
(* The lock file *)

LEMMA LockStep == MigTypeOK /\ LockInv /\ [TimelyNext]_vars => LockInv'
<1> USE StaleAgeAssumption DEF StaleAgeAssumption, files, locals, At, Goto
<1> SUFFICES ASSUME MigTypeOK, LockInv, [TimelyNext]_vars PROVE LockInv'
  OBVIOUS
<1>1. CASE UNCHANGED vars
  BY <1>1 DEF vars, LockInv, OneSession
<1>2. CASE Tick /\ Prompt
  BY <1>2 DEF Tick, Prompt, MigTypeOK, LockInv, OneSession
<1>3. ASSUME NEW p \in Procs, Begin(p), Closed
      PROVE  LockInv'
  BY <1>3 DEF Begin, CreateLock, Closed, MigTypeOK, LockInv, OneSession, Session, Copied
<1>4. ASSUME NEW p \in Procs, BeginFails(p), Closed
      PROVE  LockInv'
  BY <1>4 DEF BeginFails, CreateLock, Closed, MigTypeOK, LockInv, OneSession
<1>5. ASSUME NEW p \in Procs, SeeStale(p), Solo
      PROVE  LockInv'
  BY <1>5 DEF SeeStale, Solo, MigTypeOK, LockInv, OneSession, Session, Copied
<1>6. ASSUME NEW p \in Procs, RemoveStale(p) \/ RemoveStaleFails(p)
      PROVE  LockInv'
  BY <1>6 DEF RemoveStale, RemoveStaleFails, Unlock, MigTypeOK, LockInv, OneSession,
              Session, Copied
<1>7. ASSUME NEW p \in Procs, Crash(p)
      PROVE  LockInv'
  BY <1>7 DEF Crash, MigTypeOK, LockInv, OneSession, Session, Copied
<1>8. ASSUME NEW p \in Procs,
             \/ CopyDatabase(p) \/ MarkBackup(p) \/ MarkMigrating(p) \/ Stage(p)
             \/ Replace(p) \/ Validate(p) \/ Unmark(p) \/ Fails(p) \/ FailsBack(p)
             \/ Rollback(p) \/ Restore(p) \/ MarkRolledBack(p) \/ TearMarker(p)
      PROVE  LockInv'
  <2>1. pc[p] \in Session /\ UNCHANGED <<lock, age>>
        /\ \E l \in Session : pc' = [pc EXCEPT ![p] = l]
    BY <1>8 DEF CopyDatabase, MarkBackup, MarkMigrating, Stage, Replace, Validate,
                Unmark, Fails, FailsBack, Rollback, Restore, MarkRolledBack,
                TearMarker, Session, Copied
  <2> QED
    BY <2>1 DEF MigTypeOK, LockInv, OneSession, Session, Copied
<1>9. ASSUME NEW p \in Procs, Finish(p) \/ EndRollback(p) \/ Drop(p)
      PROVE  LockInv'
  <2>1. /\ pc[p] \in Session \/ pc[p] = "closing"
        /\ TryUnlock
        /\ \E l \in {"idle", "closing"} : pc' = [pc EXCEPT ![p] = l]
    BY <1>9 DEF Finish, EndRollback, Drop, Session, Copied
  <2>2. \A q \in Procs : pc[q] \in Session => q = p
    BY <2>1 DEF LockInv, OneSession, MigTypeOK
  <2>3. \A q \in Procs : pc'[q] \notin Session
    BY <2>1, <2>2 DEF MigTypeOK, Session, Copied
  <2>4. age <= StaleAge /\ \A q \in Procs : pc[q] # "removing"
    BY <2>1 DEF LockInv, MigTypeOK
  <2>5. age' <= StaleAge
    BY <2>1, <2>4 DEF Unlock, TryUnlock
  <2> QED
    BY <2>1, <2>3, <2>4, <2>5 DEF MigTypeOK, LockInv, OneSession
<1> QED
  BY <1>1, <1>2, <1>3, <1>4, <1>5, <1>6, <1>7, <1>8, <1>9 DEF TimelyNext, Sessions, Work

------------------------------------------------------------------------------
(* The database, its copies and the marker *)

LEMMA CopyStep ==
  MigTypeOK /\ LockInv /\ CopyInv /\ AckedInv /\ [TimelyNext]_vars
    => CopyInv' /\ AckedInv'
<1> USE DEF files, locals, At, Goto
<1> SUFFICES ASSUME MigTypeOK, LockInv, CopyInv, AckedInv, [TimelyNext]_vars
             PROVE  CopyInv' /\ AckedInv'
  OBVIOUS
<1>1. CASE UNCHANGED vars
  BY <1>1 DEF vars, CopyInv, AckedInv, Copied
<1>2. CASE Tick
  BY <1>2 DEF Tick, CopyInv, AckedInv, Copied
<1>3. ASSUME NEW p \in Procs,
             \/ Begin(p) \/ BeginFails(p) \/ SeeStale(p) \/ RemoveStale(p)
             \/ RemoveStaleFails(p) \/ Crash(p) \/ Fails(p) \/ EndRollback(p) \/ Drop(p)
      PROVE  CopyInv' /\ AckedInv'
  BY <1>3 DEF Begin, BeginFails, CreateLock, SeeStale, RemoveStale, RemoveStaleFails, Crash, Fails,
              EndRollback, Drop, MigTypeOK, CopyInv, AckedInv, Copied
<1>4. ASSUME NEW p \in Procs,
             \/ CopyDatabase(p) \/ MarkBackup(p) \/ MarkMigrating(p)
             \/ Stage(p) \/ Validate(p) \/ Unmark(p) \/ FailsBack(p)
             \/ Rollback(p) \/ MarkRolledBack(p) \/ TearMarker(p)
      PROVE  CopyInv' /\ AckedInv'
  <2>1. db' = db /\ acked' = acked
    BY <1>4 DEF CopyDatabase, MarkBackup, MarkMigrating, Stage, Validate, Unmark,
                FailsBack, Rollback, MarkRolledBack, TearMarker
  <2> QED
    BY <1>4, <2>1 DEF CopyDatabase, MarkBackup, MarkMigrating, Stage, Validate, Unmark,
                FailsBack, Rollback, MarkRolledBack, TearMarker, MigTypeOK, CopyInv, AckedInv, Copied
<1>5. ASSUME NEW p \in Procs, Replace(p) \/ Restore(p) \/ Finish(p)
      PROVE  CopyInv' /\ AckedInv'
  <2>1. \A q \in Procs : q # p => pc'[q] \notin Session
    BY <1>5 DEF Replace, Restore, Finish, LockInv, OneSession, MigTypeOK, Session, Copied
  <2>2. AckedInv'
    BY <1>5 DEF Replace, Restore, Finish, CopyInv, AckedInv, Copied, MigTypeOK
  <2>3. \A q \in Procs : q # p => pc'[q] \notin Copied \cup {"copied"}
    BY <2>1 DEF Session
  <2>4. pc'[p] = "replaced" \/ pc'[p] = "restored" \/ pc'[p] = "idle"
    BY <1>5 DEF Replace, Restore, Finish, MigTypeOK
  <2>5. pc'[p] = "replaced" \/ pc'[p] = "restored" =>
          db' \in {backup'[p], backup'[p] \cup {p}} /\ acked' \subseteq backup'[p]
    BY <1>5 DEF Replace, Restore, Finish, MigTypeOK, CopyInv, Copied
  <2>6. pc'[p] = "restored" => db' = backup'[p]
    BY <1>5 DEF Replace, Restore, Finish, MigTypeOK
  <2> QED
    BY <2>2, <2>3, <2>4, <2>5, <2>6 DEF CopyInv, Copied
<1> QED
  BY <1>1, <1>2, <1>3, <1>4, <1>5 DEF TimelyNext, Sessions, Work

LEMMA MarkerStep ==
  MigTypeOK /\ LockInv /\ CopyInv /\ MarkerInv /\ [TimelyNext]_vars => MarkerInv'
<1> USE DEF files, locals, At, Goto
<1> SUFFICES ASSUME MigTypeOK, LockInv, CopyInv, MarkerInv, [TimelyNext]_vars
             PROVE  MarkerInv'
  OBVIOUS
<1>1. CASE UNCHANGED vars
  BY <1>1 DEF vars, MarkerInv, MarkerTruth
<1>2. CASE Tick
  BY <1>2 DEF Tick, MarkerInv, MarkerTruth
<1>3. ASSUME NEW p \in Procs,
             \/ Begin(p) \/ BeginFails(p) \/ SeeStale(p) \/ RemoveStale(p)
             \/ RemoveStaleFails(p) \/ Crash(p) \/ Fails(p) \/ EndRollback(p) \/ Drop(p) \/ Finish(p)
      PROVE  MarkerInv'
  <2>1. /\ UNCHANGED <<db, marker, backup>>
        /\ \E l \in {"open", "idle", "removing", "dropping", "closing"} :
             pc' = pc \/ pc' = [pc EXCEPT ![p] = l]
    BY <1>3 DEF Begin, BeginFails, CreateLock, SeeStale, RemoveStale, RemoveStaleFails, Crash, Fails,
                EndRollback, Drop, Finish
  <2> QED
    BY <2>1 DEF MigTypeOK, MarkerInv, MarkerTruth
<1>4. ASSUME NEW p \in Procs,
             CopyDatabase(p) \/ Stage(p) \/ Validate(p) \/ FailsBack(p) \/ Rollback(p)
      PROVE  MarkerInv'
  BY <1>4 DEF CopyDatabase, Stage, Validate, FailsBack, Rollback, MigTypeOK,
              MarkerInv, MarkerTruth
<1>5. ASSUME NEW p \in Procs, MarkBackup(p) \/ MarkMigrating(p) \/ MarkRolledBack(p)
      PROVE  MarkerInv'
  <2>1. \A q \in Procs : q # p => pc'[q] \notin Session
    BY <1>5 DEF MarkBackup, MarkMigrating, MarkRolledBack, LockInv, OneSession,
                MigTypeOK, Session, Copied
  <2>2. /\ db' = db /\ db = backup[p] /\ backup' = backup
        /\ pc'[p] \in {"backed", "migrating", "marked"}
        /\ \E s \in {"backup_created", "migrating", "rolled_back"} :
             /\ marker' = [status |-> s, by |-> p, copy |-> backup[p]]
             /\ s = "rolled_back" => pc'[p] = "marked"
    BY <1>5 DEF MarkBackup, MarkMigrating, MarkRolledBack, Mark, MigTypeOK, CopyInv
  <2>3. marker' \in Markers
    BY <2>2 DEF Markers, MigTypeOK
  <2> QED
    BY <2>1, <2>2, <2>3 DEF MarkerInv, MarkerTruth, Session, Copied
<1>6. ASSUME NEW p \in Procs, Unmark(p) \/ TearMarker(p)
      PROVE  MarkerInv'
  <2>1. marker' \in {NoMarker, Torn, marker} /\ db' = db /\ backup' = backup
        /\ \E l \in {"unmarked", "marked", "dropping"} : pc' = [pc EXCEPT ![p] = l]
    BY <1>6 DEF Unmark, TearMarker
  <2>2. \A q \in Procs : q # p => pc'[q] \notin Session
    BY <1>6 DEF Unmark, TearMarker, LockInv, OneSession, MigTypeOK, Session, Copied
  <2> QED
    BY <2>1, <2>2, NoMarkerAssumption
       DEF NoMarkerAssumption, MigTypeOK, MarkerInv, MarkerTruth, Session, Copied
<1>7. ASSUME NEW p \in Procs, Replace(p) \/ Restore(p)
      PROVE  MarkerInv'
  <2>1. \A q \in Procs : q # p => pc'[q] \notin Session
    BY <1>7 DEF Replace, Restore, LockInv, OneSession, MigTypeOK, Session, Copied
  <2>2. /\ marker \in Markers /\ marker.by = p /\ marker.copy = backup[p]
        /\ marker.status # "rolled_back"
    BY <1>7 DEF Replace, Restore, MarkerInv
  <2>3. db' \in {backup[p], backup[p] \cup {p}}
    BY <1>7 DEF Replace, Restore, CopyInv, Copied
  <2>4. /\ marker' = marker /\ backup' = backup
        /\ pc'[p] \in {"replaced", "restored"}
    BY <1>7 DEF Replace, Restore, MigTypeOK
  <2> QED
    BY <2>1, <2>2, <2>3, <2>4 DEF MarkerInv, MarkerTruth, Session, Copied
<1> QED
  BY <1>1, <1>2, <1>3, <1>4, <1>5, <1>6, <1>7 DEF TimelyNext, Sessions, Work

------------------------------------------------------------------------------
(* The theorems *)

LEMMA MigInvStep == MigInv /\ [TimelyNext]_vars => MigInv'
BY TypeStep, LockStep, CopyStep, MarkerStep DEF MigInv

\* The inductive invariant, OneSession in it, holds of every behaviour that
\* respects the three assumptions on timing (the run MigrationClosing shows
\* OneSession broken without the last of them).
THEOREM MigInvAlways == TimelySpec => []MigInv
BY MigInitInv, MigInvStep, PTL DEF TimelySpec

\* Type correctness, for every set of processes and age limit.
THEOREM MigTypes == TimelySpec => []MigTypeOK
<1>1. MigInv => MigTypeOK
  BY DEF MigInv
<1> QED
  BY <1>1, MigInvAlways, PTL

\* What the marker says of the copy is true, whatever crashed or failed.
THEOREM MarkerIsTrue == TimelySpec => []MarkerTruth
<1>1. MigInv => MarkerTruth
  BY DEF MigInv, MarkerInv
<1> QED
  BY <1>1, MigInvAlways, PTL

\* A step of a session is a step of the abstract migration or a stutter.
LEMMA MigStepRefines ==
  MigInv /\ [TimelyNext]_vars => [Promise!Next]_<<db, acked>>
<1> USE DEF files, locals, At, Goto
<1> SUFFICES ASSUME MigInv, [TimelyNext]_vars
             PROVE  [Promise!Next]_<<db, acked>>
  OBVIOUS
<1>1. CASE UNCHANGED vars
  BY <1>1 DEF vars
<1>2. CASE Tick
  BY <1>2 DEF Tick
<1>3. ASSUME NEW p \in Procs,
             \/ Begin(p) \/ BeginFails(p) \/ SeeStale(p) \/ RemoveStale(p)
             \/ RemoveStaleFails(p) \/ Crash(p) \/ Fails(p) \/ EndRollback(p) \/ Drop(p)
      PROVE  UNCHANGED <<db, acked>>
  BY <1>3 DEF Begin, BeginFails, CreateLock, SeeStale, RemoveStale, RemoveStaleFails, Crash, Fails,
              EndRollback, Drop
<1>4. ASSUME NEW p \in Procs,
             \/ CopyDatabase(p) \/ MarkBackup(p) \/ MarkMigrating(p)
             \/ Stage(p) \/ Validate(p) \/ Unmark(p) \/ FailsBack(p)
             \/ Rollback(p) \/ MarkRolledBack(p) \/ TearMarker(p)
      PROVE  UNCHANGED <<db, acked>>
  BY <1>4 DEF CopyDatabase, MarkBackup, MarkMigrating, Stage, Validate, Unmark,
              FailsBack, Rollback, MarkRolledBack, TearMarker
<1>5. ASSUME NEW p \in Procs, Replace(p)
      PROVE  Promise!Apply(p)
  BY <1>5 DEF Replace, MigInv, CopyInv, Promise!Apply
<1>6. ASSUME NEW p \in Procs, Restore(p)
      PROVE  Promise!Undo(p) \/ UNCHANGED <<db, acked>>
  <2>1. /\ db \in {backup[p], backup[p] \cup {p}} /\ acked \subseteq backup[p]
        /\ db' = backup[p] /\ acked' = acked
    BY <1>6 DEF Restore, MigInv, CopyInv, Copied
  <2> QED
    BY <2>1 DEF Promise!Undo
<1>7. ASSUME NEW p \in Procs, Finish(p)
      PROVE  Promise!Acknowledge(p)
  BY <1>7 DEF Finish, MigInv, CopyInv, Promise!Acknowledge
<1> QED
  BY <1>1, <1>2, <1>3, <1>4, <1>5, <1>6, <1>7 DEF TimelyNext, Sessions, Work, Promise!Next

\* Every behaviour of the sessions is one of SafeMigration: a change is applied
\* and undone as a whole, and never undone once commit() has returned Ok.
THEOREM MigrationIsSafe == TimelySpec => ImplementsSafeMigration
<1>1. MigInit => Promise!Init
  BY DEF MigInit, Promise!Init
<1> QED
  BY <1>1, MigInvAlways, MigStepRefines, PTL
     DEF TimelySpec, ImplementsSafeMigration, Promise!Spec
=============================================================================
