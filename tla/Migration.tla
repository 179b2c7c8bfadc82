------------------------------ MODULE Migration ------------------------------
(***************************************************************************)
(* Migrations of a project database (crates/ruflo-storage, port.rs and     *)
(* migration.rs).  A session holds .ruflo-storage.lock, copies the         *)
(* database aside, records what it does in .ruflo-storage.migration,       *)
(* stages the changed database, renames it into place, validates it, and   *)
(* rolls back to the copy when a step after the copy fails.                *)
(*                                                                         *)
(* A process is known by the change its plan makes.  A session is a        *)
(* process of its own: it crashes anywhere, and every system call of it    *)
(* may fail, the removals whose outcome the code ignores included.  The    *)
(* lock file is anonymous: whoever removes it, removes whichever file is   *)
(* there.                                                                  *)
(***************************************************************************)
EXTENDS Naturals

CONSTANTS
  Procs,     \* the processes, each with the change its plan makes
  StaleAge,  \* the 30 s after which a lock file counts as a leftover, in ticks
  NoMarker,  \* there is no marker file
  Torn       \* the marker file says nothing: its writing was cut off

ASSUME StaleAgeAssumption == StaleAge \in Nat

VARIABLES
  db,      \* the changes the database file holds
  lock,    \* whether .ruflo-storage.lock exists
  age,     \* its age in ticks, saturating
  marker,  \* what .ruflo-storage.migration says, NoMarker or Torn
  pc,      \* where each process is in its session
  backup,  \* the copy a session took of the database
  staged,  \* the changed database a session has staged
  cloned,  \* whether the rollback of a session runs on a clone of it
  acked    \* the changes whose commit() returned Ok

vars == <<db, lock, age, marker, pc, backup, staged, cloned, acked>>
files == <<db, marker>>
locals == <<backup, staged, cloned>>

Copied  == {"backed", "migrating", "staged", "replaced", "validated",
            "unmarked", "failing", "restored", "marked"}
Session == Copied \cup {"open", "copied", "dropping"}
Markers == [status : {"backup_created", "migrating", "rolled_back"},
            by : Procs, copy : SUBSET Procs]

ASSUME NoMarkerAssumption == NoMarker \notin Markers /\ Torn \notin Markers

MigTypeOK ==
  /\ db \in SUBSET Procs
  /\ lock \in BOOLEAN
  /\ age \in 0..(StaleAge + 1)
  /\ marker \in {NoMarker, Torn} \cup Markers
  /\ pc \in [Procs -> {"idle", "removing", "closing"} \cup Session]
  /\ backup \in [Procs -> SUBSET Procs]
  /\ staged \in [Procs -> SUBSET Procs]
  /\ cloned \in [Procs -> BOOLEAN]
  /\ acked \in SUBSET Procs

MigInit ==
  /\ db = {}
  /\ lock = FALSE
  /\ age = 0
  /\ marker = NoMarker
  /\ pc = [p \in Procs |-> "idle"]
  /\ backup = [p \in Procs |-> {}]
  /\ staged = [p \in Procs |-> {}]
  /\ cloned = [p \in Procs |-> FALSE]
  /\ acked = {}

At(p, S) == pc[p] \in S
Goto(p, l) == pc' = [pc EXCEPT ![p] = l]
Unlock == lock' = FALSE /\ age' = 0

\* let _ = fs::remove_file(..): the file goes, or nobody notices that it stays.
TryUnlock == Unlock \/ UNCHANGED <<lock, age>>

------------------------------------------------------------------------------
(* begin_migration(): the lock file, and the takeover of a stale one *)

CreateLock == ~lock /\ lock' = TRUE /\ age' = 0 /\ UNCHANGED <<files, acked>>

Begin(p) ==
  /\ At(p, {"idle"})
  /\ CreateLock
  /\ Goto(p, "open")
  /\ UNCHANGED locals

\* The file is created, its permissions cannot be set: it stays behind.
BeginFails(p) ==
  /\ At(p, {"idle"})
  /\ CreateLock
  /\ UNCHANGED <<pc, locals>>

\* FAULT: a lock exactly as old as the limit is stale already.
SeeStaleEarly(p) ==
  /\ At(p, {"idle"})
  /\ lock /\ age >= StaleAge
  /\ Goto(p, "removing")
  /\ UNCHANGED <<lock, age, files, locals, acked>>

\* FAULT: the age is taken in a larger unit: the limit is never passed.
SeeStaleNever(p) ==
  /\ At(p, {"idle"})
  /\ lock /\ age > StaleAge + 1
  /\ Goto(p, "removing")
  /\ UNCHANGED <<lock, age, files, locals, acked>>

SeeStale(p) ==
  /\ At(p, {"idle"})
  /\ lock /\ age > StaleAge
  /\ Goto(p, "removing")
  /\ UNCHANGED <<lock, age, files, locals, acked>>

\* Removed by its path; the call then starts over.
RemoveStale(p) ==
  /\ At(p, {"removing"})
  /\ Unlock
  /\ Goto(p, "idle")
  /\ UNCHANGED <<files, locals, acked>>

\* The removal fails, the call starts over all the same: it finds the file as
\* stale as before, and goes round for as long as the removal fails.
RemoveStaleFails(p) ==
  /\ At(p, {"removing"})
  /\ Goto(p, "idle")
  /\ UNCHANGED <<lock, age, files, locals, acked>>

------------------------------------------------------------------------------
(* backup() and commit() *)

CopyDatabase(p) ==
  /\ At(p, {"open"})
  /\ backup' = [backup EXCEPT ![p] = db]
  /\ Goto(p, "copied")
  /\ UNCHANGED <<db, lock, age, marker, staged, cloned, acked>>

\* backup_path is set after the marker is written, so the marker of this
\* status names no copy: its field is of no meaning.
Mark(p, status) ==
  marker' = [status |-> status, by |-> p, copy |-> backup[p]]

MarkBackup(p) ==
  /\ At(p, {"copied"})
  /\ Mark(p, "backup_created")
  /\ Goto(p, "backed")
  /\ UNCHANGED <<db, lock, age, locals, acked>>

MarkMigrating(p) ==
  /\ At(p, {"backed"})
  /\ Mark(p, "migrating")
  /\ Goto(p, "migrating")
  /\ UNCHANGED <<db, lock, age, locals, acked>>

\* fs::write truncates before it writes: an error or a death in between leaves
\* a marker that says nothing.  The error is returned.
TearMarker(p) ==
  /\ At(p, {"copied", "backed", "restored"})
  /\ marker' = Torn
  /\ Goto(p, IF pc[p] = "restored" THEN "marked" ELSE "dropping")
  /\ UNCHANGED <<db, lock, age, locals, acked>>

\* Read, transform, validate, and write the result beside the database.
Stage(p) ==
  /\ At(p, {"migrating"})
  /\ staged' = [staged EXCEPT ![p] = db \cup {p}]
  /\ Goto(p, "staged")
  /\ UNCHANGED <<files, lock, age, backup, cloned, acked>>

Replace(p) ==
  /\ At(p, {"staged"})
  /\ db' = staged[p]
  /\ Goto(p, "replaced")
  /\ UNCHANGED <<lock, age, marker, locals, acked>>

Validate(p) ==
  /\ At(p, {"replaced"})
  /\ p \in db
  /\ Goto(p, "validated")
  /\ UNCHANGED <<lock, age, files, locals, acked>>

\* The outcome of the removal is ignored.
Unmark(p) ==
  /\ At(p, {"validated"})
  /\ marker' \in {NoMarker, marker}
  /\ Goto(p, "unmarked")
  /\ UNCHANGED <<db, lock, age, locals, acked>>

Finish(p) ==
  /\ At(p, {"unmarked"})
  /\ TryUnlock
  /\ acked' = acked \cup {p}
  /\ Goto(p, "idle")
  /\ UNCHANGED <<files, locals>>

------------------------------------------------------------------------------
(* Failures, rollback and the end of a session *)

\* An error returned with ? : the session is dropped as it is.
Fails(p) ==
  /\ At(p, {"open", "copied", "backed", "migrating"})
  /\ Goto(p, "dropping")
  /\ UNCHANGED <<lock, age, files, locals, acked>>

\* FAULT: an error of the rename is not noticed.
FailsUnnoticed(p) ==
  /\ At(p, {"migrating", "staged", "replaced"})
  /\ Goto(p, IF pc[p] = "staged" THEN "validated" ELSE "failing")
  /\ cloned' = [cloned EXCEPT ![p] = TRUE]
  /\ UNCHANGED <<lock, age, files, backup, staged, acked>>

\* An error commit() answers with a rollback, which it runs on a clone.
\* (The staged file cannot be written: dropped, as in Fails.)
FailsBack(p) ==
  /\ At(p, {"migrating", "staged", "replaced"})
  /\ Goto(p, "failing")
  /\ cloned' = [cloned EXCEPT ![p] = TRUE]
  /\ UNCHANGED <<lock, age, files, backup, staged, acked>>

\* The caller's rollback() of a session that has a backup.
Rollback(p) ==
  /\ At(p, {"backed"})
  /\ Goto(p, "failing")
  /\ cloned' = [cloned EXCEPT ![p] = FALSE]
  /\ UNCHANGED <<lock, age, files, backup, staged, acked>>

Restore(p) ==
  /\ At(p, {"failing"})
  /\ db' = backup[p]
  /\ Goto(p, "restored")
  /\ UNCHANGED <<lock, age, marker, locals, acked>>

\* FAULT: the marker says rolled_back before the copy is in place.
MarkRolledBackFirst(p) ==
  /\ At(p, {"failing", "restored"})
  /\ Mark(p, "rolled_back")
  /\ Goto(p, "marked")
  /\ UNCHANGED <<db, lock, age, locals, acked>>

MarkRolledBack(p) ==
  /\ At(p, {"restored"})
  /\ Mark(p, "rolled_back")
  /\ Goto(p, "marked")
  /\ UNCHANGED <<db, lock, age, locals, acked>>

\* The rollback ends, or fails where it is.  Whether it ran on a clone or on
\* the session itself, the lock file is removed, at its end or by its drop, if
\* that can be done.
EndRollback(p) ==
  /\ At(p, {"failing", "restored", "marked"})
  /\ TryUnlock
  /\ Goto(p, IF cloned[p] THEN "closing" ELSE "idle")
  /\ UNCHANGED <<files, locals, acked>>

\* Drop of an unfinished session: after a clone rolled back, it is the second
\* removal of the lock file.
Drop(p) ==
  /\ At(p, {"open", "backed", "dropping", "closing"})
  /\ TryUnlock
  /\ Goto(p, "idle")
  /\ UNCHANGED <<files, locals, acked>>

Crash(p) ==
  /\ ~At(p, {"idle"})
  /\ Goto(p, "idle")
  /\ UNCHANGED <<lock, age, files, locals, acked>>

Tick ==
  /\ lock /\ age <= StaleAge
  /\ age' = age + 1
  /\ UNCHANGED <<lock, files, pc, locals, acked>>

------------------------------------------------------------------------------
Work(p) ==
  \/ CopyDatabase(p) \/ MarkBackup(p) \/ MarkMigrating(p) \/ Stage(p)
  \/ Replace(p) \/ Validate(p) \/ Unmark(p) \/ Finish(p)
  \/ Fails(p) \/ FailsBack(p) \/ Rollback(p) \/ Restore(p)
  \/ MarkRolledBack(p) \/ TearMarker(p) \/ EndRollback(p) \/ Drop(p)
  \/ RemoveStale(p) \/ RemoveStaleFails(p)

MigNext ==
  \/ Tick
  \/ \E p \in Procs : Begin(p) \/ BeginFails(p) \/ SeeStale(p) \/ Work(p) \/ Crash(p)

MigSpec == MigInit /\ [][MigNext]_vars

------------------------------------------------------------------------------
(* What the code takes for granted.  PROMPT: no session lasts longer than   *)
(* the age at which its lock counts as a leftover, to the last removal of   *)
(* the lock file.  SOLO: one process at a time meets a leftover lock.       *)
(* CLOSED: no session begins between the two removals of the lock file that *)
(* end a rolled back commit().  The code enforces none of the three;        *)
(* UnclosedSpec is without Closed.                                          *)

Prompt == age < StaleAge \/ \A p \in Procs : pc[p] \notin Session \cup {"closing"}
Solo   == \A p \in Procs : pc[p] # "removing"
Closed == \A p \in Procs : pc[p] # "closing"

Sessions(MayBegin) ==
  \/ Tick /\ Prompt
  \/ \E p \in Procs :
       \/ Begin(p) /\ MayBegin
       \/ BeginFails(p) /\ MayBegin
       \/ SeeStale(p) /\ Solo
       \/ Work(p)
       \/ Crash(p)

TimelyNext == Sessions(Closed)

\* A session that is not stuck goes on, somebody asks for the lock again and
\* again and can read its age, and time passes.
MigFairness ==
  /\ \A p \in Procs : WF_vars(Work(p))
  /\ WF_vars(\E p \in Procs : SeeStale(p) /\ Solo)
  /\ WF_vars(Tick /\ Prompt)

TimelySpec   == MigInit /\ [][TimelyNext]_vars /\ MigFairness
UnclosedSpec == MigInit /\ [][Sessions(TRUE)]_vars

------------------------------------------------------------------------------
(* Correctness *)

\* At most one process is inside a migration.  The anonymous lock file gives
\* this only as far as Prompt, Solo and Closed do: it is taken over by age,
\* whether its session lives or not, and a rolled back commit() removes it
\* twice, whosever it is by then.
OneSession ==
  \A p, q \in Procs : (pc[p] \in Session /\ pc[q] \in Session) => p = q

\* The marker can be trusted after a crash at any step, unless it says nothing:
\* "migrating" names a copy that differs from the database at most by the
\* change of that session, "rolled_back" a copy the database is equal to.
MarkerTruth ==
  marker \in Markers =>
    /\ marker.status = "migrating" =>
         db \in {marker.copy, marker.copy \cup {marker.by}}
    /\ marker.status = "rolled_back" => db = marker.copy

Promise == INSTANCE SafeMigration WITH Changes <- Procs, db <- db, acked <- acked

\* A change is applied as a whole, undone only while nobody was told of it,
\* and reported by commit() only when it is in the database.
ImplementsSafeMigration == Promise!Spec

\* Neither a crash, nor a failed begin_migration(), nor a removal that failed
\* at the end of a session closes the project for good: the lock file is gone
\* again and again, unless processes never stop crashing, or takeovers of the
\* leftover never stop failing, when begin_migration() calls itself for ever.
LockLetsGo ==
  \/ []<>(~lock)
  \/ []<><<\E p \in Procs : Crash(p)>>_vars
  \/ []<><<\E p \in Procs : RemoveStaleFails(p)>>_vars
=============================================================================
