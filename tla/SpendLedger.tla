----------------------------- MODULE SpendLedger -----------------------------
(***************************************************************************)
(* ruflo-storage/src/appliance_state.rs, SpendLedger: the gate every AI    *)
(* spawn passes.  One SQLite file is shared by every process of the user;  *)
(* each statement is a transaction of its own, so the check of the limits  *)
(* and the insertion of the permit are two steps with other processes in   *)
(* between.  A permit is a row; it is active until released_ms is set, and *)
(* it counts in the hourly and daily windows whether active or not.        *)
(*                                                                         *)
(* Time is relative: the age of each row, saturating above the day window. *)
(* A released row older than that is counted by no query any more; it is   *)
(* forgotten, and its id is free to stand for another permit.              *)
(***************************************************************************)
EXTENDS Naturals, FiniteSets

CONSTANTS
  Procs,            \* processes that launch AI workers
  Permits,          \* permit ids, more than there are rows that count
  LimitConcurrent,  \* LIMIT_CONCURRENT
  LimitHourly,      \* LIMIT_HOURLY
  LimitDaily,       \* LIMIT_DAILY
  HourTicks,        \* HOUR_MS, in ticks
  DayTicks,         \* DAY_MS, in ticks
  NoPermit

ASSUME SpendAssumption ==
  /\ IsFiniteSet(Procs) /\ Procs # {}
  /\ IsFiniteSet(Permits)
  /\ LimitConcurrent \in Nat
  /\ LimitHourly \in Nat
  /\ LimitDaily \in Nat
  /\ HourTicks \in Nat
  /\ DayTicks \in Nat
  /\ HourTicks <= DayTicks
  /\ NoPermit \notin Permits

VARIABLES
  paused,   \* appliance_spend_meta: paused = 1
  rows,     \* the rows of appliance_spend that some query counts
  active,   \* the rows with released_ms IS NULL
  age,      \* ticks since at_ms of each row
  gate,     \* per process: how far it is through reserve(), "in" until release
  permit    \* per process: the permit it holds

spendVars == <<paused, rows, active, age, gate, permit>>

SpendTypeOK ==
  /\ paused \in BOOLEAN
  /\ rows \subseteq Permits
  /\ active \subseteq rows
  /\ age \in [Permits -> 0..(DayTicks + 1)]
  /\ gate \in [Procs -> {"out", "active_ok", "hour_ok", "cleared", "in"}]
  /\ permit \in [Procs -> Permits \cup {NoPermit}]

SpendInit ==
  /\ paused = FALSE
  /\ rows = {}
  /\ active = {}
  /\ age = [r \in Permits |-> 0]
  /\ gate = [p \in Procs |-> "out"]
  /\ permit = [p \in Procs |-> NoPermit]

\* count_since
Since(window) == {r \in rows : age[r] <= window}

\* FAULT: a count that has reached the limit passes.
PassAtLimit(p, from, to, count, limit) ==
  /\ gate[p] = from
  /\ count <= limit
  /\ gate' = [gate EXCEPT ![p] = to]
  /\ UNCHANGED <<paused, rows, active, age, permit>>

Pass(p, from, to, count, limit) ==
  /\ gate[p] = from
  /\ count < limit
  /\ gate' = [gate EXCEPT ![p] = to]
  /\ UNCHANGED <<paused, rows, active, age, permit>>

\* check() asks for the pause and the active permits, ...
CountActive(p) ==
  /\ ~paused
  /\ Pass(p, "out", "active_ok", Cardinality(active), LimitConcurrent)

\* ... then for the launches of the hour, ...
CountHour(p) ==
  Pass(p, "active_ok", "hour_ok", Cardinality(Since(HourTicks)), LimitHourly)

\* ... then for those of the day: three statements, and Ok.
CountDay(p) ==
  Pass(p, "hour_ok", "cleared", Cardinality(Since(DayTicks)), LimitDaily)

\* A limit is reached: Err.  (Refused at the first statement, the caller has
\* changed nothing.)
Refuse(p) ==
  /\ \/ gate[p] = "active_ok" /\ Cardinality(Since(HourTicks)) >= LimitHourly
     \/ gate[p] = "hour_ok" /\ Cardinality(Since(DayTicks)) >= LimitDaily
  /\ gate' = [gate EXCEPT ![p] = "out"]
  /\ UNCHANGED <<paused, rows, active, age, permit>>

\* FAULT: ids repeat, and a row replaces the one that has its id.
NextPermitRepeats == CHOOSE r \in Permits : TRUE

\* The id of a new row: time and process id make it unlike every other.
NextPermit == CHOOSE r \in Permits : r \notin rows

\* The INSERT of reserve(), whatever has become of the limits since.
Insert(p) ==
  /\ gate[p] = "cleared"
  /\ Permits \ rows # {}
  /\ rows' = rows \cup {NextPermit}
  /\ active' = active \cup {NextPermit}
  /\ age' = [age EXCEPT ![NextPermit] = 0]
  /\ permit' = [permit EXCEPT ![p] = NextPermit]
  /\ gate' = [gate EXCEPT ![p] = "in"]
  /\ UNCHANGED paused

\* release(), from PermitGuard::drop or the end of run_swarm.
ReleasePermit(p) ==
  /\ gate[p] = "in"
  /\ active' = active \ {permit[p]}
  /\ permit' = [permit EXCEPT ![p] = NoPermit]
  /\ gate' = [gate EXCEPT ![p] = "out"]
  /\ UNCHANGED <<paused, rows, age>>

\* The INSERT of reserve() fails (database locked, or a permit id taken by
\* the same process in the same millisecond): Err, and no row.
InsertFails(p) ==
  /\ gate[p] = "cleared"
  /\ gate' = [gate EXCEPT ![p] = "out"]
  /\ UNCHANGED <<paused, rows, active, age, permit>>

\* The process dies, or the UPDATE of release() fails, which no caller looks
\* at: the row stays active, and nothing expires it.
AbandonPermit(p) ==
  /\ gate' = [gate EXCEPT ![p] = "out"]
  /\ permit' = [permit EXCEPT ![p] = NoPermit]
  /\ UNCHANGED <<paused, rows, active, age>>

Pause  == paused' = TRUE  /\ UNCHANGED <<rows, active, age, gate, permit>>
Resume == paused' = FALSE /\ UNCHANGED <<rows, active, age, gate, permit>>

SpendTick ==
  /\ rows' = active \cup {r \in rows : age[r] < DayTicks}
  /\ age' = [r \in Permits |->
               IF r \notin rows' THEN 0
               ELSE IF age[r] <= DayTicks THEN age[r] + 1 ELSE age[r]]
  /\ UNCHANGED <<paused, active, gate, permit>>

SpendNext ==
  \/ \E p \in Procs : CountActive(p)
  \/ \E p \in Procs : CountHour(p)
  \/ \E p \in Procs : CountDay(p)
  \/ \E p \in Procs : Refuse(p)
  \/ \E p \in Procs : Insert(p)
  \/ \E p \in Procs : InsertFails(p)
  \/ \E p \in Procs : ReleasePermit(p)
  \/ \E p \in Procs : gate[p] # "out" /\ AbandonPermit(p)
  \/ Pause
  \/ Resume
  \/ SpendTick

SpendSpec == SpendInit /\ [][SpendNext]_spendVars

------------------------------------------------------------------------------
(* Properties *)

Past(stages) == {p \in Procs : gate[p] \in stages}

Within(n, stages, limit) ==
  n + Cardinality(Past(stages)) < limit + Cardinality(Procs)

\* What the gate does keep, over every interleaving and crash: the counted
\* permits, and the launches that a count has already let pass, outnumber a
\* limit by less than the number of processes; one process alone never
\* exceeds it.
BoundedOvershoot ==
  /\ Within(Cardinality(active), {"active_ok", "hour_ok", "cleared"}, LimitConcurrent)
  /\ Within(Cardinality(Since(HourTicks)), {"hour_ok", "cleared"}, LimitHourly)
  /\ Within(Cardinality(Since(DayTicks)), {"cleared"}, LimitDaily)

\* A process inside the gate holds an active permit of its own: no release
\* of another process, or of an earlier launch, takes it away.
PermitHeld ==
  /\ \A p \in Procs : gate[p] = "in" => permit[p] \in active
  /\ \A p, q \in Procs :
       gate[p] = "in" /\ gate[q] = "in" /\ permit[p] = permit[q] => p = q
==============================================================================
