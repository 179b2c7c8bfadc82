-------------------------- MODULE SpendLedgerProofs --------------------------
(***************************************************************************)
(* For every number of processes and every limit: a process inside the     *)
(* gate holds an active permit of its own, and the race between the counts *)
(* of check() and the INSERT of reserve() exceeds a limit by less than the *)
(* number of processes.                                                    *)
(***************************************************************************)
EXTENDS SpendLedger, FiniteSetTheorems, TLAPS

------------------------------------------------------------------------------
(* Counting *)

LEMMA Smaller ==
  ASSUME NEW B, IsFiniteSet(B), NEW A \in SUBSET B
  PROVE  /\ IsFiniteSet(A)
         /\ Cardinality(A) \in Nat
         /\ Cardinality(B) \in Nat
         /\ Cardinality(A) <= Cardinality(B)
BY FS_Subset, FS_CardinalityType

(* A count that does not grow, and no new process past it. *)
LEMMA WithinStays ==
  ASSUME NEW A, IsFiniteSet(A), NEW B \in SUBSET A,
         NEW P, IsFiniteSet(P), NEW Q \in SUBSET P,
         NEW bound \in Nat, Cardinality(A) + Cardinality(P) < bound
  PROVE  Cardinality(B) + Cardinality(Q) < bound
<1>1. /\ Cardinality(A) \in Nat /\ Cardinality(B) \in Nat
      /\ Cardinality(B) <= Cardinality(A)
  BY Smaller
<1>2. /\ Cardinality(P) \in Nat /\ Cardinality(Q) \in Nat
      /\ Cardinality(Q) <= Cardinality(P)
  BY Smaller
<1>3. QED BY <1>1, <1>2

(* A process passes the count, which is below the limit. *)
LEMMA WithinPass ==
  ASSUME NEW A, IsFiniteSet(A), NEW limit \in Nat, Cardinality(A) < limit,
         NEW P, IsFiniteSet(P), NEW Q \in SUBSET P
  PROVE  Cardinality(A) + Cardinality(Q) < limit + Cardinality(P)
<1>1. Cardinality(A) \in Nat
  BY FS_CardinalityType
<1>2. /\ Cardinality(P) \in Nat /\ Cardinality(Q) \in Nat
      /\ Cardinality(Q) <= Cardinality(P)
  BY Smaller
<1>3. QED BY <1>1, <1>2

(* A process that has passed adds one row, and has no longer merely passed. *)
LEMMA WithinInsert ==
  ASSUME NEW A, IsFiniteSet(A), NEW r, NEW B \in SUBSET (A \cup {r}),
         NEW P, IsFiniteSet(P), NEW p \in P, NEW Q \in SUBSET (P \ {p}),
         NEW bound \in Nat, Cardinality(A) + Cardinality(P) < bound
  PROVE  Cardinality(B) + Cardinality(Q) < bound
<1>1. /\ IsFiniteSet(A \cup {r})
      /\ Cardinality(A \cup {r}) <= Cardinality(A) + 1
      /\ Cardinality(A) \in Nat
  <2>1. Cardinality(A) \in Nat
    BY FS_CardinalityType
  <2>2. /\ IsFiniteSet(A \cup {r})
        /\ \/ Cardinality(A \cup {r}) = Cardinality(A)
           \/ Cardinality(A \cup {r}) = Cardinality(A) + 1
    BY FS_AddElement
  <2>3. QED BY <2>1, <2>2
<1>2. Cardinality(B) \in Nat /\ Cardinality(B) <= Cardinality(A) + 1
  <2>1. /\ Cardinality(B) \in Nat /\ Cardinality(A \cup {r}) \in Nat
        /\ Cardinality(B) <= Cardinality(A \cup {r})
    BY <1>1, Smaller
  <2>2. QED BY <1>1, <2>1
<1>3. /\ IsFiniteSet(P \ {p})
      /\ Cardinality(P \ {p}) = Cardinality(P) - 1
      /\ Cardinality(P) \in Nat
  BY FS_RemoveElement, FS_CardinalityType
<1>4. Cardinality(Q) \in Nat /\ Cardinality(Q) <= Cardinality(P) - 1
  <2>1. Cardinality(Q) \in Nat /\ Cardinality(Q) <= Cardinality(P \ {p})
    BY <1>3, Smaller
  <2>2. QED BY <1>3, <2>1
<1>5. QED BY <1>1, <1>2, <1>3, <1>4

------------------------------------------------------------------------------
(* Types and permits *)

SpendInv == SpendTypeOK /\ PermitHeld /\ BoundedOvershoot

LEMMA FreshPermit ==
  Permits \ rows # {} => NextPermit \in Permits /\ NextPermit \notin rows
BY DEF NextPermit

(* Every step keeps the types. *)
LEMMA TypeStep == SpendTypeOK /\ [SpendNext]_spendVars => SpendTypeOK'
<1> SUFFICES ASSUME SpendTypeOK, [SpendNext]_spendVars PROVE SpendTypeOK'
  OBVIOUS
<1> USE DEF SpendTypeOK
<1>1. ASSUME NEW p \in Procs,
             CountActive(p) \/ CountHour(p) \/ CountDay(p) \/ Refuse(p)
      PROVE  SpendTypeOK'
  BY <1>1 DEF CountActive, CountHour, CountDay, Refuse, Pass
<1>2. ASSUME NEW p \in Procs, Insert(p) PROVE SpendTypeOK'
  <2>1. NextPermit \in Permits
    BY <1>2, FreshPermit DEF Insert
  <2>2. 0 \in 0..(DayTicks + 1)
    BY SpendAssumption
  <2>3. QED BY <1>2, <2>1, <2>2 DEF Insert
<1>3. ASSUME NEW p \in Procs, InsertFails(p) PROVE SpendTypeOK'
  BY <1>3 DEF InsertFails
<1>4. ASSUME NEW p \in Procs, ReleasePermit(p) PROVE SpendTypeOK'
  BY <1>4 DEF ReleasePermit
<1>5. ASSUME NEW p \in Procs, AbandonPermit(p) PROVE SpendTypeOK'
  BY <1>5 DEF AbandonPermit
<1>6. ASSUME Pause \/ Resume PROVE SpendTypeOK'
  BY <1>6 DEF Pause, Resume
<1>7. ASSUME SpendTick PROVE SpendTypeOK'
  <2>1. rows' \subseteq Permits /\ active' \subseteq rows'
    BY <1>7 DEF SpendTick
  <2>2. age' \in [Permits -> 0..(DayTicks + 1)]
    BY <1>7, SpendAssumption DEF SpendTick
  <2>3. QED BY <1>7, <2>1, <2>2 DEF SpendTick
<1>8. ASSUME UNCHANGED spendVars PROVE SpendTypeOK'
  BY <1>8 DEF spendVars
<1>9. QED
  BY <1>1, <1>2, <1>3, <1>4, <1>5, <1>6, <1>7, <1>8 DEF SpendNext

(* Every step leaves each process inside the gate its own active permit. *)
LEMMA HeldStep ==
  SpendTypeOK /\ PermitHeld /\ [SpendNext]_spendVars => PermitHeld'
<1> SUFFICES ASSUME SpendTypeOK, PermitHeld, [SpendNext]_spendVars
             PROVE  PermitHeld'
  OBVIOUS
<1> USE DEF SpendTypeOK, PermitHeld
<1>1. ASSUME NEW p \in Procs,
             CountActive(p) \/ CountHour(p) \/ CountDay(p) \/ Refuse(p)
      PROVE  PermitHeld'
  BY <1>1 DEF CountActive, CountHour, CountDay, Refuse, Pass
<1>2. ASSUME NEW p \in Procs, Insert(p) PROVE PermitHeld'
  <2>1. NextPermit \notin active
    BY <1>2, FreshPermit DEF Insert
  <2>2. QED BY <1>2, <2>1 DEF Insert
<1>3. ASSUME NEW p \in Procs, InsertFails(p) PROVE PermitHeld'
  BY <1>3 DEF InsertFails
<1>4. ASSUME NEW p \in Procs, ReleasePermit(p) PROVE PermitHeld'
  BY <1>4 DEF ReleasePermit
<1>5. ASSUME NEW p \in Procs, AbandonPermit(p) PROVE PermitHeld'
  BY <1>5 DEF AbandonPermit
<1>6. ASSUME Pause \/ Resume \/ SpendTick PROVE PermitHeld'
  BY <1>6 DEF Pause, Resume, SpendTick
<1>7. ASSUME UNCHANGED spendVars PROVE PermitHeld'
  BY <1>7 DEF spendVars
<1>8. QED BY <1>1, <1>2, <1>3, <1>4, <1>5, <1>6, <1>7 DEF SpendNext

------------------------------------------------------------------------------
(* The race between check and INSERT *)

LEMMA FiniteState ==
  ASSUME SpendTypeOK, NEW stages, NEW window
  PROVE  /\ IsFiniteSet(active)
         /\ IsFiniteSet(Since(window))
         /\ IsFiniteSet(Past(stages))
<1>1. /\ active \in SUBSET Permits
      /\ Since(window) \in SUBSET Permits
      /\ Past(stages) \in SUBSET Procs
  BY DEF SpendTypeOK, Since, Past
<1>2. QED BY <1>1, SpendAssumption, FS_Subset

LEMMA Bounds ==
  /\ LimitConcurrent + Cardinality(Procs) \in Nat
  /\ LimitHourly + Cardinality(Procs) \in Nat
  /\ LimitDaily + Cardinality(Procs) \in Nat
<1>1. Cardinality(Procs) \in Nat
  BY SpendAssumption, FS_CardinalityType
<1>2. QED BY <1>1, SpendAssumption

(* A step that adds no row and lets no process past a count.                *)
LEMMA QuietStep ==
  ASSUME SpendInv, active' \subseteq active,
         \A window \in {HourTicks, DayTicks} : Since(window)' \subseteq Since(window),
         \A p \in Procs : gate'[p] = gate[p] \/ gate'[p] \in {"out", "in"}
  PROVE  BoundedOvershoot'
<1> DEFINE S1 == {"active_ok", "hour_ok", "cleared"}
           S2 == {"hour_ok", "cleared"}
           S3 == {"cleared"}
<1>1. /\ Past(S1)' \in SUBSET Past(S1)
      /\ Past(S2)' \in SUBSET Past(S2)
      /\ Past(S3)' \in SUBSET Past(S3)
  BY DEF Past
<1>2. /\ IsFiniteSet(active)
      /\ IsFiniteSet(Since(HourTicks)) /\ IsFiniteSet(Since(DayTicks))
      /\ IsFiniteSet(Past(S1)) /\ IsFiniteSet(Past(S2)) /\ IsFiniteSet(Past(S3))
  BY FiniteState DEF SpendInv
<1>3. /\ Cardinality(active) + Cardinality(Past(S1))
           < LimitConcurrent + Cardinality(Procs)
      /\ Cardinality(Since(HourTicks)) + Cardinality(Past(S2))
           < LimitHourly + Cardinality(Procs)
      /\ Cardinality(Since(DayTicks)) + Cardinality(Past(S3))
           < LimitDaily + Cardinality(Procs)
  BY DEF SpendInv, BoundedOvershoot, Within
<1>4. Cardinality(active') + Cardinality(Past(S1)')
        < LimitConcurrent + Cardinality(Procs)
  <2>1. active' \in SUBSET active
    OBVIOUS
  <2>2. QED BY ONLY <1>1, <1>2, <1>3, <2>1, Bounds, WithinStays
<1>5. Cardinality(Since(HourTicks)') + Cardinality(Past(S2)')
        < LimitHourly + Cardinality(Procs)
  <2>1. Since(HourTicks)' \in SUBSET Since(HourTicks)
    OBVIOUS
  <2>2. QED BY ONLY <1>1, <1>2, <1>3, <2>1, Bounds, WithinStays
<1>6. Cardinality(Since(DayTicks)') + Cardinality(Past(S3)')
        < LimitDaily + Cardinality(Procs)
  <2>1. Since(DayTicks)' \in SUBSET Since(DayTicks)
    OBVIOUS
  <2>2. QED BY ONLY <1>1, <1>2, <1>3, <2>1, Bounds, WithinStays
<1>7. QED BY <1>4, <1>5, <1>6 DEF BoundedOvershoot, Within

(* The facts about the stages that the three counts share.                   *)
LEMMA Unmoved ==
  ASSUME SpendInv, UNCHANGED <<rows, active, age>>
  PROVE  /\ active' = active
         /\ Since(HourTicks)' = Since(HourTicks)
         /\ Since(DayTicks)' = Since(DayTicks)
BY DEF Since

(* A process passes one of the counts of check().                            *)
LEMMA PassStep ==
  ASSUME SpendInv, NEW p \in Procs,
         CountActive(p) \/ CountHour(p) \/ CountDay(p)
  PROVE  BoundedOvershoot'
<1> DEFINE S1 == {"active_ok", "hour_ok", "cleared"}
           S2 == {"hour_ok", "cleared"}
           S3 == {"cleared"}
<1>1. UNCHANGED <<rows, active, age>>
  BY DEF CountActive, CountHour, CountDay, Pass
<1>2. /\ Within(Cardinality(active), S1, LimitConcurrent)
      /\ Within(Cardinality(Since(HourTicks)), S2, LimitHourly)
      /\ Within(Cardinality(Since(DayTicks)), S3, LimitDaily)
  BY DEF SpendInv, BoundedOvershoot
<1>3. /\ IsFiniteSet(active)
      /\ IsFiniteSet(Since(HourTicks)) /\ IsFiniteSet(Since(DayTicks))
  BY FiniteState DEF SpendInv
<1>4. /\ Past(S1)' \in SUBSET Procs
      /\ Past(S2)' \in SUBSET Procs
      /\ Past(S3)' \in SUBSET Procs
  BY DEF Past
<1>5. CASE CountActive(p)
  <2>1. Past(S2)' = Past(S2) /\ Past(S3)' = Past(S3)
    BY <1>5 DEF CountActive, Pass, Past, SpendInv, SpendTypeOK
  <2>2. Cardinality(active) < LimitConcurrent
    BY <1>5 DEF CountActive, Pass
  <2>3. Cardinality(active) + Cardinality(Past(S1)')
          < LimitConcurrent + Cardinality(Procs)
    BY ONLY <1>3, <1>4, <2>2, SpendAssumption, WithinPass
  <2>4. QED
    BY <1>1, <1>2, <2>1, <2>3, Unmoved DEF BoundedOvershoot, Within
<1>6. CASE CountHour(p)
  <2>1. Past(S1)' = Past(S1) /\ Past(S3)' = Past(S3)
    BY <1>6 DEF CountHour, Pass, Past, SpendInv, SpendTypeOK
  <2>2. Cardinality(Since(HourTicks)) < LimitHourly
    BY <1>6 DEF CountHour, Pass
  <2>3. Cardinality(Since(HourTicks)) + Cardinality(Past(S2)')
          < LimitHourly + Cardinality(Procs)
    BY ONLY <1>3, <1>4, <2>2, SpendAssumption, WithinPass
  <2>4. QED
    BY <1>1, <1>2, <2>1, <2>3, Unmoved DEF BoundedOvershoot, Within
<1>7. CASE CountDay(p)
  <2>1. Past(S1)' = Past(S1) /\ Past(S2)' = Past(S2)
    BY <1>7 DEF CountDay, Pass, Past, SpendInv, SpendTypeOK
  <2>2. Cardinality(Since(DayTicks)) < LimitDaily
    BY <1>7 DEF CountDay, Pass
  <2>3. Cardinality(Since(DayTicks)) + Cardinality(Past(S3)')
          < LimitDaily + Cardinality(Procs)
    BY ONLY <1>3, <1>4, <2>2, SpendAssumption, WithinPass
  <2>4. QED
    BY <1>1, <1>2, <2>1, <2>3, Unmoved DEF BoundedOvershoot, Within
<1>8. QED BY <1>5, <1>6, <1>7

(* A process that passed every count inserts its row.                        *)
LEMMA InsertStep ==
  ASSUME SpendInv, NEW p \in Procs, Insert(p)
  PROVE  BoundedOvershoot'
<1> DEFINE S1 == {"active_ok", "hour_ok", "cleared"}
           S2 == {"hour_ok", "cleared"}
           S3 == {"cleared"}
           r  == NextPermit
<1>1. /\ p \in Past(S1) /\ Past(S1)' \in SUBSET (Past(S1) \ {p})
      /\ p \in Past(S2) /\ Past(S2)' \in SUBSET (Past(S2) \ {p})
      /\ p \in Past(S3) /\ Past(S3)' \in SUBSET (Past(S3) \ {p})
  BY DEF Insert, Past, SpendInv, SpendTypeOK
<1>2. /\ IsFiniteSet(active)
      /\ IsFiniteSet(Since(HourTicks)) /\ IsFiniteSet(Since(DayTicks))
      /\ IsFiniteSet(Past(S1)) /\ IsFiniteSet(Past(S2)) /\ IsFiniteSet(Past(S3))
  BY FiniteState DEF SpendInv
<1>3. /\ Cardinality(active) + Cardinality(Past(S1))
           < LimitConcurrent + Cardinality(Procs)
      /\ Cardinality(Since(HourTicks)) + Cardinality(Past(S2))
           < LimitHourly + Cardinality(Procs)
      /\ Cardinality(Since(DayTicks)) + Cardinality(Past(S3))
           < LimitDaily + Cardinality(Procs)
  BY DEF SpendInv, BoundedOvershoot, Within
<1>4. /\ active' \in SUBSET (active \cup {r})
      /\ Since(HourTicks)' \in SUBSET (Since(HourTicks) \cup {r})
      /\ Since(DayTicks)' \in SUBSET (Since(DayTicks) \cup {r})
  <2>1. r \in Permits
    BY FreshPermit DEF Insert
  <2>2. /\ rows' = rows \cup {r}
        /\ \A t \in rows : t # r => age'[t] = age[t]
    BY <2>1 DEF Insert, SpendInv, SpendTypeOK
  <2>3. QED BY <2>2 DEF Insert, Since
<1>5. Cardinality(active') + Cardinality(Past(S1)')
        < LimitConcurrent + Cardinality(Procs)
  <2> DEFINE A == active
             B == active'
             P == Past(S1)
             Q == Past(S1)'
             bound == LimitConcurrent + Cardinality(Procs)
  <2>1. /\ IsFiniteSet(A) /\ B \in SUBSET (A \cup {r})
        /\ IsFiniteSet(P) /\ p \in P /\ Q \in SUBSET (P \ {p})
        /\ Cardinality(A) + Cardinality(P) < bound
    BY <1>1, <1>2, <1>3, <1>4
  <2>2. bound \in Nat
    BY Bounds
  <2> HIDE DEF A, B, P, Q, bound, r
  <2>3. Cardinality(B) + Cardinality(Q) < bound
    BY <2>1, <2>2, WithinInsert
  <2>4. QED BY <2>3 DEF A, B, P, Q, bound
<1>6. Cardinality(Since(HourTicks)') + Cardinality(Past(S2)')
        < LimitHourly + Cardinality(Procs)
  <2> DEFINE A == Since(HourTicks)
             B == Since(HourTicks)'
             P == Past(S2)
             Q == Past(S2)'
             bound == LimitHourly + Cardinality(Procs)
  <2>1. /\ IsFiniteSet(A) /\ B \in SUBSET (A \cup {r})
        /\ IsFiniteSet(P) /\ p \in P /\ Q \in SUBSET (P \ {p})
        /\ Cardinality(A) + Cardinality(P) < bound
    BY <1>1, <1>2, <1>3, <1>4
  <2>2. bound \in Nat
    BY Bounds
  <2> HIDE DEF A, B, P, Q, bound, r
  <2>3. Cardinality(B) + Cardinality(Q) < bound
    BY <2>1, <2>2, WithinInsert
  <2>4. QED BY <2>3 DEF A, B, P, Q, bound
<1>7. Cardinality(Since(DayTicks)') + Cardinality(Past(S3)')
        < LimitDaily + Cardinality(Procs)
  <2> DEFINE A == Since(DayTicks)
             B == Since(DayTicks)'
             P == Past(S3)
             Q == Past(S3)'
             bound == LimitDaily + Cardinality(Procs)
  <2>1. /\ IsFiniteSet(A) /\ B \in SUBSET (A \cup {r})
        /\ IsFiniteSet(P) /\ p \in P /\ Q \in SUBSET (P \ {p})
        /\ Cardinality(A) + Cardinality(P) < bound
    BY <1>1, <1>2, <1>3, <1>4
  <2>2. bound \in Nat
    BY Bounds
  <2> HIDE DEF A, B, P, Q, bound, r
  <2>3. Cardinality(B) + Cardinality(Q) < bound
    BY <2>1, <2>2, WithinInsert
  <2>4. QED BY <2>3 DEF A, B, P, Q, bound
<1>8. QED BY <1>5, <1>6, <1>7 DEF BoundedOvershoot, Within

(* Every step keeps the overshoot bounded.                                   *)
LEMMA OvershootStep == SpendInv /\ [SpendNext]_spendVars => BoundedOvershoot'
<1> SUFFICES ASSUME SpendInv, [SpendNext]_spendVars PROVE BoundedOvershoot'
  OBVIOUS
<1>1. ASSUME NEW p \in Procs, Refuse(p) PROVE BoundedOvershoot'
  BY <1>1, QuietStep DEF Refuse, Since, SpendInv, SpendTypeOK
<1>2. ASSUME NEW p \in Procs, InsertFails(p) PROVE BoundedOvershoot'
  BY <1>2, QuietStep DEF InsertFails, Since, SpendInv, SpendTypeOK
<1>3. ASSUME NEW p \in Procs, ReleasePermit(p) PROVE BoundedOvershoot'
  BY <1>3, QuietStep DEF ReleasePermit, Since, SpendInv, SpendTypeOK
<1>4. ASSUME NEW p \in Procs, AbandonPermit(p) PROVE BoundedOvershoot'
  BY <1>4, QuietStep DEF AbandonPermit, Since, SpendInv, SpendTypeOK
<1>5. ASSUME Pause \/ Resume PROVE BoundedOvershoot'
  BY <1>5, QuietStep DEF Pause, Resume, Since, SpendInv, SpendTypeOK
<1>6. ASSUME SpendTick PROVE BoundedOvershoot'
  <2>1. \A window \in {HourTicks, DayTicks} : Since(window)' \subseteq Since(window)
    <3>1. \A r \in rows' : r \in rows /\ r \in Permits /\ age'[r] >= age[r]
      BY <1>6, SpendAssumption DEF SpendTick, SpendInv, SpendTypeOK
    <3>2. \A r \in rows' : age[r] \in Nat /\ age'[r] \in Nat
      BY <1>6, <3>1, TypeStep DEF SpendInv, SpendTypeOK, SpendNext
    <3>3. QED BY <3>1, <3>2, SpendAssumption DEF Since
  <2>2. QED BY <1>6, <2>1, QuietStep DEF SpendTick
<1>7. ASSUME UNCHANGED spendVars PROVE BoundedOvershoot'
  BY <1>7, QuietStep DEF spendVars, Since, SpendInv, SpendTypeOK
<1>8. QED
  BY <1>1, <1>2, <1>3, <1>4, <1>5, <1>6, <1>7, PassStep, InsertStep DEF SpendNext

LEMMA InitHolds == SpendInit => SpendInv
<1> SUFFICES ASSUME SpendInit PROVE SpendInv
  OBVIOUS
<1>1. SpendTypeOK
  <2>1. 0 \in 0..(DayTicks + 1)
    BY SpendAssumption
  <2>2. age \in [Permits -> 0..(DayTicks + 1)]
    BY <2>1 DEF SpendInit
  <2>3. QED BY <2>2 DEF SpendInit, SpendTypeOK
<1>2. PermitHeld
  BY DEF SpendInit, PermitHeld
<1>3. ASSUME NEW stages, "out" \notin stages,
             NEW window, NEW limit \in Nat
      PROVE  /\ Within(Cardinality(active), stages, limit)
             /\ Within(Cardinality(Since(window)), stages, limit)
  <2>1. active = {} /\ Since(window) = {} /\ Past(stages) = {}
    BY <1>3 DEF SpendInit, Since, Past
  <2>2. Cardinality(Procs) \in Nat /\ Cardinality(Procs) # 0
    BY SpendAssumption, FS_CardinalityType, FS_EmptySet
  <2>3. Cardinality({}) = 0
    BY FS_EmptySet
  <2>4. QED BY <2>1, <2>2, <2>3 DEF Within
<1>4. BoundedOvershoot
  BY <1>3, SpendAssumption DEF BoundedOvershoot
<1>5. QED BY <1>1, <1>2, <1>4 DEF SpendInv

(* reserve, release, the crash of a launcher and the clock keep the three    *)
(* parts of the invariant together.                                          *)
THEOREM SpendInvariance == SpendSpec => []SpendInv
<1>1. SpendInv /\ [SpendNext]_spendVars => SpendInv'
  BY TypeStep, HeldStep, OvershootStep DEF SpendInv
<1>2. QED BY InitHolds, <1>1, PTL DEF SpendSpec

(* reserve and release keep the ledger and the launchers in their types.     *)
THEOREM SpendTypes == SpendSpec => []SpendTypeOK
<1>1. SpendInv => SpendTypeOK
  BY DEF SpendInv
<1>2. QED BY SpendInvariance, <1>1, PTL

(* A launcher between reserve and release has an active row of its own.      *)
THEOREM PermitsHeld == SpendSpec => []PermitHeld
<1>1. SpendInv => PermitHeld
  BY DEF SpendInv
<1>2. QED BY SpendInvariance, <1>1, PTL

(* The race in reserve, between check and INSERT, exceeds each limit by less *)
(* than the number of processes.                                             *)
THEOREM OvershootBounded == SpendSpec => []BoundedOvershoot
<1>1. SpendInv => BoundedOvershoot
  BY DEF SpendInv
<1>2. QED BY SpendInvariance, <1>1, PTL
==============================================================================
