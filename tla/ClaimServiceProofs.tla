-------------------------- MODULE ClaimServiceProofs --------------------------
(***************************************************************************)
(* For all sets of issues and agents: whoever was told that an issue is    *)
(* its own is alone with it, thieves included, unless a claim ousted it;   *)
(* and a pending handoff is the one its claimant asked for and goes to     *)
(* nobody else.                                                            *)
(***************************************************************************)
EXTENDS ClaimService, TLAPS

Inv == IssueTypeOK /\ ExclusiveClaims /\ PendingByClaimant

LEMMA InitInv == IssueInit => Inv
BY DEF IssueInit, Inv, IssueTypeOK, ExclusiveClaims, PendingByClaimant, HasStatus, Exists

(* Every operation keeps the types of the state.                             *)
LEMMA TypeStep == IssueTypeOK /\ [IssueNext]_issueVars => IssueTypeOK'
<1> SUFFICES ASSUME IssueTypeOK, [IssueNext]_issueVars PROVE IssueTypeOK'
  OBVIOUS
<1> USE NoneAssumption DEF IssueTypeOK
<1>0. \A a \in Agents : NewEntry(a) \in Entry
  BY DEF NewEntry, Entry, Status
<1>1. ASSUME NEW i \in Issues, NEW a \in Agents, Claim(i, a) PROVE IssueTypeOK'
  <2>1. NewEntry(a) \in Entry
    BY <1>0
  <2>2. claims' \in [Issues -> Entry \cup {None}]
    BY <1>1, <2>1 DEF Claim
  <2>3. told' \in [Agents -> SUBSET Issues] /\ ousted' \in [Agents -> SUBSET Issues]
    BY <1>1 DEF Claim, GrantOver
  <2>4. QED BY <1>1, <2>2, <2>3 DEF Claim
<1>9. ASSUME NEW i \in Issues, NEW a \in Agents, ClaimUnread(i, a) PROVE IssueTypeOK'
  <2>1. NewEntry(a) \in Entry
    BY <1>0
  <2>2. claims' \in [Issues -> Entry \cup {None}]
    BY <1>9, <2>1 DEF ClaimUnread
  <2>3. told' \in [Agents -> SUBSET Issues] /\ ousted' \in [Agents -> SUBSET Issues]
    BY <1>9 DEF ClaimUnread, GrantOver
  <2>4. QED BY <1>9, <2>2, <2>3 DEF ClaimUnread
<1>2. ASSUME NEW i \in Issues, NEW a \in Agents, Release(i, a) PROVE IssueTypeOK'
  <2>1. claims[i] \in Entry
    BY <1>2 DEF Release, ClaimedBy, Exists
  <2>2. [claims[i] EXCEPT !.status = "released"] \in Entry
    BY <2>1 DEF Entry, Status
  <2>3. QED BY <1>2, <2>2 DEF Release, Yield
<1>3. ASSUME NEW i \in Issues, NEW a \in Agents, NEW b \in Agents, Handoff(i, a, b)
      PROVE  IssueTypeOK'
  <2>1. claims[i] \in Entry
    BY <1>3 DEF Handoff, ClaimedBy, Exists
  <2>2. [claims[i] EXCEPT !.status = "handoff_pending", !.pendingHandoffTo = b] \in Entry
    BY <2>1 DEF Entry, Status
  <2>3. QED BY <1>3, <2>2 DEF Handoff, Yield
<1>4. ASSUME NEW i \in Issues, NEW b \in Agents, AcceptHandoff(i, b) PROVE IssueTypeOK'
  <2>1. NewEntry(b) \in Entry
    BY <1>0
  <2>2. QED BY <1>4, <2>1 DEF AcceptHandoff, Grant
<1>5. ASSUME NEW i \in Issues, MarkStealable(i) PROVE IssueTypeOK'
  <2>1. claims[i] \in Entry
    BY <1>5 DEF MarkStealable, Exists
  <2>2. [claims[i] EXCEPT !.status = "stealable"] \in Entry
    BY <2>1 DEF Entry, Status
  <2>3. QED BY <1>5, <2>2 DEF MarkStealable, Withdraw
<1>6. ASSUME NEW i \in Issues, NEW b \in Agents, Steal(i, b) PROVE IssueTypeOK'
  <2>1. claims[i] \in Entry
    BY <1>6 DEF Steal, HasStatus, Exists
  <2>2. [claims[i] EXCEPT !.status = "stolen", !.claimant = b] \in Entry
    BY <2>1 DEF Entry, Status
  <2>3. QED BY <1>6, <2>2 DEF Steal, Grant
<1>7. CASE UNCHANGED issueVars
  BY <1>7 DEF issueVars
<1>8. QED
  BY <1>1, <1>2, <1>3, <1>4, <1>5, <1>6, <1>7, <1>9 DEF IssueNext

(* What an operation does to the entry of its issue, for the proofs below.   *)
LEMMA EntryStep ==
  ASSUME IssueTypeOK, NEW i \in Issues
  PROVE  /\ \A a \in Agents : Claim(i, a) =>
              claims'[i] = [status |-> "active", claimant |-> a, pendingHandoffTo |-> None]
         /\ \A a \in Agents : Release(i, a) =>
              claims'[i].status = "released" /\ claims'[i].claimant = claims[i].claimant
         /\ \A a, b \in Agents : Handoff(i, a, b) =>
              /\ claims'[i].status = "handoff_pending"
              /\ claims'[i].claimant = claims[i].claimant
              /\ claims'[i].pendingHandoffTo = b
         /\ \A b \in Agents : AcceptHandoff(i, b) =>
              claims'[i] = [status |-> "active", claimant |-> b, pendingHandoffTo |-> None]
         /\ MarkStealable(i) =>
              claims'[i].status = "stealable" /\ claims'[i].claimant = claims[i].claimant
         /\ \A b \in Agents : Steal(i, b) =>
              claims'[i].status = "stolen" /\ claims'[i].claimant = b
<1> USE NoneAssumption DEF IssueTypeOK, Entry
<1>1. \A a \in Agents : Claim(i, a) =>
        claims'[i] = [status |-> "active", claimant |-> a, pendingHandoffTo |-> None]
  BY DEF Claim, NewEntry
<1>2. \A a \in Agents : Release(i, a) =>
        claims'[i].status = "released" /\ claims'[i].claimant = claims[i].claimant
  BY DEF Release, ClaimedBy, Exists
<1>3. \A a, b \in Agents : Handoff(i, a, b) =>
        /\ claims'[i].status = "handoff_pending"
        /\ claims'[i].claimant = claims[i].claimant
        /\ claims'[i].pendingHandoffTo = b
  BY DEF Handoff, ClaimedBy, Exists
<1>4. \A b \in Agents : AcceptHandoff(i, b) =>
        claims'[i] = [status |-> "active", claimant |-> b, pendingHandoffTo |-> None]
  BY DEF AcceptHandoff, NewEntry
<1>5. MarkStealable(i) =>
        claims'[i].status = "stealable" /\ claims'[i].claimant = claims[i].claimant
  BY DEF MarkStealable, Exists
<1>6. \A b \in Agents : Steal(i, b) =>
        claims'[i].status = "stolen" /\ claims'[i].claimant = b
  BY DEF Steal, HasStatus, Exists
<1>7. QED BY <1>1, <1>2, <1>3, <1>4, <1>5, <1>6

(* The other issues are left alone.                                          *)
LEMMA OthersStep ==
  ASSUME IssueTypeOK, NEW i \in Issues, NEW a \in Agents, NEW b \in Agents,
         \/ Claim(i, a) \/ Release(i, a) \/ Handoff(i, a, b)
         \/ AcceptHandoff(i, a) \/ MarkStealable(i) \/ Steal(i, a),
         NEW j \in Issues, j # i
  PROVE  /\ claims'[j] = claims[j]
         /\ asked'[j] = asked[j]
         /\ \A c \in Agents : j \in told'[c] <=> j \in told[c]
         /\ \A c \in Agents : j \in ousted'[c] <=> j \in ousted[c]
BY DEF IssueTypeOK, Claim, Release, Handoff, AcceptHandoff, MarkStealable, Steal,
   Grant, GrantOver, Yield, Withdraw

(* Whoever holds an issue, thieves included, is what its entry says, after    *)
(* any step.                                                                  *)
LEMMA OwnerStep ==
  ASSUME Inv, [IssueNext]_issueVars, NEW i \in Issues, NEW c \in Agents,
         i \in told'[c] \ ousted'[c]
  PROVE  ((HasStatus(i, "active") \/ HasStatus(i, "stolen")) /\ ClaimedBy(i, c))'
<1> USE NoneAssumption DEF Inv
<1> DEFINE Owned == (HasStatus(i, "active") \/ HasStatus(i, "stolen")) /\ ClaimedBy(i, c)
<1>1. i \in told[c] \ ousted[c] => Owned
  BY DEF ExclusiveClaims
<1>2. ASSUME claims'[i] = claims[i], i \in told[c] \ ousted[c] PROVE Owned'
  BY <1>1, <1>2 DEF HasStatus, ClaimedBy, Exists
<1>0. ASSUME claims'[i] = NewEntry(c) PROVE Owned'
  <2>1. claims'[i] # None /\ claims'[i].status = "active" /\ claims'[i].claimant = c
    BY <1>0 DEF NewEntry, Entry, Status
  <2>2. QED BY <2>1 DEF HasStatus, ClaimedBy, Exists
<1>3. ASSUME NEW j \in Issues, NEW a \in Agents, NEW b \in Agents,
             \/ Claim(j, a) \/ Release(j, a) \/ Handoff(j, a, b)
             \/ AcceptHandoff(j, a) \/ MarkStealable(j) \/ Steal(j, a)
      PROVE  Owned'
  <2>1. CASE j # i
    BY <1>2, <1>3, <2>1, OthersStep
  <2>2. CASE j = i
    <3>1. CASE Claim(i, a)
      <4>1. c = a
        <5>1. SUFFICES ASSUME c # a PROVE FALSE
          OBVIOUS
        <5>2. i \in told[c] /\ i \notin ousted[c] /\ ~HasStatus(i, "stolen")
          BY <3>1, <5>1 DEF Claim, GrantOver, IssueTypeOK
        <5>3. QED BY <1>1, <3>1, <5>2 DEF Claim, Taken
      <4>2. claims'[i] = NewEntry(c)
        BY <3>1, <4>1 DEF Claim, IssueTypeOK
      <4>3. QED BY <1>0, <4>2
    <3>2. CASE Release(i, a)
      BY <1>1, <3>2 DEF Release, Yield, IssueTypeOK, ClaimedBy
    <3>3. CASE Handoff(i, a, b)
      BY <1>1, <3>3 DEF Handoff, Yield, IssueTypeOK, ClaimedBy
    <3>4. CASE AcceptHandoff(i, a)
      <4>1. i \notin told[c] \ ousted[c]
        BY <1>1, <3>4 DEF AcceptHandoff, HasStatus
      <4>2. c = a
        BY <3>4, <4>1 DEF AcceptHandoff, Grant, IssueTypeOK
      <4>3. claims'[i] = NewEntry(c)
        BY <3>4, <4>2 DEF AcceptHandoff, IssueTypeOK
      <4>4. QED BY <1>0, <4>3
    <3>5. CASE MarkStealable(i)
      BY <3>5 DEF MarkStealable, Withdraw, IssueTypeOK
    <3>6. CASE Steal(i, a)
      <4>1. i \notin told[c] \ ousted[c]
        BY <1>1, <3>6 DEF Steal, HasStatus
      <4>2. c = a
        BY <3>6, <4>1 DEF Steal, Grant, IssueTypeOK
      <4>3. claims'[i].status = "stolen" /\ claims'[i].claimant = c
        BY <3>6, <4>2, EntryStep
      <4>4. claims'[i] # None
        <5>1. claims[i] \in Entry
          BY <3>6 DEF Steal, HasStatus, Exists, IssueTypeOK
        <5>2. claims'[i] \in Entry
          BY <3>6, <5>1 DEF Steal, IssueTypeOK, Entry, Status
        <5>3. QED BY <5>2
      <4>5. QED BY <4>3, <4>4 DEF HasStatus, ClaimedBy, Exists
    <3>7. QED BY <1>3, <2>2, <3>1, <3>2, <3>3, <3>4, <3>5, <3>6
  <2>3. QED BY <2>1, <2>2
<1>4. ASSUME NEW j \in Issues, NEW a \in Agents, ClaimUnread(j, a)
      PROVE  Owned'
  <2>1. c = a /\ i = j
    BY <1>4 DEF ClaimUnread, GrantOver, IssueTypeOK
  <2>2. claims'[i] = NewEntry(c)
    BY <1>4, <2>1 DEF ClaimUnread
  <2>3. QED BY <1>0, <2>2
<1>5. CASE UNCHANGED issueVars
  BY <1>2, <1>5 DEF issueVars
<1>6. QED BY <1>3, <1>4, <1>5 DEF IssueNext

LEMMA ExclusiveStep == Inv /\ [IssueNext]_issueVars => ExclusiveClaims'
<1> SUFFICES ASSUME Inv, [IssueNext]_issueVars PROVE ExclusiveClaims'
  OBVIOUS
<1>1. \A i \in Issues, a \in Agents :
        i \in told'[a] \ ousted'[a] =>
          ((HasStatus(i, "active") \/ HasStatus(i, "stolen")) /\ ClaimedBy(i, a))'
  BY OwnerStep
<1>2. \A i \in Issues, a, b \in Agents :
        i \in told'[a] \ ousted'[a] /\ i \in told'[b] \ ousted'[b] => a = b
  BY <1>1 DEF ClaimedBy
<1>3. QED BY <1>1, <1>2 DEF ExclusiveClaims

(* A pending handoff is the last one that its claimant asked for.            *)
LEMMA PendingStep == Inv /\ [IssueNext]_issueVars => PendingByClaimant'
<1> SUFFICES ASSUME Inv, [IssueNext]_issueVars, NEW i \in Issues, HasStatus(i, "handoff_pending")'
             PROVE  (asked[i] = <<claims[i].claimant, claims[i].pendingHandoffTo>>)'
  BY DEF PendingByClaimant
<1> USE NoneAssumption DEF Inv
<1>1. ASSUME claims'[i] = claims[i], asked'[i] = asked[i]
      PROVE  (asked[i] = <<claims[i].claimant, claims[i].pendingHandoffTo>>)'
  BY <1>1 DEF PendingByClaimant, HasStatus, Exists
<1>2. ASSUME NEW j \in Issues, NEW a \in Agents, NEW b \in Agents,
             \/ Claim(j, a) \/ Release(j, a) \/ Handoff(j, a, b)
             \/ AcceptHandoff(j, a) \/ MarkStealable(j) \/ Steal(j, a)
      PROVE  (asked[i] = <<claims[i].claimant, claims[i].pendingHandoffTo>>)'
  <2>1. CASE j # i
    BY <1>1, <1>2, <2>1, OthersStep
  <2>2. CASE j = i
    <3>1. claims'[i].status = "handoff_pending"
      BY DEF HasStatus
    <3>2. Handoff(i, a, b)
      <4>1. ~(Claim(i, a) \/ AcceptHandoff(i, a))
        <5>1. SUFFICES ASSUME Claim(i, a) \/ AcceptHandoff(i, a) PROVE FALSE
          OBVIOUS
        <5>2. claims'[i] = [status |-> "active", claimant |-> a, pendingHandoffTo |-> None]
          BY <5>1, EntryStep
        <5>3. claims'[i].status = "active"
          BY <5>2
        <5>4. QED BY <3>1, <5>3
      <4>2. ~Release(i, a) /\ ~MarkStealable(i) /\ ~Steal(i, a)
        BY <3>1, EntryStep
      <4>3. QED BY <1>2, <2>2, <4>1, <4>2
    <3>3. claims'[i].claimant = claims[i].claimant /\ claims'[i].pendingHandoffTo = b
      BY <3>2, EntryStep
    <3>4. asked'[i] = <<a, b>> /\ claims[i].claimant = a
      BY <3>2 DEF Handoff, ClaimedBy, IssueTypeOK
    <3>5. QED BY <3>3, <3>4
  <2>3. QED BY <2>1, <2>2
<1>3. CASE UNCHANGED issueVars
  BY <1>1, <1>3 DEF issueVars
<1>4. Agents # {}
  BY TypeStep DEF IssueTypeOK, Entry, HasStatus, Exists
<1>6. ASSUME NEW j \in Issues, NEW a \in Agents, ClaimUnread(j, a) PROVE FALSE
  <2>1. claims'[i] = None \/ claims'[i] = NewEntry(a)
    BY <1>6 DEF ClaimUnread
  <2>2. QED BY <2>1 DEF HasStatus, Exists, NewEntry
<1>5. QED BY <1>2, <1>3, <1>4, <1>6 DEF IssueNext

LEMMA InvStep == Inv /\ [IssueNext]_issueVars => Inv'
BY TypeStep, ExclusiveStep, PendingStep DEF Inv

(* Types, and the two invariants below: together they are inductive.         *)
THEOREM ClaimInvariance == IssueSpec => []Inv
BY InitInv, InvStep, PTL DEF IssueSpec

(* The state file holds well-formed entries only.                            *)
THEOREM ClaimTypes == IssueSpec => []IssueTypeOK
<1>1. Inv => IssueTypeOK
  BY DEF Inv
<1>2. QED BY <1>1, ClaimInvariance, PTL

(* ExclusiveClaims: whoever claim, accept_handoff or steal has given an      *)
(* issue is alone with it, whatever other operations have left in its entry; *)
(* only a claim ousts it, and only a thief or over a file it could not read. *)
THEOREM HoldersAlone == IssueSpec => []ExclusiveClaims
<1>1. Inv => ExclusiveClaims
  BY DEF Inv
<1>2. QED BY <1>1, ClaimInvariance, PTL

(* accept_handoff completes only what the present claimant asked for.        *)
THEOREM HandoffAsked == IssueSpec => []PendingByClaimant
<1>1. Inv => PendingByClaimant
  BY DEF Inv
<1>2. QED BY <1>1, ClaimInvariance, PTL

(* While its handoff is pending, an issue changes hands only to the target,  *)
(* as long as the file can be read.                                          *)
LEMMA HandStep ==
  ASSUME Inv, [IssueNext]_issueVars,
         ~ \E j \in Issues, a \in Agents : ClaimUnread(j, a),
         NEW i \in Issues, HasStatus(i, "handoff_pending"),
         claims'[i].claimant # claims[i].claimant
  PROVE  claims'[i].claimant = claims[i].pendingHandoffTo
<1> USE NoneAssumption DEF Inv
<1>1. ASSUME NEW j \in Issues, NEW a \in Agents, NEW b \in Agents,
             \/ Claim(j, a) \/ Release(j, a) \/ Handoff(j, a, b)
             \/ AcceptHandoff(j, a) \/ MarkStealable(j) \/ Steal(j, a)
      PROVE  claims'[i].claimant = claims[i].pendingHandoffTo
  <2>1. j = i
    BY <1>1, OthersStep
  <2>2. CASE AcceptHandoff(i, a)
    <3>1. claims'[i] = [status |-> "active", claimant |-> a, pendingHandoffTo |-> None]
      BY <2>2, EntryStep
    <3>2. QED BY <2>2, <3>1 DEF AcceptHandoff
  <2>3. ~Claim(i, a) /\ ~Steal(i, a)
    BY DEF Claim, Taken, Steal, HasStatus
  <2>4. QED BY <1>1, <2>1, <2>2, <2>3, EntryStep
<1>2. CASE UNCHANGED issueVars
  BY <1>2 DEF issueVars
<1>3. Agents # {}
  BY DEF IssueTypeOK, Entry, HasStatus, Exists
<1>4. QED BY <1>1, <1>2, <1>3 DEF IssueNext

(* No third agent gets in between a handoff and its acceptance, but for a    *)
(* claim that could not read the file.                                       *)
THEOREM HandoffToTarget == IssueSpec => PendingGoesToTarget
<1>1. Inv /\ [IssueNext]_issueVars =>
        [\/ \E i \in Issues, a \in Agents : ClaimUnread(i, a)
         \/ \A i \in Issues :
              HasStatus(i, "handoff_pending") /\ claims'[i].claimant # claims[i].claimant
                => claims'[i].claimant = claims[i].pendingHandoffTo]_issueVars
  BY HandStep
<1>2. QED BY <1>1, ClaimInvariance, PTL DEF IssueSpec, PendingGoesToTarget
==============================================================================
