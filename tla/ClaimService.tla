----------------------------- MODULE ClaimService -----------------------------
(***************************************************************************)
(* services/claim_service.rs: agents claim issues, hand them off, mark     *)
(* them stealable and steal them.  Every operation is one locked read-     *)
(* modify-write of claim-service.json, which StateLock shows to be atomic, *)
(* so it is one action here; a refused operation changes nothing, and one  *)
(* whose write fails is refused.  A read that fails counts as a file with  *)
(* no entry: claim then succeeds, every other operation is refused.        *)
(*                                                                         *)
(* The entry of an issue outlives its release, with the fields the         *)
(* release does not touch: the hazard is an agent that acts on a right     *)
(* which an old field seems to give it.                                    *)
(***************************************************************************)
EXTENDS FiniteSets

CONSTANTS
  Issues,
  Agents,
  None        \* no entry, or no such field

Status == {"active", "handoff_pending", "released", "stealable", "stolen"}

Entry == [status : Status, claimant : Agents, pendingHandoffTo : Agents \cup {None}]

ASSUME NoneAssumption == None \notin Agents /\ None \notin Entry

VARIABLES
  claims,     \* issue -> its entry in the state file, or None
  told,       \* history: agent -> issues that it was told are its own (claim,
              \* accept_handoff, steal), and that it has not released or handed
              \* off, nor anybody marked stealable, since
  ousted,     \* history: agent -> those of them that a claim took from it
  asked       \* history: issue -> the last handoff its claimant asked for

issueVars == <<claims, told, ousted, asked>>

IssueTypeOK ==
  /\ claims \in [Issues -> Entry \cup {None}]
  /\ told \in [Agents -> SUBSET Issues]
  /\ ousted \in [Agents -> SUBSET Issues]
  /\ asked \in [Issues -> (Agents \X Agents) \cup {None}]

IssueInit ==
  /\ claims = [i \in Issues |-> None]
  /\ told = [a \in Agents |-> {}]
  /\ ousted = [a \in Agents |-> {}]
  /\ asked = [i \in Issues |-> None]

Exists(i) == claims[i] # None

HasStatus(i, s) == Exists(i) /\ claims[i].status = s

ClaimedBy(i, a) == Exists(i) /\ claims[i].claimant = a

\* FAULT: a pending handoff does not count.
TakenActive(i) == HasStatus(i, "active")

\* claim() refuses only these two.
Taken(i) == HasStatus(i, "active") \/ HasStatus(i, "handoff_pending")

\* The agent a is told that the issue is its own, gives it up, or loses the
\* right to it with everybody else.
Grant(i, a) ==
  /\ told' = [told EXCEPT ![a] = @ \cup {i}]
  /\ ousted' = [ousted EXCEPT ![a] = @ \ {i}]

Yield(i, a) ==
  /\ told' = [told EXCEPT ![a] = @ \ {i}]
  /\ ousted' = [ousted EXCEPT ![a] = @ \ {i}]

Withdraw(i) ==
  /\ told' = [a \in Agents |-> told[a] \ {i}]
  /\ ousted' = [a \in Agents |-> ousted[a] \ {i}]

\* a is told that the issue is its own, and the others in `lost` are not asked.
GrantOver(i, a, lost) ==
  /\ told' = [told EXCEPT ![a] = @ \cup {i}]
  /\ ousted' = [b \in Agents |->
       IF b = a THEN (ousted[a] \cup (told[a] \cap lost)) \ {i}
                ELSE ousted[b] \cup (told[b] \cap lost)]

NewEntry(a) == [status |-> "active", claimant |-> a, pendingHandoffTo |-> None]

\* A new entry replaces the old one with all its fields.  A stolen issue is
\* taken from the thief.
Claim(i, a) ==
  /\ ~Taken(i)
  /\ claims' = [claims EXCEPT ![i] = NewEntry(a)]
  /\ GrantOver(i, a, IF HasStatus(i, "stolen") THEN {i} ELSE {})
  /\ UNCHANGED asked

\* The file cannot be read: the issue is granted whoever has it, and the
\* write drops the entries of all the others.
ClaimUnread(i, a) ==
  /\ claims' = [j \in Issues |-> IF j = i THEN NewEntry(a) ELSE None]
  /\ GrantOver(i, a, Issues)
  /\ UNCHANGED asked

\* FAULT: the claimant is taken out of the entry as well.
ReleaseClears(i, a) ==
  /\ ClaimedBy(i, a)
  /\ claims' = [claims EXCEPT ![i].status = "released", ![i].claimant = None]
  /\ Yield(i, a)
  /\ UNCHANGED asked

\* Whatever the status, and the fields other than the status stay.
Release(i, a) ==
  /\ ClaimedBy(i, a)
  /\ claims' = [claims EXCEPT ![i].status = "released"]
  /\ Yield(i, a)
  /\ UNCHANGED asked

\* FAULT: the claimant is not compared.
HandoffByAnyone(i, a, b) ==
  /\ Exists(i)
  /\ claims' = [claims EXCEPT ![i].status = "handoff_pending",
                              ![i].pendingHandoffTo = b]
  /\ asked' = [asked EXCEPT ![i] = <<a, b>>]
  /\ Yield(i, a)

\* Whatever the status: also from released, stealable and stolen.
Handoff(i, a, b) ==
  /\ ClaimedBy(i, a)
  /\ claims' = [claims EXCEPT ![i].status = "handoff_pending",
                              ![i].pendingHandoffTo = b]
  /\ asked' = [asked EXCEPT ![i] = <<a, b>>]
  /\ Yield(i, a)

AcceptHandoff(i, b) ==
  /\ HasStatus(i, "handoff_pending")
  /\ claims[i].pendingHandoffTo = b
  /\ claims' = [claims EXCEPT ![i] = NewEntry(b)]
  /\ Grant(i, b)
  /\ UNCHANGED asked

\* Anyone may mark any entry; the claimant is not told.
MarkStealable(i) ==
  /\ Exists(i)
  /\ claims' = [claims EXCEPT ![i].status = "stealable"]
  /\ Withdraw(i)
  /\ UNCHANGED asked

\* FAULT: the status is not looked at.
StealAny(i, b) ==
  /\ Exists(i)
  /\ claims' = [claims EXCEPT ![i].status = "stolen", ![i].claimant = b]
  /\ Grant(i, b)
  /\ UNCHANGED asked

\* A pending target stays in the entry.
Steal(i, b) ==
  /\ HasStatus(i, "stealable")
  /\ claims' = [claims EXCEPT ![i].status = "stolen", ![i].claimant = b]
  /\ Grant(i, b)
  /\ UNCHANGED asked

IssueNext ==
  \/ \E i \in Issues, a \in Agents : Claim(i, a)
  \/ \E i \in Issues, a \in Agents : Release(i, a)
  \/ \E i \in Issues, a \in Agents, b \in Agents : Handoff(i, a, b)
  \/ \E i \in Issues, b \in Agents : AcceptHandoff(i, b)
  \/ \E i \in Issues : MarkStealable(i)
  \/ \E i \in Issues, b \in Agents : Steal(i, b)
  \/ \E i \in Issues, a \in Agents : ClaimUnread(i, a)

IssueSpec == IssueInit /\ [][IssueNext]_issueVars

------------------------------------------------------------------------------
(* Properties *)

\* Whoever was told that an issue is its own, thieves included, is alone with
\* it and the entry says so, over leftover entries, handoffs after a release
\* and steals of pending issues: until it gives the issue up, somebody marks
\* it stealable, or a claim ousts it, which a claim does only to thieves, whose
\* status it does not refuse, and when it could not read the file.
ExclusiveClaims ==
  /\ \A i \in Issues, a, b \in Agents :
       i \in told[a] \ ousted[a] /\ i \in told[b] \ ousted[b] => a = b
  /\ \A i \in Issues, a \in Agents :
       i \in told[a] \ ousted[a] =>
         (HasStatus(i, "active") \/ HasStatus(i, "stolen")) /\ ClaimedBy(i, a)

\* A handoff that can be accepted was asked for by the present claimant: the
\* target left over from an earlier claimant gives nobody a right.
PendingByClaimant ==
  \A i \in Issues : HasStatus(i, "handoff_pending") =>
    asked[i] = <<claims[i].claimant, claims[i].pendingHandoffTo>>

\* While a handoff is pending the issue leaves its claimant only for the
\* target, unless somebody marked it stealable first, or a claim could not read
\* the file: no third agent gets in.
PendingGoesToTarget ==
  [][\/ \E i \in Issues, a \in Agents : ClaimUnread(i, a)
     \/ \A i \in Issues :
          HasStatus(i, "handoff_pending") /\ claims'[i].claimant # claims[i].claimant
            => claims'[i].claimant = claims[i].pendingHandoffTo]_issueVars
==============================================================================
