---------------------------- MODULE WorkspaceLease ----------------------------
(***************************************************************************)
(* services/lease.rs: time-limited leases on workspaces, in one file       *)
(* workspace-leases.json.  acquire reads, checks and writes under the      *)
(* LockGuard (StateLock); release reads and writes without it.  Each half  *)
(* is one action here, and what the write installs is the WHOLE file as    *)
(* the read saw it, leases of other workspaces included.                   *)
(*                                                                         *)
(* Time is relative: a lease has `left` ticks, 0 when expired.             *)
(***************************************************************************)
EXTENDS Naturals, FiniteSets

CONSTANTS
  Holders,     \* agents, one call at a time each
  Workspaces,
  TTL,         \* ttl_ms, in ticks, of every lease
  Nobody

ASSUME LeaseAssumption ==
  /\ Workspaces # {}
  /\ TTL \in Nat \ {0}
  /\ Nobody \notin Holders

VARIABLES
  leases,   \* the file: workspace -> lease, Free when the entry is null
  stage,    \* the call a holder is in, between its read and its write
  target,   \* the workspace of that call
  image,    \* the file contents which that call will write
  grant,    \* ticks for which a holder believes that a workspace is its own
  unbacked  \* history: the <<holder, workspace>> of which it believes so though
            \* acquire failed to write that lease, or a later acquire failed to
            \* read it

leaseVars == <<leases, stage, target, image, grant, unbacked>>

Lease == [holder : Holders \cup {Nobody}, left : 0..TTL]
Free  == [holder |-> Nobody, left |-> 0]
File  == [Workspaces -> Lease]
Empty == [w \in Workspaces |-> Free]

LeaseTypeOK ==
  /\ leases \in File
  /\ stage \in [Holders -> {"idle", "acquiring", "blind", "releasing"}]
  /\ target \in [Holders -> Workspaces]
  /\ image \in [Holders -> File]
  /\ grant \in [Holders -> [Workspaces -> 0..TTL]]
  /\ unbacked \subseteq Holders \X Workspaces

LeaseInit ==
  /\ leases = Empty
  /\ stage = [h \in Holders |-> "idle"]
  /\ target \in [Holders -> {CHOOSE w \in Workspaces : TRUE}]
  /\ image = [h \in Holders |-> Empty]
  /\ grant = [h \in Holders |-> [w \in Workspaces |-> 0]]
  /\ unbacked = {}

\* Of the unbacked beliefs, those still held after the step.
StillBelieved(pairs) == unbacked' = {x \in pairs : grant'[x[1]][x[2]] > 0}

\* FAULT: a lease counts as expired one tick too early.
TakeableEarly(h, w) == leases[w].left <= 1 \/ leases[w].holder = h

\* An expired lease, or the holder's own, may be taken (again).
Takeable(h, w) == leases[w].left = 0 \/ leases[w].holder = h

Enter(h, w, call, file) ==
  /\ stage[h] = "idle"
  /\ stage' = [stage EXCEPT ![h] = call]
  /\ target' = [target EXCEPT ![h] = w]
  /\ image' = [image EXCEPT ![h] = file]

Return(h) ==
  /\ stage' = [stage EXCEPT ![h] = "idle"]
  /\ image' = [image EXCEPT ![h] = Empty]
  /\ UNCHANGED target

Acquiring(h) == stage[h] \in {"acquiring", "blind"}

NewLease(h) == [holder |-> h, left |-> TTL]

\* acquire: the lock is free, the file is read and checked, and the new lease
\* expires ttl_ms from now.  A refused call changes nothing.
BeginAcquire(h, w) ==
  /\ \A k \in Holders : ~Acquiring(k)
  /\ Takeable(h, w)
  /\ Enter(h, w, "acquiring", [leases EXCEPT ![w] = NewLease(h)])
  /\ UNCHANGED <<leases, grant, unbacked>>

\* acquire: reading the file fails, which counts as a file without leases.
BeginAcquireUnread(h, w) ==
  /\ \A k \in Holders : ~Acquiring(k)
  /\ Enter(h, w, "blind", [Empty EXCEPT ![w] = NewLease(h)])
  /\ UNCHANGED <<leases, grant, unbacked>>

Believe(h) ==
  grant' = [grant EXCEPT ![h][target[h]] = image[h][target[h]].left]

\* FAULT: the file is written with the new lease alone.
EndAcquireAlone(h) ==
  /\ Acquiring(h)
  /\ leases' = [Empty EXCEPT ![target[h]] = image[h][target[h]]]
  /\ Believe(h)
  /\ StillBelieved(unbacked \ {<<h, target[h]>>})
  /\ Return(h)

\* acquire: the file is written and the lease returned.  What the read has
\* missed is dropped from the file.
EndAcquire(h) ==
  /\ Acquiring(h)
  /\ leases' = image[h]
  /\ Believe(h)
  /\ StillBelieved(
       (unbacked \cup (IF stage[h] = "blind" THEN Holders \X Workspaces ELSE {}))
         \ {<<h, target[h]>>})
  /\ Return(h)

\* acquire: write_state fails, which acquire does not look at, and the lease
\* is returned all the same.
EndAcquireUnwritten(h) ==
  /\ Acquiring(h)
  /\ UNCHANGED leases
  /\ Believe(h)
  /\ StillBelieved(unbacked \cup {<<h, target[h]>>})
  /\ Return(h)

\* FAULT: the holder of the lease is not compared.
BeginReleaseOfAny(h, w) ==
  /\ Enter(h, w, "releasing", [leases EXCEPT ![w] = Free])
  /\ grant' = [grant EXCEPT ![h][w] = 0]
  /\ StillBelieved(unbacked)
  /\ UNCHANGED leases

\* release reads the file; the caller has stopped using the workspace.
BeginRelease(h, w) ==
  /\ leases[w].holder = h
  /\ Enter(h, w, "releasing", [leases EXCEPT ![w] = Free])
  /\ grant' = [grant EXCEPT ![h][w] = 0]
  /\ StillBelieved(unbacked)
  /\ UNCHANGED leases

\* release writes back what it read, without the entry; it answers true also
\* when that write fails.
EndRelease(h) ==
  /\ stage[h] = "releasing"
  /\ leases' \in {image[h], leases}
  /\ Return(h)
  /\ UNCHANGED <<grant, unbacked>>

\* The holder's process dies; its lease stays in the file until it expires.
Crash(h) ==
  /\ grant' = [grant EXCEPT ![h] = [w \in Workspaces |-> 0]]
  /\ StillBelieved(unbacked)
  /\ Return(h)
  /\ UNCHANGED leases

Down(n) == IF n > 0 THEN n - 1 ELSE 0
Aged(file) ==
  [w \in Workspaces |-> [holder |-> file[w].holder, left |-> Down(file[w].left)]]

Tick ==
  /\ leases' = Aged(leases)
  /\ image' = [h \in Holders |-> Aged(image[h])]
  /\ grant' = [h \in Holders |-> [w \in Workspaces |-> Down(grant[h][w])]]
  /\ StillBelieved(unbacked)
  /\ UNCHANGED <<stage, target>>

\* Calls overlap as they like.  ASSUMPTION: reads and the writes of acquire
\* succeed.
OverlapNext ==
  \/ \E h \in Holders, w \in Workspaces : BeginAcquire(h, w)
  \/ \E h \in Holders : EndAcquire(h)
  \/ \E h \in Holders, w \in Workspaces : BeginRelease(h, w)
  \/ \E h \in Holders : EndRelease(h)
  \/ \E h \in Holders : Crash(h)
  \/ Tick

OverlapSpec == LeaseInit /\ [][OverlapNext]_leaseVars

\* USAGE ASSUMPTION under which the leases are sound, and which the code does
\* not enforce: no call runs while a release is between its read and write.
NoneReleasing == \A k \in Holders : stage[k] # "releasing"
AllIdle == \A k \in Holders : stage[k] = "idle"

\* The calls in that order; acquire may fail to read the file, and to write it.
SerialNext ==
  \/ \E h \in Holders, w \in Workspaces : BeginAcquire(h, w) /\ NoneReleasing
  \/ \E h \in Holders, w \in Workspaces : BeginAcquireUnread(h, w) /\ NoneReleasing
  \/ \E h \in Holders : EndAcquire(h)
  \/ \E h \in Holders : EndAcquireUnwritten(h)
  \/ \E h \in Holders, w \in Workspaces : BeginRelease(h, w) /\ AllIdle
  \/ \E h \in Holders : EndRelease(h)
  \/ \E h \in Holders : Crash(h)
  \/ Tick

SerialSpec == LeaseInit /\ [][SerialNext]_leaseVars

------------------------------------------------------------------------------
(* Properties *)

Believes(h, w) == grant[h][w] > 0
Backed(h, w)   == <<h, w>> \notin unbacked

\* The comment in acquire: two callers must not "both win" a workspace, "a
\* split-brain lease".  No two holders believe in a workspace at one time,
\* over expiry, renewal and crashes, and when the file could not be read or
\* written one of the two is a holder whose lease that failure concerned.
NoSplitBrain ==
  \A h, k \in Holders, w \in Workspaces :
    Believes(h, w) /\ Believes(k, w) /\ Backed(h, w) /\ Backed(k, w) => h = k

\* What a holder believes, the file says too, unless a failed write or a
\* failed read concerned that very lease: nothing written from an older read
\* of the file has dropped or shortened it.
GrantsBacked ==
  \A h \in Holders, w \in Workspaces : Believes(h, w) /\ Backed(h, w) =>
    leases[w].holder = h /\ leases[w].left >= grant[h][w]

\* A lease leaves its holder before it has expired only in a release by that
\* holder, or with the whole file when an acquire could not read it: neither
\* another caller's write nor a crash takes it away.
HolderGivesUp ==
  [][\A w \in Workspaces, h \in Holders :
       leases[w].holder = h /\ leases[w].left > 0 /\ leases'[w].holder # h
         => \/ stage[h] = "releasing" /\ target[h] = w
            \/ \E k \in Holders : stage[k] = "blind" /\ leases' = image[k]]_leaseVars

------------------------------------------------------------------------------
(* The inductive invariant behind NoSplitBrain *)

\* At most one call is between its read of the file and its write.
OneWriter ==
  \A h, k \in Holders : stage[h] # "idle" /\ stage[k] # "idle" => h = k

\* What the call will write differs from the file in its own workspace only,
\* unless it could not read it, and there it takes nothing from another holder.
FreshFor(h) ==
  /\ stage[h] # "blind" =>
       \A w \in Workspaces : w # target[h] => image[h][w] = leases[w]
  /\ Acquiring(h) => image[h][target[h]].holder = h
  /\ stage[h] = "acquiring" =>
       /\ Takeable(h, target[h])
       /\ image[h][target[h]].left >= leases[target[h]].left
  /\ stage[h] = "releasing" =>
       /\ leases[target[h]].holder = h
       /\ grant[h][target[h]] = 0

ImageFresh == \A h \in Holders : stage[h] # "idle" => FreshFor(h)

LeaseInv == LeaseTypeOK /\ OneWriter /\ ImageFresh /\ GrantsBacked
==============================================================================
