------------------------- MODULE WorkspaceLeaseProofs -------------------------
(***************************************************************************)
(* For every number of holders and workspaces and every lease time: while  *)
(* no call overlaps a release, no two holders believe in one workspace,    *)
(* every lease a holder believes in is in the file, and only its holder's  *)
(* release ends an unexpired lease; but for the leases that a failed read  *)
(* or write of acquire concerned.                                          *)
(***************************************************************************)
EXTENDS WorkspaceLease, TLAPS

(* Ageing a file keeps it a file, and ageing is monotone. *)
LEMMA AgedFile == ASSUME NEW file \in File PROVE Aged(file) \in File
<1>1. ASSUME NEW w \in Workspaces PROVE Down(file[w].left) \in 0..TTL
  BY LeaseAssumption DEF File, Lease, Down
<1>2. QED BY <1>1 DEF Aged, File, Lease

LEMMA DownMonotone ==
  ASSUME NEW m \in Nat, NEW n \in Nat, m <= n
  PROVE  Down(m) <= Down(n) /\ (Down(m) > 0 => m > 0)
BY DEF Down

(* The initial state satisfies the inductive invariant. *)
LEMMA InitInv == LeaseInit => LeaseInv
<1> SUFFICES ASSUME LeaseInit PROVE LeaseInv
  OBVIOUS
<1>1. Free \in Lease
  BY LeaseAssumption DEF Free, Lease
<1>2. Empty \in File
  BY <1>1 DEF Empty, File
<1>3. (CHOOSE w \in Workspaces : TRUE) \in Workspaces
  BY LeaseAssumption
<1>4. LeaseTypeOK
  BY <1>2, <1>3, LeaseAssumption DEF LeaseInit, LeaseTypeOK
<1>5. OneWriter /\ ImageFresh
  BY DEF LeaseInit, OneWriter, ImageFresh
<1>6. GrantsBacked
  BY DEF LeaseInit, GrantsBacked, Believes
<1>7. QED BY <1>4, <1>5, <1>6 DEF LeaseInv

(* Every step keeps the types. *)
LEMMA TypeStep == LeaseTypeOK /\ [SerialNext]_leaseVars => LeaseTypeOK'
<1> SUFFICES ASSUME LeaseTypeOK, [SerialNext]_leaseVars PROVE LeaseTypeOK'
  OBVIOUS
<1> USE DEF LeaseTypeOK
<1>1. /\ Free \in Lease
      /\ Empty \in File
      /\ \A h \in Holders : NewLease(h) \in Lease
  BY LeaseAssumption DEF Free, Lease, Empty, File, NewLease
<1>0. ASSUME NEW pairs \in SUBSET (Holders \X Workspaces), StillBelieved(pairs)
      PROVE  unbacked' \subseteq Holders \X Workspaces
  BY <1>0 DEF StillBelieved
<1>2. ASSUME NEW h \in Holders, NEW w \in Workspaces, BeginAcquire(h, w)
      PROVE LeaseTypeOK'
  <2>1. [leases EXCEPT ![w] = NewLease(h)] \in File
    BY <1>1 DEF File
  <2>2. QED BY <1>2, <2>1 DEF BeginAcquire, Enter
<1>10. ASSUME NEW h \in Holders, NEW w \in Workspaces, BeginAcquireUnread(h, w)
      PROVE LeaseTypeOK'
  <2>1. [Empty EXCEPT ![w] = NewLease(h)] \in File
    BY <1>1 DEF File
  <2>2. QED BY <1>10, <2>1 DEF BeginAcquireUnread, Enter
<1>3. ASSUME NEW h \in Holders, EndAcquire(h) \/ EndAcquireUnwritten(h) PROVE LeaseTypeOK'
  <2>1. image[h][target[h]].left \in 0..TTL
    BY DEF File, Lease
  <2>2. grant' \in [Holders -> [Workspaces -> 0..TTL]]
    BY <1>3, <2>1 DEF EndAcquire, EndAcquireUnwritten, Believe
  <2>3. unbacked' \subseteq Holders \X Workspaces
    BY <1>3 DEF EndAcquire, EndAcquireUnwritten, StillBelieved
  <2>4. leases' \in File
    BY <1>3 DEF EndAcquire, EndAcquireUnwritten
  <2>5. Return(h)
    BY <1>3 DEF EndAcquire, EndAcquireUnwritten
  <2>6. QED BY <1>1, <2>2, <2>3, <2>4, <2>5 DEF Return
<1>4. ASSUME NEW h \in Holders, NEW w \in Workspaces, BeginRelease(h, w)
      PROVE LeaseTypeOK'
  <2>1. [leases EXCEPT ![w] = Free] \in File
    BY <1>1 DEF File
  <2>2. grant' \in [Holders -> [Workspaces -> 0..TTL]]
    BY <1>4, LeaseAssumption DEF BeginRelease
  <2>3. unbacked' \subseteq Holders \X Workspaces
    BY <1>0, <1>4 DEF BeginRelease
  <2>4. QED BY <1>4, <2>1, <2>2, <2>3 DEF BeginRelease, Enter
<1>5. ASSUME NEW h \in Holders, EndRelease(h) PROVE LeaseTypeOK'
  BY <1>1, <1>5 DEF EndRelease, Return
<1>6. ASSUME NEW h \in Holders, Crash(h) PROVE LeaseTypeOK'
  <2>1. unbacked' \subseteq Holders \X Workspaces
    BY <1>0, <1>6 DEF Crash
  <2>2. QED BY <1>1, <1>6, <2>1, LeaseAssumption DEF Crash, Return
<1>7. ASSUME Tick PROVE LeaseTypeOK'
  <2>1. \A h \in Holders : Aged(image[h]) \in File
    BY AgedFile
  <2>2. \A h \in Holders, w \in Workspaces : Down(grant[h][w]) \in 0..TTL
    BY LeaseAssumption DEF Down
  <2>3. unbacked' \subseteq Holders \X Workspaces
    BY <1>0, <1>7 DEF Tick
  <2>4. QED BY <1>7, <2>1, <2>2, <2>3, AgedFile DEF Tick
<1>8. ASSUME UNCHANGED leaseVars PROVE LeaseTypeOK'
  BY <1>8 DEF leaseVars
<1>9. QED
  BY <1>2, <1>3, <1>4, <1>5, <1>6, <1>7, <1>8, <1>10 DEF SerialNext

(* Every step keeps the calls apart. *)
LEMMA WriterStep ==
  LeaseTypeOK /\ OneWriter /\ [SerialNext]_leaseVars => OneWriter'
<1> SUFFICES ASSUME LeaseTypeOK, OneWriter, [SerialNext]_leaseVars PROVE OneWriter'
  OBVIOUS
<1> USE DEF LeaseTypeOK, OneWriter, Enter, Return
<1>1. ASSUME NEW h \in Holders, NEW w \in Workspaces,
             BeginAcquire(h, w) \/ BeginAcquireUnread(h, w), NoneReleasing
      PROVE OneWriter'
  <2>1. \A k \in Holders : stage[k] = "idle"
    BY <1>1 DEF BeginAcquire, BeginAcquireUnread, Acquiring, NoneReleasing
  <2>2. QED BY <1>1, <2>1 DEF BeginAcquire, BeginAcquireUnread
<1>2. ASSUME NEW h \in Holders, EndAcquire(h) \/ EndAcquireUnwritten(h)
      PROVE OneWriter'
  BY <1>2 DEF EndAcquire, EndAcquireUnwritten
<1>3. ASSUME NEW h \in Holders, NEW w \in Workspaces,
             BeginRelease(h, w), AllIdle
      PROVE OneWriter'
  BY <1>3 DEF BeginRelease, AllIdle
<1>4. ASSUME NEW h \in Holders, EndRelease(h) PROVE OneWriter'
  BY <1>4 DEF EndRelease
<1>5. ASSUME NEW h \in Holders, Crash(h) PROVE OneWriter'
  BY <1>5 DEF Crash
<1>6. ASSUME Tick PROVE OneWriter'
  BY <1>6 DEF Tick
<1>7. ASSUME UNCHANGED leaseVars PROVE OneWriter'
  BY <1>7 DEF leaseVars
<1>8. QED
  BY <1>1, <1>2, <1>3, <1>4, <1>5, <1>6, <1>7 DEF SerialNext

(* Every step keeps what the calls are about to write in line with the file. *)
LEMMA ImageStep == LeaseInv /\ [SerialNext]_leaseVars => ImageFresh'
<1> SUFFICES ASSUME LeaseInv, [SerialNext]_leaseVars PROVE ImageFresh'
  OBVIOUS
<1> USE DEF LeaseInv, LeaseTypeOK, Acquiring, NewLease
<1>1. ASSUME NEW h \in Holders, NEW w \in Workspaces,
             BeginAcquire(h, w), NoneReleasing
      PROVE ImageFresh'
  <2>1. \A k \in Holders : stage[k] = "idle"
    BY <1>1 DEF BeginAcquire, NoneReleasing
  <2>2. leases[w].left <= TTL
    BY LeaseAssumption DEF File, Lease
  <2>3. /\ image'[h][w] = [holder |-> h, left |-> TTL]
        /\ \A v \in Workspaces : v # w => image'[h][v] = leases[v]
    BY <1>1 DEF BeginAcquire, Enter, File
  <2>4. QED
    BY <1>1, <2>1, <2>2, <2>3 DEF BeginAcquire, Enter, ImageFresh, FreshFor, Takeable
<1>9. ASSUME NEW h \in Holders, NEW w \in Workspaces,
             BeginAcquireUnread(h, w), NoneReleasing
      PROVE ImageFresh'
  <2>1. \A k \in Holders : stage[k] = "idle"
    BY <1>9 DEF BeginAcquireUnread, NoneReleasing
  <2>2. image'[h][w] = [holder |-> h, left |-> TTL]
    BY <1>9 DEF BeginAcquireUnread, Enter, Empty
  <2>3. QED
    BY <1>9, <2>1, <2>2 DEF BeginAcquireUnread, Enter, ImageFresh, FreshFor
<1>2. ASSUME NEW h \in Holders, EndAcquire(h) \/ EndAcquireUnwritten(h)
      PROVE ImageFresh'
  <2>1. \A k \in Holders : stage'[k] = "idle"
    BY <1>2 DEF EndAcquire, EndAcquireUnwritten, Return, OneWriter
  <2>2. QED BY <2>1 DEF ImageFresh
<1>3. ASSUME NEW h \in Holders, NEW w \in Workspaces,
             BeginRelease(h, w), AllIdle
      PROVE ImageFresh'
  BY <1>3 DEF BeginRelease, AllIdle, Enter, ImageFresh, FreshFor, File
<1>4. ASSUME NEW h \in Holders, EndRelease(h) PROVE ImageFresh'
  <2>1. \A k \in Holders : stage'[k] = "idle"
    BY <1>4 DEF EndRelease, Return, OneWriter
  <2>2. QED BY <2>1 DEF ImageFresh
<1>5. ASSUME NEW h \in Holders, Crash(h) PROVE ImageFresh'
  BY <1>5 DEF Crash, Return, ImageFresh, FreshFor, Takeable
<1>6. ASSUME Tick PROVE ImageFresh'
  <2> SUFFICES ASSUME NEW h \in Holders, stage'[h] # "idle"
               PROVE  FreshFor(h)'
    BY DEF ImageFresh
  <2>1. FreshFor(h) /\ stage[h] # "idle"
    BY <1>6 DEF Tick, ImageFresh
  <2>2. stage'[h] # "blind" =>
          \A w \in Workspaces : w # target'[h] => image'[h][w] = leases'[w]
    BY <1>6, <2>1 DEF Tick, Aged, FreshFor
  <2>6. Acquiring(h)' => image'[h][target'[h]].holder = h
    BY <1>6, <2>1 DEF Tick, Aged, FreshFor
  <2>3. ASSUME stage'[h] = "acquiring"
        PROVE  /\ Takeable(h, target[h])'
               /\ image'[h][target'[h]].left >= leases'[target'[h]].left
    <3> DEFINE t == target[h]
    <3>1. /\ Takeable(h, t)
          /\ image[h][t].left >= leases[t].left
      BY <1>6, <2>1, <2>3 DEF Tick, FreshFor
    <3>2. image[h][t].left \in Nat /\ leases[t].left \in Nat
      BY LeaseAssumption DEF File, Lease
    <3>3. /\ image'[h][t].left = Down(image[h][t].left)
          /\ leases'[t].holder = leases[t].holder
          /\ leases'[t].left = Down(leases[t].left)
      BY <1>6 DEF Tick, Aged
    <3>4. Down(leases[t].left) <= Down(image[h][t].left)
      BY <3>1, <3>2, DownMonotone
    <3>5. leases[t].left = 0 => Down(leases[t].left) = 0
      BY DEF Down
    <3>6. target'[h] = t
      BY <1>6 DEF Tick
    <3>7. Takeable(h, target[h])'
      BY <3>1, <3>3, <3>5, <3>6 DEF Takeable
    <3>8. Down(image[h][t].left) \in Nat /\ Down(leases[t].left) \in Nat
      BY <3>2 DEF Down
    <3>9. image'[h][t].left >= leases'[t].left
      BY <3>3, <3>4, <3>8
    <3>10. QED BY <3>6, <3>7, <3>9
  <2>4. ASSUME stage'[h] = "releasing"
        PROVE  leases'[target'[h]].holder = h /\ grant'[h][target'[h]] = 0
    BY <1>6, <2>1, <2>4 DEF Tick, Aged, Down, FreshFor
  <2>5. QED BY <2>2, <2>3, <2>4, <2>6 DEF FreshFor
<1>7. ASSUME UNCHANGED leaseVars PROVE ImageFresh'
  BY <1>7 DEF leaseVars, ImageFresh, FreshFor, Takeable
<1>8. QED
  BY <1>1, <1>2, <1>3, <1>4, <1>5, <1>6, <1>7, <1>9 DEF SerialNext

(* A belief that is backed after a step, and was held before it, was backed  *)
(* before it.                                                                *)
LEMMA StaysBacked ==
  ASSUME LeaseTypeOK, NEW pairs, unbacked \subseteq pairs, StillBelieved(pairs),
         NEW h \in Holders, NEW w \in Workspaces, (Believes(h, w) /\ Backed(h, w))'
  PROVE  Backed(h, w) /\ <<h, w>> \notin pairs
BY DEF StillBelieved, Believes, Backed, LeaseTypeOK

(* Every step keeps the backed beliefs of the holders in the file. *)
LEMMA GrantStep == LeaseInv /\ [SerialNext]_leaseVars => GrantsBacked'
<1> SUFFICES ASSUME LeaseInv, [SerialNext]_leaseVars PROVE GrantsBacked'
  OBVIOUS
<1> USE DEF LeaseInv, LeaseTypeOK
<1> SUFFICES ASSUME NEW k \in Holders, NEW w \in Workspaces,
                    (Believes(k, w) /\ Backed(k, w))'
             PROVE  leases'[w].holder = k /\ leases'[w].left >= grant'[k][w]
  BY DEF GrantsBacked
<1>0. ASSUME Backed(k, w), grant'[k][w] = grant[k][w]
      PROVE  leases[w].holder = k /\ leases[w].left >= grant'[k][w]
  BY <1>0 DEF GrantsBacked, Believes
<1>1. ASSUME NEW h \in Holders, NEW v \in Workspaces,
             BeginAcquire(h, v) \/ BeginAcquireUnread(h, v)
      PROVE  leases'[w].holder = k /\ leases'[w].left >= grant'[k][w]
  BY <1>0, <1>1 DEF BeginAcquire, BeginAcquireUnread, Backed
<1>2. ASSUME NEW h \in Holders, EndAcquire(h)
      PROVE  leases'[w].holder = k /\ leases'[w].left >= grant'[k][w]
  <2> DEFINE t == target[h]
             all == unbacked \cup (IF stage[h] = "blind" THEN Holders \X Workspaces ELSE {})
  <2>1. FreshFor(h) /\ Acquiring(h) /\ leases' = image[h]
    BY <1>2 DEF EndAcquire, ImageFresh, Acquiring
  <2>2. image[h][t].left \in Nat
    BY DEF File, Lease
  <2>3. CASE w = t /\ k = h
    <3>1. grant'[h][t] = image[h][t].left
      BY <1>2 DEF EndAcquire, Believe
    <3>2. QED BY <2>1, <2>2, <2>3, <3>1 DEF FreshFor
  <2>4. CASE ~(w = t /\ k = h)
    <3>1. <<k, w>> # <<h, t>>
      BY <2>4
    <3>2. <<k, w>> \notin all
      BY <1>2, <3>1 DEF EndAcquire, StillBelieved, Believes, Backed
    <3>3. Backed(k, w) /\ stage[h] = "acquiring"
      BY <2>1, <3>2 DEF Backed, Acquiring
    <3>4. grant'[k][w] = grant[k][w]
      BY <1>2, <2>4 DEF EndAcquire, Believe
    <3>5. leases[w].holder = k /\ leases[w].left >= grant'[k][w]
      BY <1>0, <3>3, <3>4
    <3>6. CASE w # t
      BY <2>1, <3>3, <3>5, <3>6 DEF FreshFor
    <3>7. CASE w = t
      <4>1. leases[t].left \in Nat /\ grant[k][t] \in Nat /\ grant[k][t] > 0
        BY <3>4, <3>7 DEF File, Lease, Believes
      <4>2. leases[t].left # 0 /\ leases[t].holder # h
        BY <2>4, <3>4, <3>5, <3>7, <4>1
      <4>3. QED BY <2>1, <3>3, <4>2 DEF FreshFor, Takeable
    <3>8. QED BY <3>6, <3>7
  <2>5. QED BY <2>3, <2>4
<1>9. ASSUME NEW h \in Holders, EndAcquireUnwritten(h)
      PROVE  leases'[w].holder = k /\ leases'[w].left >= grant'[k][w]
  <2>1. <<k, w>> \notin unbacked \cup {<<h, target[h]>>}
    BY <1>9 DEF EndAcquireUnwritten, StillBelieved, Believes, Backed
  <2>2. grant'[k][w] = grant[k][w]
    BY <1>9, <2>1 DEF EndAcquireUnwritten, Believe
  <2>3. QED BY <1>0, <1>9, <2>1, <2>2 DEF Backed, EndAcquireUnwritten
<1>3. ASSUME NEW h \in Holders, NEW v \in Workspaces, BeginRelease(h, v)
      PROVE  leases'[w].holder = k /\ leases'[w].left >= grant'[k][w]
  <2>1. Backed(k, w)
    BY <1>3, StaysBacked DEF BeginRelease
  <2>2. grant'[k][w] = grant[k][w]
    BY <1>3 DEF BeginRelease, Believes
  <2>3. QED BY <1>0, <1>3, <2>1, <2>2 DEF BeginRelease
<1>4. ASSUME NEW h \in Holders, EndRelease(h)
      PROVE  leases'[w].holder = k /\ leases'[w].left >= grant'[k][w]
  <2> DEFINE t == target[h]
  <2>1. FreshFor(h) /\ stage[h] = "releasing"
    BY <1>4 DEF EndRelease, ImageFresh
  <2>2. leases[w].holder = k /\ leases[w].left >= grant'[k][w] /\ grant[k][w] > 0
    BY <1>0, <1>4 DEF EndRelease, Backed, Believes
  <2>3. w # t
    BY <2>1, <2>2 DEF FreshFor
  <2>4. QED BY <1>4, <2>1, <2>2, <2>3 DEF EndRelease, FreshFor
<1>5. ASSUME NEW h \in Holders, Crash(h)
      PROVE  leases'[w].holder = k /\ leases'[w].left >= grant'[k][w]
  <2>1. Backed(k, w)
    BY <1>5, StaysBacked DEF Crash
  <2>2. grant'[k][w] = grant[k][w]
    BY <1>5 DEF Crash, Believes
  <2>3. QED BY <1>0, <1>5, <2>1, <2>2 DEF Crash
<1>6. ASSUME Tick PROVE  leases'[w].holder = k /\ leases'[w].left >= grant'[k][w]
  <2>0. Backed(k, w)
    BY <1>6, StaysBacked DEF Tick
  <2>1. leases[w].left \in Nat /\ grant[k][w] \in Nat
    BY DEF File, Lease
  <2>2. /\ grant'[k][w] = Down(grant[k][w])
        /\ leases'[w].holder = leases[w].holder
        /\ leases'[w].left = Down(leases[w].left)
    BY <1>6 DEF Tick, Aged
  <2>3. grant[k][w] > 0
    BY <2>1, <2>2 DEF Down, Believes
  <2>4. leases[w].holder = k /\ leases[w].left >= grant[k][w]
    BY <2>0, <2>3 DEF GrantsBacked, Believes
  <2>5. Down(grant[k][w]) <= Down(leases[w].left)
    BY <2>1, <2>4, DownMonotone
  <2>6. Down(grant[k][w]) \in Nat /\ Down(leases[w].left) \in Nat
    BY <2>1 DEF Down
  <2>7. QED BY <2>2, <2>4, <2>5, <2>6
<1>7. ASSUME UNCHANGED leaseVars
      PROVE  leases'[w].holder = k /\ leases'[w].left >= grant'[k][w]
  BY <1>0, <1>7 DEF leaseVars, Backed
<1>8. QED
  BY <1>1, <1>2, <1>3, <1>4, <1>5, <1>6, <1>7, <1>9 DEF SerialNext

(* No step takes an unexpired lease away but a release by its holder, and an *)
(* acquire that could not read the file.                                     *)
LEMMA HandStep ==
  ASSUME LeaseInv, SerialNext, NEW w \in Workspaces, NEW h \in Holders,
         leases[w].holder = h, leases[w].left > 0, leases'[w].holder # h
  PROVE  \/ stage[h] = "releasing" /\ target[h] = w
         \/ \E k \in Holders : stage[k] = "blind" /\ leases' = image[k]
<1> USE DEF LeaseInv, LeaseTypeOK
<1>1. ASSUME NEW k \in Holders, EndAcquire(k), stage[k] # "blind" PROVE FALSE
  <2>1. FreshFor(k) /\ stage[k] = "acquiring" /\ leases' = image[k]
    BY <1>1 DEF EndAcquire, ImageFresh, Acquiring
  <2>2. CASE w # target[k]
    BY <2>1, <2>2 DEF FreshFor
  <2>3. CASE w = target[k]
    <3>1. leases[w].left # 0
      BY DEF File, Lease
    <3>2. h = k
      BY <2>1, <2>3, <3>1 DEF FreshFor, Takeable
    <3>3. QED BY <2>1, <2>3, <3>2 DEF FreshFor, Acquiring
  <2>4. QED BY <2>2, <2>3
<1>2. ASSUME NEW k \in Holders, EndRelease(k)
      PROVE  stage[h] = "releasing" /\ target[h] = w
  <2>1. FreshFor(k) /\ stage[k] = "releasing" /\ leases' \in {image[k], leases}
    BY <1>2 DEF EndRelease, ImageFresh
  <2>2. w = target[k] /\ leases[w].holder = k
    BY <2>1 DEF FreshFor
  <2>3. QED BY <2>1, <2>2
<1>3. ASSUME Tick PROVE FALSE
  BY <1>3 DEF Tick, Aged
<1>4. ASSUME NEW k \in Holders, EndAcquire(k), stage[k] = "blind"
      PROVE  leases' = image[k]
  BY <1>4 DEF EndAcquire
<1>5. QED
  BY <1>1, <1>2, <1>3, <1>4 DEF SerialNext, BeginAcquire,
     BeginAcquireUnread, EndAcquireUnwritten, BeginRelease, Crash

(* Every behaviour in which no call overlaps a release keeps the inductive   *)
(* invariant: the writes of EndAcquire and EndRelease install a fresh image. *)
THEOREM Invariance == SerialSpec => []LeaseInv
<1>1. LeaseInv /\ [SerialNext]_leaseVars => LeaseInv'
  BY TypeStep, WriterStep, ImageStep, GrantStep DEF LeaseInv
<1>2. QED BY InitInv, <1>1, PTL DEF SerialSpec

(* acquire and release keep the file and the calls in their types. *)
THEOREM LeaseTypes == SerialSpec => []LeaseTypeOK
<1>1. LeaseInv => LeaseTypeOK
  BY DEF LeaseInv
<1>2. QED BY Invariance, <1>1, PTL

(* No two holders ever believe in the same workspace, acquire's "both win",   *)
(* unless a failed read or write of acquire concerned the lease of one.      *)
THEOREM SplitBrainFree == SerialSpec => []NoSplitBrain
<1>1. LeaseInv => NoSplitBrain
  BY DEF LeaseInv, GrantsBacked, NoSplitBrain
<1>2. QED BY Invariance, <1>1, PTL

(* Every lease a holder was given by acquire is still in the file while it   *)
(* runs, unless acquire failed to write it or a later one to read it.        *)
THEOREM GrantsKept == SerialSpec => []GrantsBacked
<1>1. LeaseInv => GrantsBacked
  BY DEF LeaseInv
<1>2. QED BY Invariance, <1>1, PTL

(* Only release, called by the holder, ends an unexpired lease, or an acquire *)
(* that could not read the file.                                             *)
THEOREM OnlyHolderReleases == SerialSpec => HolderGivesUp
<1> DEFINE A == \A w \in Workspaces, h \in Holders :
       leases[w].holder = h /\ leases[w].left > 0 /\ leases'[w].holder # h
         => \/ stage[h] = "releasing" /\ target[h] = w
            \/ \E k \in Holders : stage[k] = "blind" /\ leases' = image[k]
<1>1. LeaseInv /\ [SerialNext]_leaseVars => [A]_leaseVars
  BY HandStep
<1>2. QED BY Invariance, <1>1, PTL DEF SerialSpec, HolderGivesUp
==============================================================================
