---------------------------- MODULE McpHttpProofs ----------------------------
(* What McpHttp guarantees for any number of requests, identities and tools   *)
(* and for every limit, as long as the policy is not stricter than the        *)
(* semaphore.                                                                 *)
EXTENDS McpHttp, FiniteSetTheorems, TLAPS

------------------------------------------------------------------------------
(* The inductive invariant *)

Holders == {r \in Reqs : pc[r] \in Holding}
Actives == {r \in Reqs : pc[r] \in Counted}

\* The two counters are what they count.
BooksInv ==
  /\ permits \in Nat
  /\ permits + Cardinality(Holders) = MaxPermits
  /\ active = Cardinality(Actives)

\* Whoever is counted, or has a tool queued, found fewer than every permit in
\* use: its own is not among those it counted.
PriorInv ==
  \A r \in Reqs :
    /\ pc[r] \in Counted \/ task[r] = "queued" => prior[r] < MaxPermits
    /\ prior[r] <= MaxPermits

\* The tool call against the request.
TaskInv ==
  \A r \in Reqs :
    /\ pc[r] \in {"arrived", "admitted", "body", "parsed", "missed", "calling", "counted"}
         => answer[r] = "none" /\ task[r] = "none"
    /\ pc[r] = "waiting" => answer[r] = "none" /\ task[r] # "none"
    /\ task[r] = "ok" => effect[r]
    /\ task[r] \in {"none", "queued", "refused"} => ~effect[r]
    /\ answer[r] = "refused" => task[r] \in {"none", "refused"}
    /\ answer[r] = "ok" => task[r] \in {"none", "ok"}

\* What the identities with a key may discover.
Listable(k) == {Discoverable(id) : id \in {j \in Identities : CacheKey(j) = k}}

CacheInv ==
  /\ DiscoveryFits
  /\ \A k \in Keys : cache[k] # {NoTool} => cache[k] \in Listable(k)

\* The variables a request alone writes.
LocalTypes ==
  /\ window \in [Subjects -> 0..MaxPerWindow]
  /\ expired \in [Subjects -> 0..MaxPerWindow]
  /\ \A s \in Subjects : expired[s] <= window[s]
  /\ cache \in [Keys -> SUBSET (Tools \cup {NoTool})]
  /\ pc \in [Reqs -> {"done", "arrived"} \cup Holding]
  /\ who \in [Reqs -> Identities]
  /\ prior \in [Reqs -> Nat]
  /\ task \in [Reqs -> Answers \cup {"queued"}]
  /\ effect \in [Reqs -> BOOLEAN]
  /\ answer \in [Reqs -> Answers]
  /\ listed \in [Reqs -> SUBSET (Tools \cup {NoTool})]

------------------------------------------------------------------------------
(* The counters *)

LEMMA HolderCounts ==
  /\ IsFiniteSet(Holders) /\ IsFiniteSet(Actives)
  /\ Cardinality(Holders) \in Nat /\ Cardinality(Actives) \in Nat
  /\ Cardinality(Actives) <= Cardinality(Holders)
<1>1. IsFiniteSet(Holders)
  BY LimitsAssumption, FS_Subset DEF LimitsAssumption, Holders
<1>2. Actives \subseteq Holders
  BY DEF Actives, Holders, Counted, Holding
<1> QED
  BY <1>1, <1>2, FS_Subset, FS_CardinalityType

\* A request that moves to l joins or leaves the two sets as l says.
LEMMA SetMoves ==
  ASSUME NEW r \in Reqs, NEW l, LocalTypes, pc' = [pc EXCEPT ![r] = l]
  PROVE  /\ l \in Holding => Holders' = Holders \cup {r}
         /\ l \notin Holding => Holders' = Holders \ {r}
         /\ l \in Counted => Actives' = Actives \cup {r}
         /\ l \notin Counted => Actives' = Actives \ {r}
BY DEF Holders, Actives, LocalTypes

LEMMA BooksKept ==
  ASSUME LocalTypes, BooksInv, NEW r \in Reqs, NEW l, NEW m, Goto(r, l, m),
         l \in Holding <=> m \in Holding, l \in Counted <=> m \in Counted,
         UNCHANGED <<permits, active>>
  PROVE  BooksInv'
<1>1. pc[r] = l /\ pc' = [pc EXCEPT ![r] = m]
  BY DEF Goto
<1>2. Holders' = Holders /\ Actives' = Actives
  BY <1>1, SetMoves DEF Holders, Actives
<1> QED
  BY <1>2 DEF BooksInv

LEMMA BooksStep ==
  LocalTypes /\ BooksInv /\ [HttpNext]_vars => BooksInv'
<1> SUFFICES ASSUME LocalTypes, BooksInv, [HttpNext]_vars PROVE BooksInv'
  OBVIOUS
<1> USE DEF Holding, Counted
<1>1. CASE UNCHANGED vars
  BY <1>1 DEF vars, BooksInv, Holders, Actives
<1>2. ASSUME NEW s \in Subjects, Expire(s) PROVE BooksInv'
  BY <1>2 DEF Expire, BooksInv, Holders, Actives
<1>3. ASSUME NEW r \in Reqs, CallRefused(r) \/ RunTool(r) PROVE BooksInv'
  BY <1>3 DEF CallRefused, RunTool, Ends, BooksInv, Holders, Actives
<1>4. ASSUME NEW r \in Reqs, Arrive(r) PROVE BooksInv'
  <2>1. CASE UNCHANGED pc
    BY <1>4, <2>1 DEF Arrive, BooksInv, Holders, Actives
  <2>2. CASE pc' = [pc EXCEPT ![r] = "arrived"]
    <3>1. Goto(r, "done", "arrived") /\ UNCHANGED <<permits, active>>
      BY <1>4, <2>2 DEF Arrive, Goto
    <3> QED
      BY <3>1, BooksKept
  <2> QED
    BY <1>4, <2>1, <2>2 DEF Arrive
<1>5. ASSUME NEW r \in Reqs,
             \/ NoPermit(r) \/ CheckRate(r) \/ ReadBody(r) \/ ListCached(r)
             \/ ListMissed(r) \/ NotAList(r) \/ BadCall(r) \/ Dispatch(r)
             \/ Deliver(r) \/ TimeOut(r) \/ HangUp(r)
      PROVE  BooksInv'
  <2>1. UNCHANGED <<permits, active>>
    BY <1>5 DEF NoPermit, CheckRate, ReadBody, ListCached, ListMissed, NotAList,
                BadCall, Dispatch, Deliver, TimeOut, HangUp
  <2>2. \/ Goto(r, "arrived", "done") \/ Goto(r, "admitted", "body")
        \/ Goto(r, "admitted", "closing") \/ Goto(r, "body", "parsed")
        \/ Goto(r, "body", "closing") \/ Goto(r, "parsed", "closing")
        \/ Goto(r, "parsed", "missed") \/ Goto(r, "parsed", "calling")
        \/ Goto(r, "counted", "uncount") \/ Goto(r, "counted", "waiting")
        \/ Goto(r, "waiting", "uncount")
    BY <1>5 DEF NoPermit, CheckRate, ReadBody, ListCached, ListMissed, NotAList,
                BadCall, Dispatch, Deliver, TimeOut, HangUp
  <2> QED
    BY <2>1, <2>2, BooksKept
<1>6. ASSUME NEW r \in Reqs, Acquire(r) PROVE BooksInv'
  <2>1. /\ pc[r] = "arrived" /\ pc' = [pc EXCEPT ![r] = "admitted"]
        /\ permits > 0 /\ permits' = permits - 1 /\ active' = active
    BY <1>6 DEF Acquire, Goto
  <2>2. r \notin Holders /\ Holders' = Holders \cup {r} /\ Actives' = Actives
    <3>1. Holders' = Holders \cup {r} /\ Actives' = Actives \ {r}
      BY <2>1 DEF Holders, Actives, LocalTypes
    <3>2. r \notin Holders /\ r \notin Actives
      BY <2>1 DEF Holders, Actives
    <3> QED
      BY <3>1, <3>2
  <2>3. Cardinality(Holders') = Cardinality(Holders) + 1
    BY <2>2, HolderCounts, FS_AddElement
  <2>4. Cardinality(Holders) \in Nat
    BY HolderCounts
  <2> QED
    BY <2>1, <2>2, <2>3, <2>4 DEF BooksInv
<1>7. ASSUME NEW r \in Reqs, List(r) \/ Count(r) PROVE BooksInv'
  <2>1. /\ active' = active + 1 /\ permits' = permits
        /\ \/ pc[r] = "missed" /\ pc' = [pc EXCEPT ![r] = "uncount"]
           \/ pc[r] = "calling" /\ pc' = [pc EXCEPT ![r] = "counted"]
    BY <1>7 DEF List, Count, Enter, Goto
  <2>2. r \notin Actives /\ Actives' = Actives \cup {r} /\ Holders' = Holders
    BY <2>1, SetMoves DEF Holders, Actives
  <2>3. Cardinality(Actives') = Cardinality(Actives) + 1
    BY <2>2, HolderCounts, FS_AddElement
  <2> QED
    BY <2>1, <2>2, <2>3 DEF BooksInv
<1>8. ASSUME NEW r \in Reqs, Uncount(r) PROVE BooksInv'
  <2>1. /\ active' = active - 1 /\ permits' = permits
        /\ pc[r] = "uncount" /\ pc' = [pc EXCEPT ![r] = "closing"]
    BY <1>8 DEF Uncount, Goto
  <2>2. r \in Actives /\ Actives' = Actives \ {r} /\ Holders' = Holders
    BY <2>1, SetMoves DEF Holders, Actives
  <2>3. Cardinality(Actives') = Cardinality(Actives) - 1
    BY <2>2, HolderCounts, FS_RemoveElement
  <2> QED
    BY <2>1, <2>2, <2>3 DEF BooksInv
<1>9. ASSUME NEW r \in Reqs, Release(r) PROVE BooksInv'
  <2>1. /\ permits' = permits + 1 /\ active' = active
        /\ pc[r] = "closing" /\ pc' = [pc EXCEPT ![r] = "done"]
    BY <1>9 DEF Release, Goto
  <2>2. r \in Holders /\ Holders' = Holders \ {r} /\ Actives' = Actives
    <3>1. Holders' = Holders \ {r} /\ Actives' = Actives \ {r}
      BY <2>1 DEF Holders, Actives, LocalTypes
    <3>2. r \in Holders /\ r \notin Actives
      BY <2>1 DEF Holders, Actives
    <3> QED
      BY <3>1, <3>2
  <2>3. Cardinality(Holders') = Cardinality(Holders) - 1
    BY <2>2, HolderCounts, FS_RemoveElement
  <2>4. Cardinality(Holders) \in Nat
    BY HolderCounts
  <2> QED
    BY <2>1, <2>2, <2>3, <2>4 DEF BooksInv
<1> QED
  BY <1>1, <1>2, <1>3, <1>4, <1>5, <1>6, <1>7, <1>8, <1>9 DEF HttpNext, Serve

------------------------------------------------------------------------------
(* The requests *)

LEMMA HttpInit1 ==
  HttpInit => LocalTypes /\ BooksInv /\ PriorInv /\ TaskInv /\ CacheInv
<1> SUFFICES ASSUME HttpInit
             PROVE  LocalTypes /\ BooksInv /\ PriorInv /\ TaskInv /\ CacheInv
  OBVIOUS
<1> USE DEF HttpInit
<1>1. LocalTypes
  <2>1. effect \in [Reqs -> BOOLEAN]
    BY Zenon
  <2> QED
    BY <2>1, LimitsAssumption DEF LocalTypes, LimitsAssumption, Answers
<1>2. BooksInv
  <2>1. Holders = {} /\ Actives = {}
    BY DEF Holders, Actives, Holding, Counted
  <2> QED
    BY <2>1, FS_EmptySet, LimitsAssumption DEF BooksInv, LimitsAssumption
<1>3. PriorInv /\ TaskInv
  BY LimitsAssumption DEF PriorInv, TaskInv, Counted, LimitsAssumption
<1>4. CacheInv
  BY DEF CacheInv, DiscoveryFits, CacheKey, Keys, Listable
<1> QED
  BY <1>1, <1>2, <1>3, <1>4

LEMMA LocalTypesStep ==
  LocalTypes /\ BooksInv /\ [HttpNext]_vars => LocalTypes'
<1> SUFFICES ASSUME LocalTypes, BooksInv, [HttpNext]_vars PROVE LocalTypes'
  OBVIOUS
<1> USE DEF rate, mine, tool, reply, Goto, Send, Answers, Holding
<1>0. active \in Nat /\ MaxPerWindow \in Nat
  BY HolderCounts, LimitsAssumption DEF BooksInv, LimitsAssumption
<1>1. CASE UNCHANGED vars
  BY <1>1 DEF vars, LocalTypes
<1>2. ASSUME NEW s \in Subjects, Expire(s) PROVE LocalTypes'
  BY <1>0, <1>2 DEF Expire, LocalTypes
<1>3. ASSUME NEW r \in Reqs, CallRefused(r) \/ RunTool(r) PROVE LocalTypes'
  <2>1. effect' \in [Reqs -> BOOLEAN]
    BY <1>3, Zenon DEF CallRefused, RunTool, LocalTypes
  <2> QED
    BY <1>3, <2>1 DEF CallRefused, RunTool, Ends, LocalTypes
<1>4. ASSUME NEW r \in Reqs, Arrive(r) PROVE LocalTypes'
  <2>1. effect' \in [Reqs -> BOOLEAN]
    BY <1>4, Zenon DEF Arrive, LocalTypes
  <2> QED
    BY <1>4, <2>1 DEF Arrive, LocalTypes
<1>5. ASSUME NEW r \in Reqs, CheckRate(r) PROVE LocalTypes'
  <2> DEFINE s == who[r].subject
             n == window[s] - expired[s]
  <2>1. s \in Subjects
    BY DEF LocalTypes, Subjects
  <2>2. n \in 0..MaxPerWindow
    BY <1>0, <2>1 DEF LocalTypes
  <2>3. \/ n < MaxPerWindow /\ window' = [window EXCEPT ![s] = n + 1]
        \/ window' = [window EXCEPT ![s] = n]
    BY <1>5 DEF CheckRate
  <2>4. expired' = [expired EXCEPT ![s] = 0]
    BY <1>5 DEF CheckRate
  <2>5. /\ UNCHANGED <<cache, who, prior, task, effect>>
        /\ \E l \in {"body", "closing"} : pc' = [pc EXCEPT ![r] = l]
        /\ answer' = answer \/ answer' = [answer EXCEPT ![r] = "refused"]
        /\ listed' = listed
    BY <1>5 DEF CheckRate
  <2> HIDE DEF s, n
  <2>6. window' \in [Subjects -> 0..MaxPerWindow]
    BY <1>0, <2>1, <2>2, <2>3 DEF LocalTypes
  <2>7. expired' \in [Subjects -> 0..MaxPerWindow]
    BY <1>0, <2>1, <2>4 DEF LocalTypes
  <2>8. \A u \in Subjects : expired'[u] <= window'[u]
    BY <1>0, <2>1, <2>2, <2>3, <2>4 DEF LocalTypes
  <2> QED
    BY <2>5, <2>6, <2>7, <2>8 DEF LocalTypes
<1>6. ASSUME NEW r \in Reqs,
             \/ Acquire(r) \/ NoPermit(r) \/ ReadBody(r) \/ ListMissed(r)
             \/ NotAList(r) \/ BadCall(r) \/ Deliver(r) \/ TimeOut(r)
             \/ HangUp(r) \/ Uncount(r) \/ Release(r)
      PROVE  LocalTypes'
  BY <1>6 DEF Acquire, NoPermit, ReadBody, ListMissed, NotAList, BadCall, Deliver,
              TimeOut, HangUp, Uncount, Release, LocalTypes
<1>7. ASSUME NEW r \in Reqs, Count(r) \/ Dispatch(r) PROVE LocalTypes'
  BY <1>0, <1>7 DEF Count, Enter, Dispatch, LocalTypes
<1>8. ASSUME NEW r \in Reqs, ListCached(r) \/ List(r) PROVE LocalTypes'
  <2>1. CacheKey(who[r]) \in Keys
    BY DEF CacheKey, Keys, Listable, LocalTypes
  <2>2. Discoverable(who[r]) \in SUBSET (Tools \cup {NoTool})
    BY AllowedAssumption DEF AllowedAssumption, Discoverable
  <2> QED
    BY <1>0, <1>8, <2>1, <2>2 DEF ListCached, List, Enter, LocalTypes
<1> QED
  BY <1>1, <1>2, <1>3, <1>4, <1>5, <1>6, <1>7, <1>8 DEF HttpNext, Serve

LEMMA PriorStep ==
  LocalTypes /\ BooksInv /\ PriorInv /\ TaskInv /\ [HttpNext]_vars => PriorInv'
<1> SUFFICES ASSUME LocalTypes, BooksInv, PriorInv, TaskInv, [HttpNext]_vars
             PROVE  PriorInv'
  OBVIOUS
<1> USE DEF mine, tool, Goto, Counted
<1>1. CASE UNCHANGED vars
  BY <1>1 DEF vars, PriorInv
<1>2. ASSUME NEW s \in Subjects, Expire(s) PROVE PriorInv'
  BY <1>2 DEF Expire, PriorInv
<1>3. ASSUME NEW r \in Reqs, Arrive(r) PROVE PriorInv'
  BY <1>3, LimitsAssumption DEF Arrive, PriorInv, LocalTypes, LimitsAssumption
<1>4. ASSUME NEW r \in Reqs, List(r) \/ Count(r) PROVE PriorInv'
  <2>1. /\ pc[r] \in {"missed", "calling"}
        /\ prior' = [prior EXCEPT ![r] = active] /\ task' = task
        /\ \E l \in Counted : pc' = [pc EXCEPT ![r] = l]
    BY <1>4 DEF List, Count, Enter
  <2>2. r \in Holders /\ Actives \subseteq Holders \ {r}
    BY <2>1 DEF Holders, Actives, Holding
  <2>3. /\ Cardinality(Holders \ {r}) = Cardinality(Holders) - 1
        /\ Cardinality(Actives) <= Cardinality(Holders \ {r})
    BY <2>2, HolderCounts, FS_RemoveElement, FS_Subset
  <2>4. Cardinality(Holders) \in Nat /\ Cardinality(Actives) \in Nat
    BY HolderCounts
  <2>5. active < MaxPermits
    BY <2>3, <2>4, LimitsAssumption DEF BooksInv, LimitsAssumption
  <2>6. active \in Nat /\ MaxPermits \in Nat
    BY HolderCounts, LimitsAssumption DEF BooksInv, LimitsAssumption
  <2> QED
    BY <2>1, <2>5, <2>6 DEF PriorInv, LocalTypes
<1>5. ASSUME NEW r \in Reqs,
             \/ Acquire(r) \/ NoPermit(r) \/ CheckRate(r) \/ ReadBody(r)
             \/ ListCached(r) \/ ListMissed(r) \/ NotAList(r) \/ BadCall(r)
             \/ Deliver(r) \/ TimeOut(r) \/ HangUp(r) \/ Uncount(r)
             \/ Release(r) \/ Dispatch(r)
      PROVE  PriorInv'
  BY <1>5 DEF Acquire, NoPermit, CheckRate, ReadBody, ListCached, ListMissed, NotAList,
              BadCall, Deliver, TimeOut, HangUp, Uncount, Release, Dispatch,
              PriorInv, LocalTypes
<1>6. ASSUME NEW r \in Reqs, CallRefused(r) \/ RunTool(r) PROVE PriorInv'
  BY <1>6 DEF CallRefused, RunTool, Ends, PriorInv, LocalTypes
<1> QED
  BY <1>1, <1>2, <1>3, <1>4, <1>5, <1>6 DEF HttpNext, Serve

LEMMA TaskStep ==
  LocalTypes /\ TaskInv /\ [HttpNext]_vars => TaskInv'
<1> SUFFICES ASSUME LocalTypes, TaskInv, [HttpNext]_vars PROVE TaskInv'
  OBVIOUS
<1> USE DEF mine, tool, reply, Goto, Send
<1>1. CASE UNCHANGED vars
  BY <1>1 DEF vars, TaskInv
<1>2. ASSUME NEW s \in Subjects, Expire(s) PROVE TaskInv'
  BY <1>2 DEF Expire, TaskInv
<1>3. ASSUME NEW r \in Reqs, CallRefused(r) \/ RunTool(r) PROVE TaskInv'
  BY <1>3 DEF CallRefused, RunTool, Ends, TaskInv, LocalTypes
<1>4. ASSUME NEW r \in Reqs, Arrive(r) PROVE TaskInv'
  BY <1>4 DEF Arrive, TaskInv, LocalTypes
<1>5. ASSUME NEW r \in Reqs,
             \/ Acquire(r) \/ NoPermit(r) \/ CheckRate(r) \/ ReadBody(r)
             \/ ListCached(r) \/ ListMissed(r) \/ NotAList(r) \/ BadCall(r)
      PROVE  TaskInv'
  BY <1>5 DEF Acquire, NoPermit, CheckRate, ReadBody, ListCached, ListMissed, NotAList,
              BadCall, TaskInv, LocalTypes
<1>6. ASSUME NEW r \in Reqs,
             \/ List(r) \/ Count(r) \/ Dispatch(r) \/ Deliver(r) \/ TimeOut(r)
             \/ HangUp(r) \/ Uncount(r) \/ Release(r)
      PROVE  TaskInv'
  BY <1>6 DEF List, Count, Enter, Dispatch, Deliver, TimeOut, HangUp, Uncount, Release,
              TaskInv, LocalTypes, Answers
<1> QED
  BY <1>1, <1>2, <1>3, <1>4, <1>5, <1>6 DEF HttpNext, Serve

LEMMA CacheStep ==
  LocalTypes /\ TaskInv /\ CacheInv /\ [HttpNext]_vars => CacheInv'
<1> SUFFICES ASSUME LocalTypes, TaskInv, CacheInv, [HttpNext]_vars PROVE CacheInv'
  OBVIOUS
<1> USE DEF mine, tool, reply, Goto, Send
<1>1. CASE UNCHANGED vars
  BY <1>1 DEF vars, CacheInv, DiscoveryFits
<1>2. ASSUME NEW s \in Subjects, Expire(s) PROVE CacheInv'
  BY <1>2 DEF Expire, CacheInv, DiscoveryFits
<1>3. ASSUME NEW r \in Reqs, CallRefused(r) \/ RunTool(r) PROVE CacheInv'
  BY <1>3 DEF CallRefused, RunTool, Ends, CacheInv, DiscoveryFits, TaskInv, LocalTypes
<1>4. ASSUME NEW r \in Reqs, Arrive(r) PROVE CacheInv'
  BY <1>4 DEF Arrive, CacheInv, DiscoveryFits, LocalTypes
<1>5. ASSUME NEW r \in Reqs,
             \/ Acquire(r) \/ NoPermit(r) \/ CheckRate(r) \/ ReadBody(r)
             \/ ListMissed(r) \/ NotAList(r) \/ BadCall(r) \/ Count(r)
             \/ Dispatch(r) \/ Deliver(r) \/ TimeOut(r) \/ HangUp(r)
             \/ Uncount(r) \/ Release(r)
      PROVE  CacheInv'
  <2>1. CacheInv!2'
    BY <1>5 DEF Acquire, NoPermit, CheckRate, ReadBody, ListMissed, NotAList, BadCall,
                Count, Enter, Dispatch, Deliver, TimeOut, HangUp, Uncount, Release, CacheInv
  <2>2. who' = who /\ listed' = listed
    BY <1>5 DEF Acquire, NoPermit, CheckRate, ReadBody, ListMissed, NotAList, BadCall,
                Count, Enter, Dispatch, Deliver, TimeOut, HangUp, Uncount, Release
  <2>3. ASSUME NEW q \in Reqs, answer'[q] = "ok", task'[q] = "none"
        PROVE  answer[q] = "ok" /\ task[q] = "none"
    BY <1>5, <2>3 DEF Acquire, NoPermit, CheckRate, ReadBody, ListMissed, NotAList, BadCall,
                Count, Enter, Dispatch, Deliver, TimeOut, HangUp, Uncount, Release,
                TaskInv, LocalTypes
  <2> QED
    BY <2>1, <2>2, <2>3 DEF CacheInv, DiscoveryFits
<1>6. ASSUME NEW r \in Reqs, ListCached(r) PROVE CacheInv'
  <2>1. who[r] \in Identities
    BY DEF LocalTypes
  <2>2. cache[CacheKey(who[r])] \in Listable(CacheKey(who[r]))
    BY <1>6, <2>1 DEF ListCached, CacheInv, Keys
  <2>3. UNCHANGED <<who, task, cache>>
        /\ answer' = [answer EXCEPT ![r] = "ok"]
        /\ listed' = [listed EXCEPT ![r] = cache[CacheKey(who[r])]]
    BY <1>6 DEF ListCached
  <2>4. DiscoveryFits'
    BY <2>2, <2>3 DEF CacheInv, DiscoveryFits, Listable, CacheKey, LocalTypes
  <2> QED
    BY <2>3, <2>4 DEF CacheInv
<1>7. ASSUME NEW r \in Reqs, List(r) PROVE CacheInv'
  <2>1. who[r] \in Identities /\ CacheKey(who[r]) \in Keys
    BY DEF LocalTypes, Keys
  <2>2. /\ cache' = [cache EXCEPT ![CacheKey(who[r])] = Discoverable(who[r])]
        /\ UNCHANGED <<who, task>>
        /\ answer' = [answer EXCEPT ![r] = "ok"]
        /\ listed' = [listed EXCEPT ![r] = Discoverable(who[r])]
    BY <1>7 DEF List, Enter
  <2>3. Discoverable(who[r]) \in Listable(CacheKey(who[r]))
    BY <2>1 DEF Listable
  <2>4. ASSUME NEW k \in Keys, cache'[k] # {NoTool}
        PROVE  cache'[k] \in Listable(k)
    <3>1. CASE k = CacheKey(who[r])
      BY <2>1, <2>2, <2>3, <3>1 DEF LocalTypes
    <3>2. CASE k # CacheKey(who[r])
      BY <2>1, <2>2, <2>4, <3>2 DEF LocalTypes, CacheInv
    <3> QED
      BY <3>1, <3>2
  <2>5. DiscoveryFits'
    BY <2>1, <2>2 DEF CacheInv, DiscoveryFits, LocalTypes
  <2> QED
    BY <2>4, <2>5 DEF CacheInv
<1> QED
  BY <1>1, <1>2, <1>3, <1>4, <1>5, <1>6, <1>7 DEF HttpNext, Serve

------------------------------------------------------------------------------
(* The theorems *)

HttpInv == LocalTypes /\ BooksInv /\ PriorInv /\ TaskInv /\ CacheInv

\* The inductive invariant: the two counters count what they should, a call has
\* an effect exactly as far as its end says, the cache holds what its key says.
THEOREM HttpInvAlways == HttpSpec => []HttpInv
<1>1. HttpInv /\ [HttpNext]_vars => HttpInv'
  BY LocalTypesStep, BooksStep, PriorStep, TaskStep, CacheStep DEF HttpInv
<1>2. HttpInit => HttpInv
  BY HttpInit1 DEF HttpInv
<1> QED
  BY <1>1, <1>2, PTL DEF HttpSpec

\* Type correctness; that active_requests stays within the permits is part of it.
THEOREM HttpTypes == HttpSpec => []HttpTypeOK
<1>1. ASSUME HttpInv PROVE HttpTypeOK
  <2>1. permits \in 0..MaxPermits /\ active \in 0..MaxPermits
    BY <1>1, HolderCounts, LimitsAssumption DEF HttpInv, BooksInv, LimitsAssumption
  <2>2. prior \in [Reqs -> 0..MaxPermits]
    BY <1>1, LimitsAssumption DEF HttpInv, LocalTypes, PriorInv, LimitsAssumption
  <2> QED
    BY <1>1, <2>1, <2>2, Zenon DEF HttpInv, LocalTypes, HttpTypeOK
<1> QED
  BY <1>1, HttpInvAlways, PTL

\* A policy's limit on concurrent executions that is not below the semaphore's
\* never refuses a request that got a permit (policy.rs enforce_limits after
\* http.rs try_acquire_owned), for any two such limits.
THEOREM AdmittedRun == HttpSpec => []AdmittedNotRefused
<1>1. ASSUME HttpInv PROVE AdmittedNotRefused
  BY <1>1, LimitsAssumption DEF HttpInv, LocalTypes, PriorInv, AdmittedNotRefused,
     LimitsAssumption
<1> QED
  BY <1>1, HttpInvAlways, PTL

\* What an answer tells of the tool's effect is true when it is sent and stays
\* true, whatever timed out.
THEOREM AnswersTellEffects == HttpSpec => []AnswerTellsEffect
<1>1. ASSUME HttpInv PROVE AnswerTellsEffect
  BY <1>1 DEF HttpInv, TaskInv, AnswerTellsEffect
<1> QED
  BY <1>1, HttpInvAlways, PTL

\* The discovery cache shows an identity its own tools or those of an identity
\* whose key is the same string, whatever strings the identities are made into.
THEOREM DiscoveryIsByKey == HttpSpec => []DiscoveryFits
<1>1. HttpInv => DiscoveryFits
  BY DEF HttpInv, CacheInv
<1> QED
  BY <1>1, HttpInvAlways, PTL
=============================================================================
