------------------------------- MODULE McpHttp -------------------------------
(***************************************************************************)
(* The stateless HTTP transport of the MCP server (crates/ruflo-mcp,       *)
(* http.rs) with the dispatcher and the policy it calls.  Requests are     *)
(* handled concurrently; they share the semaphore, the rate limiter, the   *)
(* count of active requests and the discovery cache.  A tool runs on a     *)
(* blocking thread of its own: the timeout, or a client that hangs up,     *)
(* ends the request and not the tool.                                      *)
(*                                                                         *)
(* An answer is "ok" (200), "refused" (401, 403, 404, 413, 429: what the   *)
(* caller may take for a promise that nothing was done) or "failed" (400,  *)
(* 408, 502, or a client that hung up).  Time is left out but for what it  *)
(* allows: an entry of the rate window grows old, and a request that       *)
(* waits for its tool may time out at any moment.                          *)
(***************************************************************************)
EXTENDS Naturals, FiniteSets

CONSTANTS
  Reqs,           \* slots for requests; a slot is used again
  Identities,     \* [subject, caps, key]: who asks, with which capabilities
  Tools,          \* the registered tools, each its own capability
  Allowed,        \* those the policy allows
  MaxPermits,     \* HttpLimits.max_concurrent_requests
  MaxExecutions,  \* Limits.max_concurrent_executions of the policy
  MaxPerWindow,   \* HttpLimits.max_requests_per_window
  NoTool          \* nothing cached

Subjects == {id.subject : id \in Identities}

\* FAULT: the key leaves the capabilities out.
CacheKeyBySubject(id) == id.subject

\* The string that discovery_cache_key makes of an identity: subject, issuer and
\* capabilities, joined with | and commas.  Identities may share one: a token
\* with the two capabilities a and b, and one with the single capability "a,b".
CacheKey(id) == id.key

Keys == {CacheKey(id) : id \in Identities}

ASSUME LimitsAssumption ==
  /\ IsFiniteSet(Reqs)
  /\ MaxPermits \in Nat /\ MaxExecutions \in Nat /\ MaxPerWindow \in Nat

ASSUME AllowedAssumption == Allowed \subseteq Tools

Answers == {"none", "ok", "refused", "failed"}

VARIABLES
  permits,   \* free permits of the semaphore
  active,    \* active_requests
  window,    \* per subject, the entries of its queue in the rate limiter
  expired,   \* per subject, those of them that are a window old
  cache,     \* discovery_cache: per key the tools listed, or {NoTool}
  pc,        \* where each request is
  who,       \* its identity
  prior,     \* active_requests before it was counted
  task,      \* the tool call: not made, queued, or how it ended
  effect,    \* whether the tool has changed anything
  answer,    \* the answer sent
  listed     \* the tools sent, for a tools/list

vars == <<permits, active, window, expired, cache, pc, who, prior, task, effect,
          answer, listed>>
rate == <<window, expired>>
mine == <<who, prior>>
tool == <<task, effect>>
reply == <<answer, listed>>

Holding == {"admitted", "body", "parsed", "missed", "calling", "counted",
            "waiting", "uncount", "closing"}
Counted == {"counted", "waiting", "uncount"}

HttpTypeOK ==
  /\ permits \in 0..MaxPermits
  /\ active \in 0..MaxPermits
  /\ window \in [Subjects -> 0..MaxPerWindow]
  /\ expired \in [Subjects -> 0..MaxPerWindow]
  /\ cache \in [Keys -> SUBSET (Tools \cup {NoTool})]
  /\ pc \in [Reqs -> {"done", "arrived"} \cup Holding]
  /\ who \in [Reqs -> Identities]
  /\ prior \in [Reqs -> 0..MaxPermits]
  /\ task \in [Reqs -> Answers \cup {"queued"}]
  /\ effect \in [Reqs -> BOOLEAN]
  /\ answer \in [Reqs -> Answers]
  /\ listed \in [Reqs -> SUBSET (Tools \cup {NoTool})]

HttpInit ==
  /\ permits = MaxPermits
  /\ active = 0
  /\ window = [s \in Subjects |-> 0]
  /\ expired = [s \in Subjects |-> 0]
  /\ cache = [k \in Keys |-> {NoTool}]
  /\ pc = [r \in Reqs |-> "done"]
  /\ \E id \in Identities : who = [r \in Reqs |-> id]
  /\ prior = [r \in Reqs |-> 0]
  /\ task = [r \in Reqs |-> "none"]
  /\ effect = [r \in Reqs |-> FALSE]
  /\ answer = [r \in Reqs |-> "none"]
  /\ listed = [r \in Reqs |-> {}]

Goto(r, from, to) == pc[r] = from /\ pc' = [pc EXCEPT ![r] = to]
Send(r, a) == answer' = [answer EXCEPT ![r] = a] /\ UNCHANGED listed
Discoverable(id) == Allowed \cap id.caps

------------------------------------------------------------------------------
(* Before the request is parsed *)

\* A new request in a slot whose last one is answered and has no tool running.
\* With a session header, or without a valid token, it gets no further.
Arrive(r) ==
  /\ pc[r] = "done"
  /\ task[r] # "queued"
  /\ \E id \in Identities : who' = [who EXCEPT ![r] = id]
  /\ task' = [task EXCEPT ![r] = "none"]
  /\ effect' = [effect EXCEPT ![r] = FALSE]
  /\ listed' = [listed EXCEPT ![r] = {}]
  /\ prior' = [prior EXCEPT ![r] = 0]
  /\ \/ pc' = [pc EXCEPT ![r] = "arrived"] /\ answer' = [answer EXCEPT ![r] = "none"]
     \/ /\ UNCHANGED pc
        /\ \E a \in {"failed", "refused"} : answer' = [answer EXCEPT ![r] = a]
  /\ UNCHANGED <<permits, active, rate, cache>>

\* try_acquire_owned
Acquire(r) ==
  /\ permits > 0
  /\ Goto(r, "arrived", "admitted")
  /\ permits' = permits - 1
  /\ UNCHANGED <<active, rate, cache, mine, tool, reply>>

NoPermit(r) ==
  /\ permits = 0
  /\ Goto(r, "arrived", "done")
  /\ Send(r, "refused")
  /\ UNCHANGED <<permits, active, rate, cache, mine, tool>>

\* FAULT: one request too many passes.
CheckRateAfter(r) ==
  LET s == who[r].subject
      n == window[s] - expired[s]
  IN /\ n <= MaxPerWindow
     /\ expired' = [expired EXCEPT ![s] = 0]
     /\ window' = [window EXCEPT ![s] = n + 1]
     /\ Goto(r, "admitted", "body")
     /\ UNCHANGED <<permits, active, cache, mine, tool, reply>>

\* check_rate_limit: entries a window old leave the queue first.
CheckRate(r) ==
  LET s == who[r].subject
      n == window[s] - expired[s]
  IN /\ expired' = [expired EXCEPT ![s] = 0]
     /\ \/ /\ n < MaxPerWindow
           /\ window' = [window EXCEPT ![s] = n + 1]
           /\ Goto(r, "admitted", "body")
           /\ UNCHANGED reply
        \/ /\ n >= MaxPerWindow
           /\ window' = [window EXCEPT ![s] = n]
           /\ Goto(r, "admitted", "closing")
           /\ Send(r, "refused")
     /\ UNCHANGED <<permits, active, cache, mine, tool>>

\* to_bytes and from_slice: the client sends its body when it likes.
ReadBody(r) ==
  /\ \/ Goto(r, "body", "parsed") /\ UNCHANGED reply
     \/ Goto(r, "body", "closing") /\ \E a \in {"failed", "refused"} : Send(r, a)
  /\ UNCHANGED <<permits, active, rate, cache, mine, tool>>

------------------------------------------------------------------------------
(* tools/list *)

ListCached(r) ==
  /\ cache[CacheKey(who[r])] # {NoTool}
  /\ Goto(r, "parsed", "closing")
  /\ answer' = [answer EXCEPT ![r] = "ok"]
  /\ listed' = [listed EXCEPT ![r] = cache[CacheKey(who[r])]]
  /\ UNCHANGED <<permits, active, rate, cache, mine, tool>>

ListMissed(r) ==
  /\ cache[CacheKey(who[r])] = {NoTool}
  /\ Goto(r, "parsed", "missed")
  /\ UNCHANGED <<permits, active, rate, cache, mine, tool, reply>>

NotAList(r) ==
  /\ Goto(r, "parsed", "calling")
  /\ UNCHANGED <<permits, active, rate, cache, mine, tool, reply>>

\* FAULT: the count is read after it has been raised.
EnterCounted(r) ==
  /\ active' = active + 1
  /\ prior' = [prior EXCEPT ![r] = active + 1]
  /\ UNCHANGED <<permits, rate, who, tool>>

\* fetch_add, and the guard whose drop takes it back.
Enter(r) ==
  /\ active' = active + 1
  /\ prior' = [prior EXCEPT ![r] = active]
  /\ UNCHANGED <<permits, rate, who, tool>>

List(r) ==
  /\ Enter(r)
  /\ Goto(r, "missed", "uncount")
  /\ cache' = [cache EXCEPT ![CacheKey(who[r])] = Discoverable(who[r])]
  /\ answer' = [answer EXCEPT ![r] = "ok"]
  /\ listed' = [listed EXCEPT ![r] = Discoverable(who[r])]

------------------------------------------------------------------------------
(* tools/call and every other method *)

Count(r) ==
  /\ Enter(r)
  /\ Goto(r, "calling", "counted")
  /\ UNCHANGED <<cache, reply>>

\* No name, arguments that are no object, an unknown method.
BadCall(r) ==
  /\ Goto(r, "counted", "uncount")
  /\ \E a \in {"failed", "refused"} : Send(r, a)
  /\ UNCHANGED <<permits, active, rate, cache, mine, tool>>

Dispatch(r) ==
  /\ Goto(r, "counted", "waiting")
  /\ task' = [task EXCEPT ![r] = "queued"]
  /\ UNCHANGED <<permits, active, rate, cache, mine, effect, reply>>

\* Dispatcher::call up to the handler: whether it lets a call of tool t pass.
Permits(r, t) ==
  t \in Allowed /\ prior[r] < MaxExecutions /\ t \in who[r].caps

Ends(r, a) == task' = [task EXCEPT ![r] = a]

\* No such tool, or the policy finds the request too large or too late: that
\* is 400 or 408.  Otherwise 403 or 429.
CallRefused(r) ==
  /\ task[r] = "queued"
  /\ \/ Ends(r, "failed")
     \/ \E t \in Tools : ~Permits(r, t) /\ Ends(r, "refused")
  /\ UNCHANGED <<permits, active, rate, cache, pc, mine, effect, reply>>

\* FAULT: the handler answers before it writes.
RunToolEarly(r) ==
  /\ task[r] = "queued"
  /\ \E t \in Tools : Permits(r, t)
  /\ \E a \in {"ok", "failed"} : Ends(r, a)
  /\ UNCHANGED <<permits, active, rate, cache, pc, mine, effect, reply>>

\* The handler.  It may fail before its effect, and after it too: a write
\* that cannot be read back is an error, which is answered 400; a panic is 502.
RunTool(r) ==
  /\ task[r] = "queued"
  /\ \E t \in Tools : Permits(r, t)
  /\ \/ /\ \E a \in {"ok", "failed"} : Ends(r, a)
        /\ effect' = [effect EXCEPT ![r] = TRUE]
     \/ /\ Ends(r, "failed")
        /\ UNCHANGED effect
  /\ UNCHANGED <<permits, active, rate, cache, pc, mine, reply>>

Deliver(r) ==
  /\ task[r] \notin {"none", "queued"}
  /\ Goto(r, "waiting", "uncount")
  /\ Send(r, task[r])
  /\ UNCHANGED <<permits, active, rate, cache, mine, tool>>

\* FAULT: a request that times out is answered like one over the limit.
TimeOutAsBusy(r) ==
  /\ task[r] = "queued"
  /\ Goto(r, "waiting", "uncount")
  /\ Send(r, "refused")
  /\ UNCHANGED <<permits, active, rate, cache, mine, tool>>

\* FAULT: there is no timeout.
TimeOutNever(r) == FALSE /\ UNCHANGED vars

\* The permit and the count are given up; the tool goes on.
TimeOut(r) ==
  /\ task[r] = "queued"
  /\ Goto(r, "waiting", "uncount")
  /\ Send(r, "failed")
  /\ UNCHANGED <<permits, active, rate, cache, mine, tool>>

\* The client hangs up, and the request is dropped where it waits.
HangUp(r) ==
  /\ \/ Goto(r, "body", "closing")
     \/ Goto(r, "waiting", "uncount")
  /\ Send(r, "failed")
  /\ UNCHANGED <<permits, active, rate, cache, mine, tool>>

------------------------------------------------------------------------------
(* The guards, dropped in reverse order, and the clock *)

Uncount(r) ==
  /\ Goto(r, "uncount", "closing")
  /\ active' = active - 1
  /\ UNCHANGED <<permits, rate, cache, mine, tool, reply>>

Release(r) ==
  /\ Goto(r, "closing", "done")
  /\ permits' = permits + 1
  /\ UNCHANGED <<active, rate, cache, mine, tool, reply>>

Expire(s) ==
  /\ expired[s] < window[s]
  /\ expired' = [expired EXCEPT ![s] = @ + 1]
  /\ UNCHANGED <<permits, active, window, cache, pc, mine, tool, reply>>

------------------------------------------------------------------------------
\* What the server does without waiting for anybody.
Serve(r) ==
  \/ Acquire(r) \/ NoPermit(r) \/ CheckRate(r) \/ ListCached(r) \/ ListMissed(r)
  \/ NotAList(r) \/ List(r) \/ Count(r) \/ BadCall(r) \/ Dispatch(r) \/ Deliver(r)
  \/ TimeOut(r) \/ Uncount(r) \/ Release(r)

HttpNext ==
  \/ \E r \in Reqs :
       \/ Arrive(r) \/ ReadBody(r) \/ Serve(r) \/ HangUp(r)
       \/ CallRefused(r) \/ RunTool(r)
  \/ \E s \in Subjects : Expire(s)

\* The runtime polls every request that can go on, and the timer fires.  No
\* fairness of tools, of clients that send a body, or of the window.
HttpSpec == HttpInit /\ [][HttpNext]_vars /\ \A r \in Reqs : WF_vars(Serve(r))

------------------------------------------------------------------------------
(* Correctness *)

\* If the policy's limit is not below the semaphore's, a call of an admitted
\* request is never refused with RateLimited by enforce_limits: the two limits
\* count the same requests, because the guard of active_requests is dropped
\* before the permit.  Nothing in the code relates the two limits.
AdmittedNotRefused ==
  MaxPermits <= MaxExecutions =>
    \A r \in Reqs : task[r] = "queued" => prior[r] < MaxExecutions

\* What an answer says of the tool's effect: a call answered 200 has had it,
\* and one answered 401, 403, 404, 413 or 429 has not and never will, whatever
\* timed out or was dropped in between.
AnswerTellsEffect ==
  \A r \in Reqs :
    /\ answer[r] = "ok" /\ task[r] # "none" => effect[r]
    /\ answer[r] = "refused" => ~effect[r] /\ task[r] # "queued"

\* A tools/list shows the tools that its sender may discover, or those that an
\* identity with the same key may: exactly its own if no other identity has its
\* key, whoever filled the cache, and never a tool that the policy denies.
DiscoveryFits ==
  \A r \in Reqs :
    answer[r] = "ok" /\ task[r] = "none" =>
      \E id \in Identities :
        id.key = who[r].key /\ listed[r] = Discoverable(id)

\* A request whose body is read ends and gives its permit back, however long
\* its tool runs.
ReadRequestsEnd ==
  \A r \in Reqs : pc[r] = "parsed" ~> pc[r] = "done"
=============================================================================
