# ruflo_rust: a TLA+ verification project

`ruflo` is a command-line tool that runs AI workers (`claude`, `codex`) for a
project.  Almost every invocation is a process of its own: `ruflo swarm`,
`ruflo daemon start`, `ruflo daemon trigger`, the hooks of an editor.  These
processes have no server in common; they meet in files.  What can go wrong in
ruflo is therefore what goes wrong between processes that share files: a read
made stale by another process's write, a lock left by a process that died, a
budget that two processes pass at once, a job claimed twice, a change that is
half done when the process ends.  That is what this project models, together with
the one server there is, the MCP transport over HTTP.  Paths below are under
`src/src/crates/`.

## 1. Inventory

| Component | State | Operations | Modelled by |
|---|---|---|---|
| Service state files (`ruflo-cli/src/services/mod.rs`) | `<name>.json`, `<name>.lock`, `<name>.json.tmp` | `LockGuard::acquire`, its `Drop`, `read_state`, `write_state`, `locked_write` | `StateLock`, `AtomicState` |
| Claim service (`services/claim_service.rs`) | one entry per issue in `claim-service.json` | claim, release, handoff, accept_handoff, mark_stealable, steal | `ClaimService` |
| Workspace leases (`services/lease.rs`) | `workspace-leases.json` | acquire, release | `WorkspaceLease` |
| Spend ledger (`ruflo-storage/src/appliance_state.rs`, `ruflo-cli/src/spend.rs`) | `appliance_spend`, pause flag, one SQLite file per user | check, reserve, release, pause, resume | `SpendLedger` |
| Appliance (`appliance_state.rs`, `daemon.rs` `supervisor_step`, `trigger`) | `appliance_jobs`, `appliance_agents` in `.swarm/memory.db` | enqueue_job, claim_job, finish_job, upsert_agent, the supervisor step | `ApplianceHost` |
| Headless executor (`services/headless.rs`) | the permit it holds, a record file | execute | `ApplianceHost` (the gate; not the record file) |
| Storage migration (`ruflo-storage/src/migration.rs`, `port.rs`) | project lock, marker, backup, staged copy, database | begin, backup, replace, validate, commit, rollback, Drop | `Migration`, `SafeMigration` |
| MCP over HTTP (`ruflo-mcp/src/http.rs`, with the dispatcher and the policy it calls) | permits, rate window, active count, discovery cache, blocking tasks | a request from its arrival to its last effect | `McpHttp` |
| Daemon lifecycle (`daemon.rs`) | `daemon-state.json`, registry of daemons, processes | start, serve loop, heartbeat, stop, stop --all, enable | `DaemonLife` |
| Hive mind (`hive_mind.rs`) | one JSON file: workers, proposals, votes | init, spawn, join, leave, propose, vote | `HiveMind` |
| Agents, tasks, sessions, swarm (`lifecycle.rs`) | rows of `.swarm/memory.db`, JSON records | spawn, stop, scale, assign, retry, cancel, save, restore, start, finish | `Lifecycle` |
| Dual scheduler (`ruflo-codex-cli/src/dual_scheduler.rs`) | worktrees, batches of threads, children | one `dual run` | `DualRun` |
| Swarm executor (`swarm_exec.rs`) | worktree, child, watchdog, readers | the gate; one worker from its permit to its result | `ApplianceHost`, `SwarmWorker` |
| Deployments (`deployment.rs`) | `deployments.json` | deploy, release, rollback, environments | `Deployment` |
| Claims policy (`claims.rs`) | `claims.json` over a built-in policy | grant, revoke, roles, policies, check | `ClaimsPolicy` |
| Memory (`memory_sqlite.rs`, `dispatch.rs`, `onnx_embeddings.rs`) | table, `memory.rvf`, its backend tag | store, delete, purge, rebuild-index, search | `SemanticMemory` |
| Announcements and spinner (`announcements.rs`, `spinner.rs`) | Claude Code's `settings.json` and backups of it | enable, disable, reset | `ClaudeSettings` |
| Everything else | see section 6 and `PROJECT.json` | | not modelled |

How they interact.  Service state files lie under the claim service and the
leases.  The supervisor step and `daemon trigger` work off the same job table;
each starts its AI child through the headless executor, which reserves a permit
of the spend ledger first; `run_swarm` reserves from the same ledger.  The two
SQLite databases are separate, and no transaction spans two statements.  The HTTP
transport hands a call to the dispatcher on a blocking thread.  The last nine rows
are command families that keep files of their own; `ProjectCommands` composes
their models.

What makes each correct, and what is hard about it, is listed line by line under
`hazards` in `PROJECT.json`.  In one sentence each:

- *State files*: an update that was reported stored stays stored, whoever crashes
  holding the lock.  Hard: the takeover of a leftover lock goes by path and age,
  every writer uses one temporary file name, and a file that cannot be read counts as empty.
- *Claims*: nobody believes in a claim that somebody else has.  Hard: entries
  outlive releases, and most operations look at one of status and claimant only.
- *Leases*: no two holders at a time.  Hard: expiry, a `release` that locks nothing, and an
  `acquire` that does not look whether its write succeeded.
- *Ledger*: bounded launches.  Hard: the check and the insertion are separate statements.
- *Appliance*: a job runs once, and every job is taken.  Hard: `claim_job` is a
  SELECT and an unconditional UPDATE, errors of the later statements are ignored,
  `daemon stop` kills the process in the middle of anything, and other commands write the slots.
- *Migration*: the database is wholly old or wholly new.  Hard: death between any two
  system calls, removals that fail unnoticed, and a rollback that works on a clone which removes the
  lock early.
- *HTTP*: an answer tells what was done.  Hard: the timeout drops permit and count while
  the tool runs on.
- *Daemon*: a stop sticks.  Hard: loop and commands write back whole files read steps earlier.
- *Hive*: a vote that completes the votes decides.  Hard: the membership changes between votes.
- *Lifecycle*: what is stopped stays stopped, but for the ways the code has to undo it.  Hard: old
  JSON records are copied over rows, and a run under way ends with a status of its own.
- *Dual run, swarm worker*: the result tells the truth and nothing is left running.  Hard: any
  step of git, of a thread or of a child may fail; watchdog and poll race for the child.
- *Deployments*: a rollback leads somewhere and comes to rest.  Hard: marks on a mixed history.
- *Claims policy*: check answers what the commands did.  Hard: the two read the file differently.
- *Memory*: an answer is of the entry it names.  Hard: three files and no transaction.
- *Settings*: the user's text is kept.  Hard: the user edits at any moment, and steps fail.

## 2. The modules

`FAULT:` in a comment marks a definition that describes a bug the code does not
have; it stands before the definition it would replace, and shows that a
property notices it (`mutants` in `PROJECT.json`).  No specification uses one.

**`StateLock`** is `locked_write` at the level of system calls.  A process is
`idle`, contending (`trying`, `removing`) or in its critical section (`locked`,
`editing`, `writing`, `renaming`, `stored`, `failed`).  `Create` is the O_EXCL open;
`SeeStale` reads the age of the lock file and `RemoveStale` removes the path,
two steps as in the code; `TruncateTmp` and `FillTmp` are the two halves of
`fs::write`; `Drop` is the guard's destructor, which removes the path whoever
created the file.  `Crash` may come at every step, and each system call may fail, the removals
whose outcome the code ignores included.  A file's content is the set of
changes in it, or `Torn`.  `read_state` turns a torn file, and any file that it cannot read, into
an empty state (mod.rs:57), on which the caller then builds: such a caller is `blind`.  Time is a
lock age and one timer per call, both saturating, so `TypeOK` needs no bound on a
clock.  The stub for other systems than Unix, which locks nothing, is left out.
**`AtomicState`** is what the callers are promised: an update is applied in one step,
is acknowledged only when it is stored, and is lost only to a caller that could not read the
file and began it anew.

**`ClaimService`** has one action per operation: each is one locked read-modify-write,
which `StateLock` shows to be atomic under its assumptions.  A read that fails is a file without
entries: `claim` then succeeds and drops everybody else's.  `told`, `ousted` and `asked` are
history: the issues of which an agent was told that they are its own (by `claim`,
`accept_handoff` or `steal`), those that a claim has taken from it since, and the last handoff a
claimant asked for.  `claim` refuses `active` and `handoff_pending` only, so a thief, whose
entry says `stolen`, can be ousted: `ExclusiveClaims` says that nobody else is.

**`WorkspaceLease`** splits acquire and release at the read and the write of
the file; what is written is the whole file as it was read.  A lease is the number of
ticks it has left.  `acquire` may fail to read (it then grants the workspace over an empty file) and
to write (it returns the lease all the same); `unbacked` is the history of the leases that such a failure
concerned, and the properties except these and no others.

**`SpendLedger`** has one action per SQL statement: the counts of `check`
(`CountActive`, `CountHour`, `CountDay`), the INSERT, the UPDATE of release.  Rows are aged
relative to now.  A released row that no window counts any more is forgotten, so
that finitely many ids are enough; the code keeps it, and no query reads it.  `CountActive` reads the
pause as well, which the code does in a SELECT before it; a pause in between lets one launch
pass, and no count.

**`ServiceCommands`** is the disjoint composition of the three: a behaviour takes the steps of one of
them.  They keep files of their own, and what one holds decides nothing in another.

**`ApplianceHost`** EXTENDS `SpendLedger` and adds the job table, the resident slots and the
processes: the serve loop (`Daemon`, one slot for it and its successors), `daemon trigger`
(`Triggers`) and `run_swarm` (`Swarms`).  `Register`, `SelectJob`, `MarkRunning`, `Occupy`, the
gate, `Finish` and `Vacate` are the statements of `supervisor_step` in order.  `StatementFails` is a
failing statement: where the code returns the error the step ends, where it ignores it the step goes
on. `Crash` is any death, the SIGTERM of `daemon stop` included; the serve loop may also end between
two steps, and nothing starts it again but a user (`ServeStarts`, `ServeEnds`).  A permit lets a job
*through* to its child: whether the executable is there and starts is not told by the job
(headless.rs:40-48, 143-151), so `launches` counts permits.  The child may run for ever: its pipes
are read without a bound (headless.rs:98, 125).  The slots are also written by `agent stop`, by
`session restore` and by each lookup that copies JSON records over the rows (`SaveSession` and
after); `copied` is the history of that.  The rows of `appliance_kv`, result texts, and lists for
display decide nothing and are left out.

**`Migration`** follows a session of `port.rs` and `migration.rs` system call by system call:
`Begin`, `SeeStale` and the removal for the project lock (`.ruflo-storage.lock`, anonymous, taken
over by age), then copy, marker, plan, staged database, rename, validation, removal of the marker,
`Drop`.  A step may fail (`Fails*`), which leads into the rollback of `migration.rs:242` with the
clone and its early removal of the lock (`closing`), and `Crash` comes anywhere; the marker may be
cut off in its writing (`Torn`), and the removals of lock and marker may fail unnoticed
(port.rs:106, migration.rs:180, 208, 267), of which the first makes `acquire_project_lock` call
itself again.  The database is the set of changes in it; a session is known by its change.
**`SafeMigration`** is what the caller is promised: a change is applied in one step, may be undone
until it is acknowledged, and is there for good after.

**`McpHttp`** has one action per await point or shared access of `handle`: permit,
rate window, body, cache, count, dispatch to a blocking task, its answer, timeout, hang-up,
and the guards in the order they are dropped.  A tool is `queued` and then ends; `effect` says
whether it did what it was called for.  `Permits` is the policy's verdict with the count as it was read.
An identity carries the string that `discovery_cache_key` makes of it (http.rs:554-562): subject and
capabilities joined by separators that a name may contain, so that two identities may have one key.

**`ProjectCommands`** is the disjoint composition of nine modules: a behaviour takes the steps of
one part.  What two of them share decides nothing in either, so interleaving the parts would
multiply the states and show nothing.  What can happen *beside* a command of one part is
interleaved inside the part.

- **`DaemonLife`**: `start`, the serve loop with its heartbeat (`loop`, `beat`), `stop`, `stop
  --all`, `enable`, each split between its read and its write of `daemon-state.json`, and the
  registry entry that is created before it is filled.  `orderly` and `halted` are history.
- **`HiveMind`**: each caller reads the file, and writes all of it back later; `spawn` has an AI
  child in between.
- **`Lifecycle`**: rows and JSON records of agents (`Listed` is the row after the lookup that every
  command begins with, which copies records over rows), tasks with retries, sessions, and a swarm
  whose run lies between `start_swarm` and `finish_swarm`.
- **`DualRun`**: worktrees one by one, the record of the run, batches of threads, each with a child
  and its timeout, a wait on it that fails and leaves it running, and every way out of the run.
- **`SwarmWorker`**: worktree, child, watchdog thread, poll loop, readers, permit.  git refuses a worktree
  for what is there or for reasons of its own, and each removal may fail; `muddled` is the history of
  what left something behind.
- **`Deployment`**: records with their marks; `rollback` takes the last deployed record but one,
  whatever `--steps` it is given (a record keeps that number as history).
- **`ClaimsPolicy`**: `Merged` is how check reads the file, `Loaded` how the others do.
- **`SemanticMemory`**: a rebuild step by step (vectors, tag, bindings, list, embed, ingest, tag, bind), each
  of which may fail or be the last, beside `store`, `delete` and `purge`; `Compared` is the search.
  The removals of vectors and tag fail independently; `bare` is the history of a tag removed
  from bound vectors that stayed.
- **`ClaudeSettings`**: read, backup, replacement; the user edits in between, and what they
  wrote may not parse.

`MC*` are the instances for TLC; `*Proofs` hold the theorems.

## 3. The runs

Sizes are distinct states.  `CHECK_DEADLOCK FALSE` stands in the runs in which the system may
stop: every process idle and every bounded resource used up, or a run that has ended.

| Run | Question | Bounds | Result |
|---|---|---|---|
| `StateLockTimely` | Is a state file atomic, and does every call return? | 3 processes, 3 changes, StaleAge 4, WaitLimit 1, HoldLimit 2 | passes, 350,538 |
| `StateLockRace` | ... atomic, when two callers meet the leftover lock of a crash? | 3 processes, StaleAge 3, HoldLimit 1 | `NoLostUpdate` violated |
| `ServiceCommands` | Who is alone with an issue or a workspace, and by how much can racing processes pass the limits? | 3 agents, holders, processes (symmetric), 2 issues, 2 workspaces, TTL 2, limits 1/2/3, windows 1 and 2 ticks, 8 ids | passes, 666,007 |
| `LeaseRace` | Are leases exclusive when calls overlap with a release? | 2 holders, 2 workspaces, TTL 2 | `NoSplitBrain` violated |
| `ApplianceHost` | What do overlapping supervisors and one fault do to a job, and is every queued job taken? | serve loop and 1 trigger, 2 jobs, 1 type, limits 1, 1 fault, 3 ids | passes, 226,598 |
| `ApplianceSolo` | Is a job let through once if supervisors do not overlap, and what does a busy slot mean? | the same, and 1 swarm, 1 session, 4 ids | passes, 2,273,978 |
| `Migration` | Is a migration all or nothing, and does the lock let go? | 2 processes, StaleAge 1 | passes, 48,770 |
| `MigrationClosing` | ... one session at a time, without `Closed`? | the same | `OneSession` violated |
| `McpHttp` | Do answers tell effects, and do requests end? | 2 requests, 3 identities of which two share a key, 3 tools, 1 permit, 1 execution, 2 per window | passes, 183,425 |
| `ProjectCommands` | Do the nine command families keep what they say? | see below | passes, 713,059 |
| `DaemonStop` | Does a running loop see a stop? | 1 operator, 2 pids | `PollersSeeStop` violated |
| `MemoryMixed` | Is a query compared with vectors of its own embedding only? | 1 key, 1 vector | `SearchesOneEmbedding` violated |

Why the bounds are enough.  Three processes give the lock an owner, a remover and a latecomer, which
is what every interleaving in its invariant is about; three changes let each process have one.
StaleAge 4 is the least the timing assumption `HoldLimit + WaitLimit + 1 <= StaleAge` admits with a
holder that takes two ticks. `CallReturns` needs a caller and others that overtake it, which
the other processes do again and again. Three agents are claimant, target and bystander.  A TTL of
two ticks has a boundary and a tick before it.  Limits of one, two and three make each of the three
counts the one that refuses.  The ids are as many as the rows that can count (`NextPermit` needs a
free one; the guard of `Insert` says so). Two jobs are one claimed and one waiting; both name one
type, since a type only says which slot a job is shown in (with two, `ApplianceHost` passes over
1,967,740 states).  One fault
(`MaxFaults`) at every possible place shows what a fault leaves behind; properties that count faults
(`LeaksOnlyByFault`) relate the leaks to their number.  One session (`MaxSessions`) is saved at
every place of a step and restored at every later one; `ApplianceHost` has none.  Two migrations are one that works and one that finds what it left; with three processes the
safety properties hold over 5,964,193 states.  Two requests against one permit are one admitted and
one refused; the theorems cover all limits.

`ProjectCommands`: the daemon has 1 operator and 2 pids (two operators: 7,357,142 states, passes),
which is a daemon and its successor; the hive 2 callers, 2 workers, capacity 2 (capacities 0 to 2:
3,328,065, passes); the lifecycle 2 agents, one of them resident, 1 task, 1 session, 1 retry (3
agents: 527,424, passes); the dual run 4 workers, one of them read-only, at most 2 writers, hence
two batches; 2 swarm runs; deployments of 2 versions to 2 environments with a history of 5
(`MaxHistory`) and `--steps` 1 or 2 (`MaxSteps`), two rollbacks on two deployments with one to
spare; the policy 2 users, 2 roles, 2 patterns; the memory 2 keys, 3 embeddings, 2 vectors in a file
(`MaxVectors`; 3 vectors alone: 496,052, passes), a leftover one and a new one; the settings 2 edits
(`MaxEdits`) and 2 backups (`MaxBackups`; 3 alone: 307,075, passes).

**Findings** (the violated runs):

1. `StateLockRace`: two callers both find the lock of a dead process stale; one removes
   it and creates its own, the other then removes *that* by its path, and both are in the
   section.  With one shared temporary name an update whose caller was told `true`
   disappears (mod.rs:133), against the comment at mod.rs:173-175.
2. `LeaseRace`: `release` takes no lock; its write drops a lease granted meanwhile
   (lease.rs:27), against the comment at lease.rs:7-8.
3. `DaemonStop`: the heartbeat reads `daemon-state.json` and writes it back with `running=true`; a
   `running=false` that `daemon stop` writes in between is gone (daemon.rs:576), against the comment at
   daemon.rs:702.  The supervisor was not there yet when `stop` read the file, else it would end by
   the signal.
4. `MigrationClosing`: a rollback in commit() removes the lock through its clone, and the drop of
   the session removes the path once more (migration.rs:242): by then it can be the lock of another
   session, beside which a third one begins, against the test at
   `src/tests/persistence_migration.rs:45-46`.
5. `MemoryMixed`: a text on which the ONNX model fails is embedded by its hash, in an index tagged `onnx`
   (dispatch.rs:2038), against the comment at memory_sqlite.rs:293.

**Seen while modelling, without a run of its own:**

- *Ledger*: racing processes pass the concurrent limit (appliance_state.rs:332); `BoundedOvershoot` says by
  how much.
- *Claim service*: `stealable()` indexes an array by the name `claims`, gets null and lists nothing
  (claim_service.rs:199).  `claim` grants a stolen issue while the thief, to whom `steal` answered Ok,
  has not released it (claim_service.rs:43), against the comment at claim_service.rs:213-214;
  `ExclusiveClaims` excepts it.
- *Leases*: `acquire` returns a lease that it failed to write (lease.rs:22), and the next caller is
  granted the workspace too, against the comment at lease.rs:7-8; `NoSplitBrain` and `GrantsBacked` except
  what such a failure concerned.
- *State files*: a file that cannot be read counts as empty, and is then overwritten and
  acknowledged (mod.rs:57): `NoLostUpdate` and `AtomicState` name this as the only loss; the same
  failure grants a claim or a lease that somebody has (`ExclusiveClaims`, `GrantsBacked`).
- *Appliance*: overlapping supervisors do launch a job twice: `LaunchedOnce` holds in `ApplianceSolo` only,
  what holds without the assumption is `LaunchedOncePerSupervisor`.  A job whose child was not found or did not
  start is `done` (daemon.rs:639).  A session saved while a resident works and restored later shows it
  busy with nothing (`BusyMeansWork` says that only a fault or such a copy does).
- *Migration*: a leftover lock that cannot be removed makes `begin_migration` call itself without
  end (port.rs:106-107); `LockLetsGo` excepts it.  The lock of a session that takes longer than 30 s
  counts as that of a crashed process, and a second session begins beside it (port.rs:105), against the
  comment at port.rs:98 and ADR 0004: `Prompt` leaves it out.
- *HTTP*: identities that share a key share the entry of the discovery cache (http.rs:554-562);
  `DiscoveryFits` says that no others do.  Nothing relates `max_concurrent_executions` to the
  permits of the server; the premise of `AdmittedNotRefused` does.
- *Lifecycle*: `agent stop` writes the row only, and the next lookup copies the JSON record over it
  (lifecycle.rs:643), against ADR 0012 (line 28).  The end of a run writes `completed` or `failed` over
  `stopped` (lifecycle.rs:399), after which the swarm can be started, against the message of
  `start_swarm` (lifecycle.rs:382).  `StoppedStays` excepts the two, and nothing besides them, a restored
  session and a new `init`.
- *Dual run*: the worktree that git failed to add is not cleaned up after, and its branch may be there
  (dual_scheduler.rs:406), against the comment at dual_scheduler.rs:439-440; `branch` in `DualRun` follows it.
- *Deployments*: `rollback --steps n` goes back one record whatever n is (deployment.rs:147),
  against the help at deployment.rs:798; `RollbackSettles` speaks of the default, one step.
- *Claims policy*: a grant, or the creation of a role, on a file without roles takes the built-in roles
  from check; and the comment at claims.rs:220 speaks of a permissive fallback where the code denies.
- *Issues, policy*: `with_issues_lock` has no caller (issues.rs:128); a change of policy.rs is an unlocked
  read-modify-write that can drop a rule.
- *Memory*: `AnswersAreOfTheEntry` excepts what `MemoryMixed` shows (`MadeBy`), and (`bare`) a reset
  that cannot remove the vectors and removes their tag all the same (memory_sqlite.rs:376), so that
  any query is let through, against the comment at memory_sqlite.rs:247-249.  An
  upsert keeps the binding to the vector of the old content; what is stored after a rebuild has no
  vector until the next; two rebuilds at once with different embeddings mix their vectors; a search
  reads tag and vectors at different moments.
- *Settings*: a file that cannot be read (not UTF-8, no permission) counts as absent: it is replaced without
  a backup, against announcements.rs:5.  One that does not parse is replaced by the command's own
  entries, with a backup.  `reset` twice puts the entries back that the first one took away, and
  the `reset` of one command restores a backup of the other; neither touches the other's consent.
- *Funnel*: `consent.json` is an unlocked read-modify-write with one temporary name, so a grant can
  undo a revocation of another domain; `record_consent` ignores a failed write and proxy-config.toml
  is set all the same; `mark_notifier` (funnel.rs:606) keeps an old `since`, so that a flag set
  again after six hours expires at once; settings.rs:127 says no id is kept when notices are off,
  while `get_funnel_id` looks at the telemetry consent alone.
- *Update*: a rollback takes a failed update for the last one.

## 4. Assumptions

The code keeps its promises under assumptions it does not itself enforce.  They are named
definitions; `StateLockRace`, `LeaseRace` and `MigrationClosing` show what happens without three of them.

- `Prompt` (`StateLock`): no process is suspended: past its deadline a caller has given
  up, past `HoldLimit` a holder has finished, before the clock moves on.  In ticks of
  the code: a section of milliseconds against a stale age of ten seconds.
- `SoloRecovery` (`StateLock`): a leftover lock is met by one caller at a time.
- `SerialSpec` (`WorkspaceLease`): no call runs between the read and the write of a `release`
  (`NoneReleasing`, `AllIdle`).
- `Solo` (`ApplianceHost`): no trigger while another supervisor is in its step.
- `Prompt`, `Solo`, `Closed` (`Migration`, in `TimelyNext`): a session ends within the 30 s of the lock; one
  process at a time takes a leftover lock; nobody begins between the two removals of a rollback.
  `MigrationClosing` drops the last.
- `MaxPermits <= MaxExecutions` (a premise of `AdmittedNotRefused`).
- `orderly` (`DaemonLife`, in `StopSticks`): commands one at a time, no second supervisor beside a running one.
- The parts of `ProjectCommands` whose header says so take commands one by one, and take a write by
  temporary file and rename as atomic; a rebuild of the memory runs alone.
- Clocks of all processes agree, and file system operations are atomic where POSIX says so.

**Fairness.**  `FairTimelySpec` assumes that the operating system runs every process
(`WF_vars(Progress(p))`), that the clock advances, and that a caller which again and again gets to
remove a leftover lock succeeds at last (`SF_vars(RemoveStale(p))`); nothing is assumed of failing
calls, crashes and new calls.  `HostSpec` assumes that each supervisor goes on with its step and
takes its next one (`Work(p) \/ Register(p)`) *while it is there*: nothing is assumed of a serve
loop that ended, nor that a child ends, so `QueuedIsTaken` excepts the moments without a serve loop
and a loop that waits for ever.  Nothing is assumed of swarms, of the budget being resumed, or of
permits being free: it holds all the same, because a refused job is failed, not kept. `MigFairness`
assumes that a session in its work goes on (a failing removal is no progress), that time passes, and
that somebody asks for the lock again and again; then a leftover lock is taken over (`LockLetsGo`),
unless crashes or failing takeovers never cease.  `HttpSpec` assumes that the runtime polls each
request that can go on, its timer included (`Serve`); nothing of the tool, which may never end, nor
of a client that never sends its body: `ReadRequestsEnd` is about requests whose body has been read.
`ProjectSpec` states no fairness and no liveness.

## 5. What is proved

TLAPS checks the following for every value of the constants that satisfies the ASSUMEs of
the modules.

- `StateLockProofs`: `TypeOK`, `MutualExclusion`, `NoLostUpdate` and the refinement
  `ImplementsAtomicState` of `TimelySpec`.  `MutualExclusion` alone is not inductive: a
  second owner can only come from a removal of a live lock, so `IInv` says why there is none.
  The file belongs to the process in the section and is no older than that process's timer, hence
  never stale (`OwnerInv`); a remover meets the leftover lock alone, because two callers
  that met it came too early to find it stale (`TakeoverInv`); what the owner is about to write is the
  stored state plus its change, or its change alone when its read failed (`DataInv`).
- `WorkspaceLeaseProofs`: `LeaseTypeOK`, `NoSplitBrain`, `GrantsBacked`, `HolderGivesUp` of `SerialSpec`,
  in which reads and writes fail.  The invariant `LeaseInv` adds that one call is between read and
  write and that its image is fresh except in its own workspace.  The clock moves in between, so
  freshness must survive the aging of file and image together.
- `SpendLedgerProofs`: `SpendTypeOK`, `PermitHeld` and `BoundedOvershoot` of `SpendSpec`, for any
  number of processes and any limits.  The counting argument: a counted row and a process
  that has passed the count never together reach limit + processes, because whoever passes
  saw a count below the limit.
- `ClaimServiceProofs`: `IssueTypeOK`, `ExclusiveClaims`, `PendingByClaimant`, `PendingGoesToTarget`.
  The invariant adds who may be `told` and not `ousted`: the claimant of an active or a stolen entry.
- `ApplianceHostProofs`: permits are held and the overshoot is bounded in the whole system
  (`HostGate`), since what it does to the ledger are steps of `SpendLedger`, with overlapping
  supervisors and any faults; `HostTypeOK` holds too.  Then `LaunchedOnce`, `StatusTellsLaunch` and
  `FinishedForGood` of `SoloSpec`.  `SoloInv` says that one supervisor is in its step (`Alone`),
  that the gate of each process fits its place (`GateMatches`), that what a supervisor read of its
  job still holds (`SelectedInv`), and what a status says of the launches (`JobsInv`).  And, of
  `HostSpec`, where supervisors overlap, `LaunchedOncePerSupervisor`, `LeaksOnlyByFault` and
  `BusyMeansWork`, from `OverlapInv`.  Its parts count.  `LaunchesInv`: the launches of a job and
  the supervisors that may still launch it are together no more than there are supervisors; a
  supervisor joins them only while the job is queued, when nobody has launched it, and leaves them
  when it launches.  `LostInv`: the running jobs that nobody is busy with are no more than the
  faults.  Busy ends where a supervisor writes the end of its job, not where it leaves its step: a
  job can be marked running again by a second supervisor that dies, while the first one, which has
  finished it, has not left yet, and what is then lost shows only later.  `SlotsInv` says who is
  busy in a slot, or whose row was copied.
- `MigrationProofs`: `MigTypeOK`, `MarkerTruth` and the refinement `ImplementsSafeMigration` of
  `TimelySpec`.  The invariant `MigInv` ties the young lock to the session at work (`LockInv`), says how
  database, copy and staged file stand to each other at each of its places (`CopyInv`), that the
  marker names this session's copy from the backup to its end (`MarkerInv`), and that what is
  acknowledged is in the database (`AckedInv`).
  That one session is at work is part of it, under the three assumptions; `MigrationClosing` shows what
  happens without one of them.
- `McpHttpProofs`: `HttpTypeOK`, `AdmittedNotRefused`, `AnswerTellsEffect`, `DiscoveryFits` of
  `HttpSpec`, for any number of requests, any limits, and any way in which identities share keys
  (`DiscoveryIsByKey`).  `BooksInv` counts: permits and their holders make the limit, the active
  count is the number of those counted; `PriorInv` follows, since a counted request holds a permit
  that it did not count.
- `ProjectProofs`: the types of all nine parts of `ProjectSpec` (`ProjectTypeOK`) and every property
  of them, each from an invariant of its own part, which the steps of the other parts leave alone
  (`PartSteps`).  `UserTextKept`: a command past its backup has a backup of what it read
  (`ReadIsBackedUp`).  `OutcomeTrue`: only a watchdog past the deadline takes the handle from the
  poll (`HandleInv`), and as long as no run has died or met another and no failure has left
  anything, the worktree is that of the one isolated run under way (`TreeInv`).
  `AnswersAreOfTheEntry`: the tag is true of all bindings (`TagInv`) unless it was removed from
  under them, since from its list on a rebuild finds only bindings that it has made (`RebuildInv`),
  whatever it failed to remove. `CheckFollows` follows from the types: a change that only adds takes
  nothing away unless it gives the file its first roles (`WiderLosesBuiltIn`).  `StoppedStays`
  (theorem `StopUndoneOnlyBy`): after the lookup that every command begins with, an agent is as its
  record says, and the command brings back only agents of which nothing is listed (`RowSteps`).
  `StopSticks`: a process not started is known to nobody (`PidsKnown`); as long as commands run one
  at a time, one supervisor acts, and the state file is its record or it has not written yet
  (`ActsAlone`), it is in the registry once it has registered (`RecordFull`), and the command under
  way knows it: a stop is about to kill just this one, a walk has it on its list, an `enable` writes
  back its record (`CommandKnows`). `FullVoteDecides`: what a caller has read of the hive has no
  more workers than it allows (`Fits`), so what it writes back has not either; a vote that makes as
  many votes as members reaches one of the two thresholds (`ResolveDecides`). `RunTellsTruth`: the
  next batch starts at a multiple of the batch size, all workers before it have ended well and none
  after that batch has started (`DualPlaces`, `InOrder`); a worker whose wait failed has not ended
  well; `EarlierBatches` is the arithmetic of the batch numbers. `RollbackSettles` is inductive with
  the types; `MaxOfPositions`, from the well-foundedness of `<`, says that the newest record exists,
  and `AppendedPositions` what a rollback does to the positions of the deployed records.

Every invariant, action property and refinement that a passing run checks is proved for all values
of the constants that satisfy the ASSUMEs (`MigrationProofs` has `OneSession` as a part of
`MigInv`).  Only model-checked: `CallReturns`, `QueuedIsTaken`, `LockLetsGo`, `ReadRequestsEnd`
(liveness under fairness is out of the prover's reach).  The theorems about claims, leases and ledger are
stated for `IssueSpec`, `SerialSpec` and `SpendSpec`, of which `ServiceCommands` takes the steps.  The
type invariants of `StateLock` and `Migration` are proved and in no run.

## 6. Not modelled

The implementation has some 45,000 lines, of which the map names a tenth.  The greater part of the rest
parses arguments, formats output and computes: `command/parse.rs`, `dispatch.rs`, `completions.rs`, the
analyses (`analyze.rs`, `security.rs`, `ast.rs`, `graph_algo.rs`), learning and routing (`neural.rs`, `sona.rs`,
`embeddings.rs`, `pheromone.rs`), tool catalogues (`tools_extra.rs`).  It has no state that a second step
could find changed, and a model of it would be a copy.  The other omissions, with their reasons:

- *Without a caller in the program* (tests apart): `git_workspace.rs`, `bounded_pool.rs`, `worker_queue.rs` and
  the worker daemons, `global_budget.rs`, the action executor of `ruflo-actions`, the facade of
  `ruflo-memory`, `promote`, `append_receipt` and `commit_atomic` of the flywheel (whose lock is local to a
  process: two processes would fork the receipt chain).
- *One read and one write of a file that decides nothing elsewhere*: `issues.rs`, `policy.rs`,
  `funnel.rs`, `proxy.rs`, `settings.rs`, `autopilot.rs`, `update_cmd.rs`, `config_file.rs`,
  `cleanup.rs`, `eject.rs`, `appliance.rs` (RVFA files), the record file of `headless.rs`, the JSON
  budget ledger of the daemon.  What concurrency does to such a file is shown once, by `LeaseRace`.
- *Registries of one process behind a mutex*: `ruflo-runtime`; each operation is one locked step.
- *Entry points and data types*: `ruflo-types`, `ruflo-core`, `ruflo-napi`, the root harness; the loop over
  stdin of the MCP server handles one request at a time.
- *Parts of modelled components*: named in the header of each module and in the notes of `PROJECT.json`.
