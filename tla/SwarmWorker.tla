----------------------------- MODULE SwarmWorker -----------------------------
(***************************************************************************)
(* The worker of a swarm run (crates/ruflo-cli/src/swarm_exec.rs), from    *)
(* the permit to its release: the worktree it may ask for, the child, the  *)
(* watchdog thread that kills the child at its deadline, the thread that   *)
(* polls for its exit, and the two that drain its output.  run_swarm       *)
(* starts one worker whatever was asked for.                               *)
(*                                                                         *)
(* All isolated workers of a workspace use the directory worker-0.  The    *)
(* ledger keeps runs apart unless two of them race through its check, and  *)
(* a run that dies leaves what it has made.  git is external: it refuses   *)
(* to add a worktree that it knows, or over a directory that holds         *)
(* something, and it may fail for reasons of its own (no repository, a     *)
(* full disk, a lock).  Removals may fail too, and nobody looks.           *)
(***************************************************************************)
CONSTANTS Runs  \* slots for swarm runs; a slot is used again

VARIABLES
  pc,       \* where the run is
  alone,    \* isolate_worktree
  child,    \* the process: none, running, or how it ended
  held,     \* child_shared holds the handle
  dog,      \* the watchdog
  late,     \* the deadline has passed
  done,     \* the flag for the watchdog
  status,   \* exit_status: what the poll saw, or gone for timed_out
  heir,     \* a descendant of the child keeps its pipes open
  outcome,  \* the result of the run
  dir,      \* the directory worker-0 holds something
  known,    \* git knows the worktree
  muddled   \* history: a run died, two isolated ones overlapped, or what
            \* should have removed the worktree, or added it, left something

swarmVars ==
  <<pc, alone, child, held, dog, late, done, status, heir, outcome, dir, known, muddled>>
treeVars  == <<dir, known, muddled>>
childVars == <<child, held, late, heir>>

InTree  == {"clear", "add", "spawn", "poll", "join", "reap", "remove"}
Exited  == {"ok", "bad"}
Outcomes == Exited \cup {"none", "timeout", "unstarted", "notree", "nogit", "died"}

SwarmTypeOK ==
  /\ pc \in [Runs -> InTree \cup {"over"}]
  /\ alone \in [Runs -> BOOLEAN]
  /\ child \in [Runs -> Exited \cup {"none", "running", "killed"}]
  /\ held \in [Runs -> BOOLEAN]
  /\ dog \in [Runs -> {"none", "waiting", "firing", "over"}]
  /\ late \in [Runs -> BOOLEAN]
  /\ done \in [Runs -> BOOLEAN]
  /\ status \in [Runs -> Exited \cup {"none", "gone"}]
  /\ heir \in [Runs -> BOOLEAN]
  /\ outcome \in [Runs -> Outcomes]
  /\ dir \in BOOLEAN /\ known \in BOOLEAN /\ muddled \in BOOLEAN

SwarmInit ==
  /\ pc = [r \in Runs |-> "over"]
  /\ alone = [r \in Runs |-> FALSE]
  /\ child = [r \in Runs |-> "none"]
  /\ held = [r \in Runs |-> FALSE]
  /\ dog = [r \in Runs |-> "none"]
  /\ late = [r \in Runs |-> FALSE]
  /\ done = [r \in Runs |-> FALSE]
  /\ status = [r \in Runs |-> "none"]
  /\ heir = [r \in Runs |-> FALSE]
  /\ outcome = [r \in Runs |-> "none"]
  /\ dir = FALSE /\ known = FALSE /\ muddled = FALSE

Jump(r, from, to) == pc[r] = from /\ pc' = [pc EXCEPT ![r] = to]
Outcome(r, o)     == outcome' = [outcome EXCEPT ![r] = o]

Fresh(r) ==
  /\ child' = [child EXCEPT ![r] = "none"]
  /\ held' = [held EXCEPT ![r] = FALSE]
  /\ dog' = [dog EXCEPT ![r] = "none"]
  /\ late' = [late EXCEPT ![r] = FALSE]
  /\ done' = [done EXCEPT ![r] = FALSE]
  /\ status' = [status EXCEPT ![r] = "none"]
  /\ heir' = [heir EXCEPT ![r] = FALSE]

\* A new run, in the slot of one that is over.
BeginRun(r) ==
  /\ pc[r] = "over"
  /\ \E isolate \in BOOLEAN :
       /\ alone' = [alone EXCEPT ![r] = isolate]
       /\ pc' = [pc EXCEPT ![r] = IF isolate THEN "clear" ELSE "spawn"]
       /\ muddled' = (muddled \/ (isolate /\ \E q \in Runs : pc[q] \in InTree /\ alone[q]))
  /\ Fresh(r)
  /\ Outcome(r, "none")
  /\ UNCHANGED <<dir, known>>

------------------------------------------------------------------------------
(* The worktree *)

\* A directory left over is removed behind git's back, or stays unnoticed.
ClearDir(r) ==
  /\ Jump(r, "clear", "add")
  /\ \/ dir' = FALSE /\ UNCHANGED muddled
     \/ dir /\ muddled' = TRUE /\ UNCHANGED dir
  /\ UNCHANGED <<alone, childVars, dog, done, status, outcome, known>>

\* git adds the worktree, refuses it because it is there ("notree"), or fails
\* ("nogit": the same answer in the code), and may leave half of it then.
AddTree(r) ==
  /\ \/ /\ ~dir /\ ~known
        /\ Jump(r, "add", "spawn")
        /\ dir' = TRUE /\ known' = TRUE
        /\ UNCHANGED <<outcome, muddled>>
     \/ /\ dir \/ known
        /\ Jump(r, "add", "over")
        /\ Outcome(r, "notree")
        /\ UNCHANGED treeVars
     \/ /\ Jump(r, "add", "over")
        /\ Outcome(r, "nogit")
        /\ \/ UNCHANGED treeVars
           \/ dir' = TRUE /\ known' \in {known, TRUE} /\ muddled' = TRUE
  /\ UNCHANGED <<alone, childVars, dog, done, status>>

\* The result is there already; the permit is released after this.  git may
\* refuse, or fail with the directory gone or not: that is ignored.
RemoveTree(r) ==
  /\ Jump(r, "remove", "over")
  /\ \/ known /\ dir' = FALSE /\ known' = FALSE /\ UNCHANGED muddled
     \/ dir' \in {dir, FALSE} /\ muddled' = TRUE /\ UNCHANGED known
  /\ UNCHANGED <<alone, childVars, dog, done, status, outcome>>

------------------------------------------------------------------------------
(* The child and its watchdog *)

After(r) == IF alone[r] THEN "remove" ELSE "over"

StartChild(r) ==
  /\ \/ /\ Jump(r, "spawn", "poll")
        /\ child' = [child EXCEPT ![r] = "running"]
        /\ held' = [held EXCEPT ![r] = TRUE]
        /\ dog' = [dog EXCEPT ![r] = "waiting"]
        /\ UNCHANGED outcome
     \/ /\ Jump(r, "spawn", After(r))
        /\ Outcome(r, "unstarted")
        /\ UNCHANGED <<child, held, dog>>
  /\ UNCHANGED <<alone, late, done, status, heir, treeVars>>

ChildExits(r) ==
  /\ child[r] = "running"
  /\ \E how \in Exited : child' = [child EXCEPT ![r] = how]
  /\ \E leaves \in BOOLEAN : heir' = [heir EXCEPT ![r] = leaves]
  /\ UNCHANGED <<pc, alone, held, dog, late, done, status, outcome, treeVars>>

HeirEnds(r) ==
  /\ heir[r]
  /\ heir' = [heir EXCEPT ![r] = FALSE]
  /\ UNCHANGED <<pc, alone, child, held, dog, late, done, status, outcome, treeVars>>

Deadline(r) ==
  /\ dog[r] = "waiting" /\ ~late[r]
  /\ late' = [late EXCEPT ![r] = TRUE]
  /\ UNCHANGED <<pc, alone, child, held, dog, done, status, heir, outcome, treeVars>>

\* The last look at the flag comes before the lock is taken.
DogLooks(r) ==
  /\ dog[r] = "waiting"
  /\ \/ done[r] /\ dog' = [dog EXCEPT ![r] = "over"]
     \/ ~done[r] /\ late[r] /\ dog' = [dog EXCEPT ![r] = "firing"]
  /\ UNCHANGED <<pc, alone, childVars, done, status, outcome, treeVars>>

\* FAULT: the child is killed by its pid, and the handle stays.
DogKillsByPid(r) ==
  /\ dog[r] = "firing"
  /\ dog' = [dog EXCEPT ![r] = "over"]
  /\ child' = [child EXCEPT ![r] = IF @ = "running" THEN "killed" ELSE @]
  /\ UNCHANGED <<pc, alone, held, late, done, status, heir, outcome, treeVars>>

\* Takes the handle, if it is there, and holds the lock over kill and wait.
DogKills(r) ==
  /\ dog[r] = "firing"
  /\ dog' = [dog EXCEPT ![r] = "over"]
  /\ IF held[r] THEN /\ held' = [held EXCEPT ![r] = FALSE]
                     /\ child' = [child EXCEPT ![r] = IF @ = "running" THEN "killed" ELSE @]
                ELSE UNCHANGED <<held, child>>
  /\ UNCHANGED <<pc, alone, late, done, status, heir, outcome, treeVars>>

\* try_wait; it may fail too, which ends the loop with nothing seen.
PollChild(r) ==
  /\ Jump(r, "poll", "join")
  /\ \/ ~held[r] /\ status' = [status EXCEPT ![r] = "gone"]
     \/ /\ held[r] /\ child[r] # "running"
        /\ status' = [status EXCEPT ![r] = IF child[r] = "ok" THEN "ok" ELSE "bad"]
     \/ held[r] /\ UNCHANGED status
  /\ UNCHANGED <<alone, childVars, dog, done, outcome, treeVars>>

SetDone(r) ==
  /\ Jump(r, "join", "reap")
  /\ done' = [done EXCEPT ![r] = TRUE]
  /\ UNCHANGED <<alone, childVars, dog, status, outcome, treeVars>>

\* Once watchdog and readers have ended, the latter when the last process that
\* has the pipes is gone.  wait() on a handle that is still there gives the exit
\* code, again or for the first time.
Reap(r) ==
  /\ dog[r] = "over" /\ child[r] # "running" /\ ~heir[r]
  /\ Jump(r, "reap", After(r))
  /\ held' = [held EXCEPT ![r] = FALSE]
  /\ Outcome(r, IF status[r] = "gone" THEN "timeout"
                ELSE IF held[r] THEN (IF child[r] = "ok" THEN "ok" ELSE "bad")
                ELSE IF status[r] = "ok" THEN "ok" ELSE "bad")
  /\ UNCHANGED <<alone, child, dog, late, done, status, heir, treeVars>>

\* Ctrl-C, or a crash: threads end and the worktree stays.  The child may run
\* on, with nobody to look at it.
WorkerDies(r) ==
  /\ pc[r] # "over"
  /\ pc' = [pc EXCEPT ![r] = "over"]
  /\ muddled' = TRUE
  /\ Fresh(r)
  /\ Outcome(r, "died")
  /\ UNCHANGED <<alone, dir, known>>

SwarmNext ==
  \E r \in Runs :
    \/ BeginRun(r) \/ ClearDir(r) \/ AddTree(r) \/ RemoveTree(r) \/ StartChild(r)
    \/ ChildExits(r) \/ HeirEnds(r) \/ Deadline(r) \/ DogLooks(r) \/ DogKills(r)
    \/ PollChild(r) \/ SetDone(r) \/ Reap(r) \/ WorkerDies(r)

SwarmSpec == SwarmInit /\ [][SwarmNext]_swarmVars

------------------------------------------------------------------------------
(* Correctness *)

\* Whichever of poll and watchdog comes first, the result of a run whose child
\* was started tells what became of the child: success means that it exited by
\* itself and well, an exit that the poll saw is never reported as a timeout or
\* as a failure it was not, and a timeout, or a child that was killed, means
\* that the deadline had passed.  When such a run gives its permit back, child,
\* watchdog and readers are gone.  And a worktree is refused for being there
\* already only after a run has died, two isolated runs have overlapped, or a
\* removal or addition has failed and left something: never as what a run that
\* ended well left to the next.
OutcomeTrue ==
  \A r \in Runs :
    /\ outcome[r] = "notree" => muddled
    /\ outcome[r] = "timeout" \/ child[r] = "killed" => late[r]
    /\ outcome[r] \in Exited \cup {"timeout"} =>
         /\ child[r] # "running" /\ dog[r] = "over" /\ ~heir[r]
         /\ outcome[r] = "ok" => child[r] = "ok"
         /\ status[r] \in Exited => outcome[r] = child[r]
=============================================================================
