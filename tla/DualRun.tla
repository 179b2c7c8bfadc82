------------------------------- MODULE DualRun -------------------------------
(***************************************************************************)
(* The native scheduler of `dual run`                                      *)
(* (crates/ruflo-codex-cli/src/dual_scheduler.rs): git worktrees are       *)
(* prepared one by one, recorded, and then the workers run in batches,     *)
(* each a thread that drives one Codex child.  One run from its arguments  *)
(* to its exit code.                                                       *)
(*                                                                         *)
(* git and Codex are external: any of their calls may fail.  Left out:     *)
(* the parsing of arguments and configuration, prompts and output.         *)
(***************************************************************************)
EXTENDS Naturals, FiniteSets

CONSTANTS
  NumWorkers,  \* workers, in the order of their --worker arguments
  ReadOnly,    \* those whose role only reads
  MaxWriters   \* the smaller of max_concurrent and max_writers

Workers == 1..NumWorkers

ASSUME DualAssumption == NumWorkers \in Nat /\ MaxWriters \in Nat \ {0}

VARIABLES
  isolated,  \* worktree_isolation
  batch,     \* batch_size
  phase,     \* where the run is
  next,      \* the next worker to prepare or clean up; later the first of the batch
  worktree,  \* per worker: has its worktree
  branch,    \* per worker: has its branch
  recorded,  \* the registry file of the run is written
  work,      \* per worker: what its thread and its child do
  result     \* exit code

dualVars == <<isolated, batch, phase, next, worktree, branch, recorded, work, result>>
config == <<isolated, batch>>
trees == <<worktree, branch, recorded>>

Busy == {"running", "drain", "drainbad"}

DualTypeOK ==
  /\ isolated \in BOOLEAN
  /\ batch \in 1..MaxWriters
  /\ phase \in {"prepare", "cleanup", "memory", "run", "over"}
  /\ next \in 0..(NumWorkers + MaxWriters)
  /\ worktree \in [Workers -> BOOLEAN]
  /\ branch \in [Workers -> BOOLEAN]
  /\ recorded \in BOOLEAN
  /\ work \in [Workers -> {"none", "thread", "ok", "failed", "stray"} \cup Busy]
  /\ result \in {"none", "success", "failure"}

\* Without --parallel-workers the batch size is 1.
DualInit ==
  /\ isolated \in BOOLEAN
  /\ batch \in {1, MaxWriters}
  /\ phase = IF isolated THEN "prepare" ELSE "memory"
  /\ next = 1
  /\ worktree = [w \in Workers |-> FALSE]
  /\ branch = [w \in Workers |-> FALSE]
  /\ recorded = FALSE
  /\ work = [w \in Workers |-> "none"]
  /\ result = "none"

Fail == phase' = "over" /\ result' = "failure"

------------------------------------------------------------------------------
(* prepare_worktrees *)

\* Not the top level of a repository, or a dirty one.
RefuseRepository ==
  /\ phase = "prepare"
  /\ next = 1
  /\ Fail
  /\ UNCHANGED <<config, next, trees, work>>

AddWorktree ==
  /\ phase = "prepare"
  /\ next \in Workers
  /\ worktree' = [worktree EXCEPT ![next] = TRUE]
  /\ branch' = [branch EXCEPT ![next] = next \notin ReadOnly]
  /\ next' = next + 1
  /\ UNCHANGED <<config, phase, recorded, work, result>>

\* git makes the branch first, and may fail after that.
AddFails ==
  /\ phase = "prepare"
  /\ next \in Workers
  /\ \E made \in {FALSE, next \notin ReadOnly} : branch' = [branch EXCEPT ![next] = made]
  /\ phase' = "cleanup"
  /\ next' = next - 1
  /\ UNCHANGED <<config, worktree, recorded, work, result>>

\* cleanup_partial_worktrees, from the last worker prepared to the first; its
\* own failures are ignored, and a branch that is checked out is not deleted.
CleanUp ==
  /\ phase = "cleanup"
  /\ next > 0
  /\ \E kept \in BOOLEAN, stays \in BOOLEAN :
       /\ worktree' = [worktree EXCEPT ![next] = kept]
       /\ branch' = [branch EXCEPT ![next] = @ /\ (kept \/ stays)]
  /\ next' = next - 1
  /\ UNCHANGED <<config, phase, recorded, work, result>>

CleanedUp ==
  /\ phase = "cleanup"
  /\ next = 0
  /\ Fail
  /\ UNCHANGED <<config, next, trees, work>>

\* The registry: if it cannot be written the worktrees stay, unrecorded.
Record ==
  /\ phase = "prepare"
  /\ next > NumWorkers
  /\ next' = 1
  /\ \/ recorded' = TRUE /\ phase' = "memory" /\ UNCHANGED result
     \/ Fail /\ UNCHANGED recorded
  /\ UNCHANGED <<config, worktree, branch, work>>

InitializeMemory ==
  /\ phase = "memory"
  /\ \/ phase' = "run" /\ UNCHANGED result
     \/ Fail
  /\ UNCHANGED <<config, next, trees, work>>

------------------------------------------------------------------------------
(* The batches *)

Batch    == {w \in Workers : next <= w /\ w < next + batch}
Failed(w) == work[w] \in {"failed", "stray"}
Settled(w) == work[w] = "ok" \/ Failed(w)
Turn(w, from, to) == phase = "run" /\ work[w] = from /\ work' = [work EXCEPT ![w] = to]

StartBatch ==
  /\ phase = "run"
  /\ Batch # {}
  /\ \A w \in Batch : work[w] = "none"
  /\ work' = [w \in Workers |-> IF w \in Batch THEN "thread" ELSE work[w]]
  /\ UNCHANGED <<config, phase, next, trees, result>>

\* execute_worker, of which the start of Codex may fail.
Launch(w) ==
  /\ \E to \in {"running", "failed"} : Turn(w, "thread", to)
  /\ UNCHANGED <<config, phase, next, trees, result>>

\* The child exits; its thread still waits for the readers of its output,
\* which end with the last process that holds the pipes.
Exit(w) ==
  /\ \E to \in {"drain", "drainbad"} : Turn(w, "running", to)
  /\ UNCHANGED <<config, phase, next, trees, result>>

Drained(w) ==
  /\ Turn(w, "drain", "ok") \/ Turn(w, "drainbad", "failed")
  /\ UNCHANGED <<config, phase, next, trees, result>>

\* The child is killed and waited for.
TimeOutChild(w) ==
  /\ Turn(w, "running", "failed")
  /\ UNCHANGED <<config, phase, next, trees, result>>

\* The child cannot be asked whether it has ended: its thread gives up, and the
\* child runs on.
WaitFails(w) ==
  /\ Turn(w, "running", "stray")
  /\ UNCHANGED <<config, phase, next, trees, result>>

\* FAULT: only a failure of the last worker joined ends the run.
NextBatchUnlessLastFailed ==
  /\ phase = "run"
  /\ Batch # {}
  /\ \A w \in Batch : Settled(w)
  /\ \/ (\E w \in Batch : Failed(w) /\ w + 1 \notin Batch) /\ Fail /\ UNCHANGED next
     \/ (\E w \in Batch : work[w] = "ok" /\ w + 1 \notin Batch)
          /\ next' = next + batch /\ UNCHANGED <<phase, result>>
  /\ UNCHANGED <<config, trees, work>>

\* All threads of the batch are joined.
NextBatch ==
  /\ phase = "run"
  /\ Batch # {}
  /\ \A w \in Batch : Settled(w)
  /\ \/ (\E w \in Batch : Failed(w)) /\ Fail /\ UNCHANGED next
     \/ (\A w \in Batch : work[w] = "ok") /\ next' = next + batch /\ UNCHANGED <<phase, result>>
  /\ UNCHANGED <<config, trees, work>>

Succeed ==
  /\ phase = "run"
  /\ Batch = {}
  /\ phase' = "over"
  /\ result' = "success"
  /\ UNCHANGED <<config, next, trees, work>>

DualNext ==
  \/ RefuseRepository \/ AddWorktree \/ AddFails \/ CleanUp \/ CleanedUp \/ Record
  \/ InitializeMemory \/ StartBatch \/ NextBatch \/ Succeed
  \/ \E w \in Workers : Launch(w) \/ Exit(w) \/ Drained(w) \/ TimeOutChild(w) \/ WaitFails(w)

------------------------------------------------------------------------------
(* Correctness *)

\* The exit code tells the truth.  Success means that every worker has ended
\* well, in a worktree of its own where worktrees are isolated; after the end
\* no thread of the run is left, and no child but one that could not be waited
\* for; no worker starts before all batches before its own have ended well and
\* the worktrees are recorded; and never do more children run, these strays
\* included, than there may be writers.
RunTellsTruth ==
  /\ result = "success" => \A w \in Workers : work[w] = "ok" /\ (isolated => worktree[w])
  /\ result # "none" => \A w \in Workers : work[w] \notin Busy \cup {"thread"}
  /\ \A w \in Workers : work[w] # "none" =>
       /\ isolated => recorded
       /\ \A v \in Workers : (v - 1) \div batch < (w - 1) \div batch => work[v] = "ok"
  /\ Cardinality({w \in Workers : work[w] \in Busy \cup {"stray"}}) <= MaxWriters
=============================================================================
