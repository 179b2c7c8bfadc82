----------------------------- MODULE ProjectProofs -----------------------------
(***************************************************************************)
(* Every part of ProjectCommands keeps its types and its invariants, for   *)
(* all values of the constants.  Settings are backed up before they are    *)
(* replaced, the result of a swarm run is true, the memory answers with    *)
(* the entries that its vectors were made of, the check of a claim follows *)
(* the policy commands, the stop of an agent or a swarm is undone in few   *)
(* ways only and that of a daemon in none, a full vote decides, a dual run *)
(* says what its workers did, and a rollback settles.  Each part is alone  *)
(* in its variables, so that its invariant is kept by the steps of the     *)
(* others.                                                                 *)
(***************************************************************************)
EXTENDS ProjectCommands, Integers, SequenceTheorems, FiniteSetTheorems, WellFoundedInduction,
        TLAPS

(* A step of the project is one of the part or leaves its variables alone.   *)
LEMMA PartSteps ==
  ASSUME [ProjectNext]_vars
  PROVE  /\ [SettingsNext]_settingsVars
         /\ [SwarmNext]_swarmVars
         /\ [MemoryNext]_memoryVars
         /\ [ClaimsNext]_policy
         /\ [LifeNext]_lifeVars
         /\ [HiveNext]_hiveVars
         /\ [DualNext]_dualVars
         /\ [DeployNext]_deployVars
         /\ [DaemonNext]_daemonVars
         /\ part' = part
BY DEF ProjectNext, vars

------------------------------------------------------------------------------
(* Settings of Claude Code *)

(* A command that is about to replace a file it has read has a backup of it. *)
ReadIsBackedUp ==
  running.at \in {"write", "copy", "fill"} /\ running.raw # Nothing =>
    \E i \in 1..Len(backups) : backups[i] = running.raw

EnablesFeature == running.op = "enable" => running.feature \in Features

SettingsInv == SettingsTypeOK /\ EnablesFeature /\ ReadIsBackedUp

LEMMA SettingsFiles ==
  /\ Nothing \in Files /\ TornFile \in Files
  /\ SettingsTypeOK => /\ Raw \in Files
                       /\ \A raw \in Files : Data(raw) \in Files
BY SettingsAssumption
   DEF Nothing, TornFile, Files, File, Forms, Parsable, SettingsTypeOK, Raw, Data

(* The types of the settings: a command keeps what it read and what it       *)
(* restores as files.                                                        *)
LEMMA SettingsTypeStep ==
  SettingsTypeOK /\ EnablesFeature /\ [SettingsNext]_settingsVars => SettingsTypeOK'
<1> SUFFICES ASSUME SettingsTypeOK, EnablesFeature, [SettingsNext]_settingsVars PROVE SettingsTypeOK'
  OBVIOUS
<1> USE SettingsAssumption, SettingsFiles
<1>q. Quiet \in [at : {"quiet", "backup", "write", "copy", "fill"},
                 op : {"none", "enable", "disable", "reset"},
                 feature : Features \cup {"none"}, raw : Files, from : Files]
  BY DEF Quiet
<1>t. ASSUME TearBackup, Len(backups) < MaxBackups
      PROVE  backups' \in Seq(Files) /\ Len(backups') <= MaxBackups
  BY <1>t DEF TearBackup, SettingsTypeOK
<1>s. ASSUME NEW op \in {"enable", "disable", "reset"}, NEW f \in Features \cup {"none"},
             NEW from \in Files, NEW onward \in {"write", "copy"},
             StartCommand(op, f, from, onward)
      PROVE  SettingsTypeOK'
  BY <1>s DEF StartCommand, SettingsTypeOK
<1>1. CASE UserEdits
  <2>1. settings' \in Files
    BY <1>1 DEF UserEdits, SettingsTypeOK, Files, File, Forms, Parsable
  <2>2. QED BY <1>1, <2>1 DEF UserEdits, SettingsTypeOK
<1>2. ASSUME NEW f \in Features, EnableFeature(f) \/ DisableFeature(f) PROVE SettingsTypeOK'
  BY <1>2, <1>s DEF EnableFeature, DisableFeature
<1>3. CASE Reset
  <2>1. backups[Len(backups)] \in Files
    BY <1>3 DEF Reset, SettingsTypeOK
  <2>2. QED BY <1>3, <2>1, <1>s DEF Reset
<1>4. CASE BackUp
  <2>1. running.raw \in Files
    BY DEF SettingsTypeOK
  <2>2. backups' \in Seq(Files) /\ Len(backups') <= MaxBackups
    BY <1>4, <1>t, <2>1 DEF BackUp, SettingsTypeOK
  <2>3. QED BY <1>4, <1>q, <2>2 DEF BackUp, SettingsTypeOK
<1>5. CASE WriteSettings
  <2>1. Changed \in Files
    BY DEF Changed, SettingsTypeOK, EnablesFeature, Files
  <2>2. QED BY <1>5, <1>q, <2>1 DEF WriteSettings, SettingsTypeOK
<1>6. CASE CutFile
  BY <1>6, <1>q DEF CutFile, SettingsTypeOK
<1>7. CASE FillFile
  BY <1>7, <1>q DEF FillFile, SettingsTypeOK
<1>8. CASE DieRunning
  <2>1. backups' \in Seq(Files) /\ Len(backups') <= MaxBackups
    BY <1>8, <1>t DEF DieRunning, SettingsTypeOK
  <2>2. QED BY <1>8, <1>q, <2>1 DEF DieRunning, SettingsTypeOK
<1>9. CASE UNCHANGED settingsVars
  BY <1>9 DEF settingsVars, SettingsTypeOK
<1>10. QED
  BY <1>1, <1>2, <1>3, <1>4, <1>5, <1>6, <1>7, <1>8, <1>9 DEF SettingsNext

LEMMA EnablesStep ==
  SettingsTypeOK /\ EnablesFeature /\ [SettingsNext]_settingsVars => EnablesFeature'
BY DEF SettingsTypeOK, EnablesFeature, SettingsNext, settingsVars, UserEdits, EnableFeature,
       DisableFeature, Reset, StartCommand, BackUp, WriteSettings, CutFile, FillFile,
       DieRunning, Quiet

LEMMA SettingsStep == SettingsInv /\ [SettingsNext]_settingsVars => SettingsInv'
<1> SUFFICES ASSUME SettingsInv, [SettingsNext]_settingsVars PROVE ReadIsBackedUp'
  BY SettingsTypeStep, EnablesStep DEF SettingsInv
<1> USE DEF SettingsInv, ReadIsBackedUp
<1>1. CASE UserEdits \/ UNCHANGED settingsVars
  BY <1>1 DEF UserEdits, settingsVars
<1>2. ASSUME NEW f \in Features, EnableFeature(f) \/ DisableFeature(f) PROVE ReadIsBackedUp'
  BY <1>2 DEF EnableFeature, DisableFeature, StartCommand
<1>3. CASE Reset
  BY <1>3 DEF Reset, StartCommand
<1>4. CASE BackUp
  <2>1. CASE backups' = Append(backups, running.raw)
    <3>1. backups'[Len(backups) + 1] = running.raw /\ Len(backups') = Len(backups) + 1
      BY <2>1 DEF SettingsTypeOK
    <3>2. Len(backups) + 1 \in 1..Len(backups')
      BY <3>1 DEF SettingsTypeOK
    <3>3. running'.raw = running.raw \/ running' = Quiet
      BY <1>4 DEF BackUp, SettingsTypeOK
    <3>4. QED BY <3>1, <3>2, <3>3 DEF Quiet
  <2>2. CASE running' = Quiet
    BY <2>2 DEF Quiet
  <2>3. QED BY <1>4, <2>1, <2>2 DEF BackUp
<1>5. CASE WriteSettings \/ FillFile \/ DieRunning
  BY <1>5 DEF WriteSettings, FillFile, DieRunning, Quiet
<1>6. CASE CutFile
  BY <1>6 DEF CutFile, Quiet, SettingsTypeOK
<1>7. QED BY <1>1, <1>2, <1>3, <1>4, <1>5, <1>6 DEF SettingsNext

THEOREM SettingsInvAlways == ProjectSpec => []SettingsInv
<1>1. ProjectInit => SettingsInv
  BY SettingsAssumption, SettingsFiles
     DEF ProjectInit, SettingsInit, SettingsInv, SettingsTypeOK, EnablesFeature,
         ReadIsBackedUp, Quiet
<1>2. SettingsInv /\ [ProjectNext]_vars => SettingsInv'
  BY PartSteps, SettingsStep
<1>3. QED BY <1>1, <1>2, PTL DEF ProjectSpec

(* A command that replaces the settings it has read leaves the user's text   *)
(* in the file or in a backup.                                               *)
THEOREM UserTextIsKept == ProjectSpec => UserTextKept
<1> DEFINE Kept ==
      running.raw = settings /\ settings.edit # 0 /\ edits' = edits =>
        \/ settings'.edit = settings.edit /\ settings'.form = settings.form
        \/ \E i \in 1..Len(backups) : backups[i] = settings
<1>1. ASSUME SettingsInv, [ProjectNext]_vars, settings' # settings,
             running.raw = settings, settings.edit # 0, edits' = edits
      PROVE  \E i \in 1..Len(backups) : backups[i] = settings
  <2>1. SettingsNext
    BY <1>1, PartSteps DEF settingsVars
  <2>2. ~UserEdits
    BY <1>1 DEF UserEdits, SettingsInv, SettingsTypeOK
  <2>3. WriteSettings \/ CutFile \/ FillFile
    BY <1>1, <2>1, <2>2
       DEF SettingsNext, EnableFeature, DisableFeature, Reset, StartCommand, BackUp, DieRunning
  <2>4. running.at \in {"write", "copy", "fill"} /\ running.raw # Nothing
    BY <1>1, <2>3 DEF WriteSettings, CutFile, FillFile, Nothing, File
  <2>5. QED BY <1>1, <2>4 DEF SettingsInv, ReadIsBackedUp
<1>2. SettingsInv /\ [ProjectNext]_vars => [settings' # settings => Kept]_settingsVars
  BY <1>1
<1>3. QED BY <1>2, SettingsInvAlways, PTL DEF ProjectSpec, UserTextKept

------------------------------------------------------------------------------
(* The worker of a swarm run *)

(* What the place of a run tells of its child, watchdog and result.          *)
PlaceInv(r) ==
  /\ pc[r] \in {"clear", "add", "spawn", "poll", "join", "reap"} => outcome[r] = "none"
  /\ pc[r] \in {"clear", "add", "remove"} => alone[r]
  /\ pc[r] \in {"clear", "add", "spawn", "poll"} => status[r] = "none"
  /\ pc[r] \in {"clear", "add", "spawn"} =>
       child[r] = "none" /\ dog[r] = "none" /\ ~held[r] /\ ~heir[r]

(* Only a watchdog past the deadline takes the handle from the poll, and what *)
(* the poll has seen does not change.                                        *)
HandleInv(r) ==
  /\ dog[r] = "firing" => late[r]
  /\ child[r] = "killed" => late[r] /\ ~held[r]
  /\ pc[r] = "poll" /\ ~held[r] => late[r]
  /\ held[r] => child[r] \in Exited \cup {"running"}
  /\ status[r] = "gone" => late[r]
  /\ status[r] \in Exited => child[r] = status[r]

ResultInv(r) ==
  /\ outcome[r] = "timeout" => late[r]
  /\ outcome[r] \in Exited \cup {"timeout"} =>
       /\ child[r] # "running" /\ dog[r] = "over" /\ ~heir[r]
       /\ outcome[r] = "ok" => child[r] = "ok"
       /\ status[r] \in Exited => outcome[r] = child[r]

WorkerInv(r) == PlaceInv(r) /\ HandleInv(r) /\ ResultInv(r)

(* Unless a run died, two met, or something was left by what failed, the     *)
(* worktree is that of the one run in it.                                    *)
TreeInv ==
  ~muddled =>
    /\ \A q, r \in Runs : alone[q] /\ alone[r] /\ pc[q] \in InTree /\ pc[r] \in InTree => q = r
    /\ dir \/ known => \E q \in Runs : /\ alone[q]
                                       /\ pc[q] \in {"spawn", "poll", "join", "reap", "remove"}

RefusalInv == \A r \in Runs : outcome[r] = "notree" => muddled

SwarmInv ==
  SwarmTypeOK /\ (\A r \in Runs : WorkerInv(r)) /\ TreeInv /\ RefusalInv

(* A step of one run keeps the types and what is known of the others.        *)
RunStep(r) ==
  \/ BeginRun(r) \/ ClearDir(r) \/ AddTree(r) \/ RemoveTree(r) \/ StartChild(r)
  \/ ChildExits(r) \/ HeirEnds(r) \/ Deadline(r) \/ DogLooks(r) \/ DogKills(r)
  \/ PollChild(r) \/ SetDone(r) \/ Reap(r) \/ WorkerDies(r)

LEMMA RunTypes ==
  ASSUME SwarmTypeOK, NEW r \in Runs, RunStep(r)
  PROVE  SwarmTypeOK'
<1> USE DEF SwarmTypeOK, InTree, Exited, treeVars, childVars, Jump, Outcome
<1>0. {"none", "unstarted", "notree", "nogit", "died"} \subseteq Outcomes
  BY DEF Outcomes
<1>1. CASE BeginRun(r)
  <2>1. PICK isolate \in BOOLEAN :
          /\ alone' = [alone EXCEPT ![r] = isolate]
          /\ pc' = [pc EXCEPT ![r] = IF isolate THEN "clear" ELSE "spawn"]
          /\ muddled' = (muddled \/ (isolate /\ \E q \in Runs : pc[q] \in InTree /\ alone[q]))
    BY <1>1 DEF BeginRun
  <2>2. muddled' \in BOOLEAN
    BY <2>1
  <2>3. QED BY <1>0, <1>1, <2>1, <2>2 DEF BeginRun, Fresh
<1>8. CASE WorkerDies(r)
  BY <1>0, <1>8 DEF WorkerDies, Fresh
<1>2. CASE ClearDir(r) \/ AddTree(r) \/ RemoveTree(r)
  <2>1. outcome' \in [Runs -> Outcomes]
    BY <1>0, <1>2 DEF ClearDir, AddTree, RemoveTree
  <2>2. pc' \in [Runs -> InTree \cup {"over"}]
    BY <1>2 DEF ClearDir, AddTree, RemoveTree
  <2>3. dir' \in BOOLEAN /\ known' \in BOOLEAN /\ muddled' \in BOOLEAN
    BY <1>2 DEF ClearDir, AddTree, RemoveTree
  <2>4. UNCHANGED <<alone, childVars, dog, done, status>>
    BY <1>2 DEF ClearDir, AddTree, RemoveTree
  <2>5. QED BY <2>1, <2>2, <2>3, <2>4
<1>3. CASE StartChild(r)
  <2>1. outcome' \in [Runs -> Outcomes]
    BY <1>0, <1>3 DEF StartChild
  <2>2. QED BY <1>3, <2>1 DEF StartChild, After
<1>9. CASE Reap(r)
  <2>1. outcome' \in [Runs -> Outcomes]
    BY <1>9 DEF Reap, Outcomes
  <2>2. QED BY <1>9, <2>1 DEF Reap, After
<1>4. CASE ChildExits(r) \/ HeirEnds(r) \/ Deadline(r)
  BY <1>4 DEF ChildExits, HeirEnds, Deadline
<1>5. CASE DogLooks(r)
  BY <1>5 DEF DogLooks
<1>10. CASE DogKills(r)
  <2>1. child' \in [Runs -> Exited \cup {"none", "running", "killed"}]
    BY <1>10 DEF DogKills
  <2>2. QED BY <1>10, <2>1 DEF DogKills
<1>6. CASE PollChild(r) \/ SetDone(r)
  BY <1>6 DEF PollChild, SetDone
<1>7. QED BY <1>1, <1>2, <1>3, <1>4, <1>5, <1>6, <1>8, <1>9, <1>10 DEF RunStep

LEMMA OthersStay ==
  ASSUME SwarmTypeOK, NEW r \in Runs, RunStep(r), NEW q \in Runs, q # r
  PROVE  /\ pc'[q] = pc[q] /\ alone'[q] = alone[q] /\ child'[q] = child[q]
         /\ held'[q] = held[q] /\ dog'[q] = dog[q] /\ late'[q] = late[q]
         /\ status'[q] = status[q] /\ heir'[q] = heir[q] /\ outcome'[q] = outcome[q]
<1> USE DEF SwarmTypeOK, treeVars, childVars, Jump, Outcome
<1>1. CASE BeginRun(r) \/ WorkerDies(r)
  BY <1>1 DEF BeginRun, WorkerDies, Fresh
<1>2. CASE ClearDir(r) \/ AddTree(r) \/ RemoveTree(r)
  BY <1>2 DEF ClearDir, AddTree, RemoveTree
<1>3. CASE StartChild(r) \/ Reap(r)
  BY <1>3 DEF StartChild, Reap
<1>4. CASE ChildExits(r) \/ HeirEnds(r) \/ Deadline(r)
  BY <1>4 DEF ChildExits, HeirEnds, Deadline
<1>5. CASE DogLooks(r) \/ DogKills(r)
  BY <1>5 DEF DogLooks, DogKills
<1>6. CASE PollChild(r) \/ SetDone(r)
  BY <1>6 DEF PollChild, SetDone
<1>7. QED BY <1>1, <1>2, <1>3, <1>4, <1>5, <1>6 DEF RunStep

LEMMA WorkerStep ==
  ASSUME SwarmTypeOK, NEW r \in Runs, WorkerInv(r), RunStep(r)
  PROVE  WorkerInv(r)'
<1> USE DEF SwarmTypeOK, WorkerInv, PlaceInv, HandleInv, ResultInv, InTree, Exited,
            treeVars, childVars, Jump, Outcome
<1>1. CASE BeginRun(r) \/ WorkerDies(r)
  BY <1>1 DEF BeginRun, WorkerDies, Fresh
<1>2. CASE ClearDir(r) \/ AddTree(r) \/ RemoveTree(r)
  BY <1>2 DEF ClearDir, AddTree, RemoveTree
<1>3. CASE StartChild(r)
  BY <1>3 DEF StartChild, After
<1>4. CASE Reap(r)
  BY <1>4 DEF Reap, After
<1>5. CASE ChildExits(r)
  BY <1>5 DEF ChildExits
<1>6. CASE HeirEnds(r) \/ Deadline(r)
  BY <1>6 DEF HeirEnds, Deadline
<1>7. CASE DogLooks(r)
  BY <1>7 DEF DogLooks
<1>8. CASE DogKills(r)
  BY <1>8 DEF DogKills
<1>9. CASE PollChild(r)
  BY <1>9 DEF PollChild
<1>10. CASE SetDone(r)
  BY <1>10 DEF SetDone
<1>11. QED
  BY <1>1, <1>2, <1>3, <1>4, <1>5, <1>6, <1>7, <1>8, <1>9, <1>10 DEF RunStep

(* The worktree is refused only in a muddle: else its one user has removed   *)
(* it.                                                                       *)
LEMMA RefusalStep ==
  ASSUME SwarmInv, NEW r \in Runs, RunStep(r)
  PROVE  RefusalInv'
<1> USE DEF SwarmInv, SwarmTypeOK, RefusalInv, Exited, treeVars, Outcome
<1>1. CASE AddTree(r)
  <2>1. CASE dir \/ known
    <3>1. muddled
      BY <1>1, <2>1 DEF AddTree, Jump, TreeInv, WorkerInv, PlaceInv, InTree
    <3>2. QED BY <1>1, <3>1 DEF AddTree, treeVars
  <2>2. QED BY <1>1, <2>1 DEF AddTree
<1>2. CASE BeginRun(r) \/ WorkerDies(r)
  BY <1>2 DEF BeginRun, WorkerDies
<1>3. CASE StartChild(r) \/ Reap(r)
  BY <1>3 DEF StartChild, Reap
<1>4. CASE ClearDir(r) \/ RemoveTree(r) \/ ChildExits(r) \/ HeirEnds(r) \/ Deadline(r)
  BY <1>4 DEF ClearDir, RemoveTree, ChildExits, HeirEnds, Deadline
<1>5. CASE DogLooks(r) \/ DogKills(r) \/ PollChild(r) \/ SetDone(r)
  BY <1>5 DEF DogLooks, DogKills, PollChild, SetDone
<1>6. QED BY <1>1, <1>2, <1>3, <1>4, <1>5 DEF RunStep

LEMMA TreeStep ==
  ASSUME SwarmInv, NEW r \in Runs, RunStep(r)
  PROVE  TreeInv'
<1> SUFFICES ASSUME ~muddled' PROVE TreeInv'
  BY DEF TreeInv
<1> DEFINE Using(q) == alone[q] /\ pc[q] \in InTree
           Owns(q)  == alone[q] /\ pc[q] \in {"spawn", "poll", "join", "reap", "remove"}
<1>1. ~muddled
  BY DEF RunStep, BeginRun, ClearDir, AddTree, RemoveTree, StartChild, ChildExits, HeirEnds,
         Deadline, DogLooks, DogKills, PollChild, SetDone, Reap, WorkerDies, treeVars
<1>2. /\ \A p, q \in Runs : Using(p) /\ Using(q) => p = q
      /\ dir \/ known => \E q \in Runs : Owns(q)
  BY <1>1 DEF SwarmInv, TreeInv
<1>3. \A q \in Runs \ {r} : (Using(q)' <=> Using(q)) /\ (Owns(q)' <=> Owns(q))
  BY OthersStay DEF SwarmInv
<1>4. Owns(r) => Using(r)
  BY DEF InTree
<1>5. ASSUME Using(r)' => Using(r), dir' \/ known' => \E q \in Runs : Owns(q)'
      PROVE  TreeInv'
  <2>1. \A p, q \in Runs : Using(p)' /\ Using(q)' => p = q
    BY <1>2, <1>3, <1>5
  <2>2. QED BY <1>5, <2>1 DEF TreeInv
<1>6. ASSUME Using(r)' => Using(r), Owns(r) => Owns(r)', UNCHANGED <<dir, known>>
      PROVE  TreeInv'
  BY <1>2, <1>3, <1>5, <1>6
<1> USE DEF SwarmInv, SwarmTypeOK, InTree
<1>7. CASE BeginRun(r)
  <2>1. CASE alone'[r]
    <3>1. \A q \in Runs : ~Using(q)
      BY <1>7, <2>1 DEF BeginRun
    <3>2. ~dir' /\ ~known'
      BY <1>2, <1>7, <3>1 DEF BeginRun
    <3>3. \A p, q \in Runs : Using(p)' /\ Using(q)' => p = q
      BY <1>3, <3>1
    <3>4. QED BY <3>2, <3>3 DEF TreeInv
  <2>2. CASE ~alone'[r]
    BY <1>6, <1>7, <2>2 DEF BeginRun
  <2>3. QED BY <2>1, <2>2
<1>8. CASE ClearDir(r)
  <2>1. Using(r) /\ ~Owns(r)
    BY <1>8 DEF ClearDir, Jump, WorkerInv, PlaceInv
  <2>2. ~dir /\ ~known
    BY <1>2, <2>1
  <2>3. ~dir' /\ ~known'
    BY <1>8, <2>2 DEF ClearDir
  <2>4. QED BY <1>5, <2>1, <2>3
<1>9. CASE AddTree(r)
  <2>1. Using(r) /\ ~Owns(r)
    BY <1>9 DEF AddTree, Jump, WorkerInv, PlaceInv
  <2>2. ~dir /\ ~known
    BY <1>2, <2>1
  <2>3. Owns(r)' \/ UNCHANGED <<dir, known>>
    BY <1>9, <2>1, <2>2 DEF AddTree, Jump, treeVars
  <2>4. QED BY <1>5, <2>1, <2>2, <2>3
<1>10. CASE RemoveTree(r)
  <2>1. ~dir' /\ ~known'
    BY <1>10 DEF RemoveTree
  <2>2. QED BY <1>5, <1>10, <2>1 DEF RemoveTree, Jump
<1>11. CASE StartChild(r) \/ Reap(r)
  BY <1>6, <1>11 DEF StartChild, Reap, After, Jump, treeVars
<1>12. CASE PollChild(r) \/ SetDone(r)
  BY <1>6, <1>12 DEF PollChild, SetDone, Jump, treeVars
<1>13. CASE ChildExits(r) \/ HeirEnds(r) \/ Deadline(r) \/ DogLooks(r) \/ DogKills(r)
  BY <1>6, <1>13 DEF ChildExits, HeirEnds, Deadline, DogLooks, DogKills, treeVars
<1>14. ~WorkerDies(r)
  BY DEF WorkerDies
<1>15. QED
  BY <1>7, <1>8, <1>9, <1>10, <1>11, <1>12, <1>13, <1>14 DEF RunStep

LEMMA SwarmStep == SwarmInv /\ [SwarmNext]_swarmVars => SwarmInv'
<1>1. ASSUME SwarmInv, NEW r \in Runs, RunStep(r) PROVE SwarmInv'
  <2>1. ASSUME NEW q \in Runs, q # r PROVE WorkerInv(q)'
    BY <1>1, <2>1, OthersStay DEF SwarmInv, WorkerInv, PlaceInv, HandleInv, ResultInv
  <2>2. WorkerInv(r)'
    BY <1>1, WorkerStep DEF SwarmInv
  <2>3. QED BY <1>1, <2>1, <2>2, RunTypes, TreeStep, RefusalStep DEF SwarmInv
<1>2. SwarmInv /\ UNCHANGED swarmVars => SwarmInv'
  BY DEF swarmVars, SwarmInv, SwarmTypeOK, WorkerInv, PlaceInv, HandleInv, ResultInv, TreeInv,
         RefusalInv
<1>3. QED BY <1>1, <1>2 DEF SwarmNext, RunStep

THEOREM SwarmInvAlways == ProjectSpec => []SwarmInv
<1>1. ASSUME SwarmInit PROVE SwarmTypeOK
  <2> USE <1>1 DEF SwarmInit
  <2>1. pc \in [Runs -> InTree \cup {"over"}] /\ child \in [Runs -> Exited \cup {"none", "running", "killed"}]
    OBVIOUS
  <2>2. /\ dog \in [Runs -> {"none", "waiting", "firing", "over"}]
        /\ status \in [Runs -> Exited \cup {"none", "gone"}]
    OBVIOUS
  <2>3. outcome \in [Runs -> Outcomes]
    BY DEF Outcomes
  <2>4. /\ alone \in [Runs -> BOOLEAN] /\ held \in [Runs -> BOOLEAN] /\ late \in [Runs -> BOOLEAN]
        /\ done \in [Runs -> BOOLEAN] /\ heir \in [Runs -> BOOLEAN]
    OBVIOUS
  <2>5. dir \in BOOLEAN /\ known \in BOOLEAN /\ muddled \in BOOLEAN
    OBVIOUS
  <2>6. QED BY <2>1, <2>2, <2>3, <2>4, <2>5 DEF SwarmTypeOK
<1>2. SwarmInit => TreeInv /\ RefusalInv /\ \A r \in Runs : WorkerInv(r)
  BY DEF SwarmInit, WorkerInv, PlaceInv, HandleInv, ResultInv, TreeInv, RefusalInv, InTree, Exited
<1>3. QED BY <1>1, <1>2, PartSteps, SwarmStep, PTL DEF ProjectSpec, ProjectInit, SwarmInv

(* The result of a swarm run tells what became of its child, for any number  *)
(* of runs and however they interleave; and runs that clean up leave nothing *)
(* in the way of the next.                                                   *)
THEOREM OutcomesAreTrue == ProjectSpec => []OutcomeTrue
<1>1. SwarmInv => OutcomeTrue
  BY DEF SwarmInv, RefusalInv, WorkerInv, HandleInv, ResultInv, OutcomeTrue
<1>2. QED BY <1>1, SwarmInvAlways, PTL
------------------------------------------------------------------------------
(* The memory and its vectors *)

(* The binding of an entry, if it has one, is to a vector made for it with b. *)
Bound(k, b) ==
  entry[k].id # 0 =>
    /\ vectors # NoFile
    /\ entry[k].id \in 1..Len(vectors)
    /\ vectors[entry[k].id].key = k
    /\ vectors[entry[k].id].by \in MadeBy(b)

(* A binding, if there are vectors, is to one made for the entry.            *)
Keyed(k) ==
  entry[k].id # 0 => entry[k].id \in 1..Len(vectors) /\ vectors[entry[k].id].key = k

(* The tag is true of the bindings, and vectors without a tag are not bound, *)
(* unless their tag was removed from under them.                             *)
TagInv ==
  vectors # NoFile =>
    /\ \A k \in Keys : Keyed(k)
    /\ tag = NoTag /\ ~bare => \A k \in Keys : entry[k].id = 0
    /\ tag \in Backends => \A k \in Keys : Bound(k, tag)

(* What a rebuild has done when it is at its place: from the list on, only   *)
(* bindings of its own are there.                                            *)
RebuildInv ==
  /\ rebuild.at # "idle" => rebuild.backend \in Backends
  /\ rebuild.at \in {"list", "next", "embedded", "ingested", "tagged"} =>
       \A k \in Keys : Bound(k, rebuild.backend)
  /\ rebuild.at \in {"embedded", "ingested", "tagged"} =>
       rebuild.key \in Keys /\ rebuild.by \in MadeBy(rebuild.backend)
  /\ rebuild.at \in {"ingested", "tagged"} =>
       vectors # NoFile /\ vectors # <<>> /\ vectors[Len(vectors)] = Made
  /\ rebuild.at = "tagged" => tag = rebuild.backend

VectorsFit == vectors # NoFile => Len(vectors) <= MaxVectors

MemoryInv == MemoryTypeOK /\ VectorsFit /\ TagInv /\ RebuildInv

LEMMA MadeByBackends == \A b \in Backends : MadeBy(b) \subseteq Backends
BY DEF MadeBy, Backends

LEMMA MemoryInitInv == MemoryInit => MemoryInv
<1> SUFFICES ASSUME MemoryInit PROVE MemoryInv
  OBVIOUS
<1> USE MemoryAssumption DEF MemoryInit
<1>1. entry \in [Keys -> [status : {"absent", "active", "deleted"}, id : 0..MaxVectors]]
  OBVIOUS
<1>2. rebuild \in [at : RebuildSteps, backend : Backends \cup {NoTag}, left : SUBSET Keys,
                  key : Keys \cup {NoTag}, by : Backends \cup {NoTag}]
  BY DEF Idle, RebuildSteps
<1>3. MemoryTypeOK
  BY <1>1, <1>2 DEF MemoryTypeOK
<1>4. QED BY <1>3 DEF MemoryInv, VectorsFit, TagInv, RebuildInv, Idle

LEMMA MemoryTypeStep ==
  ASSUME MemoryInv, MemoryNext
  PROVE  MemoryTypeOK' /\ VectorsFit'
<1> USE MemoryAssumption, MadeByBackends DEF MemoryInv, MemoryTypeOK, VectorsFit
<1>1. ASSUME NEW k \in Keys, Store(k) \/ Delete(k) PROVE MemoryTypeOK' /\ VectorsFit'
  <2>1. PICK s \in {"active", "deleted"} : entry' = [entry EXCEPT ![k].status = s]
    BY <1>1 DEF Store, Delete
  <2>2. entry' \in [Keys -> [status : {"absent", "active", "deleted"}, id : 0..MaxVectors]]
    BY <2>1
  <2>3. UNCHANGED <<vectors, tag, rebuild, bare>>
    BY <1>1 DEF Store, Delete
  <2>4. QED BY <2>2, <2>3
<1>2. ASSUME NEW k \in Keys, Embed(k) PROVE MemoryTypeOK' /\ VectorsFit'
  <2>1. rebuild.by \in Backends \cup {NoTag} /\ rebuild.backend \in Backends
    BY <1>2 DEF Embed, RebuildInv
  <2>2. PICK by \in Backends :
          \/ rebuild' = [rebuild EXCEPT !.left = @ \ {k}]
          \/ rebuild' = [rebuild EXCEPT !.left = @ \ {k}, !.at = "embedded", !.key = k, !.by = by]
    BY <1>2, <2>1 DEF Embed
  <2>3. rebuild' \in [at : RebuildSteps, backend : Backends \cup {NoTag}, left : SUBSET Keys,
                     key : Keys \cup {NoTag}, by : Backends \cup {NoTag}]
    <3>1. CASE rebuild' = [rebuild EXCEPT !.left = @ \ {k}]
      BY <3>1
    <3>2. CASE rebuild' = [rebuild EXCEPT !.left = @ \ {k}, !.at = "embedded", !.key = k, !.by = by]
      BY <3>2 DEF RebuildSteps
    <3>3. QED BY <2>2, <3>1, <3>2
  <2>4. QED BY <1>2, <2>3 DEF Embed
<1>3. ASSUME NEW ks \in SUBSET Keys, Purge(ks) PROVE MemoryTypeOK' /\ VectorsFit'
  BY <1>3 DEF Purge
<1>4. ASSUME NEW b \in Backends, StartRebuild(b) PROVE MemoryTypeOK' /\ VectorsFit'
  BY <1>4 DEF StartRebuild, Idle, RebuildSteps
<1>5. CASE RemoveVectors
  BY <1>5 DEF RemoveVectors, RebuildSteps
<1>6. CASE RemoveTag
  BY <1>6 DEF RemoveTag, RebuildSteps
<1>7. CASE ForgetBindings
  <2>1. bare' \in BOOLEAN
    BY <1>7 DEF ForgetBindings
  <2>2. entry' \in [Keys -> [status : {"absent", "active", "deleted"}, id : 0..MaxVectors]]
    <3>1. \A k \in Keys : [entry[k] EXCEPT !.id = 0]
                           \in [status : {"absent", "active", "deleted"}, id : 0..MaxVectors]
      OBVIOUS
    <3>2. entry' = [k \in Keys |-> [entry[k] EXCEPT !.id = 0]] \/ entry' = entry
      BY <1>7 DEF ForgetBindings
    <3>3. QED BY <3>1, <3>2
  <2>3. UNCHANGED <<vectors, tag>> /\ rebuild' \in {Idle, [rebuild EXCEPT !.at = "list"]}
    BY <1>7 DEF ForgetBindings
  <2>4. QED BY <2>1, <2>2, <2>3 DEF RebuildSteps, Idle
<1>8. CASE ListEntries
  BY <1>8 DEF ListEntries, RebuildSteps
<1>9. CASE Ingest
  <2>1. Held \in Seq([key : Keys, by : Backends]) /\ Len(Held) <= MaxVectors
    BY DEF Held
  <2>2. Made \in [key : Keys, by : Backends]
    BY <1>9 DEF Ingest, RebuildInv, Made
  <2>3. /\ vectors' = NoFile \/ vectors' \in Seq([key : Keys, by : Backends])
        /\ VectorsFit'
    <3>1. CASE Len(Held) < MaxVectors /\ vectors' = Append(Held, Made)
      BY <2>1, <2>2, <3>1
    <3>2. CASE vectors' \in {vectors, Held}
      BY <2>1, <3>2
    <3>3. QED BY <1>9, <3>1, <3>2 DEF Ingest
  <2>4. QED BY <1>9, <2>3 DEF Ingest, Skip, RebuildSteps
<1>10. CASE TagVectors
  BY <1>10 DEF TagVectors, SetTag, TearTag, Skip, RebuildSteps, RebuildInv
<1>11. CASE Bind
  <2>1. Len(vectors) \in 0..MaxVectors
    BY <1>11 DEF Bind, RebuildInv
  <2>2. entry' \in [Keys -> [status : {"absent", "active", "deleted"}, id : 0..MaxVectors]]
    BY <1>11, <2>1 DEF Bind
  <2>3. QED BY <1>11, <2>2 DEF Bind, Skip, RebuildSteps
<1>12. CASE EndRebuild
  BY <1>12 DEF EndRebuild, SetTag, TearTag, Idle, RebuildSteps, RebuildInv
<1>13. CASE DieRebuilding
  BY <1>13 DEF DieRebuilding, TearTag, Idle, RebuildSteps
<1>14. QED
  BY <1>1, <1>2, <1>3, <1>4, <1>5, <1>6, <1>7, <1>8, <1>9, <1>10, <1>11, <1>12, <1>13
     DEF MemoryNext

(* Commands beside the rebuild keep a binding or drop it.                    *)
LEMMA BesideStep ==
  ASSUME MemoryInv, UNCHANGED <<vectors, tag, rebuild, bare>>,
         \A k \in Keys : entry'[k].id \in {0, entry[k].id}
  PROVE  TagInv' /\ RebuildInv'
<1>1. ASSUME NEW k \in Keys
      PROVE  (Keyed(k) => Keyed(k)') /\ \A b : Bound(k, b) => Bound(k, b)'
  BY DEF Bound, Keyed
<1>2. TagInv'
  BY <1>1 DEF MemoryInv, TagInv
<1>3. QED BY <1>1, <1>2 DEF MemoryInv, RebuildInv, Made

LEMMA MemoryStep ==
  ASSUME MemoryInv, MemoryNext
  PROVE  TagInv' /\ RebuildInv'
<1> USE MemoryAssumption DEF MemoryInv, MemoryTypeOK
<1>1. ASSUME NEW k \in Keys, Store(k) \/ Delete(k) PROVE TagInv' /\ RebuildInv'
  <2>1. \A j \in Keys : entry'[j].id = entry[j].id
    <3>1. /\ [entry[k] EXCEPT !.status = "active"].id = entry[k].id
          /\ [entry[k] EXCEPT !.status = "deleted"].id = entry[k].id
      OBVIOUS
    <3>2. \/ entry' = [entry EXCEPT ![k] = [entry[k] EXCEPT !.status = "active"]]
          \/ entry' = [entry EXCEPT ![k] = [entry[k] EXCEPT !.status = "deleted"]]
      BY <1>1 DEF Store, Delete
    <3>3. QED BY <3>1, <3>2
  <2>2. QED BY <1>1, <2>1, BesideStep DEF Store, Delete
<1>u. ASSUME UNCHANGED <<entry, vectors, tag, bare>> PROVE TagInv'
  BY <1>u DEF TagInv, Bound, Keyed
<1>2. ASSUME NEW k \in Keys, Embed(k) PROVE TagInv' /\ RebuildInv'
  <2>1. TagInv'
    BY <1>2, <1>u DEF Embed
  <2>2. /\ UNCHANGED <<entry, vectors, tag>> /\ rebuild.at = "next"
        /\ rebuild.backend \in Backends
        /\ \A j \in Keys : Bound(j, rebuild.backend)
    BY <1>2 DEF Embed, RebuildInv
  <2>3. \A j \in Keys : Bound(j, rebuild.backend)'
    <3>1. rebuild'.backend = rebuild.backend
      BY <1>2 DEF Embed
    <3>2. QED BY <2>2, <3>1 DEF Bound
  <2>4. PICK by \in MadeBy(rebuild.backend) :
          \/ rebuild' = [rebuild EXCEPT !.left = @ \ {k}]
          \/ rebuild' = [rebuild EXCEPT !.left = @ \ {k}, !.at = "embedded", !.key = k, !.by = by]
    <3>1. MadeBy(rebuild.backend) # {}
      BY DEF MadeBy
    <3>2. QED BY <1>2, <3>1 DEF Embed
  <2>5. CASE rebuild' = [rebuild EXCEPT !.left = @ \ {k}]
    BY <2>1, <2>2, <2>3, <2>5 DEF RebuildInv
  <2>6. CASE rebuild' = [rebuild EXCEPT !.left = @ \ {k}, !.at = "embedded", !.key = k, !.by = by]
    BY <2>1, <2>2, <2>3, <2>6 DEF RebuildInv
  <2>7. QED BY <2>4, <2>5, <2>6
<1>3. ASSUME NEW ks \in SUBSET Keys, Purge(ks) PROVE TagInv' /\ RebuildInv'
  BY <1>3, BesideStep DEF Purge
<1>4. ASSUME NEW b \in Backends, StartRebuild(b) PROVE TagInv' /\ RebuildInv'
  BY <1>4 DEF StartRebuild, TagInv, RebuildInv, Bound, Keyed, Idle
<1>5. CASE RemoveVectors
  BY <1>5 DEF RemoveVectors, TagInv, RebuildInv, Bound, Keyed
<1>6. CASE RemoveTag
  <2>1. /\ UNCHANGED <<entry, vectors>> /\ rebuild' = [rebuild EXCEPT !.at = "bindings"]
        /\ rebuild.at = "tag"
    BY <1>6 DEF RemoveTag
  <2>2. RebuildInv'
    BY <2>1 DEF RebuildInv
  <2>3. ASSUME tag' = NoTag, vectors # NoFile => bare' PROVE TagInv'
    BY <2>1, <2>3 DEF TagInv, Keyed
  <2>4. ASSUME tag' = tag, bare' = bare PROVE TagInv'
    BY <1>u, <2>1, <2>4
  <2>5. (tag' = NoTag /\ (vectors # NoFile => bare')) \/ (tag' = tag /\ bare' = bare)
    BY <1>6, Zenon DEF RemoveTag
  <2>6. QED BY <2>2, <2>3, <2>4, <2>5
<1>7. CASE ForgetBindings
  BY <1>7 DEF ForgetBindings, TagInv, RebuildInv, Bound, Keyed, Idle
<1>8. CASE ListEntries
  BY <1>8 DEF ListEntries, TagInv, RebuildInv, Bound, Keyed
<1>9. CASE Ingest
  <2>1. /\ Held \in Seq([key : Keys, by : Backends])
        /\ Made \in [key : Keys, by : Backends]
        /\ rebuild.backend \in Backends
    BY <1>9, MadeByBackends DEF Ingest, RebuildInv, Held, Made
  <2>2. CASE /\ vectors' = Append(Held, Made)
             /\ rebuild' = [rebuild EXCEPT !.at = "ingested"]
    <3>1. /\ vectors' # NoFile /\ vectors' # <<>> /\ vectors'[Len(vectors')] = Made
          /\ Made' = Made
      <4>1. vectors' \in Seq([key : Keys, by : Backends]) /\ Len(vectors') = Len(Held) + 1
        BY <2>1, <2>2
      <4>2. vectors'[Len(vectors')] = Made
        BY <2>1, <2>2, <4>1
      <4>3. Made' = Made
        BY <2>2 DEF Made
      <4>4. vectors' # NoFile /\ vectors' # <<>>
        BY <2>1, <4>1
      <4>5. QED BY <4>2, <4>3, <4>4
    <3>3. vectors = NoFile => \A k \in Keys : entry[k].id = 0
      BY <1>9 DEF Ingest, RebuildInv, Bound
    <3>2. ASSUME NEW k \in Keys
          PROVE  /\ (vectors # NoFile => Keyed(k)) => Keyed(k)'
                 /\ \A b : Bound(k, b) => Bound(k, b)'
      <4>1. UNCHANGED entry
        BY <1>9 DEF Ingest
      <4>2. CASE entry[k].id = 0
        BY <4>1, <4>2 DEF Keyed, Bound
      <4>3. CASE entry[k].id # 0
        <5>1. vectors # NoFile /\ Held = vectors
          BY <3>3, <4>3 DEF Held
        <5>2. ASSUME entry[k].id \in 1..Len(vectors)
              PROVE  /\ entry[k].id \in 1..Len(vectors')
                     /\ vectors'[entry[k].id] = vectors[entry[k].id]
          BY <2>1, <2>2, <5>1, <5>2
        <5>3. QED BY <3>1, <4>1, <4>3, <5>1, <5>2 DEF Keyed, Bound
      <4>4. QED BY <4>2, <4>3
    <3>4. TagInv'
      BY <1>9, <3>2, <3>3 DEF Ingest, TagInv, Bound
    <3>5. QED BY <1>9, <2>1, <2>2, <3>1, <3>2, <3>4 DEF Ingest, RebuildInv
  <2>3. CASE vectors' \in {vectors, Held} /\ Skip
    <3>1. vectors = NoFile => \A k \in Keys : entry[k].id = 0
      BY <1>9 DEF Ingest, RebuildInv, Bound
    <3>2. ASSUME NEW k \in Keys, NEW b PROVE Bound(k, b) => Bound(k, b)'
      BY <1>9, <2>3 DEF Ingest, Bound, Held
    <3>3. TagInv'
      BY <1>9, <2>3, <3>1, <3>2 DEF Ingest, TagInv, Bound, Keyed, Held
    <3>4. QED BY <1>9, <2>3, <3>2, <3>3 DEF Ingest, Skip, RebuildInv
  <2>4. QED BY <1>9, <2>2, <2>3 DEF Ingest
<1>10. CASE TagVectors
  <2>1. ASSUME NEW k \in Keys, NEW b PROVE (Keyed(k) => Keyed(k)') /\ (Bound(k, b) => Bound(k, b)')
    BY <1>10 DEF TagVectors, Bound, Keyed
  <2>2. rebuild.backend \in Backends /\ \A k \in Keys : Bound(k, rebuild.backend)
    BY <1>10 DEF TagVectors, RebuildInv
  <2>3. TagInv'
    BY <1>10, <2>1, <2>2 DEF TagVectors, SetTag, TearTag, TagInv
  <2>4. CASE SetTag(rebuild.backend) /\ rebuild' = [rebuild EXCEPT !.at = "tagged"]
    BY <1>10, <2>1, <2>2, <2>3, <2>4 DEF TagVectors, SetTag, RebuildInv, Made
  <2>5. CASE Skip
    BY <1>10, <2>1, <2>2, <2>3, <2>5 DEF TagVectors, Skip, RebuildInv
  <2>6. QED BY <1>10, <2>4, <2>5 DEF TagVectors
<1>11. CASE Bind
  <2>1. /\ rebuild.key \in Keys /\ rebuild.backend \in Backends /\ tag = rebuild.backend
        /\ \A k \in Keys : Bound(k, rebuild.backend)
    BY <1>11 DEF Bind, RebuildInv
  <2>2. /\ vectors # NoFile /\ Len(vectors) \in 1..Len(vectors)
        /\ vectors[Len(vectors)].key = rebuild.key
        /\ vectors[Len(vectors)].by \in MadeBy(rebuild.backend)
    BY <1>11 DEF Bind, RebuildInv, Made
  <2>3. \A k \in Keys : /\ entry'[k].id \in {entry[k].id, Len(vectors)}
                        /\ k # rebuild.key => entry'[k].id = entry[k].id
    BY <1>11, <2>1 DEF Bind
  <2>4. UNCHANGED <<vectors, tag>> /\ rebuild'.at = "next" /\ rebuild'.backend = rebuild.backend
    BY <1>11 DEF Bind, Skip
  <2>5. \A k \in Keys : Bound(k, rebuild.backend)'
    BY <2>1, <2>2, <2>3, <2>4 DEF Bound
  <2>6. QED BY <2>1, <2>4, <2>5 DEF TagInv, RebuildInv, Bound, Keyed
<1>12. CASE EndRebuild
  BY <1>12 DEF EndRebuild, SetTag, TearTag, Idle, TagInv, RebuildInv, Bound, Keyed
<1>13. CASE DieRebuilding
  BY <1>13 DEF DieRebuilding, TearTag, Idle, TagInv, RebuildInv, Bound, Keyed
<1>14. QED
  BY <1>1, <1>2, <1>3, <1>4, <1>5, <1>6, <1>7, <1>8, <1>9, <1>10, <1>11, <1>12, <1>13
     DEF MemoryNext
THEOREM MemoryInvAlways == ProjectSpec => []MemoryInv
<1>1. MemoryInv /\ UNCHANGED memoryVars => MemoryInv'
  BY DEF memoryVars, MemoryInv, MemoryTypeOK, VectorsFit, TagInv, RebuildInv, Bound, Keyed, Made
<1>2. MemoryInv /\ MemoryNext => MemoryInv'
  BY MemoryTypeStep, MemoryStep DEF MemoryInv
<1>3. QED BY <1>1, <1>2, PartSteps, MemoryInitInv, PTL DEF ProjectSpec, ProjectInit

(* A search answers with the entries that its vectors were made for; and,    *)
(* while the tag has not been removed from under bound vectors, it compares  *)
(* its query only with vectors of rebuilds with its own embedding, for which *)
(* a rebuild with ONNX may have taken hash vectors.                          *)
THEOREM AnswersOfTheEntry == ProjectSpec => []AnswersAreOfTheEntry
<1>1. ASSUME MemoryInv, NEW b \in Backends, NEW i \in Compared(b)
      PROVE  /\ ~bare => vectors[i].by \in MadeBy(b)
             /\ \A k \in Keys : entry[k].id = i => vectors[i].key = k
  <2>1. vectors # NoFile /\ tag \in {NoTag, b} /\ i \in 1..Len(vectors)
    BY <1>1 DEF Compared
  <2>2. PICK k \in Keys : entry[k].id = i
    BY <1>1 DEF Compared
  <2>3. i # 0
    BY <2>1
  <2>4. ~bare => tag = b
    BY <1>1, <2>1, <2>2, <2>3 DEF MemoryInv, TagInv
  <2>5. ~bare => vectors[i].by \in MadeBy(b)
    BY <1>1, <2>1, <2>2, <2>3, <2>4 DEF MemoryInv, TagInv, Bound
  <2>6. \A j \in Keys : entry[j].id = i => vectors[i].key = j
    BY <1>1, <2>1, <2>3 DEF MemoryInv, TagInv, Keyed
  <2>7. QED BY <2>5, <2>6
<1>2. MemoryInv => AnswersAreOfTheEntry
  BY <1>1 DEF AnswersAreOfTheEntry
<1>3. QED BY <1>2, MemoryInvAlways, PTL
------------------------------------------------------------------------------
(* The claims policy *)

(* What a user is granted, by patterns.                                      *)
Granted(p, u) == Merged(p).defaults \cup Merged(p).users[u].claims \cup ClaimsOfRole(Merged(p), u)

LEMMA MatchedParts ==
  /\ \A S, T : S \subseteq T => Matched(S) \subseteq Matched(T)
  /\ \A S, T, R : S \subseteq T \cup R => Matched(S) \subseteq Matched(T) \cup Matched(R)
  /\ \A c : Matched({c}) = Meaning[c]
BY DEF Matched

LEMMA AllowedIsGranted == \A p, u : Allowed(p, u) = Matched(Granted(p, u))
BY DEF Allowed, Granted

LEMMA LoadedPolicy ==
  ASSUME ClaimsTypeOK
  PROVE  /\ Loaded \in Policies
         /\ OwnRoles(Loaded) \in RoleTables
         /\ \A u \in Users : Granted(policy, u) = Granted(Loaded, u)
<1> USE ClaimsAssumption
<1>1. Loaded \in Policies
  BY DEF ClaimsTypeOK, Loaded, NoUsers, Policies
<1>2. OwnRoles(Loaded) \in RoleTables
  BY <1>1 DEF OwnRoles, Policies, RoleTables
<1>3. CASE policy = Missing
  <2>1. Loaded \in Policies /\ Loaded.roles = BuiltInRoles /\ Loaded.defaults = BuiltInClaims
        /\ Loaded.users = NoUsers /\ Loaded # Missing
    BY <1>1, <1>3 DEF Loaded
  <2>2. /\ Merged(Loaded).roles = BuiltInRoles /\ Merged(Loaded).defaults = BuiltInClaims
        /\ Merged(Loaded).users = NoUsers
    BY <2>1 DEF Merged, Policies
  <2>3. /\ Merged(policy).roles = BuiltInRoles /\ Merged(policy).defaults = BuiltInClaims
        /\ Merged(policy).users = NoUsers
    BY <1>3 DEF Merged
  <2>4. QED BY <1>1, <1>2, <2>2, <2>3 DEF Granted, ClaimsOfRole
<1>4. CASE policy # Missing
  BY <1>1, <1>2, <1>4 DEF Loaded
<1>5. QED BY <1>3, <1>4

(* What a policy of the file grants.                                         *)
LEMMA GrantedByFile ==
  ASSUME NEW p \in Policies, NEW u \in Users
  PROVE  /\ Merged(p).users = p.users
         /\ Merged(p).roles = IF p.roles = Missing THEN BuiltInRoles ELSE p.roles
         /\ Merged(p).defaults = IF p.defaults = Missing THEN BuiltInClaims ELSE p.defaults
         /\ Granted(p, u) =
              Merged(p).defaults \cup p.users[u].claims
                \cup (LET r == p.users[u].role
                      IN  IF r = NoRole \/ Merged(p).roles[r] = NoRole THEN {}
                          ELSE Merged(p).roles[r])
<1>1. p # Missing
  BY ClaimsAssumption
<1>2. /\ Merged(p).users = p.users
      /\ Merged(p).roles = IF p.roles = Missing THEN BuiltInRoles ELSE p.roles
      /\ Merged(p).defaults = IF p.defaults = Missing THEN BuiltInClaims ELSE p.defaults
  BY <1>1 DEF Merged, Policies
<1>3. QED BY <1>2 DEF Granted, ClaimsOfRole

(* What a grant does to the tables.                                          *)
LEMMA GrantTables ==
  ASSUME ClaimsTypeOK, NEW c \in Patterns, NEW us \in SUBSET Users, NEW rs \in SUBSET Roles,
         Grant(c, us, rs)
  PROVE  /\ policy' \in Policies
         /\ policy'.defaults = Loaded.defaults
         /\ policy'.roles = RolesGranted(Loaded, c, rs)
         /\ \A u \in Users :
              /\ policy'.users[u].role = Loaded.users[u].role
              /\ policy'.users[u].claims =
                   Loaded.users[u].claims \cup (IF u \in us THEN {c} ELSE {})
<1>1. Loaded \in Policies /\ OwnRoles(Loaded) \in RoleTables
  BY LoadedPolicy
<1>2. policy' = [Loaded EXCEPT !.users = UsersGranted(Loaded, c, us),
                               !.roles = RolesGranted(Loaded, c, rs)]
  BY DEF Grant
<1>3. /\ UsersGranted(Loaded, c, us) \in [Users -> [role : Roles \cup {NoRole}, claims : SUBSET Patterns]]
      /\ \A u \in Users :
           /\ UsersGranted(Loaded, c, us)[u].role = Loaded.users[u].role
           /\ UsersGranted(Loaded, c, us)[u].claims =
                Loaded.users[u].claims \cup (IF u \in us THEN {c} ELSE {})
  BY <1>1 DEF Policies, UsersGranted
<1>4. RolesGranted(Loaded, c, rs) \in RoleTables
  BY <1>1 DEF RoleTables, RolesGranted
<1>5. /\ policy' \in Policies
      /\ policy'.users = UsersGranted(Loaded, c, us)
      /\ policy'.roles = RolesGranted(Loaded, c, rs)
      /\ policy'.defaults = Loaded.defaults
  BY <1>1, <1>2, <1>3, <1>4 DEF Policies
<1>6. QED BY <1>3, <1>5

LEMMA RevokeTables ==
  ASSUME ClaimsTypeOK, NEW c \in Patterns, NEW us \in SUBSET Users, NEW rs \in SUBSET Roles,
         Revoke(c, us, rs)
  PROVE  /\ policy' \in Policies
         /\ policy'.defaults = Loaded.defaults
         /\ Loaded.roles = Missing => policy'.roles = Missing
         /\ Loaded.roles # Missing =>
              /\ policy'.roles \in RoleTables
              /\ \A r \in Roles : /\ policy'.roles[r] = NoRole <=> Loaded.roles[r] = NoRole
                                  /\ Loaded.roles[r] # NoRole =>
                                       policy'.roles[r] = Loaded.roles[r] \ (IF r \in rs THEN {c} ELSE {})
         /\ \A u \in Users :
              /\ policy'.users[u].role = Loaded.users[u].role
              /\ policy'.users[u].claims =
                   Loaded.users[u].claims \ (IF u \in us THEN {c} ELSE {})
<1> DEFINE has   == {u \in us : c \in Loaded.users[u].claims}
           carry == {r \in rs : Loaded.roles # Missing /\ Loaded.roles[r] # NoRole /\ c \in Loaded.roles[r]}
           table == RolesRevoked(Loaded, c, carry)
<1>1. Loaded \in Policies
  BY LoadedPolicy
<1>2. policy' = [Loaded EXCEPT !.users = UsersRevoked(Loaded, c, has), !.roles = table]
  BY DEF Revoke
<1>3. /\ UsersRevoked(Loaded, c, has) \in [Users -> [role : Roles \cup {NoRole}, claims : SUBSET Patterns]]
      /\ \A u \in Users :
           /\ UsersRevoked(Loaded, c, has)[u].role = Loaded.users[u].role
           /\ UsersRevoked(Loaded, c, has)[u].claims =
                Loaded.users[u].claims \ (IF u \in us THEN {c} ELSE {})
  BY <1>1 DEF Policies, UsersRevoked
<1>4. Loaded.roles = Missing => table = Missing
  BY DEF RolesRevoked
<1>5. ASSUME Loaded.roles # Missing
      PROVE  /\ table \in RoleTables
             /\ \A r \in Roles : /\ table[r] = NoRole <=> Loaded.roles[r] = NoRole
                                 /\ Loaded.roles[r] # NoRole =>
                                      table[r] = Loaded.roles[r] \ (IF r \in rs THEN {c} ELSE {})
  <2>1. Loaded.roles \in RoleTables
    BY <1>1, <1>5 DEF Policies
  <2>2. \A r \in Roles : Loaded.roles[r] # NoRole =>
          Loaded.roles[r] \in SUBSET Patterns /\ Loaded.roles[r] \ {c} \in SUBSET Patterns
    BY <2>1 DEF RoleTables
  <2>3. table = [r \in Roles |-> IF r \in carry THEN Loaded.roles[r] \ {c} ELSE Loaded.roles[r]]
    BY <1>5 DEF RolesRevoked
  <2>4. table \in RoleTables
    BY <2>1, <2>2, <2>3 DEF RoleTables
  <2>5. QED BY <1>5, <2>2, <2>3, <2>4, ClaimsAssumption
<1>6. /\ policy' \in Policies
      /\ policy'.users = UsersRevoked(Loaded, c, has)
      /\ policy'.roles = table
      /\ policy'.defaults = Loaded.defaults
  BY <1>1, <1>2, <1>3, <1>4, <1>5 DEF Policies
<1>7. QED BY <1>3, <1>4, <1>5, <1>6
(* A change that only adds to claims and roles takes nothing away, unless    *)
(* the file gets its first roles by it.                                      *)
LEMMA WiderLosesBuiltIn ==
  ASSUME ClaimsTypeOK, policy' \in Policies, NEW u \in Users,
         policy'.defaults = Loaded.defaults,
         policy'.users[u].role = Loaded.users[u].role,
         Loaded.users[u].claims \subseteq policy'.users[u].claims,
         policy'.roles \in RoleTables,
         Loaded.roles # Missing => \A r \in Roles : Loaded.roles[r] # NoRole =>
           policy'.roles[r] # NoRole /\ Loaded.roles[r] \subseteq policy'.roles[r]
  PROVE  Lost(u) \subseteq BuiltInOnly(u)
<1> USE ClaimsAssumption
<1>1. Loaded \in Policies /\ Granted(policy, u) = Granted(Loaded, u)
  BY LoadedPolicy
<1>2. policy'.roles # Missing /\ Loaded.users[u].role \in Roles \cup {NoRole}
  BY <1>1 DEF Policies
<1>3. CASE Loaded.roles = Missing
  <2>1. policy # Missing /\ policy = Loaded
    BY <1>3 DEF Loaded
  <2>2. /\ Granted(Loaded, u) = Merged(Loaded).defaults \cup Loaded.users[u].claims
                                  \cup ClaimsOfRole(Merged(Loaded), u)
        /\ Merged(policy').defaults \cup policy'.users[u].claims \subseteq Granted(policy', u)
        /\ Merged(policy').defaults = Merged(Loaded).defaults
    BY <1>1, GrantedByFile DEF Granted
  <2>3. Granted(policy, u) \subseteq Granted(policy', u) \cup ClaimsOfRole(Merged(policy), u)
    BY <2>1, <2>2, <1>1
  <2>4. Allowed(policy, u) \subseteq
          Allowed(policy', u) \cup Matched(ClaimsOfRole(Merged(policy), u))
    <3>1. Allowed(policy, u) = Matched(Granted(policy, u))
          /\ Allowed(policy', u) = Matched(Granted(policy', u))
      BY AllowedIsGranted
    <3>2. QED BY <2>3, <3>1, MatchedParts
  <2>5. QED BY <2>1, <2>4, <1>3 DEF Lost, BuiltInOnly
<1>4. CASE Loaded.roles # Missing
  <2>1. Granted(Loaded, u) \subseteq Granted(policy', u)
    BY <1>1, <1>2, <1>4, GrantedByFile
  <2>2. Allowed(policy, u) \subseteq Allowed(policy', u)
    BY <1>1, <2>1, AllowedIsGranted, MatchedParts
  <2>3. QED BY <2>2 DEF Lost
<1>5. QED BY <1>3, <1>4

LEMMA GrantFollows ==
  ASSUME ClaimsTypeOK, NEW c \in Patterns, NEW us \in SUBSET Users, NEW rs \in SUBSET Roles,
         Grant(c, us, rs), NEW u \in Users
  PROVE  /\ Named(u, us, rs) => Meaning[c] \subseteq Allowed(policy', u)
         /\ Lost(u) \subseteq BuiltInOnly(u)
<1> DEFINE own == OwnRoles(Loaded)
<1>1. /\ Loaded \in Policies /\ own \in RoleTables
      /\ Loaded.roles # Missing => own = Loaded.roles
  BY LoadedPolicy DEF OwnRoles
<1>2. /\ policy' \in Policies
      /\ policy'.defaults = Loaded.defaults
      /\ policy'.roles = RolesGranted(Loaded, c, rs)
      /\ policy'.users[u].role = Loaded.users[u].role
      /\ policy'.users[u].claims = Loaded.users[u].claims \cup (IF u \in us THEN {c} ELSE {})
  <2>1. \A v \in Users :
          /\ policy'.users[v].role = Loaded.users[v].role
          /\ policy'.users[v].claims = Loaded.users[v].claims \cup (IF v \in us THEN {c} ELSE {})
    BY GrantTables
  <2>2. policy' \in Policies /\ policy'.defaults = Loaded.defaults
    BY GrantTables
  <2>3. policy'.roles = RolesGranted(Loaded, c, rs)
    BY GrantTables
  <2>4. QED BY <2>1, <2>2, <2>3
<1>3. \A r \in Roles :
        /\ own[r] # NoRole => /\ own[r] \subseteq RolesGranted(Loaded, c, rs)[r]
                              /\ RolesGranted(Loaded, c, rs)[r] # NoRole
        /\ r \in rs => /\ c \in RolesGranted(Loaded, c, rs)[r]
                       /\ RolesGranted(Loaded, c, rs)[r] # NoRole
  <2>1. ASSUME NEW r \in Roles
        PROVE  /\ own[r] \in (SUBSET Patterns) \cup {NoRole}
               /\ RolesGranted(Loaded, c, rs)[r] =
                    IF r \in rs THEN {c} \cup (IF own[r] = NoRole THEN {} ELSE own[r]) ELSE own[r]
    BY <1>1 DEF RoleTables, RolesGranted
  <2>2. ASSUME NEW r \in Roles, r \in rs
        PROVE  {c} \cup (IF own[r] = NoRole THEN {} ELSE own[r]) \in SUBSET Patterns
    BY <2>1, <2>2
  <2>3. QED BY <2>1, <2>2, ClaimsAssumption
<1>4. policy'.roles \in RoleTables
  BY <1>1, <1>2 DEF RolesGranted, RoleTables
<1>5. Lost(u) \subseteq BuiltInOnly(u)
  BY <1>1, <1>2, <1>3, <1>4, WiderLosesBuiltIn
<1>6. ASSUME Named(u, us, rs) PROVE c \in Granted(policy', u)
  <2>1. CASE u \in us
    BY <1>2, <2>1, GrantedByFile
  <2>2. CASE policy'.users[u].role \in rs
    <3>1. policy'.roles # Missing /\ policy'.users[u].role # NoRole
      BY <1>4, <2>2, ClaimsAssumption
    <3>2. QED BY <1>2, <1>3, <2>2, <3>1, GrantedByFile
  <2>3. QED BY <1>6, <2>1, <2>2 DEF Named
<1>7. ASSUME Named(u, us, rs) PROVE Meaning[c] \subseteq Allowed(policy', u)
  <2>1. {c} \subseteq Granted(policy', u)
    BY <1>6, <1>7
  <2>2. Matched({c}) = Meaning[c] /\ Matched({c}) \subseteq Matched(Granted(policy', u))
    BY <2>1, MatchedParts
  <2>3. QED BY <2>2, AllowedIsGranted
<1>8. QED BY <1>5, <1>7

LEMMA RevokeFollows ==
  ASSUME ClaimsTypeOK, NEW c \in Patterns, NEW us \in SUBSET Users, NEW rs \in SUBSET Roles,
         Revoke(c, us, rs), NEW u \in Users
  PROVE  /\ Allowed(policy', u) \subseteq Allowed(policy, u)
         /\ Lost(u) \subseteq IF Named(u, us, rs) THEN Meaning[c] ELSE {}
<1> DEFINE role == Loaded.users[u].role
<1>1. Loaded \in Policies /\ Granted(policy, u) = Granted(Loaded, u) /\ role \in Roles \cup {NoRole}
  BY LoadedPolicy DEF Policies
<1>2. /\ policy' \in Policies
      /\ policy'.defaults = Loaded.defaults
      /\ Loaded.roles = Missing => policy'.roles = Missing
      /\ Loaded.roles # Missing =>
           /\ policy'.roles # Missing
           /\ \A r \in Roles : /\ policy'.roles[r] = NoRole <=> Loaded.roles[r] = NoRole
                               /\ Loaded.roles[r] # NoRole =>
                                    policy'.roles[r] = Loaded.roles[r] \ (IF r \in rs THEN {c} ELSE {})
      /\ policy'.users[u].role = role
      /\ policy'.users[u].claims = Loaded.users[u].claims \ (IF u \in us THEN {c} ELSE {})
  <2>1. \A v \in Users :
          /\ policy'.users[v].role = Loaded.users[v].role
          /\ policy'.users[v].claims = Loaded.users[v].claims \ (IF v \in us THEN {c} ELSE {})
    BY RevokeTables
  <2>2. Loaded.roles # Missing => policy'.roles # Missing
    BY RevokeTables, ClaimsAssumption
  <2>3. QED BY <2>1, <2>2, RevokeTables
<1>3. Merged(policy').defaults = Merged(Loaded).defaults
  BY <1>1, <1>2, GrantedByFile
<1>4. Granted(policy', u) \subseteq Granted(Loaded, u)
  BY <1>1, <1>2, <1>3, GrantedByFile
<1>5. Granted(Loaded, u) \subseteq Granted(policy', u) \cup {c}
  BY <1>1, <1>2, <1>3, GrantedByFile
<1>6. ASSUME ~Named(u, us, rs) PROVE Granted(Loaded, u) \subseteq Granted(policy', u)
  <2>1. u \notin us /\ role \notin rs
    BY <1>2, <1>6 DEF Named
  <2>2. QED BY <1>1, <1>2, <1>3, <2>1, GrantedByFile
<1>7. Allowed(policy', u) \subseteq Allowed(policy, u)
  BY <1>1, <1>4, AllowedIsGranted, MatchedParts
<1>8. Allowed(policy, u) \subseteq Allowed(policy', u) \cup Meaning[c]
  <2>1. Allowed(policy, u) = Matched(Granted(Loaded, u))
        /\ Allowed(policy', u) = Matched(Granted(policy', u))
    BY <1>1, AllowedIsGranted
  <2>2. Matched(Granted(Loaded, u)) \subseteq Matched(Granted(policy', u)) \cup Matched({c})
    BY <1>5, MatchedParts
  <2>3. Matched({c}) = Meaning[c]
    BY MatchedParts
  <2>4. QED BY <2>1, <2>2, <2>3
<1>9. ~Named(u, us, rs) => Allowed(policy, u) \subseteq Allowed(policy', u)
  BY <1>1, <1>6, AllowedIsGranted, MatchedParts
<1>10. QED BY <1>7, <1>8, <1>9 DEF Lost

LEMMA CreateFollows ==
  ASSUME ClaimsTypeOK, NEW r \in Roles, CreateRole(r)
  PROVE  policy' \in Policies /\ \A u \in Users : Lost(u) \subseteq BuiltInOnly(u)
<1> USE ClaimsAssumption
<1> DEFINE own   == OwnRoles(Loaded)
           table == [own EXCEPT ![r] = {}]
<1>1. /\ Loaded \in Policies /\ own \in RoleTables
      /\ Loaded.roles # Missing => own = Loaded.roles
  BY LoadedPolicy DEF OwnRoles
<1>2. policy' = [Loaded EXCEPT !.roles = table] /\ own[r] = NoRole
  BY DEF CreateRole
<1>3. table \in RoleTables /\ \A q \in Roles : own[q] # NoRole => table[q] = own[q]
  BY <1>1, <1>2 DEF RoleTables
<1>4. /\ policy' \in Policies /\ policy'.roles = table
      /\ policy'.defaults = Loaded.defaults /\ policy'.users = Loaded.users
  BY <1>1, <1>2, <1>3 DEF Policies
<1>5. QED BY <1>1, <1>3, <1>4, WiderLosesBuiltIn

LEMMA ClaimsStep == ClaimsTypeOK /\ [ClaimsNext]_policy => ClaimsTypeOK'
<1> SUFFICES ASSUME ClaimsTypeOK, ClaimsNext PROVE policy' \in Policies
  BY DEF ClaimsTypeOK
<1>1. ASSUME NEW c \in Patterns, NEW us \in One(Users), NEW rs \in One(Roles),
             Grant(c, us, rs) \/ Revoke(c, us, rs)
      PROVE  policy' \in Policies
  BY <1>1, GrantTables, RevokeTables DEF One
<1>2. ASSUME NEW r \in Roles, DeleteRole(r) PROVE policy' \in Policies
  <2>1. Loaded \in Policies /\ Loaded.roles \in RoleTables
    BY <1>2, LoadedPolicy DEF DeleteRole, Policies
  <2>2. [Loaded.roles EXCEPT ![r] = NoRole] \in RoleTables
    BY <2>1 DEF RoleTables
  <2>3. QED BY <1>2, <2>1, <2>2 DEF DeleteRole, Policies
<1>3. QED BY <1>1, <1>2, CreateFollows DEF ClaimsNext

LEMMA ClaimsInitTypes == ClaimsInit => ClaimsTypeOK
BY ClaimsAssumption DEF ClaimsInit, ClaimsTypeOK, Policies

(* What check answers follows the commands that change the policy, for any    *)
(* users, roles, patterns and built-in policy.                               *)
THEOREM ChecksFollow == ProjectSpec => CheckFollows
<1> DEFINE Follows ==
      /\ \A c \in Patterns, us \in One(Users), rs \in One(Roles) :
          /\ Grant(c, us, rs) =>
               \A u \in Users : /\ Named(u, us, rs) => Meaning[c] \subseteq Allowed(policy', u)
                                /\ Lost(u) \subseteq BuiltInOnly(u)
          /\ Revoke(c, us, rs) =>
               \A u \in Users : /\ Allowed(policy', u) \subseteq Allowed(policy, u)
                                /\ Lost(u) \subseteq IF Named(u, us, rs) THEN Meaning[c] ELSE {}
      /\ (\E r \in Roles : CreateRole(r)) => \A u \in Users : Lost(u) \subseteq BuiltInOnly(u)
<1>1. ClaimsTypeOK => Follows
  <2>1. ASSUME ClaimsTypeOK, NEW c \in Patterns, NEW us \in One(Users), NEW rs \in One(Roles)
        PROVE  us \in SUBSET Users /\ rs \in SUBSET Roles
    BY DEF One
  <2>2. ASSUME ClaimsTypeOK, NEW c \in Patterns, NEW us \in One(Users), NEW rs \in One(Roles),
               Grant(c, us, rs), NEW u \in Users
        PROVE  /\ Named(u, us, rs) => Meaning[c] \subseteq Allowed(policy', u)
               /\ Lost(u) \subseteq BuiltInOnly(u)
    BY <2>1, <2>2, GrantFollows
  <2>3. ASSUME ClaimsTypeOK, NEW c \in Patterns, NEW us \in One(Users), NEW rs \in One(Roles),
               Revoke(c, us, rs), NEW u \in Users
        PROVE  /\ Allowed(policy', u) \subseteq Allowed(policy, u)
               /\ Lost(u) \subseteq IF Named(u, us, rs) THEN Meaning[c] ELSE {}
    BY <2>1, <2>3, RevokeFollows
  <2>4. QED BY <2>2, <2>3, CreateFollows
<1>2. ClaimsTypeOK => [policy' # policy => Follows]_policy
  BY <1>1
<1>3. ProjectSpec => []ClaimsTypeOK
  BY ClaimsInitTypes, ClaimsStep, PartSteps, PTL DEF ProjectSpec, ProjectInit
<1>4. QED BY <1>2, <1>3, PTL DEF CheckFollows
------------------------------------------------------------------------------
(* Agents and the swarm *)

(* Rows, records and the agents of sessions are tables of agents.            *)
TablesInv ==
  /\ row \in [Agents -> AgentStatus]
  /\ json \in [Agents -> AgentStatus]
  /\ DOMAIN session = Sessions
  /\ \A s \in Sessions : session[s] # Unset => session[s].agents \in [Agents -> AgentStatus]

LEMMA ListedType == TablesInv => Listed \in [Agents -> AgentStatus]
BY DEF TablesInv, Listed

LEMMA SetAgentsType ==
  ASSUME TablesInv, NEW as, NEW st \in AgentStatus, SetAgents(as, st)
  PROVE  row' \in [Agents -> AgentStatus]
BY ListedType DEF SetAgents

(* What the steps that change neither records nor sessions do to the rows:   *)
(* the agents listed get a status, or the rows stay; a resident may register. *)
LEMMA RowSteps ==
  ASSUME LifeNext,
         ~ \E s \in Sessions : SaveSession(s) \/ ImportSession(s) \/ DeleteSession(s)
                                 \/ RestoreSession(s)
  PROVE  /\ UNCHANGED <<json, session>>
         /\ \/ UNCHANGED row
            \/ \E a \in Residents : row' = [row EXCEPT ![a] = "idle"]
            \/ \E as : SetAgents(as, "terminated")
            \/ \E as : SetAgents(as, "idle") /\ \A a \in as : Listed[a] = "none"
<1>1. CASE ListAgents
  BY <1>1 DEF ListAgents
<1>2. ASSUME NEW a \in Agents \ Residents, SpawnAgent(a)
      PROVE  /\ UNCHANGED <<json, session>>
             /\ \E as : SetAgents(as, "idle") /\ \A b \in as : Listed[b] = "none"
  <2>1. \A b \in {a} : Listed[b] = "none"
    BY <1>2 DEF SpawnAgent, Exists
  <2>2. QED BY <1>2, <2>1 DEF SpawnAgent
<1>3. ASSUME NEW a \in Agents, StopAgent(a)
      PROVE  UNCHANGED <<json, session>> /\ \E as : SetAgents(as, "terminated")
  BY <1>3 DEF StopAgent
<1>4. ASSUME NEW a \in Residents, RegisterResident(a)
      PROVE  UNCHANGED <<json, session>> /\ \E b \in Residents : row' = [row EXCEPT ![b] = "idle"]
  BY <1>4 DEF RegisterResident
<1>5. ASSUME NEW t \in Tasks, CreateTask(t) \/ CancelTask(t) \/ Unassign(t) \/ RetryTask(t)
      PROVE  UNCHANGED <<json, session>> /\ UNCHANGED row
  BY <1>5 DEF CreateTask, CancelTask, Unassign, RetryTask, SetTask
<1>6. ASSUME NEW t \in Tasks, AssignTask(t)
      PROVE  UNCHANGED <<json, session>> /\ (UNCHANGED row \/ SetAgents({}, "idle"))
  BY <1>6 DEF AssignTask, SetTask
<1>7. CASE InitSwarm \/ StartSwarm \/ StopSwarm
  BY <1>7 DEF InitSwarm, StartSwarm, StopSwarm, WriteSwarm
<1>8. CASE FinishSwarm
  BY <1>8 DEF FinishSwarm, WriteSwarm
<1>9. ASSUME NEW n \in 1..MaxTarget, ScaleSwarm(n)
      PROVE  /\ UNCHANGED <<json, session>>
             /\ \/ \E as : SetAgents(as, "terminated")
                \/ \E as : SetAgents(as, "idle") /\ \A a \in as : Listed[a] = "none"
  <2>1. \A as \in SUBSET Absent : \A a \in as : Listed[a] = "none"
    BY DEF Absent, Exists
  <2>2. QED BY <1>9, <2>1 DEF ScaleSwarm, WriteSwarm
<1>10. ASSUME NEW n \in 1..MaxTarget, CoordinateSwarm(n)
       PROVE  /\ UNCHANGED <<json, session>>
              /\ \E as : SetAgents(as, "idle") /\ \A a \in as : Listed[a] = "none"
  <2>1. PICK roles : SetAgents({a \in roles : ~Exists(a)}, "idle")
    BY <1>10 DEF CoordinateSwarm
  <2>2. \A a \in {b \in roles : ~Exists(b)} : Listed[a] = "none"
    BY DEF Exists
  <2>3. QED BY <1>10, <2>1, <2>2 DEF CoordinateSwarm, WriteSwarm
<1>11. QED
  BY <1>1, <1>2, <1>3, <1>4, <1>5, <1>6, <1>7, <1>8, <1>9, <1>10 DEF LifeNext

LEMMA TablesStep == TablesInv /\ [LifeNext]_lifeVars => TablesInv'
<1> SUFFICES ASSUME TablesInv, LifeNext PROVE TablesInv'
  BY DEF TablesInv, lifeVars
<1> USE DEF TablesInv
<1>t. "idle" \in AgentStatus /\ "terminated" \in AgentStatus /\ "none" \in AgentStatus
  BY DEF AgentStatus
<1>1. ASSUME NEW s \in Sessions, SaveSession(s) PROVE TablesInv'
  <2>1. row' \in [Agents -> AgentStatus]
    BY <1>1, <1>t, SetAgentsType DEF SaveSession
  <2>2. session' = [session EXCEPT ![s] = [agents |-> Listed, tasks |-> task, swarm |-> swarm]]
        /\ UNCHANGED json
    BY <1>1 DEF SaveSession, SetSession
  <2>3. QED BY <2>1, <2>2, ListedType
<1>2. ASSUME NEW s \in Sessions, ImportSession(s) PROVE TablesInv'
  <2>1. PICK st \in {"idle", "terminated"}, k \in 0..MaxRetries :
          SetSession(s, [agents |-> [a \in Agents |-> IF a \in Residents THEN "none" ELSE st],
                         tasks |-> [t \in Tasks |-> [status |-> "failed", retries |-> k]],
                         swarm |-> Unset])
    BY <1>2 DEF ImportSession
  <2>2. [a \in Agents |-> IF a \in Residents THEN "none" ELSE st] \in [Agents -> AgentStatus]
    BY <1>t
  <2>3. UNCHANGED <<row, json>>
    BY <1>2, <2>1 DEF ImportSession, SetSession
  <2>4. QED BY <2>1, <2>2, <2>3 DEF SetSession
<1>3. ASSUME NEW s \in Sessions, DeleteSession(s) PROVE TablesInv'
  BY <1>3 DEF DeleteSession, SetSession
<1>4. ASSUME NEW s \in Sessions, RestoreSession(s) PROVE TablesInv'
  BY <1>4 DEF RestoreSession
<1>5. CASE ~ \E s \in Sessions : SaveSession(s) \/ ImportSession(s) \/ DeleteSession(s)
                                   \/ RestoreSession(s)
  <2>1. UNCHANGED <<json, session>>
    BY <1>5, RowSteps
  <2>2. row' \in [Agents -> AgentStatus]
    BY <1>5, <1>t, RowSteps, SetAgentsType
  <2>3. QED BY <2>1, <2>2
<1>6. QED BY <1>1, <1>2, <1>3, <1>4, <1>5

(* The row of a stopped agent changes to what its JSON record says, or not   *)
(* at all, unless a session is restored.                                     *)
LEMMA AgentsStay ==
  ASSUME TablesInv, LifeNext, ~ \E s \in Sessions : RestoreSession(s),
         NEW a \in Agents \ Residents, row[a] = "terminated"
  PROVE  row'[a] = "terminated" \/ (json[a] # "none" /\ row'[a] = json[a])
<1>1. Listed[a] = IF json[a] # "none" THEN json[a] ELSE "terminated"
  BY DEF Listed
<1>2. ASSUME NEW as, NEW st, SetAgents(as, st), a \in as => st = "terminated"
      PROVE  row'[a] = "terminated" \/ (json[a] # "none" /\ row'[a] = json[a])
  BY <1>1, <1>2 DEF SetAgents
<1>3. ASSUME NEW s \in Sessions, SaveSession(s) \/ ImportSession(s) \/ DeleteSession(s)
      PROVE  SetAgents({}, "idle") \/ UNCHANGED row
  BY <1>3 DEF SaveSession, ImportSession, DeleteSession
<1>4. \/ UNCHANGED row
      \/ \E b \in Residents : row' = [row EXCEPT ![b] = "idle"]
      \/ \E as : SetAgents(as, "terminated")
      \/ \E as : SetAgents(as, "idle") /\ a \notin as
  BY <1>1, <1>3, RowSteps
<1>5. QED BY <1>2, <1>4 DEF TablesInv

LEMMA SwarmStays ==
  ASSUME LifeNext, ~ \E s \in Sessions : RestoreSession(s), swarm = "stopped"
  PROVE  swarm' = "stopped" \/ InitSwarm \/ FinishSwarm
<1>1. ~CanGoOn
  BY DEF CanGoOn
<1>2. ASSUME NEW t \in Tasks,
             CreateTask(t) \/ CancelTask(t) \/ AssignTask(t) \/ Unassign(t) \/ RetryTask(t)
      PROVE  UNCHANGED swarm
  BY <1>2 DEF CreateTask, CancelTask, AssignTask, Unassign, RetryTask, SetTask
<1>3. ASSUME NEW s \in Sessions, SaveSession(s) \/ ImportSession(s) \/ DeleteSession(s)
      PROVE  UNCHANGED swarm
  BY <1>3 DEF SaveSession, ImportSession, DeleteSession, SetSession
<1>4. ASSUME NEW a, SpawnAgent(a) \/ StopAgent(a) \/ RegisterResident(a) PROVE UNCHANGED swarm
  BY <1>4 DEF SpawnAgent, StopAgent, RegisterResident
<1>5. ASSUME NEW n, ScaleSwarm(n) \/ CoordinateSwarm(n) PROVE swarm' = swarm
  BY <1>1, <1>5, LifeAssumption DEF ScaleSwarm, CoordinateSwarm, WriteSwarm, SwarmStatus
<1>6. ListAgents => UNCHANGED swarm
  BY DEF ListAgents
<1>7. ~StartSwarm /\ (StopSwarm => swarm' = "stopped")
  BY <1>1 DEF StartSwarm, StopSwarm, WriteSwarm
<1>8. QED BY <1>2, <1>3, <1>4, <1>5, <1>6, <1>7 DEF LifeNext

(* A stop is undone only by a restored session, by the JSON record of the    *)
(* agent, and for a swarm by the end of a run or a new init, for any agents, *)
(* sessions and runs.                                                        *)
THEOREM StopUndoneOnlyBy == ProjectSpec => StoppedStays
<1> DEFINE Stays ==
      \/ /\ \A a \in Agents \ Residents :
              row[a] = "terminated" =>
                row'[a] = "terminated" \/ (json[a] # "none" /\ row'[a] = json[a])
         /\ swarm = "stopped" => swarm' = "stopped" \/ InitSwarm \/ FinishSwarm
      \/ \E s \in Sessions : RestoreSession(s)
<1>1. TablesInv /\ LifeNext => Stays
  BY AgentsStay, SwarmStays
<1>2. TablesInv /\ [ProjectNext]_vars => [Stays]_lifeVars
  BY <1>1, PartSteps
<1>3. LifeInit => TablesInv
  BY DEF LifeInit, TablesInv, AgentStatus
<1>4. ProjectSpec => []TablesInv
  BY <1>3, TablesStep, PartSteps, PTL DEF ProjectSpec, ProjectInit
<1>5. QED BY <1>2, <1>4, PTL DEF ProjectSpec, StoppedStays

(* The tasks, the swarm and the sessions, beside the tables of agents.       *)
LEMMA TaskTypes ==
  ASSUME LifeTypeOK, NEW t \in Tasks,
         CreateTask(t) \/ CancelTask(t) \/ AssignTask(t) \/ Unassign(t) \/ RetryTask(t)
  PROVE  /\ task' \in [Tasks -> TaskRecords \cup {Unset}]
         /\ UNCHANGED <<session, swarm, runs>>
<1>1. ASSUME NEW record \in TaskRecords, SetTask(t, record)
      PROVE  /\ task' \in [Tasks -> TaskRecords \cup {Unset}]
             /\ UNCHANGED <<session, swarm, runs>>
  BY <1>1 DEF SetTask, LifeTypeOK
<1>2. NewTask \in TaskRecords
  BY LifeAssumption DEF NewTask, TaskRecords
<1>3. task[t] # Unset =>
        /\ \A st \in {"cancelled", "assigned", "pending"} :
             [task[t] EXCEPT !.status = st] \in TaskRecords
        /\ [status |-> "queued", retries |-> 0] \in TaskRecords
        /\ task[t].retries < MaxRetries =>
             [status |-> "queued", retries |-> task[t].retries + 1] \in TaskRecords
  BY LifeAssumption DEF LifeTypeOK, TaskRecords
<1>4. QED
  BY <1>1, <1>2, <1>3 DEF CreateTask, CancelTask, AssignTask, Unassign, RetryTask, Assignable

LEMMA SwarmTypes ==
  ASSUME LifeTypeOK, NEW n,
         \/ InitSwarm \/ StartSwarm \/ FinishSwarm \/ StopSwarm
         \/ ScaleSwarm(n) \/ CoordinateSwarm(n)
  PROVE  swarm' \in SwarmStatus \cup {Unset} /\ runs' \in 0..MaxRuns /\ UNCHANGED <<task, session>>
<1> USE DEF LifeTypeOK, SwarmStatus, WriteSwarm
<1>1. CASE InitSwarm \/ StopSwarm
  BY <1>1 DEF InitSwarm, StopSwarm
<1>2. CASE StartSwarm
  BY <1>2, LifeAssumption DEF StartSwarm
<1>3. CASE FinishSwarm
  BY <1>3, LifeAssumption DEF FinishSwarm
<1>4. CASE ScaleSwarm(n) \/ CoordinateSwarm(n)
  BY <1>4 DEF ScaleSwarm, CoordinateSwarm
<1>5. QED BY <1>1, <1>2, <1>3, <1>4

LEMMA SessionTypes ==
  ASSUME LifeTypeOK, NEW s \in Sessions,
         SaveSession(s) \/ ImportSession(s) \/ DeleteSession(s) \/ RestoreSession(s)
  PROVE  /\ task' \in [Tasks -> TaskRecords \cup {Unset}]
         /\ swarm' \in SwarmStatus \cup {Unset} /\ UNCHANGED runs
         /\ \A r \in Sessions : session'[r] # Unset => session'[r] \in SessionRecords
<1> USE DEF LifeTypeOK
<1>1. ASSUME NEW record, record # Unset => record \in SessionRecords, SetSession(s, record)
      PROVE  /\ UNCHANGED <<task, swarm, runs>>
             /\ \A r \in Sessions : session'[r] # Unset => session'[r] \in SessionRecords
  BY <1>1 DEF SetSession
<1>2. CASE SaveSession(s)
  <2>1. [agents |-> Listed, tasks |-> task, swarm |-> swarm] \in SessionRecords
    BY ListedType DEF SessionRecords, TablesInv
  <2>2. QED BY <1>1, <1>2, <2>1 DEF SaveSession
<1>3. CASE ImportSession(s)
  <2>1. PICK st \in {"idle", "terminated"}, k \in 0..MaxRetries :
          SetSession(s, [agents |-> [a \in Agents |-> IF a \in Residents THEN "none" ELSE st],
                         tasks |-> [t \in Tasks |-> [status |-> "failed", retries |-> k]],
                         swarm |-> Unset])
    BY <1>3 DEF ImportSession
  <2>2. [a \in Agents |-> IF a \in Residents THEN "none" ELSE st] \in [Agents -> AgentStatus]
    BY DEF AgentStatus
  <2>3. [t \in Tasks |-> [status |-> "failed", retries |-> k]]
          \in [Tasks -> TaskRecords \cup {Unset}]
    BY DEF TaskRecords
  <2>4. [agents |-> [a \in Agents |-> IF a \in Residents THEN "none" ELSE st],
         tasks |-> [t \in Tasks |-> [status |-> "failed", retries |-> k]],
         swarm |-> Unset] \in SessionRecords
    BY <2>2, <2>3 DEF SessionRecords
  <2>5. QED BY <1>1, <2>1, <2>4
<1>4. CASE DeleteSession(s)
  BY <1>1, <1>4 DEF DeleteSession
<1>5. CASE RestoreSession(s)
  <2>1. session[s] \in SessionRecords
    BY <1>5 DEF RestoreSession
  <2>2. QED BY <1>5, <2>1 DEF RestoreSession, SessionRecords
<1>6. QED BY <1>2, <1>3, <1>4, <1>5

LEMMA LifeTables == LifeTypeOK => TablesInv
BY DEF LifeTypeOK, TablesInv, SessionRecords

LEMMA LifeTypeStep == LifeTypeOK /\ [LifeNext]_lifeVars => LifeTypeOK'
<1> SUFFICES ASSUME LifeTypeOK, [LifeNext]_lifeVars PROVE LifeTypeOK'
  OBVIOUS
<1>1. TablesInv'
  BY LifeTables, TablesStep
<1>2. ASSUME UNCHANGED <<task, session, swarm, runs>> PROVE LifeTypeOK'
  BY <1>1, <1>2 DEF LifeTypeOK, TablesInv
<1>3. ASSUME NEW t \in Tasks,
             CreateTask(t) \/ CancelTask(t) \/ AssignTask(t) \/ Unassign(t) \/ RetryTask(t)
      PROVE  LifeTypeOK'
  BY <1>1, <1>3, TaskTypes DEF LifeTypeOK, TablesInv
<1>4. ASSUME NEW n, \/ InitSwarm \/ StartSwarm \/ FinishSwarm \/ StopSwarm
                    \/ ScaleSwarm(n) \/ CoordinateSwarm(n)
      PROVE  LifeTypeOK'
  BY <1>1, <1>4, SwarmTypes DEF LifeTypeOK, TablesInv
<1>5. ASSUME NEW s \in Sessions,
             SaveSession(s) \/ ImportSession(s) \/ DeleteSession(s) \/ RestoreSession(s)
      PROVE  LifeTypeOK'
  BY <1>1, <1>5, SessionTypes DEF LifeTypeOK, TablesInv
<1>6. ASSUME NEW a, ListAgents \/ SpawnAgent(a) \/ StopAgent(a) \/ RegisterResident(a)
      PROVE  LifeTypeOK'
  BY <1>2, <1>6 DEF ListAgents, SpawnAgent, StopAgent, RegisterResident
<1>7. CASE UNCHANGED lifeVars
  BY <1>2, <1>7 DEF lifeVars
<1>8. QED BY <1>3, <1>4, <1>5, <1>6, <1>7 DEF LifeNext

LEMMA LifeInitTypes == LifeInit => LifeTypeOK
BY LifeAssumption DEF LifeInit, LifeTypeOK, AgentStatus, SwarmStatus

------------------------------------------------------------------------------
(* Hive mind *)

(* What a subcommand has read has no more workers than it allows, as what    *)
(* is in the file.                                                           *)
Fits(h) == h # NoHive => Cardinality(h.workers) <= h.max

HiveInv == HiveTypeOK /\ FullVoteDecides /\ \A c \in Callers : Fits(copy[c])

LEMMA CountsAreNatural ==
  /\ IsFiniteSet(Voters)
  /\ \A S \in SUBSET WorkerIds : IsFiniteSet(S) /\ Cardinality(S) \in Nat
  /\ \A votes, vote : Count(votes, vote) \in Nat
<1>1. IsFiniteSet(Voters)
  BY HiveAssumption, FS_AddElement DEF Voters
<1>2. \A S \in SUBSET WorkerIds : IsFiniteSet(S) /\ Cardinality(S) \in Nat
  BY HiveAssumption, FS_Subset, FS_CardinalityType
<1>3. ASSUME NEW votes, NEW vote PROVE Count(votes, vote) \in Nat
  <2>1. {v \in Voters : votes[v] = vote} \in SUBSET Voters
    OBVIOUS
  <2>2. QED BY <1>1, <2>1, FS_Subset, FS_CardinalityType DEF Count
<1>4. QED BY <1>1, <1>2, <1>3

LEMMA Cardinalities ==
  ASSUME NEW S, IsFiniteSet(S), Cardinality(S) \in Nat
  PROVE  /\ \A T : IsFiniteSet(T) /\ Cardinality(T) \in Nat /\ S \cap T = {} =>
                   Cardinality(S \cup T) = Cardinality(S) + Cardinality(T)
         /\ \A x : Cardinality(S \cup {x}) <= Cardinality(S) + 1
         /\ \A x : Cardinality(S \ {x}) <= Cardinality(S)
<1>1. ASSUME NEW T, IsFiniteSet(T), Cardinality(T) \in Nat, S \cap T = {}
      PROVE  Cardinality(S \cup T) = Cardinality(S) + Cardinality(T)
  <2>1. Cardinality(S \cup T) = Cardinality(S) + Cardinality(T) - Cardinality(S \cap T)
    BY <1>1, FS_Union
  <2>2. Cardinality(S \cap T) = 0
    BY <1>1, FS_EmptySet
  <2>3. QED BY <1>1, <2>1, <2>2
<1>2. ASSUME NEW x PROVE Cardinality(S \cup {x}) <= Cardinality(S) + 1
  <2>1. Cardinality(S \cup {x}) = IF x \in S THEN Cardinality(S) ELSE Cardinality(S) + 1
    BY FS_AddElement
  <2>2. QED BY <2>1
<1>3. ASSUME NEW x PROVE Cardinality(S \ {x}) <= Cardinality(S)
  <2>1. Cardinality(S \ {x}) = IF x \in S THEN Cardinality(S) - 1 ELSE Cardinality(S)
    BY FS_RemoveElement
  <2>2. QED BY <2>1
<1>4. QED BY <1>1, <1>2, <1>3

(* With as many votes as members, one of the two thresholds is reached.      *)
LEMMA ResolveDecides ==
  ASSUME NEW h \in Hives, NEW p \in ProposalRecords, NEW votes \in Ballots
  PROVE  LET new == Resolve(h, p, votes) IN
           /\ new \in ProposalRecords
           /\ new.votes = votes /\ new.strategy = p.strategy
           /\ Count(votes, "accept") + Count(votes, "reject") >= Members(h) =>
                new.status = IF Accepted(h, p.strategy, votes) THEN "accepted" ELSE "rejected"
<1> DEFINE new == Resolve(h, p, votes)
<1>1. /\ new \in ProposalRecords
      /\ new.votes = votes /\ new.strategy = p.strategy
      /\ new.status = IF Accepted(h, p.strategy, votes) THEN "accepted"
                      ELSE IF Rejected(h, p.strategy, votes) THEN "rejected" ELSE p.status
  BY DEF Resolve, ProposalRecords
<1>2. ASSUME Count(votes, "accept") + Count(votes, "reject") >= Members(h),
             ~Accepted(h, p.strategy, votes)
      PROVE  Rejected(h, p.strategy, votes)
  <2>1. Count(votes, "accept") \in Nat /\ Count(votes, "reject") \in Nat /\ Members(h) \in Nat
    BY CountsAreNatural DEF Members, Hives
  <2>2. QED BY <1>2, <2>1 DEF Accepted, Rejected
<1>3. QED BY <1>1, <1>2

(* What the subcommands write is a hive that fits.                           *)
LEMMA WrittenFits ==
  ASSUME HiveInv, NEW c \in Callers, copy[c] # NoHive, NEW h \in Hives, WriteHive(c, h),
         Fits(h), voted' = NoProposal
  PROVE  HiveInv'
<1>1. HiveTypeOK'
  BY DEF HiveInv, HiveTypeOK, WriteHive
<1>2. FullVoteDecides'
  BY DEF WriteHive, FullVoteDecides, Fits
<1>3. \A d \in Callers : Fits(copy[d])'
  BY DEF HiveInv, HiveTypeOK, WriteHive, Fits
<1>4. QED BY <1>1, <1>2, <1>3 DEF HiveInv

LEMMA HiveStep == HiveInv /\ [HiveNext]_hiveVars => HiveInv'
<1> SUFFICES ASSUME HiveInv, [HiveNext]_hiveVars PROVE HiveInv'
  OBVIOUS
<1>t. HiveTypeOK /\ FullVoteDecides /\ \A c \in Callers : Fits(copy[c])
  BY DEF HiveInv
<1>h. ASSUME NEW c \in Callers, copy[c] # NoHive
      PROVE  /\ copy[c] \in Hives /\ copy[c].workers \in SUBSET WorkerIds
             /\ copy[c].max \in Nat /\ Cardinality(copy[c].workers) <= copy[c].max
             /\ IsFiniteSet(copy[c].workers) /\ Cardinality(copy[c].workers) \in Nat
  BY <1>t, <1>h, CountsAreNatural, HiveAssumption DEF HiveTypeOK, Hives, Fits
<1>1. ASSUME NEW c \in Callers, InitHive(c) PROVE HiveInv'
  <2>1. PICK m \in Capacities :
          hive' = [max |-> m, workers |-> {}, proposals |-> [p \in Proposals |-> NoProposal]]
    BY <1>1 DEF InitHive
  <2>2. hive' \in Hives
    BY <2>1 DEF Hives
  <2>3. Cardinality(hive'.workers) <= hive'.max
    BY <2>1, FS_EmptySet, HiveAssumption
  <2>4. HiveTypeOK'
    BY <1>1, <1>t, <2>2 DEF InitHive, HiveTypeOK
  <2>5. QED BY <1>1, <1>t, <2>3, <2>4 DEF InitHive, HiveInv, FullVoteDecides, Fits
<1>2. ASSUME NEW c \in Callers, RequireHive(c) \/ Refuse(c) PROVE HiveInv'
  <2>1. HiveTypeOK' /\ \A d \in Callers : Fits(copy[d])'
    BY <1>2, <1>t DEF RequireHive, Refuse, HiveTypeOK, FullVoteDecides, Fits
  <2>2. UNCHANGED <<hive, voted>>
    BY <1>2 DEF RequireHive, Refuse
  <2>3. FullVoteDecides'
    BY <1>t, <2>2 DEF FullVoteDecides, Members, Accepted, Count
  <2>4. QED BY <2>1, <2>3 DEF HiveInv
<1>3. ASSUME NEW c \in Callers, SpawnWorkers(c) PROVE HiveInv'
  <2>1. PICK new \in SUBSET (WorkerIds \ copy[c].workers) :
          /\ Cardinality(copy[c].workers) + Cardinality(new) <= copy[c].max
          /\ WriteHive(c, [copy[c] EXCEPT !.workers = @ \cup new])
    BY <1>3 DEF SpawnWorkers
  <2>2. copy[c] # NoHive /\ voted' = NoProposal
    BY <1>3 DEF SpawnWorkers
  <2>3. IsFiniteSet(new) /\ Cardinality(new) \in Nat
    BY CountsAreNatural
  <2>4. copy[c].workers \cap new = {}
    OBVIOUS
  <2>5. Cardinality(copy[c].workers \cup new) = Cardinality(copy[c].workers) + Cardinality(new)
    BY <1>h, <2>2, <2>3, <2>4, Cardinalities
  <2>6. [copy[c] EXCEPT !.workers = @ \cup new] \in Hives
    BY <1>h, <2>2 DEF Hives
  <2>7. Fits([copy[c] EXCEPT !.workers = @ \cup new])
    BY <1>h, <2>1, <2>2, <2>5 DEF Fits, Hives
  <2>8. QED BY <2>1, <2>2, <2>6, <2>7, WrittenFits
<1>4. ASSUME NEW c \in Callers, Join(c) PROVE HiveInv'
  <2>1. PICK a \in WorkerIds \ copy[c].workers :
          WriteHive(c, [copy[c] EXCEPT !.workers = @ \cup {a}])
    BY <1>4 DEF Join
  <2>2. /\ copy[c] # NoHive /\ voted' = NoProposal
        /\ Cardinality(copy[c].workers) < copy[c].max
    BY <1>4 DEF Join
  <2>r. Cardinality(copy[c].workers \cup {a}) <= Cardinality(copy[c].workers) + 1
    BY <1>h, <2>2, Cardinalities
  <2>n. Cardinality(copy[c].workers \cup {a}) \in Nat
    BY <1>h, <2>2, CountsAreNatural
  <2>3. Cardinality(copy[c].workers \cup {a}) <= copy[c].max
    BY <1>h, <2>2, <2>r, <2>n
  <2>4. [copy[c] EXCEPT !.workers = @ \cup {a}] \in Hives
    BY <1>h, <2>2 DEF Hives
  <2>5. Fits([copy[c] EXCEPT !.workers = @ \cup {a}])
    BY <1>h, <2>2, <2>3 DEF Fits, Hives
  <2>6. QED BY <2>1, <2>2, <2>4, <2>5, WrittenFits
<1>5. ASSUME NEW c \in Callers, LeaveHive(c) PROVE HiveInv'
  <2>1. PICK a \in copy[c].workers : WriteHive(c, [copy[c] EXCEPT !.workers = @ \ {a}])
    BY <1>5 DEF LeaveHive
  <2>2. copy[c] # NoHive /\ voted' = NoProposal
    BY <1>5 DEF LeaveHive
  <2>r. Cardinality(copy[c].workers \ {a}) <= Cardinality(copy[c].workers)
    BY <1>h, <2>2, Cardinalities
  <2>n. Cardinality(copy[c].workers \ {a}) \in Nat
    BY <1>h, <2>2, CountsAreNatural
  <2>3. Cardinality(copy[c].workers \ {a}) <= copy[c].max
    BY <1>h, <2>2, <2>r, <2>n
  <2>4. [copy[c] EXCEPT !.workers = @ \ {a}] \in Hives
    BY <1>h, <2>2 DEF Hives
  <2>5. Fits([copy[c] EXCEPT !.workers = @ \ {a}])
    BY <1>h, <2>2, <2>3 DEF Fits, Hives
  <2>6. QED BY <2>1, <2>2, <2>4, <2>5, WrittenFits
<1>6. ASSUME NEW c \in Callers, Propose(c) PROVE HiveInv'
  <2>1. PICK p \in Proposals, s \in Strategies :
          WriteHive(c, [copy[c] EXCEPT !.proposals[p] =
            [status |-> "open", strategy |-> s, votes |-> [v \in Voters |-> "none"]]])
    BY <1>6 DEF Propose
  <2> DEFINE new == [status |-> "open", strategy |-> s, votes |-> [v \in Voters |-> "none"]]
             h   == [copy[c] EXCEPT !.proposals[p] = new]
  <2>2. copy[c] # NoHive /\ voted' = NoProposal
    BY <1>6 DEF Propose
  <2>3. new \in ProposalRecords
    BY DEF ProposalRecords, Ballots
  <2>4. h \in Hives /\ h.workers = copy[c].workers /\ h.max = copy[c].max
    BY <1>h, <2>2, <2>3 DEF Hives
  <2>5. Fits(h)
    BY <1>h, <2>2, <2>4 DEF Fits
  <2>6. WriteHive(c, h)
    BY <2>1
  <2>7. QED BY <2>2, <2>4, <2>5, <2>6, WrittenFits
<1>7. ASSUME NEW c \in Callers, Vote(c) PROVE HiveInv'
  <2>1. PICK p \in Proposals, v \in Voters, vote \in {"accept", "reject"} :
          /\ copy[c].proposals[p] # NoProposal
          /\ WriteHive(c, [copy[c] EXCEPT !.proposals[p] =
               Resolve(copy[c], copy[c].proposals[p],
                       [copy[c].proposals[p].votes EXCEPT ![v] = vote])])
          /\ voted' = p
    BY <1>7 DEF Vote
  <2> DEFINE old   == copy[c].proposals[p]
             votes == [old.votes EXCEPT ![v] = vote]
             new   == Resolve(copy[c], old, votes)
             h     == [copy[c] EXCEPT !.proposals[p] = new]
  <2>2. copy[c] # NoHive /\ copy[c] \in Hives
    BY <1>7, <1>h DEF Vote
  <2>3. old \in ProposalRecords
    BY <2>1, <2>2 DEF Hives
  <2>4. votes \in Ballots
    BY <2>3 DEF ProposalRecords, Ballots
  <2>5. /\ new \in ProposalRecords
        /\ new.votes = votes /\ new.strategy = old.strategy
        /\ Count(votes, "accept") + Count(votes, "reject") >= Members(copy[c]) =>
             new.status = IF Accepted(copy[c], old.strategy, votes) THEN "accepted" ELSE "rejected"
    BY <2>2, <2>3, <2>4, ResolveDecides
  <2> HIDE DEF new, votes
  <2>6. /\ h \in Hives /\ h.workers = copy[c].workers /\ h.max = copy[c].max
        /\ h.proposals[p] = new
    BY <2>2, <2>5 DEF Hives
  <2>7. hive' = h /\ voted' = p /\ copy' = [copy EXCEPT ![c] = NoHive]
    BY <2>1 DEF WriteHive, new, votes
  <2> HIDE DEF h, old
  <2>8. HiveTypeOK'
    BY <1>t, <2>6, <2>7 DEF HiveTypeOK
  <2>9. \A d \in Callers : Fits(copy[d])'
    BY <1>t, <2>7 DEF HiveTypeOK, Fits
  <2>10. Members(h) = Members(copy[c]) /\
         Accepted(h, old.strategy, votes) = Accepted(copy[c], old.strategy, votes)
    BY <2>6 DEF Members, Accepted
  <2>11. Cardinality(hive'.workers) <= hive'.max
    BY <1>h, <2>2, <2>6, <2>7
  <2>12. LET q == hive'.proposals[p] IN
           Count(q.votes, "accept") + Count(q.votes, "reject") >= Members(hive') =>
             q.status = IF Accepted(hive', q.strategy, q.votes) THEN "accepted" ELSE "rejected"
    BY <2>5, <2>6, <2>7, <2>10
  <2>13. FullVoteDecides'
    BY <2>7, <2>11, <2>12 DEF FullVoteDecides, Members, Accepted, Count
  <2>14. QED BY <2>8, <2>9, <2>13 DEF HiveInv
<1>8. ASSUME NEW c \in Callers, WriteRest(c) PROVE HiveInv'
  BY <1>8, <1>h, <1>t, WrittenFits DEF WriteRest
<1>9. CASE UNCHANGED hiveVars
  BY <1>9, <1>t DEF hiveVars, HiveInv, HiveTypeOK, FullVoteDecides, Members, Accepted, Count, Fits
<1>10. QED
  BY <1>1, <1>2, <1>3, <1>4, <1>5, <1>6, <1>7, <1>8, <1>9 DEF HiveNext

LEMMA HiveInitInv == HiveInit => HiveInv
BY DEF HiveInit, HiveInv, HiveTypeOK, FullVoteDecides, Fits

(* The invariant of the hive mind.                                           *)
THEOREM HiveInvAlways == ProjectSpec => []HiveInv
<1>1. ProjectInit => HiveInv
  BY HiveInitInv DEF ProjectInit
<1>2. HiveInv /\ [ProjectNext]_vars => HiveInv'
  BY PartSteps, HiveStep
<1>3. QED BY <1>1, <1>2, PTL DEF ProjectSpec

(* A proposal with as many votes as the hive has members is decided, for any *)
(* voters, strategies and callers, though members come and go meanwhile.     *)
THEOREM FullVotesDecide == ProjectSpec => []FullVoteDecides
<1>1. HiveInv => FullVoteDecides
  BY DEF HiveInv
<1>2. QED BY <1>1, HiveInvAlways, PTL

------------------------------------------------------------------------------
(* `dual run` *)

NotStarted == \A w \in Workers : work[w] = "none"
AllIsolated == isolated => recorded /\ \A w \in Workers : worktree[w]

(* Where a run is, what it has prepared and which workers have ended well.   *)
DualPlaces ==
  /\ phase \in {"prepare", "cleanup", "memory"} => NotStarted
  /\ phase = "over" <=> result # "none"
  /\ phase = "prepare" => next >= 1 /\ \A w \in Workers : w < next => worktree[w]
  /\ phase \in {"memory", "run"} => AllIsolated
  /\ phase = "memory" => next = 1
  /\ phase = "run" =>
       /\ \E k \in Nat : next = 1 + batch * k
       /\ \A w \in Workers : /\ w < next => work[w] = "ok"
                             /\ next + batch <= w => work[w] = "none"
  /\ \A w \in Workers : work[w] = "stray" => next <= w /\ w < next + batch

DualOver ==
  /\ phase = "over" => \A w \in Workers : work[w] \notin Busy \cup {"thread"}
  /\ result = "success" => \A w \in Workers : work[w] = "ok" /\ (isolated => worktree[w])

(* A worker has started only after the batches before its own.               *)
InOrder ==
  \A w \in Workers : work[w] # "none" =>
    /\ isolated => recorded
    /\ \A v \in Workers : (v - 1) \div batch < (w - 1) \div batch => work[v] = "ok"

DualInv == DualTypeOK /\ DualPlaces /\ DualOver /\ InOrder

LEMMA DualNumbers ==
  /\ \A w \in Workers : w \in Nat /\ 1 <= w /\ w <= NumWorkers
  /\ DualTypeOK => batch \in Nat \ {0} /\ batch <= MaxWriters /\ next \in Nat
BY DualAssumption DEF Workers, DualTypeOK

(* The workers of the batches before the one that begins at 1 + batch * k.   *)
LEMMA EarlierBatches ==
  ASSUME NEW b \in Nat \ {0}, NEW k \in Nat, NEW v \in Nat \ {0}, NEW w \in Nat \ {0},
         w < 1 + b * k + b, (v - 1) \div b < (w - 1) \div b
  PROVE  v < 1 + b * k
<1>1. ASSUME NEW a \in Nat
      PROVE  a \div b \in Nat /\ b * (a \div b) <= a /\ a < b * (a \div b) + b
  OBVIOUS
<1>2. ASSUME NEW i \in Nat, NEW j \in Nat, i < j PROVE b * i + b <= b * j
  BY <1>2
<1>3. b * k \in Nat
  OBVIOUS
<1> DEFINE i == (v - 1) \div b
           j == (w - 1) \div b
<1>4. i \in Nat /\ j \in Nat /\ b * i \in Nat /\ b * j \in Nat
  BY <1>1
<1>5. b * j <= w - 1 /\ v - 1 < b * i + b
  BY <1>1
<1>6. b * i + b <= b * j
  BY <1>2, <1>4
<1> HIDE DEF i, j
<1>7. b * j < b * k + b
  BY <1>3, <1>4, <1>5
<1>8. ~(k < j)
  BY <1>2, <1>3, <1>4, <1>7
<1>9. i < j
  BY DEF i, j
<1>10. j <= k /\ i + 1 <= k
  BY <1>4, <1>8, <1>9
<1>11. b * i + b <= b * k
  BY <1>2, <1>4, <1>10
<1>12. QED BY <1>3, <1>4, <1>5, <1>11

LEMMA DualInitInv == DualInit => DualInv
<1> SUFFICES ASSUME DualInit PROVE DualInv
  OBVIOUS
<1>1. batch \in 1..MaxWriters /\ 1 \in 0..(NumWorkers + MaxWriters)
  BY DualAssumption DEF DualInit
<1>2. DualTypeOK
  BY <1>1 DEF DualInit, DualTypeOK
<1>3. DualPlaces
  BY DualNumbers DEF DualInit, DualPlaces, NotStarted, AllIsolated
<1>4. DualOver /\ InOrder
  BY DEF DualInit, DualOver, InOrder, Busy
<1>5. QED BY <1>2, <1>3, <1>4 DEF DualInv

(* The steps before the batches.                                             *)
LEMMA PrepareStep ==
  ASSUME DualInv,
         \/ RefuseRepository \/ AddWorktree \/ AddFails \/ CleanUp \/ CleanedUp \/ Record
         \/ InitializeMemory
  PROVE  DualInv'
<1> USE DEF DualInv
<1>t. DualTypeOK'
  <2>1. CASE RefuseRepository \/ CleanedUp \/ InitializeMemory
    BY <2>1 DEF RefuseRepository, CleanedUp, InitializeMemory, Fail, config, trees, DualTypeOK
  <2>2. CASE AddWorktree
    BY <2>2, DualNumbers, DualAssumption DEF AddWorktree, config, DualTypeOK, Workers
  <2>3. CASE AddFails
    <3>1. branch' \in [Workers -> BOOLEAN]
      BY <2>3 DEF AddFails, DualTypeOK
    <3>2. QED BY <2>3, <3>1, DualNumbers, DualAssumption DEF AddFails, config, DualTypeOK
  <2>4. CASE CleanUp
    <3>1. branch' \in [Workers -> BOOLEAN] /\ worktree' \in [Workers -> BOOLEAN]
      BY <2>4 DEF CleanUp, DualTypeOK
    <3>2. QED BY <2>4, <3>1, DualNumbers, DualAssumption DEF CleanUp, config, DualTypeOK
  <2>5. CASE Record
    <3>1. 1 \in 0..(NumWorkers + MaxWriters)
      BY DualAssumption
    <3>2. next' \in 0..(NumWorkers + MaxWriters)
      BY <2>5, <3>1 DEF Record
    <3>3. QED BY <2>5, <3>2 DEF Record, Fail, config, DualTypeOK
  <2>6. QED BY <2>1, <2>2, <2>3, <2>4, <2>5
<1>n. UNCHANGED <<batch, isolated, work>> /\ NotStarted
  BY DEF RefuseRepository, AddWorktree, AddFails, CleanUp, CleanedUp, Record, InitializeMemory,
         config, DualPlaces
<1>o. InOrder' /\ NotStarted'
  BY <1>n DEF InOrder, NotStarted
<1>s. \A w \in Workers : work'[w] # "stray"
  BY <1>o DEF NotStarted
<1>p. DualPlaces'
  <2>1. CASE RefuseRepository \/ CleanedUp
    BY <1>o, <1>s, <2>1 DEF RefuseRepository, CleanedUp, Fail, DualPlaces
  <2>2. CASE AddWorktree
    <3>1. \A w \in Workers : w < next' => worktree'[w]
      BY <2>2, DualNumbers DEF AddWorktree, DualPlaces, DualTypeOK
    <3>2. QED BY <1>o, <1>s, <2>2, <3>1, DualNumbers DEF AddWorktree, DualPlaces
  <2>3. CASE AddFails \/ CleanUp
    BY <1>o, <1>s, <2>3 DEF AddFails, CleanUp, DualPlaces
  <2>4. CASE Record
    <3>1. \A w \in Workers : worktree'[w]
      BY <2>4, DualNumbers, DualAssumption DEF Record, DualPlaces, DualTypeOK
    <3>2. QED BY <1>o, <1>s, <2>4, <3>1 DEF Record, Fail, DualPlaces, AllIsolated
  <2>5. CASE InitializeMemory
    <3>1. next' = 1 /\ AllIsolated' /\ next' = 1 + batch' * 0
      BY <1>n, <2>5, <1>t, DualNumbers
         DEF InitializeMemory, DualPlaces, AllIsolated, config, trees, DualTypeOK
    <3>2. \A w \in Workers : ~(w < next') /\ work'[w] = "none"
      BY <1>o, <3>1, DualNumbers DEF NotStarted
    <3>3. QED BY <1>o, <1>s, <2>5, <3>1, <3>2 DEF InitializeMemory, Fail, DualPlaces
  <2>6. QED BY <2>1, <2>2, <2>3, <2>4, <2>5
<1>v. DualOver'
  <2>1. result' # "success"
    BY DEF RefuseRepository, AddWorktree, AddFails, CleanUp, CleanedUp, Record,
           InitializeMemory, Fail, DualPlaces
  <2>2. QED BY <1>o, <2>1 DEF NotStarted, DualOver, Busy
<1>q. QED BY <1>t, <1>o, <1>p, <1>v

LEMMA BatchMembers ==
  ASSUME DualTypeOK
  PROVE  /\ Batch \subseteq Workers
         /\ \A w \in Workers : w < next \/ w \in Batch \/ next + batch <= w
         /\ \A w \in Batch : next <= w /\ w < next + batch
BY DualNumbers DEF Batch

(* The steps of the batches.                                                 *)
LEMMA BatchStep ==
  ASSUME DualInv,
         \/ StartBatch \/ NextBatch \/ Succeed
         \/ \E w \in Workers :
              Launch(w) \/ Exit(w) \/ Drained(w) \/ TimeOutChild(w) \/ WaitFails(w)
  PROVE  DualInv'
<1> USE DEF DualInv
<1>r. /\ phase = "run" /\ result = "none" /\ AllIsolated
      /\ UNCHANGED <<batch, isolated, worktree, branch, recorded>>
  BY DEF StartBatch, NextBatch, Succeed, Launch, Exit, Drained, TimeOutChild, WaitFails, Turn, config,
         trees, DualPlaces
<1>a. AllIsolated'
  BY <1>r DEF AllIsolated
<1>k. PICK k \in Nat : next = 1 + batch * k
  BY <1>r DEF DualPlaces
<1>e. ASSUME NEW w \in Workers, NEW v \in Workers, w < next + batch,
             (v - 1) \div batch < (w - 1) \div batch
      PROVE  v < next
  BY <1>e, <1>k, DualNumbers, EarlierBatches
<1>1. CASE StartBatch
  <2>1. /\ UNCHANGED <<phase, next, result>>
        /\ work' = [w \in Workers |-> IF w \in Batch THEN "thread" ELSE work[w]]
    BY <1>1 DEF StartBatch
  <2>2. DualTypeOK'
    BY <1>1, <2>1 DEF StartBatch, config, trees, DualTypeOK
  <2>3. DualPlaces' /\ DualOver'
    BY <1>r, <1>a, <1>k, <2>1, BatchMembers, DualNumbers DEF DualPlaces, DualOver
  <2>4. InOrder'
    <3>1. ASSUME NEW w \in Workers, work'[w] # "none", NEW v \in Workers,
                 (v - 1) \div batch < (w - 1) \div batch
          PROVE  work'[v] = "ok"
      <4>1. CASE w \in Batch
        <5>1. v < next
          BY <1>e, <3>1, <4>1, BatchMembers
        <5>2. QED BY <1>r, <2>1, <5>1, BatchMembers, DualNumbers DEF DualPlaces
      <4>2. CASE w \notin Batch
        <5>1. work[v] = "ok"
          BY <2>1, <3>1, <4>2 DEF InOrder
        <5>2. v \notin Batch
          BY <1>1, <5>1, BatchMembers DEF StartBatch
        <5>3. QED BY <2>1, <5>1, <5>2
      <4>3. QED BY <4>1, <4>2
    <3>2. QED BY <1>r, <3>1 DEF InOrder, AllIsolated
  <2>5. QED BY <2>2, <2>3, <2>4
<1>2. CASE NextBatch /\ phase' = "over"
  <2>1. /\ UNCHANGED <<next, work>> /\ result' = "failure"
        /\ \A w \in Batch : Settled(w)
    BY <1>2, <1>r DEF NextBatch, Fail
  <2>2. DualTypeOK'
    BY <1>2, <2>1, <1>r DEF NextBatch, config, trees, DualTypeOK
  <2>3. \A w \in Workers : work[w] \notin Busy \cup {"thread"}
    BY <1>r, <2>1, BatchMembers DEF DualPlaces, Settled, Failed, Busy
  <2>4. QED
    BY <1>2, <1>r, <2>1, <2>2, <2>3 DEF DualPlaces, DualOver, InOrder
<1>3. CASE NextBatch /\ phase' # "over"
  <2>1. /\ UNCHANGED <<phase, result, work>> /\ next' = next + batch
        /\ Batch # {} /\ \A w \in Batch : work[w] = "ok"
    BY <1>3 DEF NextBatch, Fail
  <2>2. DualTypeOK'
    <3>1. next <= NumWorkers
      BY <2>1, BatchMembers, DualNumbers, DualAssumption
    <3>2. next' \in 0..(NumWorkers + MaxWriters)
      BY <2>1, <3>1, DualNumbers, DualAssumption
    <3>3. QED BY <1>r, <2>1, <3>2 DEF DualTypeOK
  <2>3. \A w \in Workers : /\ w < next' => work'[w] = "ok"
                           /\ next' + batch' <= w => work'[w] = "none"
    BY <1>r, <2>1, BatchMembers, DualNumbers DEF DualPlaces
  <2>4. \E j \in Nat : next' = 1 + batch' * j
    <3>1. next + batch = 1 + batch * (k + 1)
      BY <1>k, DualNumbers
    <3>2. QED BY <1>r, <2>1, <3>1
  <2>5. QED BY <1>r, <1>a, <2>1, <2>2, <2>3, <2>4 DEF DualPlaces, DualOver, InOrder
<1>4. CASE Succeed
  <2>1. /\ UNCHANGED <<next, work>> /\ phase' = "over" /\ result' = "success" /\ Batch = {}
    BY <1>4 DEF Succeed
  <2>2. DualTypeOK'
    BY <1>r, <2>1 DEF DualTypeOK
  <2>3. ASSUME NEW w \in Workers PROVE w < next
    <3>1. ASSUME next + batch <= w PROVE FALSE
      <4>1. next \in Workers
        BY <1>k, <3>1, DualNumbers, DualAssumption DEF Workers
      <4>2. next \in Batch
        BY <4>1, DualNumbers DEF Batch
      <4>3. QED BY <2>1, <4>2
    <3>2. QED BY <2>1, <3>1, BatchMembers
  <2>4. \A w \in Workers : work[w] = "ok" /\ (isolated => worktree[w])
    BY <1>r, <2>3 DEF DualPlaces, AllIsolated
  <2>5. QED BY <1>r, <2>1, <2>2, <2>4 DEF DualPlaces, DualOver, InOrder, Busy
<1>5. ASSUME NEW w \in Workers,
             Launch(w) \/ Exit(w) \/ Drained(w) \/ TimeOutChild(w) \/ WaitFails(w)
      PROVE  DualInv'
  <2>1. PICK from \in {"thread"} \cup Busy,
          to \in {"running", "drain", "drainbad", "ok", "failed", "stray"} :
          work[w] = from /\ work' = [work EXCEPT ![w] = to]
    BY <1>5 DEF Launch, Exit, Drained, TimeOutChild, WaitFails, Turn, Busy
  <2>2. UNCHANGED <<phase, next, result>>
    BY <1>5 DEF Launch, Exit, Drained, TimeOutChild, WaitFails
  <2>3. DualTypeOK'
    BY <1>r, <2>1, <2>2 DEF DualTypeOK, Busy
  <2>4. work[w] \notin {"none", "ok"} /\ work'[w] # "none"
    BY <2>1 DEF Busy, DualTypeOK
  <2>5. \A v \in Workers : v # w => work'[v] = work[v]
    BY <2>1 DEF DualTypeOK
  <2>6. next <= w /\ w < next + batch
    BY <1>r, <2>4, DualNumbers DEF DualPlaces
  <2>7. QED
    BY <1>r, <1>a, <2>2, <2>3, <2>4, <2>5, <2>6 DEF DualPlaces, DualOver, InOrder
<1>6. QED BY <1>1, <1>2, <1>3, <1>4, <1>5

LEMMA DualStep == DualInv /\ [DualNext]_dualVars => DualInv'
<1>1. ASSUME DualInv, UNCHANGED dualVars PROVE DualInv'
  BY <1>1
     DEF dualVars, DualInv, DualTypeOK, DualPlaces, NotStarted, AllIsolated, DualOver, InOrder
<1>2. QED BY <1>1, PrepareStep, BatchStep DEF DualNext

LEMMA DualTruth == DualInv => RunTellsTruth
<1> SUFFICES ASSUME DualInv PROVE RunTellsTruth
  OBVIOUS
<1> USE DEF DualInv
<1> DEFINE B == {w \in Workers : work[w] \in Busy \cup {"stray"}}
<1>1. Cardinality(B) <= MaxWriters
  <2>1. B \in SUBSET (next..(next + batch - 1))
    BY DualNumbers DEF DualPlaces, DualOver, DualTypeOK, NotStarted, Busy
  <2>2. /\ IsFiniteSet(next..(next + batch - 1))
        /\ Cardinality(next..(next + batch - 1)) = batch
    <3>1. next \in Int /\ next + batch - 1 \in Int /\ ~(next > next + batch - 1)
      BY DualNumbers
    <3>2. Cardinality(next..(next + batch - 1)) = (next + batch - 1) - next + 1
      BY <3>1, FS_Interval
    <3>3. QED BY <3>1, <3>2, FS_Interval, DualNumbers
  <2>3. Cardinality(B) <= batch /\ Cardinality(B) \in Nat
    BY <2>1, <2>2, FS_Subset, FS_CardinalityType
  <2>4. QED BY <2>3, DualNumbers, DualAssumption
<1>2. result # "none" => \A w \in Workers : work[w] \notin Busy \cup {"thread"}
  BY DEF DualPlaces, DualOver
<1>3. QED BY <1>1, <1>2 DEF RunTellsTruth, DualOver, InOrder

(* The invariant of `dual run`.                                              *)
THEOREM DualInvAlways == ProjectSpec => []DualInv
<1>1. ProjectInit => DualInv
  BY DualInitInv DEF ProjectInit
<1>2. DualInv /\ [ProjectNext]_vars => DualInv'
  BY PartSteps, DualStep
<1>3. QED BY <1>1, <1>2, PTL DEF ProjectSpec

(* What a dual run reports is what its workers did, for any number of        *)
(* workers and any size of the batches.                                      *)
THEOREM RunsTellTruth == ProjectSpec => []RunTellsTruth
BY DualTruth, DualInvAlways, PTL

------------------------------------------------------------------------------
(* Deployments *)

DeployInv == DeployTypeOK /\ RollbackSettles

(* A non-empty set of positions has a greatest one.                          *)
LEMMA MaxOfPositions ==
  ASSUME NEW n \in Nat, NEW S \in SUBSET (1..n), S # {}
  PROVE  Max(S) \in S /\ \A i \in S : i <= Max(S)
<1> DEFINE R == OpToRel(<, Nat)
           T == {n - i : i \in S}
<1>0. \A i \in S : i \in Nat /\ n - i \in Nat
  OBVIOUS
<1>1. T \subseteq Nat /\ T # {}
  BY <1>0
<1>2. \E x \in T : \A y \in T : ~(<<y, x>> \in R)
  <2>1. IsWellFoundedOn(R, Nat)
    BY NatLessThanWellFounded
  <2> HIDE DEF R, T
  <2>2. QED BY <1>1, <2>1, WFMin
<1>3. PICK i \in S : \A k \in S : ~(<<n - k, n - i>> \in R)
  BY <1>2
<1>r. \A x, y \in Nat : <<x, y>> \in R <=> x < y
  BY DEF OpToRel
<1> HIDE DEF R
<1>4. \A k \in S : k <= i
  <2> TAKE k \in S
  <2>1. n - k \in Nat /\ n - i \in Nat /\ k \in Nat /\ i \in Nat
    BY <1>0
  <2>2. ~(<<n - k, n - i>> \in R)
    BY <1>3
  <2>3. ~(n - k < n - i)
    BY <1>r, <2>1, <2>2
  <2>4. QED BY <2>1, <2>3
<1>5. \E x \in S : \A y \in S : x >= y
  BY <1>4
<1>6. QED BY <1>5 DEF Max

LEMMA MaxIs ==
  ASSUME NEW n \in Nat, NEW S \in SUBSET (1..n), NEW m \in S, \A i \in S : i <= m
  PROVE  Max(S) = m
<1>0. \A i \in S : i \in Int
  OBVIOUS
<1>1. Max(S) \in S /\ m <= Max(S)
  BY MaxOfPositions
<1>2. Max(S) <= m /\ Max(S) \in Int /\ m \in Int
  BY <1>0, <1>1
<1>3. QED BY <1>1, <1>2

LEMMA NewestAppended ==
  ASSUME NEW n \in Nat, NEW e, NEW S, S \subseteq 1..n, NEW x,
         Deployed(e)' = (S \ {x}) \cup {n + 1}
  PROVE  Newest(e)' = n + 1
<1> DEFINE D == (S \ {x}) \cup {n + 1}
<1>0. \A i \in S : i \in Int /\ 1 <= i /\ i <= n
  OBVIOUS
<1>1. n + 1 \in Nat /\ n + 1 \in D /\ \A i \in D : i \in 1..(n + 1) /\ i <= n + 1
  BY <1>0
<1> HIDE DEF D
<1>2. Max(D) = n + 1
  <2>1. D \in SUBSET (1..(n + 1))
    BY <1>1
  <2>2. QED BY <1>1, <2>1, MaxIs
<1>3. QED BY <1>2 DEF Newest, D

(* A history has positions 1 to its length.                                  *)
LEMMA Positions ==
  ASSUME DeployTypeOK
  PROVE  /\ Len(history) \in Nat
         /\ \A e \in Envs : /\ AllOf(e) \subseteq 1..Len(history)
                            /\ Deployed(e) \subseteq AllOf(e)
                            /\ IsFiniteSet(Deployed(e)) /\ Cardinality(Deployed(e)) \in Nat
         /\ \A i \in 1..Len(history) : history[i] \in DeployRecord
<1>1. Len(history) \in Nat /\ \A i \in 1..Len(history) : history[i] \in DeployRecord
  BY DEF DeployTypeOK
<1>2. ASSUME NEW e \in Envs
      PROVE  /\ AllOf(e) \subseteq 1..Len(history)
             /\ Deployed(e) \subseteq AllOf(e)
             /\ IsFiniteSet(Deployed(e)) /\ Cardinality(Deployed(e)) \in Nat
  <2>1. AllOf(e) \subseteq 1..Len(history) /\ Deployed(e) \subseteq AllOf(e)
    BY DEF AllOf, Deployed
  <2>2. IsFiniteSet(1..Len(history))
    BY <1>1, FS_Interval
  <2>3. QED BY <2>1, <2>2, FS_Subset, FS_CardinalityType
<1>3. QED BY <1>1, <1>2

(* What an appended record, and the mark on an older one, do to the sets of  *)
(* positions.                                                                *)
MarkedCopy(old, marked) ==
  /\ old \in Seq(DeployRecord) /\ Len(old) = Len(history)
  /\ \A i \in 1..Len(history) :
       /\ old[i].env = history[i].env
       /\ old[i].version = history[i].version
       /\ old[i].steps = history[i].steps
       /\ old[i].status = IF i = marked THEN "rolled-back" ELSE history[i].status

LEMMA AppendedPositions ==
  ASSUME DeployTypeOK, NEW old, NEW marked, MarkedCopy(old, marked),
         NEW e \in Envs, NEW v \in Versions, NEW k \in 0..MaxSteps,
         history' = Append(old, NewRecord(e, v, k))
  PROVE  /\ history' \in Seq(DeployRecord)
         /\ Len(history') = Len(history) + 1
         /\ \A i \in 1..Len(history) : /\ history'[i].version = history[i].version
                                       /\ history'[i].steps = history[i].steps
         /\ history'[Len(history) + 1] = NewRecord(e, v, k)
         /\ AllOf(e)' = AllOf(e) \cup {Len(history) + 1}
         /\ Deployed(e)' = (Deployed(e) \ {marked}) \cup {Len(history) + 1}
         /\ \A d \in Envs \ {e} : AllOf(d)' = AllOf(d) /\ Deployed(d)' = Deployed(d) \ {marked}
<1> USE DEF MarkedCopy
<1> DEFINE n == Len(history)
<1>1. n \in Nat /\ NewRecord(e, v, k) \in DeployRecord
  BY DEF DeployTypeOK, NewRecord, DeployRecord
<1>2. /\ history' \in Seq(DeployRecord)
      /\ Len(history') = n + 1
      /\ history'[n + 1] = NewRecord(e, v, k)
      /\ \A i \in 1..n : history'[i] = old[i]
  BY <1>1
<1>3. 1..(n + 1) = (1..n) \cup {n + 1} /\ ~(n + 1 \in 1..n)
  BY <1>1
<1>4. ASSUME NEW d \in Envs
      PROVE  AllOf(d)' = IF d = e THEN AllOf(d) \cup {n + 1} ELSE AllOf(d)
  BY <1>2, <1>3 DEF AllOf, NewRecord
<1>5. ASSUME NEW d \in Envs
      PROVE  Deployed(d)' = (Deployed(d) \ {marked}) \cup (IF d = e THEN {n + 1} ELSE {})
  <2>1. \A i : i \in Deployed(d)' <=> /\ i \in 1..(n + 1)
                                      /\ history'[i].env = d /\ history'[i].status = "deployed"
    BY <1>2 DEF Deployed
  <2>2. \A i \in 1..n : i \in Deployed(d)' <=> i \in Deployed(d) \ {marked}
    BY <1>2, <1>3, <2>1 DEF Deployed
  <2>3. n + 1 \in Deployed(d)' <=> d = e
    BY <1>2, <1>3, <2>1 DEF NewRecord
  <2>4. \A i : i \in Deployed(d)' => i \in 1..n \/ i = n + 1
    BY <1>3, <2>1
  <2>5. Deployed(d) \subseteq 1..n
    BY DEF Deployed
  <2>6. QED BY <2>2, <2>3, <2>4, <2>5
<1>6. QED BY <1>2, <1>4, <1>5

(* An environment whose records do not change stays settled.                 *)
LEMMA SettledStays ==
  ASSUME DeployInv, NEW d \in Envs, AllOf(d)' = AllOf(d), Deployed(d)' = Deployed(d),
         \A i \in 1..Len(history) : /\ history'[i].version = history[i].version
                                    /\ history'[i].steps = history[i].steps,
         AllOf(d) # {}
  PROVE  /\ Deployed(d)' # {}
         /\ \A i \in AllOf(d)' : i <= Newest(d)'
         /\ history'[Newest(d)'].steps = 1 =>
              /\ Cardinality(Deployed(d)') >= 2
              /\ history'[Previous(d)'].version = history'[Newest(d)'].version
<1>1. Newest(d)' = Newest(d) /\ Previous(d)' = Previous(d)
  BY DEF Newest, Previous
<1>2. Deployed(d) # {} /\ Newest(d) \in 1..Len(history)
  BY Positions, MaxOfPositions DEF DeployInv, RollbackSettles, Newest
<1>3. ASSUME Cardinality(Deployed(d)) >= 2
      PROVE  Previous(d) \in 1..Len(history)
  <2>1. Deployed(d) \ {Newest(d)} # {}
    <3>0. Cardinality({Newest(d)}) = 1
      BY FS_Singleton
    <3>1. ASSUME Deployed(d) = {Newest(d)} PROVE FALSE
      <4>1. Cardinality(Deployed(d)) = 1
        BY <3>0, <3>1, Zenon
      <4>2. QED BY <1>3, <4>1
    <3>2. QED BY <1>2, <3>1
  <2>2. QED BY <2>1, Positions, MaxOfPositions DEF DeployInv, Previous
<1>4. QED BY <1>1, <1>2, <1>3 DEF DeployInv, RollbackSettles

LEMMA DeployStep == DeployInv /\ [DeployNext]_deployVars => DeployInv'
<1> SUFFICES ASSUME DeployInv, [DeployNext]_deployVars PROVE DeployInv'
  OBVIOUS
<1>t. DeployTypeOK /\ RollbackSettles
  BY DEF DeployInv
<1> DEFINE n == Len(history)
<1>s. ASSUME UNCHANGED history, environments' \subseteq Envs PROVE DeployInv'
  <2>1. \A e \in Envs : /\ AllOf(e)' = AllOf(e) /\ Deployed(e)' = Deployed(e)
                        /\ Newest(e)' = Newest(e) /\ Previous(e)' = Previous(e)
    BY <1>s DEF AllOf, Deployed, Newest, Previous
  <2>2. QED BY <1>s, <1>t, <2>1 DEF DeployInv, DeployTypeOK, RollbackSettles
<1>1. ASSUME NEW e \in Envs, NEW v \in Versions, Deploy(e, v) PROVE DeployInv'
  <2>0. PICK k \in 0..MaxSteps : k = 0
    BY StepsAssumption
  <2>r. NewRecord(e, v, 0) = NewRecord(e, v, k)
    BY <2>0, Zenon
  <2>1. /\ history \in Seq(DeployRecord) /\ n \in Nat
        /\ history' = Append(history, NewRecord(e, v, k))
        /\ environments' \subseteq Envs
    <3>1. history' = Append(history, NewRecord(e, v, k))
      BY <1>1, <2>r, Zenon DEF Deploy
    <3>2. environments' \subseteq Envs
      BY <1>1, <1>t DEF Deploy, DeployTypeOK
    <3>3. QED BY <1>t, <3>1, <3>2 DEF DeployTypeOK
  <2>2. MarkedCopy(history, n + 2)
    <3>1. n + 2 \notin 1..n
      BY <2>1
    <3>2. QED BY <2>1, <3>1 DEF MarkedCopy
  <2>3. /\ history' \in Seq(DeployRecord)
        /\ \A i \in 1..n : /\ history'[i].version = history[i].version
                           /\ history'[i].steps = history[i].steps
        /\ history'[n + 1] = NewRecord(e, v, k)
        /\ AllOf(e)' = AllOf(e) \cup {n + 1}
        /\ Deployed(e)' = (Deployed(e) \ {n + 2}) \cup {n + 1}
        /\ \A d \in Envs \ {e} : AllOf(d)' = AllOf(d) /\ Deployed(d)' = Deployed(d) \ {n + 2}
        /\ Len(history') = n + 1
    BY <1>t, <2>1, <2>2, AppendedPositions
  <2>4. DeployTypeOK'
    BY <2>1, <2>3 DEF DeployTypeOK
  <2>5. \A d \in Envs : AllOf(d) \subseteq 1..n /\ Deployed(d) \subseteq 1..n
    BY <1>t, Positions
  <2>6. Newest(e)' = n + 1
    BY <2>1, <2>3, <2>5, NewestAppended
  <2>7. /\ Deployed(e)' # {} /\ \A i \in AllOf(e)' : i <= Newest(e)'
        /\ history'[Newest(e)'].steps = 0
    BY <2>0, <2>1, <2>3, <2>5, <2>6 DEF NewRecord
  <2>8. ASSUME NEW d \in Envs \ {e} PROVE AllOf(d)' = AllOf(d) /\ Deployed(d)' = Deployed(d)
    <3>0. \A i \in 1..n : i \in Int /\ i <= n
      OBVIOUS
    <3>d. Deployed(d) \subseteq 1..n
      BY <2>5
    <3>1. ASSUME n + 2 \in Deployed(d) PROVE FALSE
      <4>1. n + 2 <= n
        BY <3>0, <3>1, <3>d
      <4>2. QED BY <2>1, <4>1
    <3>2. Deployed(d) \ {n + 2} = Deployed(d)
      BY <3>1
    <3>3. AllOf(d)' = AllOf(d) /\ Deployed(d)' = Deployed(d) \ {n + 2}
      BY <2>3
    <3>4. QED BY <3>2, <3>3, Zenon
  <2>9. ASSUME NEW d \in Envs, AllOf(d)' # {}
        PROVE  /\ Deployed(d)' # {}
               /\ \A i \in AllOf(d)' : i <= Newest(d)'
               /\ history'[Newest(d)'].steps = 1 =>
                    /\ Cardinality(Deployed(d)') >= 2
                    /\ history'[Previous(d)'].version = history'[Newest(d)'].version
    <3>1. CASE d = e
      BY <2>7, <3>1
    <3>2. CASE d # e
      BY <2>3, <2>8, <2>9, <3>2, SettledStays
    <3>3. QED BY <3>1, <3>2
  <2>10. QED BY <2>4, <2>9 DEF DeployInv, RollbackSettles
<1>2. ASSUME NEW e \in Envs, NEW v \in Versions, NEW k \in 0..MaxSteps, Deployed(e) # {},
             RollBackTo(e, v, k),
             k # 0 => Cardinality(Deployed(e)) >= 2 /\ v = history[Previous(e)].version
      PROVE  DeployInv'
  <2> DEFINE old == [history EXCEPT ![Newest(e)].status = "rolled-back"]
  <2>d. \A d \in Envs : AllOf(d) \subseteq 1..n /\ Deployed(d) \subseteq 1..n
    BY <1>t, Positions
  <2>0. /\ n \in Nat /\ Newest(e) \in Deployed(e) /\ Newest(e) \in 1..n
        /\ \A i \in Deployed(e) : i <= Newest(e)
    BY <1>2, <1>t, <2>d, Positions, MaxOfPositions DEF Newest
  <2>1. MarkedCopy(old, Newest(e))
    <3>1. history \in Seq(DeployRecord) /\ \A i \in 1..n : history[i] \in DeployRecord
      BY <1>t, Positions DEF DeployTypeOK
    <3>2. [history[Newest(e)] EXCEPT !.status = "rolled-back"] \in DeployRecord
      BY <2>0, <3>1 DEF DeployRecord
    <3>3. old = [history EXCEPT ![Newest(e)] = [history[Newest(e)] EXCEPT !.status = "rolled-back"]]
      OBVIOUS
    <3>4. old \in Seq(DeployRecord) /\ Len(old) = n
      BY <2>0, <3>1, <3>2, <3>3
    <3>5. \A i \in 1..n : old[i] = IF i = Newest(e)
                                   THEN [history[i] EXCEPT !.status = "rolled-back"]
                                   ELSE history[i]
      BY <2>0, <3>1, <3>3
    <3>6. QED BY <3>1, <3>4, <3>5 DEF DeployRecord, MarkedCopy
  <2>2. history' = Append(old, NewRecord(e, v, k)) /\ environments' = environments
    BY <1>2 DEF RollBackTo
  <2> HIDE DEF old
  <2>3. /\ history' \in Seq(DeployRecord)
        /\ Len(history') = n + 1
        /\ \A i \in 1..n : /\ history'[i].version = history[i].version
                           /\ history'[i].steps = history[i].steps
        /\ history'[n + 1] = NewRecord(e, v, k)
        /\ AllOf(e)' = AllOf(e) \cup {n + 1}
        /\ Deployed(e)' = (Deployed(e) \ {Newest(e)}) \cup {n + 1}
        /\ \A d \in Envs \ {e} : AllOf(d)' = AllOf(d) /\ Deployed(d)' = Deployed(d) \ {Newest(e)}
    BY <1>t, <2>1, <2>2, AppendedPositions
  <2>4. DeployTypeOK'
    BY <1>t, <2>2, <2>3 DEF DeployTypeOK
  <2>6. Newest(e)' = n + 1
    BY <2>0, <2>3, <2>d, NewestAppended
  <2>7. Deployed(e)' # {} /\ \A i \in AllOf(e)' : i <= Newest(e)'
    BY <2>0, <2>3, <2>d, <2>6
  <2>8. ASSUME k # 0
        PROVE  /\ Cardinality(Deployed(e)') >= 2
               /\ history'[Previous(e)'].version = v
    <3> DEFINE older == Deployed(e) \ {Newest(e)}
    <3>1. Deployed(e)' \ {Newest(e)'} = older
      BY <2>0, <2>3, <2>6, <2>d
    <3>2. Previous(e)' = Previous(e)
      BY <3>1 DEF Previous
    <3>3. /\ IsFiniteSet(Deployed(e)) /\ Cardinality(Deployed(e)) \in Nat
          /\ Cardinality(Deployed(e)) >= 2
      BY <1>2, <1>t, <2>8, Positions
    <3>4. IsFiniteSet(older) /\ Cardinality(older) = Cardinality(Deployed(e)) - 1
      BY <2>0, <3>3, FS_RemoveElement
    <3>5. Cardinality(older \cup {n + 1}) = Cardinality(older) + 1
      <4>1. n + 1 \notin older
        BY <2>0, <2>d
      <4>2. QED BY <3>4, <4>1, FS_AddElement
    <3>6. older # {}
      BY <3>3, <3>4, FS_EmptySet
    <3>7. Previous(e) \in 1..n
      BY <2>0, <2>d, <3>6, MaxOfPositions DEF Previous
    <3>8. QED BY <1>2, <2>3, <2>8, <3>2, <3>3, <3>4, <3>5, <3>7
  <2>9. history'[Newest(e)'].version = v /\ history'[Newest(e)'].steps = k
    BY <2>3, <2>6 DEF NewRecord
  <2>10. ASSUME NEW d \in Envs \ {e} PROVE AllOf(d)' = AllOf(d) /\ Deployed(d)' = Deployed(d)
    BY <2>0, <2>3 DEF Deployed
  <2>11. ASSUME NEW d \in Envs, AllOf(d)' # {}
         PROVE  /\ Deployed(d)' # {}
                /\ \A i \in AllOf(d)' : i <= Newest(d)'
                /\ history'[Newest(d)'].steps = 1 =>
                     /\ Cardinality(Deployed(d)') >= 2
                     /\ history'[Previous(d)'].version = history'[Newest(d)'].version
    <3>1. CASE d = e
      <4>1. k = 1 => k # 0
        OBVIOUS
      <4>2. QED BY <2>7, <2>8, <2>9, <3>1, <4>1
    <3>2. CASE d # e
      BY <2>3, <2>10, <2>11, <3>2, SettledStays
    <3>3. QED BY <3>1, <3>2
  <2>12. QED BY <2>4, <2>11 DEF DeployInv, RollbackSettles
<1>3. ASSUME NEW e \in Envs, RollBackPlain(e) PROVE DeployInv'
  <2>1. PICK k \in 1..MaxSteps : /\ Cardinality(Deployed(e)) >= 2
                                 /\ RollBackTo(e, history[Previous(e)].version, k)
    BY <1>3 DEF RollBackPlain
  <2>5. k \in 0..MaxSteps
    BY StepsAssumption
  <2>2. Deployed(e) # {}
    BY <2>1, FS_EmptySet
  <2>3. Previous(e) \in 1..n
    <3>1. Deployed(e) # {Max(Deployed(e))}
      BY <2>1, FS_Singleton
    <3>2. Deployed(e) \ {Newest(e)} # {}
      BY <2>2, <3>1 DEF Newest
    <3>3. Deployed(e) \ {Newest(e)} \in SUBSET (1..n) /\ n \in Nat
      BY <1>t, Positions
    <3>4. QED BY <3>2, <3>3, MaxOfPositions DEF Previous
  <2>4. history[Previous(e)].version \in Versions
    BY <1>t, <2>3, Positions DEF DeployRecord
  <2>6. QED BY <1>2, <2>1, <2>2, <2>4, <2>5
<1>4. ASSUME NEW e \in Envs, RollBackToVersion(e) PROVE DeployInv'
  <2>1. PICK i \in Deployed(e) : RollBackTo(e, history[i].version, 0)
    BY <1>4 DEF RollBackToVersion
  <2>2. history[i].version \in Versions
    BY <1>t, <2>1, Positions DEF DeployRecord
  <2>3. 0 \in 0..MaxSteps
    BY StepsAssumption
  <2>4. QED BY <1>2, <2>1, <2>2, <2>3
<1>5. ASSUME NEW e \in Envs, AddEnvironment(e) \/ RemoveEnvironment(e) PROVE DeployInv'
  BY <1>5, <1>s, <1>t DEF AddEnvironment, RemoveEnvironment, DeployTypeOK
<1>6. CASE UNCHANGED deployVars
  BY <1>6, <1>s, <1>t DEF deployVars, DeployTypeOK
<1>7. QED BY <1>1, <1>3, <1>4, <1>5, <1>6 DEF DeployNext

LEMMA DeployInitInv == DeployInit => DeployInv
BY DEF DeployInit, DeployInv, DeployTypeOK, RollbackSettles, AllOf

(* What an environment runs is its newest record, and after a rollback by    *)
(* one step the next one without a version finds the version that already    *)
(* runs, for any environments, versions and length of the history.           *)
THEOREM RollbacksSettle == ProjectSpec => [](DeployTypeOK /\ RollbackSettles)
<1>1. ProjectInit => DeployInv
  BY DeployInitInv DEF ProjectInit
<1>2. DeployInv /\ [ProjectNext]_vars => DeployInv'
  BY PartSteps, DeployStep
<1>3. ProjectSpec => []DeployInv
  BY <1>1, <1>2, PTL DEF ProjectSpec
<1>4. QED BY <1>3, PTL DEF DeployInv

------------------------------------------------------------------------------
(* The daemon *)

(* The supervisors that may still write the state file, and what they write. *)
Acting == Serving \cup {"end", "mark"}
Recorded(p) == [running |-> "yes", pid |-> p]

(* A process not started is in no file and nobody has read of it.            *)
PidsKnown ==
  \A p \in Pids : proc[p] = "unborn" =>
    /\ state.pid # p
    /\ \A q \in Pids : seen[q].pid # p
    /\ \A o \in Operators : cmd[o].state.pid # p /\ cmd[o].pid # p

Serial == \A o, q \in Operators : cmd[o].at # "idle" /\ cmd[q].at # "idle" => o = q

(* One supervisor acts at a time, recorded unless it has just been started.  *)
ActsAlone ==
  \A p \in Pids : proc[p] \in Acting =>
    /\ \A q \in Pids : proc[q] \in Acting => q = p
    /\ state = Recorded(p) \/ (proc[p] = "boot" /\ state.pid # p)
    /\ halted = "no"

(* One that has registered is in the registry, for a stop --all to find.     *)
RecordFull ==
  \A p \in Pids :
    /\ proc[p] = "fill" => registry[p] # "none"
    /\ proc[p] \in Acting \ Booting =>
         \/ registry[p] = "full"
         \/ registry[p] = "empty" /\ \E o \in Operators : cmd[o].at = "fill" /\ cmd[o].pid = p

(* What a command under way knows of the supervisor that acts.               *)
CommandKnows(o, p) ==
  /\ cmd[o].at \notin {"spawn", "unregister", "mark"}
  /\ cmd[o].at = "write" => p = cmd[o].pid
  /\ cmd[o].at = "kill" => p = cmd[o].state.pid
  /\ cmd[o].at = "walk" => p \in cmd[o].todo /\ registry[p] = "full" /\ proc[p] \notin Booting
  /\ cmd[o].at = "enable" => cmd[o].state = Recorded(p)

CommandsKnow ==
  \A o \in Operators :
    /\ cmd[o].at \in {"spawn", "write"} => halted = "no"
    /\ cmd[o].at = "enable" /\ halted = "one" => cmd[o].state.running = "no"
    /\ \A p \in Pids : proc[p] \in Acting => CommandKnows(o, p)

InOrderInv ==
  /\ Serial /\ ActsAlone /\ RecordFull /\ CommandsKnow
  /\ halted = "one" => state.running = "no"

DaemonInv == DaemonTypeOK /\ PidsKnown /\ (orderly => InOrderInv)

LEMMA NewPidIsUnborn == Unborn # {} => NewPid \in Pids /\ proc[NewPid] = "unborn"
<1> SUFFICES ASSUME Unborn # {} PROVE NewPid \in Unborn
  BY DEF Unborn
<1> DEFINE R == OpToRel(<, Nat)
<1>1. Unborn \subseteq Nat /\ \A p \in Unborn : p \in Nat
  BY DEF Unborn, Pids
<1>2. \E p \in Unborn : \A q \in Unborn : ~(<<q, p>> \in R)
  <2>1. IsWellFoundedOn(R, Nat)
    BY NatLessThanWellFounded
  <2> HIDE DEF R
  <2>2. QED BY <1>1, <2>1, WFMin
<1>r. \A x, y \in Nat : <<x, y>> \in R <=> x < y
  BY DEF OpToRel
<1> HIDE DEF R
<1>3. \E p \in Unborn : \A q \in Unborn : p <= q
  <2>1. PICK p \in Unborn : \A q \in Unborn : ~(<<q, p>> \in R)
    BY <1>2
  <2>2. \A q \in Unborn : ~(q < p)
    BY <1>1, <1>r, <2>1
  <2>3. \A q \in Unborn : p <= q
    BY <1>1, <2>2
  <2>4. QED BY <2>3
<1>4. QED BY <1>3 DEF NewPid

SupervisorStep(p) ==
  Boot(p) \/ Register(p) \/ Poll(p) \/ Beat(p) \/ End(p) \/ MarkEnded(p) \/ Leave(p) \/ Die(p)

StartStep(o) ==
  Start(o) \/ StartForeground(o) \/ Spawn(o) \/ WriteStarted(o) \/ RegisterStarted(o)

StopStep(o) ==
  Stop(o) \/ StopKill(o) \/ StopUnregister(o) \/ StopMark(o)

OtherStep(o) ==
  StopAll(o) \/ StopAllOne(o) \/ StopAllDone(o) \/ Enable(o) \/ EnableWrite(o)

LEMMA SupervisorTypes ==
  ASSUME DaemonTypeOK, PidsKnown, NEW p \in Pids, SupervisorStep(p)
  PROVE  DaemonTypeOK' /\ PidsKnown'
<1> USE DEF DaemonTypeOK, PidsKnown, States, Alive, Serving, Booting, Go
<1>1. CASE Boot(p)
  BY <1>1 DEF Boot
<1>2. CASE Register(p)
  BY <1>2 DEF Register, MakeRecord, FillRecord
<1>3. CASE Poll(p)
  BY <1>3 DEF Poll
<1>4. CASE Beat(p)
  BY <1>4 DEF Beat
<1>5. CASE End(p)
  BY <1>5 DEF End
<1>6. CASE MarkEnded(p)
  BY <1>6 DEF MarkEnded, Write
<1>7. CASE Leave(p)
  BY <1>7 DEF Leave, DropRecord
<1>9. CASE Die(p)
  BY <1>9 DEF Die
<1>8. QED BY <1>1, <1>2, <1>3, <1>4, <1>5, <1>6, <1>7, <1>9 DEF SupervisorStep

Commands ==
  [at : {"idle", "spawn", "write", "create", "fill", "kill", "unregister", "mark", "walk",
         "enable"},
   state : States, pid : Pids \cup {NoPid}, todo : SUBSET Pids]

Informed(c) ==
  c \in Commands /\ \A p \in Pids : proc[p] = "unborn" => c.state.pid # p /\ c.pid # p

(* A command keeps the types if all it has read is known.                    *)
LEMMA CommandTypes ==
  ASSUME DaemonTypeOK, PidsKnown, NEW o \in Operators, NEW c, Informed(c),
         cmd' = [cmd EXCEPT ![o] = c], UNCHANGED <<state, proc, seen>>,
         orderly' \in BOOLEAN, halted' \in {"no", "one", "all"},
         registry' \in [Pids -> {"none", "empty", "full"}]
  PROVE  DaemonTypeOK' /\ PidsKnown'
<1>1. cmd' \in [Operators -> Commands] /\ DaemonTypeOK'
  BY DEF DaemonTypeOK, Commands, Informed
<1>2. cmd'[o] = c /\ \A q \in Operators \ {o} : cmd'[q] = cmd[q]
  BY DEF DaemonTypeOK
<1>3. QED BY <1>1, <1>2 DEF PidsKnown, Informed

LEMMA CommandRecords ==
  ASSUME DaemonTypeOK, PidsKnown, NEW o \in Operators
  PROVE  /\ \A a \in {"spawn", "create", "fill", "kill", "unregister", "mark", "enable"} :
              /\ Informed([cmd[o] EXCEPT !.at = a])
              /\ Informed([cmd[o] EXCEPT !.at = a, !.state = state])
         /\ \A T \in SUBSET Pids : Informed([cmd[o] EXCEPT !.at = "walk", !.todo = T])
         /\ Informed(NoCmd)
<1>1. cmd[o] \in Commands /\ state \in States
  BY DEF DaemonTypeOK, Commands
<1>2. Informed(NoCmd)
  BY PidAssumption DEF NoCmd, NoState, Commands, States, Informed
<1>3. QED BY <1>1, <1>2 DEF Commands, Informed, PidsKnown

CommandSteps(o) == Start(o) \/ RegisterStarted(o) \/ Stop(o) \/ StopUnregister(o) \/ StopAll(o)
                   \/ StopAllDone(o) \/ Enable(o)

LEMMA CommandOnly ==
  ASSUME DaemonTypeOK, NEW o \in Operators, CommandSteps(o)
  PROVE  /\ UNCHANGED <<state, proc, seen>>
         /\ orderly' \in BOOLEAN /\ halted' \in {"no", "one", "all"}
         /\ registry' \in [Pids -> {"none", "empty", "full"}]
         /\ \/ \E a \in {"spawn", "create", "fill", "kill", "unregister", "mark", "enable"} :
                 \/ cmd' = [cmd EXCEPT ![o] = [cmd[o] EXCEPT !.at = a]]
                 \/ cmd' = [cmd EXCEPT ![o] = [cmd[o] EXCEPT !.at = a, !.state = state]]
            \/ \E T \in SUBSET Pids :
                 cmd' = [cmd EXCEPT ![o] = [cmd[o] EXCEPT !.at = "walk", !.todo = T]]
            \/ cmd' = [cmd EXCEPT ![o] = NoCmd]
<1>1. CASE Start(o)
  BY <1>1 DEF Start, DaemonTypeOK, Move
<1>2. CASE RegisterStarted(o)
  BY <1>2 DEF RegisterStarted, DaemonTypeOK, Move, Finish, MakeRecord, FillRecord
<1>3. CASE Stop(o)
  BY <1>3 DEF Stop, DaemonTypeOK
<1>4. CASE StopUnregister(o)
  BY <1>4 DEF StopUnregister, DaemonTypeOK, Move
<1>5. CASE StopAll(o)
  <2>1. {p \in Pids : registry[p] # "none"} \in SUBSET Pids
    OBVIOUS
  <2>2. QED BY <1>5, <2>1 DEF StopAll, DaemonTypeOK
<1>6. CASE StopAllDone(o)
  BY <1>6 DEF StopAllDone, DaemonTypeOK, Finish
<1>7. CASE Enable(o)
  BY <1>7 DEF Enable, DaemonTypeOK
<1>8. QED BY <1>1, <1>2, <1>3, <1>4, <1>5, <1>6, <1>7 DEF CommandSteps

LEMMA CommandStepTypes ==
  ASSUME DaemonTypeOK, PidsKnown, NEW o \in Operators, CommandSteps(o)
  PROVE  DaemonTypeOK' /\ PidsKnown'
<1>1. PICK c : Informed(c) /\ cmd' = [cmd EXCEPT ![o] = c]
  BY CommandOnly, CommandRecords
<1>2. /\ UNCHANGED <<state, proc, seen>>
      /\ orderly' \in BOOLEAN /\ halted' \in {"no", "one", "all"}
      /\ registry' \in [Pids -> {"none", "empty", "full"}]
  BY CommandOnly
<1>3. QED BY <1>1, <1>2, CommandTypes

(* A process that starts, one that is ended, and what a command writes.      *)
LEMMA StartStopTypes ==
  ASSUME DaemonTypeOK, PidsKnown, NEW o \in Operators,
         StartStep(o) \/ StopStep(o) \/ OtherStep(o)
  PROVE  DaemonTypeOK' /\ PidsKnown'
<1> USE PidAssumption
    DEF DaemonTypeOK, PidsKnown, States, Alive, Serving, Booting, At, Move, Finish, NoCmd, NoState
<1>o. orderly' \in BOOLEAN
  BY DEF StartStep, Start, StartForeground, Spawn, WriteStarted, RegisterStarted,
         StopStep, OtherStep, Stop, StopKill, StopUnregister, StopMark, StopAll, StopAllOne,
         StopAllDone, Enable, EnableWrite
<1>2. CASE StartForeground(o)
  <2>1. NewPid \in Pids /\ proc[NewPid] = "unborn"
    BY <1>2, NewPidIsUnborn DEF StartForeground
  <2>2. proc' = [proc EXCEPT ![NewPid] = "boot"] /\ halted' = "no"
        /\ UNCHANGED <<state, registry, seen, cmd>>
    BY <1>2 DEF StartForeground
  <2>3. QED BY <1>o, <2>1, <2>2
<1>3. CASE Spawn(o)
  <2>1. NewPid \in Pids /\ proc[NewPid] = "unborn"
    BY <1>3, NewPidIsUnborn DEF Spawn
  <2>2. QED BY <1>3, <2>1 DEF Spawn
<1>4. CASE WriteStarted(o)
  <2>1. state' \in States /\ state'.pid = cmd[o].pid
    BY <1>4 DEF WriteStarted
  <2>2. cmd' = [cmd EXCEPT ![o].at = "create"] /\ UNCHANGED <<registry, proc, seen, halted>>
    BY <1>4 DEF WriteStarted
  <2>3. QED BY <1>o, <2>1, <2>2
<1>5. CASE StopKill(o)
  BY <1>5 DEF StopKill, Terminate, IsSupervisor
<1>6. CASE StopMark(o)
  BY <1>6 DEF StopMark, Write
<1>7. CASE StopAllOne(o)
  <2>1. PICK p \in cmd[o].todo :
          /\ IF registry[p] = "full" THEN Terminate(p) ELSE UNCHANGED proc
          /\ DropRecord(p)
          /\ cmd' = [cmd EXCEPT ![o].todo = @ \ {p}]
    BY <1>7 DEF StopAllOne
  <2>2. p \in Pids /\ registry' \in [Pids -> {"none", "empty", "full"}]
    BY <2>1 DEF DropRecord
  <2>3. proc' = proc \/ proc' = [proc EXCEPT ![p] = "dead"]
    BY <2>1 DEF Terminate
  <2>4. UNCHANGED <<state, seen, halted>>
    BY <1>7 DEF StopAllOne
  <2>5. cmd[o].todo \ {p} \in SUBSET Pids
    OBVIOUS
  <2>10. cmd' \in [Operators -> Commands]
    BY <2>1, <2>5 DEF Commands
  <2>6. DaemonTypeOK'
    BY <1>o, <2>2, <2>3, <2>4, <2>10 DEF Commands
  <2>7. \A q \in Operators : cmd'[q].state = cmd[q].state /\ cmd'[q].pid = cmd[q].pid
    BY <2>1
  <2>8. \A q \in Pids : proc'[q] = "unborn" => proc[q] = "unborn"
    BY <2>2, <2>3
  <2>9. QED BY <2>4, <2>6, <2>7, <2>8
<1>8. CASE EnableWrite(o)
  BY <1>8 DEF EnableWrite
<1>9. QED
  BY <1>2, <1>3, <1>4, <1>5, <1>6, <1>7, <1>8, CommandStepTypes
     DEF StartStep, StopStep, OtherStep, CommandSteps

LEMMA SupervisorInOrder ==
  ASSUME DaemonTypeOK, PidsKnown, InOrderInv, NEW p \in Pids, SupervisorStep(p)
  PROVE  InOrderInv'
<1> USE DEF DaemonTypeOK, States, InOrderInv, Serial, ActsAlone, RecordFull, CommandsKnow,
            CommandKnows, Recorded, Acting, Serving, Booting, Alive, Go
<1>1. CASE Boot(p)
  BY <1>1 DEF Boot
<1>2. CASE Register(p)
  BY <1>2 DEF Register, MakeRecord, FillRecord
<1>3. CASE Poll(p)
  BY <1>3 DEF Poll
<1>4. CASE Beat(p)
  BY <1>4 DEF Beat
<1>5. CASE End(p)
  BY <1>5 DEF End
<1>6. CASE MarkEnded(p)
  BY <1>6 DEF MarkEnded, Write
<1>7. CASE Leave(p)
  BY <1>7 DEF Leave, DropRecord
<1>8. CASE Die(p)
  BY <1>8 DEF Die
<1>9. QED BY <1>1, <1>2, <1>3, <1>4, <1>5, <1>6, <1>7, <1>8 DEF SupervisorStep

LEMMA StartInOrder ==
  ASSUME DaemonTypeOK, PidsKnown, InOrderInv, NEW o \in Operators, StartStep(o), orderly'
  PROVE  InOrderInv'
<1> USE DEF DaemonTypeOK, States, InOrderInv, Serial, ActsAlone, RecordFull, CommandsKnow,
            CommandKnows, Recorded, Acting, Serving, Booting, Alive, At, Move, Finish, InTurn,
            IsSupervisor
<1>1. CASE Start(o)
  <2>1. InTurn(o) /\ At(o, "idle") /\ ~(state.running = "yes" /\ IsSupervisor(state.pid))
    BY <1>1 DEF Start
  <2>2. cmd' = [cmd EXCEPT ![o].at = "spawn"] /\ halted' = "no"
        /\ UNCHANGED <<state, registry, proc, seen>>
    BY <1>1 DEF Start
  <2>3. QED BY <2>1, <2>2
<1>2. CASE StartForeground(o)
  <2>1. NewPid \in Pids /\ proc[NewPid] = "unborn"
    BY <1>2, NewPidIsUnborn DEF StartForeground
  <2>2. InTurn(o) /\ At(o, "idle") /\ \A p \in Pids : ~IsSupervisor(p)
    BY <1>2 DEF StartForeground
  <2>3. proc' = [proc EXCEPT ![NewPid] = "boot"] /\ halted' = "no"
        /\ UNCHANGED <<state, registry, seen, cmd>>
    BY <1>2 DEF StartForeground
  <2>4. QED BY <2>1, <2>2, <2>3 DEF PidsKnown
<1>3. CASE Spawn(o)
  <2>1. NewPid \in Pids /\ proc[NewPid] = "unborn"
    BY <1>3, NewPidIsUnborn DEF Spawn
  <2>2. QED BY <1>3, <2>1 DEF Spawn, PidsKnown
<1>4. CASE WriteStarted(o)
  BY <1>4 DEF WriteStarted
<1>5. CASE RegisterStarted(o)
  BY <1>5 DEF RegisterStarted, MakeRecord, FillRecord, NoCmd, NoState
<1>6. QED BY <1>1, <1>2, <1>3, <1>4, <1>5 DEF StartStep

LEMMA StopInOrder ==
  ASSUME DaemonTypeOK, PidsKnown, InOrderInv, NEW o \in Operators,
         StopStep(o) \/ OtherStep(o), orderly'
  PROVE  InOrderInv'
<1> USE PidAssumption DEF DaemonTypeOK, States, InOrderInv, Serial, ActsAlone, RecordFull,
            CommandsKnow, CommandKnows, Recorded, Acting, Serving, Booting, Alive, At, Move,
            Finish, InTurn, IsSupervisor, NoCmd, NoState
<1>1. CASE Stop(o)
  <2>1. InTurn(o) /\ At(o, "idle")
    BY <1>1 DEF Stop
  <2>2. /\ cmd' = [cmd EXCEPT ![o].at = "kill", ![o].state = state]
        /\ UNCHANGED <<state, registry, proc, seen, halted>>
    BY <1>1 DEF Stop
  <2>3. /\ cmd'[o].at = "kill" /\ cmd'[o].state = state
        /\ \A q \in Operators \ {o} : cmd'[q] = cmd[q] /\ cmd[q].at = "idle"
    BY <2>1, <2>2
  <2>4. Serial' /\ ActsAlone'
    BY <2>1, <2>2, <2>3
  <2>5. RecordFull'
    BY <2>1, <2>2, <2>3
  <2>6. CommandsKnow'
    BY <2>1, <2>2, <2>3
  <2>7. QED BY <2>2, <2>4, <2>5, <2>6
<1>2. CASE StopKill(o)
  BY <1>2 DEF StopKill, Terminate
<1>3. CASE StopUnregister(o)
  BY <1>3 DEF StopUnregister
<1>4. CASE StopMark(o)
  BY <1>4 DEF StopMark, Write
<1>5. CASE StopAll(o)
  <2>1. InTurn(o) /\ At(o, "idle") /\ \A p \in Pids : proc[p] \notin Booting
    BY <1>5 DEF StopAll
  <2>2. /\ cmd' = [cmd EXCEPT ![o].at = "walk", ![o].todo = {p \in Pids : registry[p] # "none"}]
        /\ UNCHANGED <<state, registry, proc, seen, halted>>
    BY <1>5 DEF StopAll
  <2>3. /\ cmd'[o].at = "walk" /\ cmd'[o].todo = {p \in Pids : registry[p] # "none"}
        /\ \A q \in Operators \ {o} : cmd'[q] = cmd[q] /\ cmd[q].at = "idle"
    BY <2>1, <2>2
  <2>4. Serial' /\ ActsAlone'
    BY <2>1, <2>2, <2>3
  <2>5. RecordFull'
    BY <2>1, <2>2, <2>3
  <2>6. CommandsKnow'
    BY <2>1, <2>2, <2>3
  <2>7. QED BY <2>2, <2>4, <2>5, <2>6
<1>6. CASE StopAllOne(o)
  BY <1>6 DEF StopAllOne, Terminate, DropRecord
<1>7. CASE StopAllDone(o)
  <2>1. \A p \in Pids : proc[p] \notin Acting
    BY <1>7 DEF StopAllDone
  <2>2. /\ cmd' = [cmd EXCEPT ![o] = NoCmd]
        /\ halted' = IF halted = "no" THEN "all" ELSE halted
        /\ UNCHANGED <<registry, proc, state>>
    BY <1>7 DEF StopAllDone
  <2>7. cmd[o].at = "walk"
    BY <1>7 DEF StopAllDone
  <2>3. /\ cmd'[o].at = "idle"
        /\ \A q \in Operators \ {o} : cmd'[q] = cmd[q] /\ cmd[q].at = "idle"
    BY <2>2, <2>7
  <2>4. Serial' /\ ActsAlone' /\ RecordFull'
    BY <2>1, <2>2, <2>3
  <2>5. CommandsKnow'
    BY <2>1, <2>2, <2>3
  <2>6. QED BY <2>2, <2>4, <2>5
<1>8. CASE Enable(o)
  <2>1. InTurn(o) /\ At(o, "idle")
    BY <1>8 DEF Enable
  <2>2. /\ cmd' = [cmd EXCEPT ![o].at = "enable", ![o].state = state]
        /\ UNCHANGED <<state, registry, proc, seen, halted>>
    BY <1>8 DEF Enable
  <2>3. /\ cmd'[o].at = "enable" /\ cmd'[o].state = state
        /\ \A q \in Operators \ {o} : cmd'[q] = cmd[q] /\ cmd[q].at = "idle"
    BY <2>1, <2>2
  <2>4. Serial' /\ ActsAlone'
    BY <2>1, <2>2, <2>3
  <2>5. RecordFull'
    BY <2>1, <2>2, <2>3
  <2>6. CommandsKnow'
    BY <2>1, <2>2, <2>3
  <2>7. QED BY <2>2, <2>4, <2>5, <2>6
<1>9. CASE EnableWrite(o)
  BY <1>9 DEF EnableWrite
<1>10. QED
  BY <1>1, <1>2, <1>3, <1>4, <1>5, <1>6, <1>7, <1>8, <1>9 DEF StopStep, OtherStep

(* A disorder is never over.                                                 *)
LEMMA DisorderStays == DaemonNext /\ orderly' => orderly
BY DEF DaemonNext, Boot, Register, Poll, Beat, End, MarkEnded, Leave, Die, Start,
       StartForeground, Spawn, WriteStarted, RegisterStarted, Stop, StopKill, StopUnregister,
       StopMark, StopAll, StopAllOne, StopAllDone, Enable, EnableWrite

LEMMA DaemonStep == DaemonInv /\ [DaemonNext]_daemonVars => DaemonInv'
<1> SUFFICES ASSUME DaemonInv, DaemonNext \/ UNCHANGED daemonVars PROVE DaemonInv'
  OBVIOUS
<1>1. ASSUME NEW p \in Pids, SupervisorStep(p), DaemonNext PROVE DaemonInv'
  BY <1>1, SupervisorTypes, SupervisorInOrder, DisorderStays DEF DaemonInv
<1>2. ASSUME NEW o \in Operators, StartStep(o), DaemonNext PROVE DaemonInv'
  BY <1>2, StartStopTypes, StartInOrder, DisorderStays DEF DaemonInv
<1>3. ASSUME NEW o \in Operators, StopStep(o) \/ OtherStep(o), DaemonNext PROVE DaemonInv'
  BY <1>3, StartStopTypes, StopInOrder, DisorderStays DEF DaemonInv
<1>4. CASE UNCHANGED daemonVars
  BY <1>4 DEF daemonVars, DaemonInv, DaemonTypeOK, PidsKnown, InOrderInv, Serial, ActsAlone,
              RecordFull, CommandsKnow, CommandKnows
<1>5. QED
  BY <1>1, <1>2, <1>3, <1>4
     DEF DaemonNext, SupervisorStep, StartStep, StopStep, OtherStep

LEMMA DaemonInitInv == DaemonInit => DaemonInv
BY PidAssumption
   DEF DaemonInit, DaemonInv, DaemonTypeOK, PidsKnown, InOrderInv, Serial, ActsAlone, RecordFull,
       CommandsKnow, CommandKnows, NoCmd, NoState, States, Acting, Serving, Booting, Alive

LEMMA DaemonStopped == DaemonInv => StopSticks
BY DEF DaemonInv, InOrderInv, ActsAlone, StopSticks, Acting, DaemonTypeOK

(* The invariant of the daemon and its commands.                             *)
THEOREM DaemonInvAlways == ProjectSpec => []DaemonInv
<1>1. ProjectInit => DaemonInv
  BY DaemonInitInv DEF ProjectInit
<1>2. DaemonInv /\ [ProjectNext]_vars => DaemonInv'
  BY PartSteps, DaemonStep
<1>3. QED BY <1>1, <1>2, PTL DEF ProjectSpec

(* What is stopped stays stopped until the next start, for any number of     *)
(* operators and processes, while commands run one at a time and nobody      *)
(* starts a supervisor beside a running one.                                 *)
THEOREM StopsStick == ProjectSpec => []StopSticks
BY DaemonStopped, DaemonInvAlways, PTL

------------------------------------------------------------------------------
(* All parts *)

(* The types of every part: of its files, and of the commands on them.       *)
THEOREM ProjectTypes == ProjectSpec => []ProjectTypeOK
<1> DEFINE Rest == part \in Parts /\ LifeTypeOK /\ ClaimsTypeOK
<1>1. ProjectInit => Rest
  BY LifeInitTypes, ClaimsInitTypes DEF ProjectInit
<1>2. Rest /\ [ProjectNext]_vars => Rest'
  BY PartSteps, LifeTypeStep, ClaimsStep
<1>3. ProjectSpec => []Rest
  BY <1>1, <1>2, PTL DEF ProjectSpec
<1>4. /\ Rest /\ DaemonInv /\ HiveInv /\ DualInv /\ SwarmInv
      /\ DeployTypeOK /\ MemoryInv /\ SettingsInv
      => ProjectTypeOK
  BY DEF ProjectTypeOK, DaemonInv, HiveInv, DualInv, SwarmInv, MemoryInv, SettingsInv
<1>5. QED
  BY <1>3, <1>4, DaemonInvAlways, HiveInvAlways, DualInvAlways, SwarmInvAlways, RollbacksSettle,
     MemoryInvAlways, SettingsInvAlways, PTL
=============================================================================
