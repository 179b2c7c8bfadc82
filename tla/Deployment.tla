------------------------------ MODULE Deployment ------------------------------
(***************************************************************************)
(* .claude-flow/deployments.json (crates/ruflo-cli/src/deployment.rs).     *)
(*                                                                         *)
(* A command reads the whole file and writes it all by tmp and rename.     *)
(* Two at once lose one's records, but what either writes is what it would *)
(* have written alone, so commands are taken one by one.  The active       *)
(* deployment is the last record at all times; timestamps, descriptions    *)
(* and the kinds of environments are left out.                             *)
(***************************************************************************)
EXTENDS Naturals, Sequences, FiniteSets, FiniteSetsExt

CONSTANTS
  Envs, Versions,
  MaxHistory,  \* bound: length of the history
  MaxSteps     \* bound: the largest --steps a rollback is given

ASSUME StepsAssumption == MaxSteps \in Nat \ {0}

VARIABLES
  environments,  \* the environments in the file
  history        \* the records, oldest first; steps: the --steps
                 \* of a rollback without a version (history), 0 for all others

deployVars == <<environments, history>>

DeployRecord ==
  [env : Envs, version : Versions, status : {"deployed", "rolled-back"}, steps : 0..MaxSteps]

DeployTypeOK ==
  /\ environments \subseteq Envs
  /\ history \in Seq(DeployRecord)

DeployInit == environments = {} /\ history = <<>>

\* The records of an environment.  As Deployed, a FAULT: no look at the status.
AllOf(e) == {i \in 1..Len(history) : history[i].env = e}

\* The positions of the deployed records of an environment.
Deployed(e) ==
  {i \in 1..Len(history) : history[i].env = e /\ history[i].status = "deployed"}

\* The first and the second of env_history, which has the newest record first.
Newest(e)   == Max(Deployed(e))
Previous(e) == Max(Deployed(e) \ {Newest(e)})

NewRecord(e, v, n) == [env |-> e, version |-> v, status |-> "deployed", steps |-> n]

\* deploy and release: a new environment is added on the way.
Deploy(e, v) ==
  /\ Len(history) < MaxHistory
  /\ history' = Append(history, NewRecord(e, v, 0))
  /\ environments' = environments \cup {e}

\* The current record is marked and one for the chosen version is added.
RollBackTo(e, v, n) ==
  /\ Len(history) < MaxHistory
  /\ history' = Append([history EXCEPT ![Newest(e)].status = "rolled-back"],
                       NewRecord(e, v, n))
  /\ UNCHANGED environments

\* Without a version, the record before the current one is taken: --steps is
\* read from the command line and dropped.
RollBackPlain(e) ==
  /\ Cardinality(Deployed(e)) >= 2
  /\ \E n \in 1..MaxSteps : RollBackTo(e, history[Previous(e)].version, n)

RollBackToVersion(e) ==
  \E i \in Deployed(e) : RollBackTo(e, history[i].version, 0)

\* The history of a removed environment stays, and can be rolled back.
AddEnvironment(e) ==
  /\ e \notin environments
  /\ environments' = environments \cup {e}
  /\ UNCHANGED history

RemoveEnvironment(e) ==
  /\ e \in environments
  /\ environments' = environments \ {e}
  /\ UNCHANGED history

DeployNext ==
  \E e \in Envs :
    \/ \E v \in Versions : Deploy(e, v)
    \/ RollBackPlain(e) \/ RollBackToVersion(e)
    \/ AddEnvironment(e) \/ RemoveEnvironment(e)

\* What an environment runs is its newest record, which is always one that
\* counts as deployed; and after a rollback by the one step that is the default,
\* the next rollback without a version finds the version that already runs.
\* Nothing is claimed of a rollback by more steps: it is one step all the same,
\* although the help says "Number of versions to rollback".
RollbackSettles ==
  \A e \in Envs : AllOf(e) # {} =>
    /\ Deployed(e) # {}
    /\ \A i \in AllOf(e) : i <= Newest(e)
    /\ history[Newest(e)].steps = 1 =>
         /\ Cardinality(Deployed(e)) >= 2
         /\ history[Previous(e)].version = history[Newest(e)].version
=============================================================================
