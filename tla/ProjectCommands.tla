--------------------------- MODULE ProjectCommands ---------------------------
(* Commands that keep files of one workspace or of its user: the daemon, the   *)
(* hive, agents with their tasks, sessions and swarm, `dual run`, the worker   *)
(* of a swarm run, deployments, the claims policy, the memory with its         *)
(* vectors, and the settings of Claude Code.  What two of these parts share    *)
(* decides nothing in either, so a behaviour takes the steps of one of them:   *)
(* interleaving them would show nothing more.                                  *)
EXTENDS DaemonLife, HiveMind, Lifecycle, DualRun, SwarmWorker, Deployment, ClaimsPolicy,
        SemanticMemory, ClaudeSettings

VARIABLE part  \* the part that takes steps

vars == <<part, daemonVars, hiveVars, lifeVars, dualVars, swarmVars, deployVars, policy,
          memoryVars, settingsVars>>

Parts == {"daemon", "hive", "lifecycle", "dual", "swarm", "deployment", "claims", "memory",
          "settings"}

ProjectTypeOK ==
  /\ part \in Parts
  /\ part = "daemon" => DaemonTypeOK
  /\ part = "hive" => HiveTypeOK
  /\ part = "lifecycle" => LifeTypeOK
  /\ part = "dual" => DualTypeOK
  /\ part = "swarm" => SwarmTypeOK
  /\ part = "deployment" => DeployTypeOK
  /\ part = "claims" => ClaimsTypeOK
  /\ part = "memory" => MemoryTypeOK
  /\ part = "settings" => SettingsTypeOK

\* The parts that take no step keep one initial state.
ProjectInit ==
  /\ part \in Parts
  /\ DaemonInit
  /\ HiveInit
  /\ LifeInit /\ (part # "lifecycle" => \A a \in Agents : json[a] = "none")
  /\ DualInit /\ (part # "dual" => isolated /\ batch = 1)
  /\ SwarmInit
  /\ DeployInit
  /\ ClaimsInit /\ (part # "claims" => policy = Missing)
  /\ MemoryInit /\ (part # "memory" => \A k \in Keys : ~InUse(k))
  /\ SettingsInit

ProjectNext ==
  /\ UNCHANGED part
  /\ \/ /\ part = "daemon" /\ DaemonNext
        /\ UNCHANGED <<hiveVars, lifeVars, dualVars, swarmVars,
                       deployVars, policy, memoryVars, settingsVars>>
     \/ /\ part = "hive" /\ HiveNext
        /\ UNCHANGED <<daemonVars, lifeVars, dualVars, swarmVars,
                       deployVars, policy, memoryVars, settingsVars>>
     \/ /\ part = "lifecycle" /\ LifeNext
        /\ UNCHANGED <<daemonVars, hiveVars, dualVars, swarmVars,
                       deployVars, policy, memoryVars, settingsVars>>
     \/ /\ part = "dual" /\ DualNext
        /\ UNCHANGED <<daemonVars, hiveVars, lifeVars, swarmVars,
                       deployVars, policy, memoryVars, settingsVars>>
     \/ /\ part = "swarm" /\ SwarmNext
        /\ UNCHANGED <<daemonVars, hiveVars, lifeVars, dualVars,
                       deployVars, policy, memoryVars, settingsVars>>
     \/ /\ part = "deployment" /\ DeployNext
        /\ UNCHANGED <<daemonVars, hiveVars, lifeVars, dualVars,
                       swarmVars, policy, memoryVars, settingsVars>>
     \/ /\ part = "claims" /\ ClaimsNext
        /\ UNCHANGED <<daemonVars, hiveVars, lifeVars, dualVars,
                       swarmVars, deployVars, memoryVars, settingsVars>>
     \/ /\ part = "memory" /\ MemoryNext
        /\ UNCHANGED <<daemonVars, hiveVars, lifeVars, dualVars,
                       swarmVars, deployVars, policy, settingsVars>>
     \/ /\ part = "settings" /\ SettingsNext
        /\ UNCHANGED <<daemonVars, hiveVars, lifeVars, dualVars,
                       swarmVars, deployVars, policy, memoryVars>>

ProjectSpec == ProjectInit /\ [][ProjectNext]_vars
=============================================================================
