-------------------------------- MODULE MCSafeComponents ----------------------------
(* Components without liveness properties, one per behaviour: the stores that *)
(* decide what is active, shared memory, a session and an episode, each with  *)
(* two processes (an installation has one operator); all teams of four        *)
(* agents; all graphs of three nodes.  The others rest.  Processes are        *)
(* interchangeable, and so are two candidates, goals, observations, findings  *)
(* and runs: no property is a liveness property, and nothing orders them.     *)
EXTENDS ArtifactRelease, SelfModification, Installation, PolicyRegistry, Goals,
  CapabilityLifecycle, AgentTeam, Orchestrator, EngineeringEpisode, TaskMemory, SessionRun, TLC

AllTeams == {deps \in [Nodes -> SUBSET Nodes] : \A n \in Nodes : deps[n] \subseteq 1..(n - 1)}
AllDags == [GraphNodes ->
  [deps : SUBSET GraphNodes, limit : {2}, critical : BOOLEAN, repairs : BOOLEAN]]
Two == {[id |-> "v1", digest |-> "d1"], [id |-> "v2", digest |-> "d2"]}
Restaged == Two \cup {[id |-> "v1-repeat", digest |-> "d1"]}
(* Two builds of one version, and one of the next.                            *)
Versions == [b \in Builds |-> IF b = "b3" THEN 2 ELSE 1]
(* Five observations, three that worked; a backlog of one finding or of two  *)
(* that failed before.                                                       *)
Observations == {[outcome |-> "worked", note |-> n] : n \in {"n1", "n2", "n3"}}
  \cup {[outcome |-> "failed", note |-> n] : n \in {"n4", "n5"}}
NoFinding == [status |-> "absent", family |-> NoFamily, severe |-> FALSE, attempts |-> 0]
Finding(n) == [status |-> "pending", family |-> "fixes", severe |-> n > 0, attempts |-> n]
TwoRisky == [f \in Findings |-> Finding(2)]
OneFound(x) == [f \in Findings |-> IF f = x THEN Finding(0) ELSE NoFinding]
SmallBacklogs == {TwoRisky} \cup {OneFound(x) : x \in Findings}
Interchangeable == Permutations(Writers) \cup Permutations(Sources)

VARIABLE system    \* the component that runs
TeamRests == GraphInitWith({TeamGraph([n \in Nodes |-> {}])})
OrchestratorRests ==
  /\ dag = [n \in GraphNodes |-> [deps |-> {}, limit |-> 1, critical |-> FALSE, repairs |-> FALSE]]
  /\ results = [n \in GraphNodes |-> "passed"] /\ spent = [n \in GraphNodes |-> 0]
  /\ working = 0 /\ verdict = "accepted"
SafeInit ==
  /\ system \in {"release", "activation", "installation", "registry", "goals", "lifecycle",
                 "team", "orchestrator", "episode", "memory", "session"}
  /\ ReleaseInit /\ (system # "release" => meta["d1"] = "v1")
  /\ ActivationInit /\ InstallInit /\ RegistryInit /\ GoalsInit /\ LifecycleInit
  /\ EpisodeInit /\ (system # "episode" => backlog = TwoRisky) /\ MemoryInit /\ SessionInit
  /\ IF system = "team" THEN TeamInit ELSE TeamRests
  /\ IF system = "orchestrator" THEN OrchestratorInit ELSE OrchestratorRests
(* Only one of them runs: the variables of the others stay.                   *)
Stays(name, variables) == system # name => UNCHANGED variables
SafeNext ==
  /\ UNCHANGED system
  /\ \/ system = "release" /\ ReleaseNext
     \/ system = "activation" /\ ActivationNext
     \/ system = "installation" /\ InstallNext
     \/ system = "registry" /\ RegistryNext
     \/ system = "goals" /\ GoalsNext
     \/ system = "lifecycle" /\ LifecycleNext
     \/ system = "team" /\ TeamNext
     \/ system = "orchestrator" /\ OrchestratorNext
     \/ system = "episode" /\ EpisodeNext
     \/ system = "memory" /\ MemoryNext
     \/ system = "session" /\ SessionNext
  /\ Stays("release", releaseVars) /\ Stays("activation", activationVars)
  /\ Stays("installation", installVars) /\ Stays("registry", registryVars)
  /\ Stays("goals", goalVars) /\ Stays("lifecycle", lifecycleVars)
  /\ Stays("team", graphVars) /\ Stays("orchestrator", orchestratorVars)
  /\ Stays("episode", episodeVars) /\ Stays("memory", memoryVars) /\ Stays("session", sessionVars)
safeVars == <<system, releaseVars, activationVars, installVars, registryVars, goalVars,
              lifecycleVars, graphVars, orchestratorVars, episodeVars, memoryVars, sessionVars>>
SafeSpec == SafeInit /\ [][SafeNext]_safeVars
=================================================================================
