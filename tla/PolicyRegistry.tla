---------------------------- MODULE PolicyRegistry ----------------------------
(***************************************************************************)
(* PolicyRegistry behind LearningController (.ai-harness/runtime): a         *)
(* controller loads the registry when it is constructed, promotes and rolls  *)
(* back in memory, rewrites the whole file and then appends to the audit     *)
(* file.  Several controllers share the files and nothing locks them.  One   *)
(* task class, in which a promotion has a version of its own, so that the id *)
(* of its strategy need not be told apart.  What the gates find is arbitrary.*)
(***************************************************************************)
EXTENDS Naturals, FiniteSets, FiniteSetsExt

CONSTANTS Controllers,
          MaxVersion      \* bound of the promotions a registry holds
ASSUME RegistryAssumption == MaxVersion \in Nat

VARIABLES stored,      \* policy-registry.jsonl: policies of a version and a status
          audit,       \* the promotions and rollbacks in policy-events.jsonl
          controller,  \* the registry in the memory of every controller
          alone        \* no controller has worked on a registry another one changed
registryVars == <<stored, audit, controller, alone>>

NoController == [pc |-> "none", policies |-> {}, change |-> {}]
RegistryInit ==
  /\ stored = {} /\ audit = {} /\ alone = TRUE
  /\ controller = [c \in Controllers |-> NoController]
-------------------------------------------------------------------------------
WithStatus(policies, status) == {p \in policies : p.status = status}
Highest(policies) == CHOOSE p \in policies : \A q \in policies : q.version <= p.version
NextVersion(policies) == 1 + Max({p.version : p \in policies} \cup {0})

(* promote: the active policies are superseded by the new version.           *)
BugPromoted(policies) ==    \* mutant: the active policies stay active
  policies \cup {[version |-> NextVersion(policies), status |-> "active"]}
Promoted(policies) ==
  {[p EXCEPT !.status = IF @ = "active" THEN "superseded" ELSE @] : p \in policies}
    \cup {[version |-> NextVersion(policies), status |-> "active"]}

(* rollback: the latest superseded version before it is active again.        *)
RolledBack(policies, policy) ==
  LET prior == {p \in WithStatus(policies, "superseded") : p.version < policy.version}
      restored == IF prior = {} THEN {} ELSE {Highest(prior)}
  IN (policies \ ({policy} \cup restored)) \cup {[policy EXCEPT !.status = "rolled_back"]}
       \cup {[p EXCEPT !.status = "active"] : p \in restored}

Construct(c) ==
  /\ controller[c].pc = "none"
  /\ controller' = [controller EXCEPT ![c] = [pc |-> "ready", policies |-> stored, change |-> {}]]
  /\ UNCHANGED <<stored, audit, alone>>
Change(c, policies, entry) ==
  /\ controller' = [controller EXCEPT ![c] = [pc |-> "persist", policies |-> policies, change |-> entry]]
  /\ alone' = (alone /\ controller[c].policies = stored
                     /\ \A d \in Controllers : controller[d].pc \notin {"persist", "audit"})
  /\ UNCHANGED <<stored, audit>>
(* The controller's promote: a candidate is stopped unless replay, shadow and*)
(* canary passed, its risk is at most medium and it is confident enough.     *)
PromotePolicy(c, replay, shadow, canary, trusted) ==
  /\ controller[c].pc = "ready"
  /\ NextVersion(controller[c].policies) <= MaxVersion
  /\ replay /\ shadow /\ canary /\ trusted
  /\ LET policies == controller[c].policies IN
     Change(c, Promoted(policies),
       {[event |-> "promotion", version |-> NextVersion(policies)]})
(* monitor: an unhealthy policy is rolled back if it is active.              *)
Monitor(c) ==
  /\ controller[c].pc = "ready"
  /\ \E p \in WithStatus(controller[c].policies, "active") :
       Change(c, RolledBack(controller[c].policies, p),
         {[event |-> "rollback", version |-> p.version]})
BugPersist(c) ==    \* mutant: only what is active is written
  /\ controller[c].pc = "persist" /\ stored' = WithStatus(controller[c].policies, "active")
  /\ controller' = [controller EXCEPT ![c].pc = "audit"]
  /\ UNCHANGED <<audit, alone>>
Persist(c) ==
  /\ controller[c].pc = "persist" /\ stored' = controller[c].policies
  /\ controller' = [controller EXCEPT ![c].pc = "audit"]
  /\ UNCHANGED <<audit, alone>>
Audit(c) ==
  /\ controller[c].pc = "audit" /\ audit' = audit \cup controller[c].change
  /\ controller' = [controller EXCEPT ![c].pc = "ready", ![c].change = {}]
  /\ UNCHANGED <<stored, alone>>
ControllerEnds(c) ==    \* at any point: the process ends or dies
  /\ controller[c].pc # "none" /\ controller' = [controller EXCEPT ![c] = NoController]
  /\ UNCHANGED <<stored, audit, alone>>

ControllerStep(c) ==
  \/ Construct(c) \/ Monitor(c) \/ Persist(c) \/ Audit(c) \/ ControllerEnds(c)
  \/ \E replay, shadow, canary, trusted \in BOOLEAN :
       PromotePolicy(c, replay, shadow, canary, trusted)
RegistryNext == \E c \in Controllers : ControllerStep(c)
RegistrySpec == RegistryInit /\ [][RegistryNext]_registryVars
-------------------------------------------------------------------------------
(* LEARNING_POLICY.md:37, "automatic rollback to the previous known-good     *)
(* policy": in every registry, in memory or in the file, whoever overwrote   *)
(* it, versions are unique, at most one policy is active, it is newer than   *)
(* the superseded ones, and there is one as long as any is superseded.       *)
Lineage(policies) ==
  /\ \A p, q \in policies : p.version = q.version => p = q
  /\ \A p, q \in WithStatus(policies, "active") : p = q
  /\ \A p \in WithStatus(policies, "superseded") :
       \E q \in WithStatus(policies, "active") : q.version > p.version
(* "The failed policy remains recorded for analysis": as long as every       *)
(* controller works on the registry that is stored, each promotion the audit *)
(* file tells of is stored, and each rollback too, for good.  (A controller  *)
(* that was constructed earlier overwrites what others promoted.)            *)
PoliciesSound ==
  /\ Lineage(stored) /\ \A c \in Controllers : Lineage(controller[c].policies)
  /\ alone => \A entry \in audit : \E p \in stored :
       /\ p.version = entry.version
       /\ entry.event = "rollback" => p.status = "rolled_back"
===============================================================================
