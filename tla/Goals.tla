--------------------------------- MODULE Goals ---------------------------------
(***************************************************************************)
(* GoalManager (portable/goal_manager.py): goals with parents and            *)
(* dependencies in one SQLite table.  create is one transaction; set_status  *)
(* decides on a row it read before its UPDATE, and ready reads the candidates*)
(* and then the statuses.  Priorities, deadlines and progress are left out.  *)
(***************************************************************************)
EXTENDS Naturals, FiniteSets, FiniteSetsExt

CONSTANTS GoalIds, NoGoal,
          Managers,   \* the processes that use the table
          MaxGoals    \* max_goals
Settled == {"completed", "abandoned"}
Statuses == {"open", "active", "blocked"} \cup Settled
ASSUME GoalAssumption == NoGoal \notin GoalIds /\ MaxGoals \in Nat \ {0}

VARIABLES goals,    \* the rows: a function on the ids stored
          manager,  \* the call every process is in
          settled,  \* the first terminal status of the goals that had one
          raced     \* two set_status calls on one goal have overlapped
goalVars == <<goals, manager, settled, raced>>

NoCall == [pc |-> "idle", goal |-> NoGoal, status |-> "open", rows |-> {}]
GoalsInit ==
  /\ goals = [g \in {} |-> NoCall] /\ manager = [m \in Managers |-> NoCall]
  /\ settled = [g \in {} |-> "open"] /\ raced = FALSE
-------------------------------------------------------------------------------
Stored == DOMAIN goals
Settle(g, status) ==
  settled' = IF status \in Settled /\ g \notin DOMAIN settled
             THEN [h \in DOMAIN settled \cup {g} |-> IF h = g THEN status ELSE settled[h]]
             ELSE settled
(* create: parent and dependencies must be stored; an id that is stored      *)
(* already changes nothing, whether or not the contents agree.               *)
BugCreate(g, parent, deps, status) ==    \* mutant: a dependency may be created later
  /\ g \notin Stored /\ parent \in Stored \cup {NoGoal} /\ g \notin deps
  /\ Cardinality(Stored) < MaxGoals
  /\ goals' = [h \in Stored \cup {g} |-> IF h = g
                 THEN [parent |-> parent, deps |-> deps, status |-> status] ELSE goals[h]]
  /\ Settle(g, status) /\ UNCHANGED <<manager, raced>>
Create(g, parent, deps, status) ==
  /\ g \notin Stored /\ parent \in Stored \cup {NoGoal} /\ deps \subseteq Stored
  /\ Cardinality(Stored) < MaxGoals
  /\ goals' = [h \in Stored \cup {g} |-> IF h = g
                 THEN [parent |-> parent, deps |-> deps, status |-> status] ELSE goals[h]]
  /\ Settle(g, status) /\ UNCHANGED <<manager, raced>>

(* set_status: a terminal goal keeps its status.                             *)
ReadStatus(m, g, status) ==
  /\ manager[m] = NoCall /\ g \in Stored
  /\ goals[g].status \in Settled => status = goals[g].status
  /\ manager' = [manager EXCEPT ![m] = [NoCall EXCEPT !.pc = "update", !.goal = g, !.status = status]]
  /\ raced' = (raced \/ \E n \in Managers : manager[n].pc = "update" /\ manager[n].goal = g)
  /\ UNCHANGED <<goals, settled>>
UpdateStatus(m) ==
  /\ manager[m].pc = "update"
  /\ LET g == manager[m].goal IN
     /\ goals' = [goals EXCEPT ![g].status = manager[m].status]
     /\ Settle(g, manager[m].status)
  /\ manager' = [manager EXCEPT ![m] = NoCall] /\ UNCHANGED raced

(* ready: the open and active goals, then the statuses of all goals.         *)
ReadRows(m) ==
  /\ manager[m] = NoCall
  /\ manager' = [manager EXCEPT ![m] = [NoCall EXCEPT !.pc = "statuses",
       !.rows = {g \in Stored : goals[g].status \in {"open", "active"}}]]
  /\ UNCHANGED <<goals, settled, raced>>
BugReadStatuses(m) ==    \* mutant: what is no longer open counts as done
  /\ manager[m].pc = "statuses"
  /\ manager' = [manager EXCEPT ![m].pc = "answered",
       ![m].rows = {g \in @ : \A d \in goals[g].deps : goals[d].status \notin {"open", "active"}}]
  /\ UNCHANGED <<goals, settled, raced>>
ReadStatuses(m) ==
  /\ manager[m].pc = "statuses"
  /\ manager' = [manager EXCEPT ![m].pc = "answered",
       ![m].rows = {g \in @ : \A d \in goals[g].deps : goals[d].status = "completed"}]
  /\ UNCHANGED <<goals, settled, raced>>
(* The caller has used the answer, or a process died within a call.          *)
CallEnds(m) ==
  /\ manager[m] # NoCall /\ manager' = [manager EXCEPT ![m] = NoCall]
  /\ UNCHANGED <<goals, settled, raced>>

GoalsNext ==
  \/ \E g \in GoalIds, parent \in GoalIds \cup {NoGoal}, deps \in SUBSET GoalIds,
        status \in Statuses : Create(g, parent, deps, status)
  \/ \E m \in Managers :
       \/ \E g \in GoalIds, status \in Statuses : ReadStatus(m, g, status)
       \/ UpdateStatus(m) \/ ReadRows(m) \/ ReadStatuses(m) \/ CallEnds(m)
GoalsSpec == GoalsInit /\ [][GoalsNext]_goalVars
-------------------------------------------------------------------------------
(* goal_manager.py:153, "terminal goal cannot be reopened": unless two       *)
(* set_status calls overlap on a goal, what is completed or abandoned stays  *)
(* so; the goals ready returned then have all their dependencies completed   *)
(* when the caller uses them, however long that takes; and no goals wait for *)
(* each other in a circle, so that the work can always go on.                *)
GoalsSound ==
  /\ ~raced =>
       /\ \A g \in DOMAIN settled : goals[g].status = settled[g]
       /\ \A m \in Managers : manager[m].pc = "answered" =>
            \A g \in manager[m].rows, d \in GoalIds :
              d \in goals[g].deps => goals[d].status = "completed"
  /\ \A circle \in (SUBSET Stored) \ {{}} :
       \E g \in circle : (goals[g].deps \cup {goals[g].parent}) \cap circle = {}
================================================================================
