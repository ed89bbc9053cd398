------------------------------ MODULE Stores_proofs ------------------------------
(***************************************************************************)
(* The stores that decide what is active or what may be worked on, for any   *)
(* number of processes, rows, crashes and steps: the goals, the policy       *)
(* registry, the installed builds, the release channels, the trial of a      *)
(* capability.                                                               *)
(***************************************************************************)
EXTENDS Goals, PolicyRegistry, Installation, ArtifactRelease, CapabilityLifecycle, Recursion,
        FiniteSetTheorems, TLAPS

(* A goal depends on goals that were stored before it, which is why no set   *)
(* of goals waits for itself.  A process that is about to write a status has *)
(* read a row that allowed it, and unless two processes did so for one goal, *)
(* the row still does; what is completed is completed when it is used.       *)
GoalRow == [parent : GoalIds \cup {NoGoal}, deps : SUBSET GoalIds, status : Statuses]
GoalCall == [pc : {"update", "statuses", "answered"}, goal : GoalIds \cup {NoGoal},
             status : Statuses, rows : SUBSET GoalIds]
Before(g) == goals[g].deps \cup {goals[g].parent}
GoalsTyped ==
  /\ Stored \subseteq GoalIds /\ goals \in [Stored -> GoalRow] /\ raced \in BOOLEAN
  /\ DOMAIN settled \subseteq Stored /\ settled \in [DOMAIN settled -> Settled]
  /\ manager \in [Managers -> GoalCall \cup {NoCall}]
StoredBefore == \A g \in Stored : Before(g) \subseteq Stored \cup {NoGoal}
CallsKnow == \A m \in Managers :
  /\ manager[m].pc = "update" => manager[m].goal \in Stored
  /\ manager[m].rows \subseteq Stored
NoCircle == \A circle \in (SUBSET Stored) \ {{}} : \E g \in circle : Before(g) \cap circle = {}
Recorded == \A g \in Stored : goals[g].status \in Settled => g \in DOMAIN settled
Updating(m, g) == manager[m].pc = "update" /\ manager[m].goal = g
Unraced == ~raced =>
  /\ \A g \in DOMAIN settled : goals[g].status = settled[g]
  /\ \A m \in Managers, g \in Stored : Updating(m, g) /\ goals[g].status \in Settled =>
       manager[m].status = goals[g].status
  /\ \A m, n \in Managers, g \in Stored : Updating(m, g) /\ Updating(n, g) => m = n
  /\ \A m \in Managers : manager[m].pc = "answered" =>
       \A g \in manager[m].rows : \A d \in goals[g].deps : goals[d].status = "completed"
GoalsInv ==
  GoalsTyped /\ StoredBefore /\ CallsKnow /\ NoCircle /\ Recorded /\ Unraced

(* The invariant of the goals carries what the run checks of them.          *)
LEMMA GoalsInvImplies == GoalsInv => GoalsSound
BY DEF GoalsInv, Unraced, NoCircle, Before, GoalsSound

(* No goal is stored.                                                       *)
LEMMA GoalsInvInit == GoalsInit => GoalsInv
<1> SUFFICES ASSUME GoalsInit PROVE GoalsInv
  OBVIOUS
<1> USE DEF GoalsInit
<1>1. Stored = {} /\ DOMAIN settled = {}
  BY DEF Stored
<1>2. GoalsTyped
  BY <1>1 DEF GoalsTyped
<1>3. CallsKnow /\ Unraced
  BY <1>1 DEF CallsKnow, Unraced, NoCall
<1>4. StoredBefore /\ Recorded
  BY <1>1 DEF StoredBefore, Recorded
<1>5. (SUBSET Stored) \ {{}} = {}
  BY <1>1
<1>6. NoCircle
  BY <1>5 DEF NoCircle
<1> QED
  BY <1>2, <1>3, <1>4, <1>6 DEF GoalsInv

(* create stores a goal that depends on stored ones only, and that none     *)
(* depends on yet.                                                          *)
LEMMA CreateStep ==
  ASSUME GoalsInv, NEW g \in GoalIds, NEW parent \in GoalIds \cup {NoGoal},
         NEW deps \in SUBSET GoalIds, NEW status \in Statuses, Create(g, parent, deps, status)
  PROVE  GoalsInv'
<1> DEFINE row == [parent |-> parent, deps |-> deps, status |-> status]
<1>1. GoalsTyped /\ StoredBefore /\ CallsKnow /\ NoCircle /\ Recorded /\ Unraced
  BY DEF GoalsInv
<1>2. /\ g \notin Stored /\ parent \in Stored \cup {NoGoal} /\ deps \subseteq Stored
      /\ goals' = [h \in Stored \cup {g} |-> IF h = g THEN row ELSE goals[h]]
      /\ manager' = manager /\ raced' = raced /\ Settle(g, status)
  BY DEF Create
<1>3. Stored' = Stored \cup {g} /\ goals'[g] = row /\ \A h \in Stored : goals'[h] = goals[h]
  BY <1>2 DEF Stored
<1>4. row \in GoalRow /\ row.status = status /\ row.deps = deps /\ row.parent = parent
  BY DEF GoalRow
<1> HIDE DEF row
<1>5. g # NoGoal /\ NoGoal \notin Stored
  BY <1>1, GoalAssumption DEF GoalsTyped
<1>6. /\ DOMAIN settled' = DOMAIN settled \cup (IF status \in Settled THEN {g} ELSE {})
      /\ \A h \in DOMAIN settled : settled'[h] = settled[h]
      /\ status \in Settled => settled'[g] = status
      /\ settled' \in [DOMAIN settled' -> Settled]
  BY <1>1, <1>2 DEF Settle, GoalsTyped
<1>7. GoalsTyped'
  <2>1. goals' \in [Stored' -> GoalRow]
    BY <1>1, <1>2, <1>3, <1>4 DEF GoalsTyped
  <2>2. Stored' \subseteq GoalIds /\ DOMAIN settled' \subseteq Stored'
    BY <1>1, <1>3, <1>6 DEF GoalsTyped
  <2>3. raced' \in BOOLEAN /\ manager' \in [Managers -> GoalCall \cup {NoCall}]
    BY <1>1, <1>2 DEF GoalsTyped
  <2>4. settled' \in [DOMAIN settled' -> Settled]
    BY <1>6
  <2> QED
    BY <2>1, <2>2, <2>3, <2>4, Zenon DEF GoalsTyped
<1>8. /\ \A h \in Stored : Before(h)' = Before(h) /\ Before(h) \subseteq Stored \cup {NoGoal}
      /\ Before(g)' \subseteq Stored \cup {NoGoal}
  BY <1>1, <1>2, <1>3, <1>4 DEF Before, StoredBefore
<1>9. StoredBefore'
  BY <1>3, <1>8 DEF StoredBefore
<1>10. CallsKnow'
  BY <1>1, <1>2, <1>3 DEF CallsKnow
<1>11. NoCircle'
  <2> SUFFICES ASSUME NEW circle \in SUBSET (Stored \cup {g}), circle # {}
               PROVE  \E h \in circle : Before(h)' \cap circle = {}
    BY <1>3 DEF NoCircle
  <2>1. CASE circle = {g}
    BY <1>2, <1>5, <1>8, <2>1
  <2>2. CASE circle # {g}
    <3>1. circle \ {g} \in (SUBSET Stored) \ {{}}
      BY <2>2
    <3>2. PICK h \in circle \ {g} : Before(h) \cap (circle \ {g}) = {}
      BY <1>1, <3>1 DEF NoCircle
    <3>3. h \in Stored /\ Before(h)' = Before(h) /\ g \notin Before(h)
      BY <1>2, <1>5, <1>8
    <3> QED
      BY <3>2, <3>3
  <2> QED
    BY <2>1, <2>2
<1>12. Recorded'
  BY <1>1, <1>3, <1>4, <1>6 DEF Recorded
<1>13. Unraced'
  <2> SUFFICES ASSUME ~raced PROVE Unraced'
    BY <1>2 DEF Unraced
  <2>1. \A h \in DOMAIN settled' : goals'[h].status = settled'[h]
    <3> SUFFICES ASSUME NEW h \in DOMAIN settled' PROVE goals'[h].status = settled'[h]
      OBVIOUS
    <3>1. CASE h \in DOMAIN settled
      <4>1. h \in Stored /\ goals[h].status = settled[h]
        BY <1>1, <3>1 DEF Unraced, GoalsTyped
      <4> QED
        BY <1>3, <1>6, <3>1, <4>1
    <3>2. CASE h \notin DOMAIN settled
      <4>1. h = g /\ status \in Settled
        BY <1>6, <3>2
      <4> QED
        BY <1>3, <1>4, <1>6, <4>1
    <3> QED
      BY <3>1, <3>2
  <2>2. \A m \in Managers : ~Updating(m, g)
    BY <1>1, <1>2 DEF CallsKnow, Updating
  <2>3. \A m \in Managers : \A h : Updating(m, h)' <=> Updating(m, h)
    BY <1>2 DEF Updating
  <2>4. \A m \in Managers, h \in Stored' : Updating(m, h)' /\ goals'[h].status \in Settled =>
          manager'[m].status = goals'[h].status
    BY <1>1, <1>2, <1>3, <2>2, <2>3 DEF Unraced
  <2>5. \A m, n \in Managers, h \in Stored' : Updating(m, h)' /\ Updating(n, h)' => m = n
    BY <1>1, <1>3, <2>2, <2>3 DEF Unraced
  <2>6. ASSUME NEW m \in Managers, manager[m].pc = "answered", NEW h \in manager[m].rows,
               NEW d \in goals'[h].deps
        PROVE  goals'[d].status = "completed"
    <3>1. h \in Stored /\ goals'[h] = goals[h]
      BY <1>1, <1>3 DEF CallsKnow
    <3>2. goals[d].status = "completed"
      BY <1>1, <2>6, <3>1 DEF Unraced
    <3>3. d \in Stored
      BY <1>1, <3>1, GoalAssumption DEF StoredBefore, Before, GoalsTyped, GoalRow
    <3> QED
      BY <1>3, <3>2, <3>3
  <2> QED
    BY <1>2, <2>1, <2>4, <2>5, <2>6 DEF Unraced
<1> QED
  BY <1>7, <1>9, <1>10, <1>11, <1>12, <1>13 DEF GoalsInv

(* A call that changes no goal and starts no write.                          *)
LEMMA CallStep ==
  ASSUME GoalsInv, NEW m \in Managers, NEW call \in GoalCall \cup {NoCall},
         manager' = [manager EXCEPT ![m] = call], UNCHANGED <<goals, settled, raced>>,
         call.pc # "update", call.rows \subseteq Stored,
         ~raced /\ call.pc = "answered" =>
           \A g \in call.rows : \A d \in goals[g].deps : goals[d].status = "completed"
  PROVE  GoalsInv'
<1>1. GoalsTyped /\ StoredBefore /\ CallsKnow /\ NoCircle /\ Recorded /\ Unraced
  BY DEF GoalsInv
<1>2. \A n \in Managers : manager'[n] = IF n = m THEN call ELSE manager[n]
  BY <1>1 DEF GoalsTyped
<1>3. GoalsTyped'
  BY <1>1 DEF GoalsTyped, Stored
<1>4. StoredBefore' /\ NoCircle' /\ Recorded'
  BY <1>1 DEF StoredBefore, NoCircle, Recorded, Before, Stored
<1>5. CallsKnow'
  BY <1>1, <1>2 DEF CallsKnow, Stored
<1>6. Unraced'
  <2> SUFFICES ASSUME ~raced PROVE Unraced'
    BY DEF Unraced
  <2>1. \A n \in Managers : \A g : Updating(n, g)' => Updating(n, g) /\ manager'[n] = manager[n]
    BY <1>2 DEF Updating
  <2>2. \A n \in Managers, g \in Stored' : Updating(n, g)' /\ goals'[g].status \in Settled =>
          manager'[n].status = goals'[g].status
    BY <1>1, <2>1 DEF Unraced, Stored
  <2>3. \A n, k \in Managers, g \in Stored' : Updating(n, g)' /\ Updating(k, g)' => n = k
    BY <1>1, <2>1 DEF Unraced, Stored
  <2>4. \A n \in Managers : manager'[n].pc = "answered" =>
          \A g \in manager'[n].rows : \A d \in goals'[g].deps : goals'[d].status = "completed"
    BY <1>1, <1>2 DEF Unraced
  <2> QED
    BY <1>1, <2>2, <2>3, <2>4 DEF Unraced
<1> QED
  BY <1>3, <1>4, <1>5, <1>6 DEF GoalsInv

(* The SELECT of set_status lets a call go on only with a row that allows   *)
(* its status.                                                              *)
LEMMA ReadStatusStep ==
  ASSUME GoalsInv, NEW m \in Managers, NEW g \in GoalIds, NEW status \in Statuses,
         ReadStatus(m, g, status)
  PROVE  GoalsInv'
<1> DEFINE call == [NoCall EXCEPT !.pc = "update", !.goal = g, !.status = status]
<1>1. GoalsTyped /\ StoredBefore /\ CallsKnow /\ NoCircle /\ Recorded /\ Unraced
  BY DEF GoalsInv
<1>2. /\ call \in GoalCall /\ call.pc = "update" /\ call.goal = g
      /\ call.status = status /\ call.rows = {}
  BY DEF GoalCall, NoCall
<1>3. /\ g \in Stored /\ (goals[g].status \in Settled => status = goals[g].status)
      /\ manager' = [manager EXCEPT ![m] = call] /\ goals' = goals /\ settled' = settled
      /\ raced' = (raced \/ \E n \in Managers : Updating(n, g))
  BY DEF ReadStatus, Updating
<1> HIDE DEF call
<1>4. \A n \in Managers : manager'[n] = IF n = m THEN call ELSE manager[n]
  BY <1>1, <1>3 DEF GoalsTyped
<1>5. GoalsTyped'
  BY <1>1, <1>2, <1>3 DEF GoalsTyped, Stored
<1>6. StoredBefore' /\ NoCircle' /\ Recorded'
  BY <1>1, <1>3 DEF StoredBefore, NoCircle, Recorded, Before, Stored
<1>7. CallsKnow'
  BY <1>1, <1>2, <1>3, <1>4 DEF CallsKnow, Stored
<1>8. Unraced'
  <2> SUFFICES ASSUME ~raced' PROVE Unraced'
    BY DEF Unraced
  <2>1. ~raced /\ \A n \in Managers : ~Updating(n, g)
    BY <1>3
  <2>2. \A n \in Managers : \A h : Updating(n, h)' => IF n = m THEN h = g
                                                  ELSE Updating(n, h) /\ manager'[n] = manager[n]
    BY <1>2, <1>4 DEF Updating
  <2>3. \A n \in Managers, h \in Stored' : Updating(n, h)' /\ goals'[h].status \in Settled =>
          manager'[n].status = goals'[h].status
    BY <1>1, <1>2, <1>3, <1>4, <2>1, <2>2 DEF Unraced, Stored
  <2>4. \A n, k \in Managers, h \in Stored' : Updating(n, h)' /\ Updating(k, h)' => n = k
    BY <1>1, <1>3, <2>1, <2>2 DEF Unraced, Stored
  <2>5. \A n \in Managers : manager'[n].pc = "answered" =>
          \A h \in manager'[n].rows : \A d \in goals'[h].deps : goals'[d].status = "completed"
    BY <1>1, <1>2, <1>3, <1>4, <2>1 DEF Unraced
  <2> QED
    BY <1>1, <1>3, <2>1, <2>3, <2>4, <2>5 DEF Unraced
<1> QED
  BY <1>5, <1>6, <1>7, <1>8 DEF GoalsInv

(* The UPDATE writes what was allowed when the row was read.                *)
LEMMA UpdateStatusStep ==
  ASSUME GoalsInv, NEW m \in Managers, UpdateStatus(m)
  PROVE  GoalsInv'
<1>1. GoalsTyped /\ StoredBefore /\ CallsKnow /\ NoCircle /\ Recorded /\ Unraced
  BY DEF GoalsInv
<1> DEFINE g == manager[m].goal
           status == manager[m].status
<1>2. /\ manager[m].pc = "update" /\ goals' = [goals EXCEPT ![g].status = status]
      /\ Settle(g, status) /\ manager' = [manager EXCEPT ![m] = NoCall] /\ raced' = raced
  BY DEF UpdateStatus
<1>3. /\ manager[m] \in GoalCall \cup {NoCall} /\ manager[m].pc # NoCall.pc
      /\ g \in Stored /\ Updating(m, g)
  BY <1>1, <1>2 DEF GoalsTyped, CallsKnow, Updating, NoCall
<1>4. status \in Statuses
  BY <1>3 DEF GoalCall
<1> HIDE DEF g, status
<1>5. \A n \in Managers : manager'[n] = IF n = m THEN NoCall ELSE manager[n]
  BY <1>1, <1>2 DEF GoalsTyped
<1>6. /\ NoCall.pc = "idle" /\ NoCall.rows = {}
  BY DEF NoCall
<1>7. /\ goals' \in [Stored -> GoalRow] /\ Stored' = Stored
      /\ \A h \in Stored : /\ goals'[h].deps = goals[h].deps
                           /\ goals'[h].parent = goals[h].parent
                           /\ goals'[h].status = IF h = g THEN status ELSE goals[h].status
  <2>1. goals \in [Stored -> GoalRow] /\ g \in Stored
    BY <1>1, <1>3 DEF GoalsTyped
  <2>2. goals' \in [Stored -> GoalRow]
    BY <1>2, <1>4, <2>1 DEF GoalRow
  <2>3. Stored' = Stored
    BY <1>2 DEF Stored
  <2>4. \A h \in Stored : goals[h] \in GoalRow
    BY <2>1
  <2> QED
    BY <1>2, <2>1, <2>2, <2>3, <2>4 DEF GoalRow
<1>8. /\ DOMAIN settled' = DOMAIN settled \cup (IF status \in Settled THEN {g} ELSE {})
      /\ \A h \in DOMAIN settled : settled'[h] = settled[h]
      /\ status \in Settled /\ g \notin DOMAIN settled => settled'[g] = status
      /\ settled' \in [DOMAIN settled' -> Settled]
  BY <1>1, <1>2 DEF Settle, GoalsTyped
<1>9. GoalsTyped'
  <2>1. manager' \in [Managers -> GoalCall \cup {NoCall}]
    BY <1>1, <1>2 DEF GoalsTyped
  <2>2. Stored' \subseteq GoalIds /\ DOMAIN settled' \subseteq Stored'
    BY <1>1, <1>3, <1>7, <1>8 DEF GoalsTyped
  <2>3. goals' \in [Stored' -> GoalRow] /\ raced' \in BOOLEAN
    BY <1>1, <1>2, <1>7 DEF GoalsTyped
  <2> QED
    BY <1>8, <2>1, <2>2, <2>3, Zenon DEF GoalsTyped
<1>10. \A h \in Stored : Before(h)' = Before(h)
  BY <1>7 DEF Before
<1>11. StoredBefore' /\ NoCircle'
  BY <1>1, <1>7, <1>10 DEF StoredBefore, NoCircle
<1>12. CallsKnow'
  BY <1>1, <1>5, <1>6, <1>7 DEF CallsKnow
<1>13. Recorded'
  BY <1>1, <1>7, <1>8 DEF Recorded
<1>14. Unraced'
  <2> SUFFICES ASSUME ~raced PROVE Unraced'
    BY <1>2 DEF Unraced
  <2>1. goals[g].status \in Settled => status = goals[g].status
    BY <1>1, <1>3 DEF Unraced, status
  <2>2. g \in DOMAIN settled => settled[g] = goals[g].status /\ settled[g] \in Settled
    BY <1>1 DEF Unraced, GoalsTyped
  <2>3. \A h \in DOMAIN settled' : goals'[h].status = settled'[h]
    <3> SUFFICES ASSUME NEW h \in DOMAIN settled' PROVE goals'[h].status = settled'[h]
      OBVIOUS
    <3>1. h \in Stored
      BY <1>7, <1>9 DEF GoalsTyped
    <3>2. CASE h \in DOMAIN settled /\ h # g
      <4>1. goals[h].status = settled[h]
        BY <1>1, <3>2 DEF Unraced
      <4> QED
        BY <1>7, <1>8, <3>1, <3>2, <4>1
    <3>3. CASE h \in DOMAIN settled /\ h = g
      BY <1>7, <1>8, <2>1, <2>2, <3>1, <3>3
    <3>4. CASE h \notin DOMAIN settled
      BY <1>7, <1>8, <3>1, <3>4
    <3> QED
      BY <3>2, <3>3, <3>4
  <2>4. \A n \in Managers : \A h : Updating(n, h)' =>
          n # m /\ Updating(n, h) /\ manager'[n] = manager[n]
    BY <1>5, <1>6 DEF Updating
  <2>5. \A n \in Managers, h \in Stored : Updating(n, h)' => h # g
    BY <1>1, <1>3, <2>4 DEF Unraced
  <2>6. \A n \in Managers, h \in Stored' : Updating(n, h)' /\ goals'[h].status \in Settled =>
          manager'[n].status = goals'[h].status
    BY <1>1, <1>7, <2>4, <2>5 DEF Unraced
  <2>7. \A n, k \in Managers, h \in Stored' : Updating(n, h)' /\ Updating(k, h)' => n = k
    BY <1>1, <1>7, <2>4 DEF Unraced
  <2>8. ASSUME NEW n \in Managers, manager'[n].pc = "answered", NEW h \in manager'[n].rows,
               NEW d \in goals'[h].deps
        PROVE  goals'[d].status = "completed"
    <3>1. n # m /\ manager'[n] = manager[n]
      BY <1>5, <1>6, <2>8
    <3>2. h \in Stored /\ d \in goals[h].deps
      BY <1>1, <1>7, <2>8, <3>1 DEF CallsKnow
    <3>3. goals[d].status = "completed"
      BY <1>1, <2>8, <3>1, <3>2 DEF Unraced
    <3>4. goals \in [Stored -> GoalRow] /\ goals[h] \in GoalRow
      BY <1>1, <3>2 DEF GoalsTyped
    <3>5. d \in Stored
      BY <1>1, <3>2, <3>4, GoalAssumption DEF StoredBefore, Before, GoalRow
    <3>6. d = g => status = "completed"
      BY <2>1, <3>3 DEF Settled
    <3> QED
      BY <1>7, <3>3, <3>5, <3>6
  <2> QED
    BY <1>2, <2>3, <2>6, <2>7, <2>8 DEF Unraced
<1> QED
  BY <1>9, <1>11, <1>12, <1>13, <1>14 DEF GoalsInv

(* The two reads of ready, and the end of a call, write nothing; a goal     *)
(* that is completed stays so between them.                                 *)
LEMMA ReadStep ==
  ASSUME GoalsInv, NEW m \in Managers, ReadRows(m) \/ ReadStatuses(m) \/ CallEnds(m)
  PROVE  GoalsInv'
<1>1. GoalsTyped /\ CallsKnow
  BY DEF GoalsInv
<1>2. CASE ReadRows(m)
  <2> DEFINE call == [NoCall EXCEPT !.pc = "statuses",
                        !.rows = {g \in Stored : goals[g].status \in {"open", "active"}}]
  <2>1. call \in GoalCall /\ call.pc = "statuses" /\ call.rows \subseteq Stored
    BY <1>1 DEF GoalCall, NoCall, GoalsTyped, Statuses
  <2>2. manager' = [manager EXCEPT ![m] = call] /\ UNCHANGED <<goals, settled, raced>>
    BY <1>2 DEF ReadRows
  <2> HIDE DEF call
  <2> QED
    BY <2>1, <2>2, CallStep
<1>3. CASE ReadStatuses(m)
  <2> DEFINE ready == {g \in manager[m].rows :
                         \A d \in goals[g].deps : goals[d].status = "completed"}
             call == [manager[m] EXCEPT !.pc = "answered", !.rows = ready]
  <2>1. manager[m] \in GoalCall /\ manager[m].rows \subseteq Stored
    BY <1>1, <1>3 DEF ReadStatuses, GoalsTyped, CallsKnow, NoCall
  <2>2. ready \subseteq Stored /\ ready \subseteq GoalIds
    BY <1>1, <2>1 DEF GoalsTyped
  <2>3. \A g \in ready : \A d \in goals[g].deps : goals[d].status = "completed"
    OBVIOUS
  <2>4. manager' = [manager EXCEPT ![m] = call] /\ UNCHANGED <<goals, settled, raced>>
    BY <1>1, <1>3 DEF ReadStatuses, GoalsTyped
  <2> HIDE DEF ready
  <2>5. call \in GoalCall /\ call.pc = "answered" /\ call.rows = ready
    BY <2>1, <2>2 DEF GoalCall
  <2> HIDE DEF call
  <2> QED
    BY <2>2, <2>3, <2>4, <2>5, CallStep
<1>4. CASE CallEnds(m)
  <2>1. manager' = [manager EXCEPT ![m] = NoCall] /\ UNCHANGED <<goals, settled, raced>>
    BY <1>4 DEF CallEnds
  <2>2. NoCall.pc = "idle" /\ NoCall.rows = {}
    BY DEF NoCall
  <2> QED
    BY <2>1, <2>2, CallStep
<1> QED
  BY <1>2, <1>3, <1>4

(* One step for each statement.                                             *)
LEMMA GoalsInvNext == GoalsInv /\ [GoalsNext]_goalVars => GoalsInv'
<1> SUFFICES ASSUME GoalsInv, [GoalsNext]_goalVars PROVE GoalsInv'
  OBVIOUS
<1>1. CASE UNCHANGED goalVars
  BY <1>1 DEF goalVars, GoalsInv, GoalsTyped, StoredBefore, CallsKnow, NoCircle, Recorded,
              Unraced, Updating, Before, Stored
<1>2. CASE GoalsNext
  BY <1>2, CreateStep, ReadStatusStep, UpdateStatusStep, ReadStep DEF GoalsNext
<1> QED
  BY <1>1, <1>2

(* Whatever the processes do to the table (GoalManager.create, set_status    *)
(* and ready): unless two set_status calls overlapped on one goal, what was  *)
(* completed or abandoned first stays so and what ready returned has its     *)
(* dependencies completed; and no goals ever wait for each other.            *)
THEOREM GoalsKept == GoalsSpec => []GoalsSound
<1>1. GoalsInit => GoalsInv
  BY GoalsInvInit
<1>2. GoalsInv /\ [GoalsNext]_goalVars => GoalsInv'
  BY GoalsInvNext
<1>3. GoalsInv => GoalsSound
  BY GoalsInvImplies
<1> QED
  BY <1>1, <1>2, <1>3, PTL DEF GoalsSpec
-------------------------------------------------------------------------------
(* Promotion and rollback keep a registry's lineage whatever registry they   *)
(* start from, so that overwriting one registry with another does too.  What *)
(* the audit file tells of is stored because one controller at a time is     *)
(* between changing its registry and telling of it, and nothing it starts    *)
(* from is lost.                                                             *)
Policy == [version : 1..MaxVersion, status : {"active", "superseded", "rolled_back"}]
Event == [event : {"promotion", "rollback"}, version : 1..MaxVersion]
Working(c) == controller[c].pc \in {"persist", "audit"}
RegistryTyped ==
  /\ stored \subseteq Policy /\ audit \subseteq Event /\ alone \in BOOLEAN
  /\ controller \in [Controllers -> [pc : {"none", "ready", "persist", "audit"},
                                     policies : SUBSET Policy, change : SUBSET Event]]
Backed(policies, entries) == \A entry \in entries : \E p \in policies :
  /\ p.version = entry.version
  /\ entry.event = "rollback" => p.status = "rolled_back"
OneWriter == alone =>
  /\ \A c, d \in Controllers : Working(c) /\ Working(d) => c = d
  /\ Backed(stored, audit)
  /\ \A c \in Controllers :
       /\ controller[c].pc = "persist" => /\ Backed(controller[c].policies, audit)
                                          /\ Backed(controller[c].policies, controller[c].change)
       /\ controller[c].pc = "audit" => Backed(stored, controller[c].change)
Lineages == Lineage(stored) /\ \A c \in Controllers : Lineage(controller[c].policies)
RegistryInv == RegistryTyped /\ Lineages /\ OneWriter

(* The invariant of the registry carries what the run checks of it.         *)
LEMMA RegistryInvImplies == RegistryInv => PoliciesSound
BY DEF RegistryInv, Lineages, OneWriter, Backed, PoliciesSound

(* An empty registry without controllers.                                   *)
LEMMA RegistryInvInit == RegistryInit => RegistryInv
<1> SUFFICES ASSUME RegistryInit PROVE RegistryInv
  OBVIOUS
<1>1. \A c \in Controllers : controller[c] = NoController
  BY DEF RegistryInit
<1>2. Lineage({})
  BY DEF Lineage, WithStatus
<1>3. RegistryTyped
  BY DEF RegistryInit, RegistryTyped, NoController
<1>4. Lineages /\ OneWriter
  BY <1>1, <1>2 DEF RegistryInit, NoController, Lineages, OneWriter, Working, Backed
<1> QED
  BY <1>3, <1>4 DEF RegistryInv

(* A promotion's version is above every version of the registry.             *)
LEMMA NewestVersion ==
  ASSUME NEW policies \in SUBSET Policy
  PROVE  /\ NextVersion(policies) \in Nat \ {0}
         /\ \A p \in policies : p.version < NextVersion(policies)
<1> DEFINE S == {p.version : p \in policies} \cup {0}
<1>1. MaxVersion \in Nat
  BY RegistryAssumption
<1>2. \A p \in policies : p.version \in 1..MaxVersion
  BY DEF Policy
<1>3. S \in SUBSET (0..MaxVersion) /\ 0 \in S /\ \A p \in policies : p.version \in S
  BY <1>1, <1>2
<1> HIDE DEF S
<1>4. \E x \in S : \A y \in S : y <= x
  BY <1>1, <1>3, IntervalMaximum
<1>5. \A x, y \in S : y <= x <=> x >= y
  BY <1>3
<1>6. \E x \in S : \A y \in S : x >= y
  BY <1>4, <1>5
<1>7. Max(S) \in S /\ \A y \in S : Max(S) >= y
  BY <1>6 DEF Max
<1>8. NextVersion(policies) = 1 + Max(S)
  BY DEF NextVersion, S
<1> DEFINE newest == Max(S)
<1>9. newest \in 0..MaxVersion /\ \A p \in policies : newest >= p.version
  BY <1>3, <1>7
<1> HIDE DEF newest
<1>10. newest \in Nat /\ \A p \in policies : p.version < 1 + newest
  BY <1>1, <1>2, <1>9
<1> QED
  BY <1>8, <1>10 DEF newest

(* A promotion keeps the lineage and every version, adds its own and        *)
(* forgets no rollback.                                                     *)
LEMMA PromotedKeeps ==
  ASSUME NEW policies \in SUBSET Policy, Lineage(policies), NextVersion(policies) <= MaxVersion
  PROVE  /\ Promoted(policies) \in SUBSET Policy
         /\ Lineage(Promoted(policies))
         /\ \A p \in policies : \E q \in Promoted(policies) :
              q.version = p.version /\ (p.status = "rolled_back" => q.status = "rolled_back")
         /\ \E q \in Promoted(policies) : q.version = NextVersion(policies)
<1> DEFINE Next(p) == [p EXCEPT !.status = IF @ = "active" THEN "superseded" ELSE @]
           new == [version |-> NextVersion(policies), status |-> "active"]
<1>1. Promoted(policies) = {Next(p) : p \in policies} \cup {new}
  BY DEF Promoted
<1>2. NextVersion(policies) \in 1..MaxVersion
        /\ \A p \in policies : p.version < NextVersion(policies)
  BY NewestVersion, RegistryAssumption
<1>3. \A p \in policies :
        /\ Next(p) \in Policy /\ Next(p).version = p.version
        /\ Next(p).status = IF p.status = "active" THEN "superseded" ELSE p.status
  BY DEF Policy
<1>4. new \in Policy /\ new.version = NextVersion(policies) /\ new.status = "active"
  BY <1>2 DEF Policy
<1> HIDE DEF Next, new
<1>5. \A q \in Promoted(policies) : q = new \/ \E p \in policies : q = Next(p)
  BY <1>1
<1>6. \A p \in policies : Next(p) \in Promoted(policies)
  BY <1>1
<1>7. Lineage(Promoted(policies))
  <2>1. \A p, q \in Promoted(policies) : p.version = q.version => p = q
    <3> SUFFICES ASSUME NEW p \in Promoted(policies), NEW q \in Promoted(policies),
                        p.version = q.version
                 PROVE  p = q
      OBVIOUS
    <3>1. \A r \in policies : r.version # NextVersion(policies)
      BY <1>2, RegistryAssumption DEF Policy
    <3> QED
      BY <1>3, <1>4, <1>5, <3>1 DEF Lineage
  <2>2. \A p \in Promoted(policies) : p.status = "active" => p = new
    BY <1>3, <1>5
  <2>3. \A p \in Promoted(policies) : p # new => p.version < new.version
    BY <1>2, <1>3, <1>4, <1>5
  <2>4. new \in WithStatus(Promoted(policies), "active")
    BY <1>1, <1>4 DEF WithStatus
  <2>5. \A p \in Promoted(policies) : p.status = "superseded" => new.version > p.version
    BY <1>2, <1>3, <1>4, <1>5 DEF Policy
  <2> QED
    BY <2>1, <2>2, <2>4, <2>5 DEF Lineage, WithStatus
<1> QED
  BY <1>1, <1>3, <1>4, <1>6, <1>7

(* A rollback keeps the lineage and every version, and marks its own.       *)
LEMMA RolledBackKeeps ==
  ASSUME NEW policies \in SUBSET Policy, Lineage(policies),
         NEW policy \in WithStatus(policies, "active")
  PROVE  /\ RolledBack(policies, policy) \in SUBSET Policy
         /\ Lineage(RolledBack(policies, policy))
         /\ \A p \in policies : \E q \in RolledBack(policies, policy) :
              q.version = p.version /\ (p.status = "rolled_back" => q.status = "rolled_back")
         /\ \E q \in RolledBack(policies, policy) :
              q.version = policy.version /\ q.status = "rolled_back"
<1> DEFINE prior == {p \in WithStatus(policies, "superseded") : p.version < policy.version}
           restored == IF prior = {} THEN {} ELSE {Highest(prior)}
           back == [policy EXCEPT !.status = "rolled_back"]
           Active(p) == [p EXCEPT !.status = "active"]
           result == RolledBack(policies, policy)
<1>1. result = (policies \ ({policy} \cup restored)) \cup {back}
                 \cup {Active(p) : p \in restored}
  BY DEF RolledBack
<1>2. policy \in policies /\ policy.status = "active" /\ policy \in Policy
  BY DEF WithStatus
<1>3. \A p \in policies : p \in Policy /\ p.version \in 1..MaxVersion
  BY DEF Policy
<1>4. back \in Policy /\ back.version = policy.version /\ back.status = "rolled_back"
  BY <1>2 DEF Policy
<1>5. prior = WithStatus(policies, "superseded")
  <2>1. \A p \in WithStatus(policies, "superseded") : policy.version > p.version
    BY DEF Lineage
  <2>2. \A p \in WithStatus(policies, "superseded") : p.version < policy.version
    BY <1>2, <1>3, <2>1, RegistryAssumption DEF WithStatus
  <2> QED
    BY <2>2
<1>6. \A p \in restored : /\ p \in prior /\ \A q \in prior : q.version <= p.version
                          /\ restored = {p}
  <2> SUFFICES ASSUME prior # {}
               PROVE  Highest(prior) \in prior
                        /\ \A q \in prior : q.version <= Highest(prior).version
    OBVIOUS
  <2> DEFINE S == {p.version : p \in prior}
  <2>1. S \in SUBSET (0..MaxVersion) /\ S # {}
    BY <1>3, <1>5, RegistryAssumption DEF WithStatus
  <2> HIDE DEF S
  <2>2. \E x \in S : \A y \in S : y <= x
    BY <2>1, IntervalMaximum, RegistryAssumption
  <2>3. \E p \in prior : \A q \in prior : q.version <= p.version
    BY <2>2 DEF S
  <2> HIDE DEF prior
  <2> QED
    BY <2>3 DEF Highest
<1>7. restored = {} => WithStatus(policies, "superseded") = {}
  BY <1>5
<1>8. \A p \in restored : p \in policies /\ p.status = "superseded"
  BY <1>5, <1>6 DEF WithStatus
<1>9. \A p \in restored : /\ Active(p) \in Policy /\ Active(p).version = p.version
                          /\ Active(p).status = "active"
  BY <1>3, <1>8 DEF Policy
<1> HIDE DEF prior, restored, back, Active, result
<1>10. result \in SUBSET Policy
  BY <1>1, <1>4, <1>9
<1>11. Lineage(result)
  <2>1. \A q \in result : \/ q = back
                          \/ \E p \in restored : q = Active(p)
                          \/ q \in policies /\ q # policy /\ q \notin restored
    BY <1>1
  <2>2. \A q \in result : \E p \in policies :
          /\ p.version = q.version
          /\ q = back <=> p = policy
          /\ p \in restored => q = Active(p)
          /\ p # policy /\ p \notin restored => q = p
    <3> SUFFICES ASSUME NEW q \in result
                 PROVE  \E p \in policies :
                          /\ p.version = q.version
                          /\ q = back <=> p = policy
                          /\ p \in restored => q = Active(p)
                          /\ p # policy /\ p \notin restored => q = p
      OBVIOUS
    <3>1. policy \notin restored
      BY <1>2, <1>8
    <3>2. \A p \in restored : Active(p) # back
      BY <1>4, <1>9
    <3>3. \A p \in policies : p = back => p = policy
      BY <1>2, <1>4 DEF Lineage
    <3>4. CASE q = back
      BY <1>2, <1>4, <3>1, <3>4
    <3>5. CASE \E p \in restored : q = Active(p)
      BY <1>2, <1>8, <1>9, <3>2, <3>5
    <3>6. CASE q \in policies /\ q # policy /\ q \notin restored
      BY <3>3, <3>6
    <3> QED
      BY <2>1, <3>4, <3>5, <3>6
  <2>3. \A p, q \in result : p.version = q.version => p = q
    BY <2>2 DEF Lineage
  <2>4. \A q \in result : q.status = "active" => \E p \in restored : q = Active(p)
    BY <1>2, <1>4, <2>1 DEF Lineage, WithStatus
  <2>5. \A p, q \in result : p.status = "active" /\ q.status = "active" => p = q
    BY <1>6, <2>4
  <2>6. ASSUME NEW p \in result, p.status = "superseded"
        PROVE  \E q \in result : q.status = "active" /\ q.version > p.version
    <3>1. p \in WithStatus(policies, "superseded") /\ p \notin restored
      BY <1>4, <1>9, <2>1, <2>6 DEF WithStatus
    <3>2. PICK r \in restored : TRUE
      BY <1>7, <3>1
    <3>3. r \in policies /\ r # p /\ p \in policies
      BY <1>8, <3>1, <3>2 DEF WithStatus
    <3>4. p.version <= r.version /\ p.version # r.version
      BY <1>5, <1>6, <3>1, <3>3 DEF Lineage
    <3>5. r.version > p.version
      BY <1>3, <3>3, <3>4, RegistryAssumption
    <3>6. Active(r) \in result /\ Active(r).status = "active" /\ Active(r).version = r.version
      BY <1>1, <1>9
    <3> QED
      BY <3>5, <3>6
  <2> QED
    BY <2>3, <2>5, <2>6 DEF Lineage, WithStatus
<1>12. ASSUME NEW p \in policies
       PROVE  \E q \in result :
                q.version = p.version /\ (p.status = "rolled_back" => q.status = "rolled_back")
  <2>1. CASE p = policy
    BY <1>1, <1>4, <2>1
  <2>2. CASE p \in restored
    BY <1>1, <1>8, <1>9, <2>2
  <2>3. CASE p # policy /\ p \notin restored
    BY <1>1, <2>3
  <2> QED
    BY <2>1, <2>2, <2>3
<1>13. back \in result
  BY <1>1
<1> QED
  BY <1>4, <1>10, <1>11, <1>12, <1>13 DEF result

(* A change made in a controller's memory: the file is as it was.            *)
LEMMA ChangeStep ==
  ASSUME RegistryInv, NEW c \in Controllers, NEW policies \in SUBSET Policy,
         NEW change \in SUBSET Event, Change(c, policies, change), Lineage(policies),
         Backed(policies, change),
         \A p \in controller[c].policies : \E q \in policies :
           q.version = p.version /\ (p.status = "rolled_back" => q.status = "rolled_back")
  PROVE  RegistryInv'
<1> DEFINE entry == [pc |-> "persist", policies |-> policies, change |-> change]
<1>1. RegistryTyped /\ Lineages /\ OneWriter
  BY DEF RegistryInv
<1>2. /\ controller' = [controller EXCEPT ![c] = entry] /\ stored' = stored /\ audit' = audit
      /\ alone' = (alone /\ controller[c].policies = stored
                         /\ \A d \in Controllers : ~Working(d))
  BY DEF Change, Working
<1>3. entry.pc = "persist" /\ entry.policies = policies /\ entry.change = change
  OBVIOUS
<1>4. RegistryTyped'
  BY <1>1, <1>2 DEF RegistryTyped
<1> HIDE DEF entry
<1>5. \A d \in Controllers : controller'[d] = IF d = c THEN entry ELSE controller[d]
  BY <1>1, <1>2 DEF RegistryTyped
<1>6. Lineages'
  BY <1>1, <1>2, <1>3, <1>5 DEF Lineages
<1>7. OneWriter'
  <2> SUFFICES ASSUME alone' PROVE OneWriter'
    BY DEF OneWriter
  <2>1. alone /\ controller[c].policies = stored /\ \A d \in Controllers : ~Working(d)
    BY <1>2
  <2>2. \A d \in Controllers : Working(d)' <=> d = c
    BY <1>3, <1>5, <2>1 DEF Working
  <2>3. Backed(stored, audit) /\ Backed(stored', audit')
    BY <1>1, <1>2, <2>1 DEF OneWriter
  <2>4. Backed(policies, audit)
    BY <2>1, <2>3 DEF Backed
  <2>5. \A d \in Controllers : controller'[d].pc = "persist" =>
          Backed(controller'[d].policies, audit')
            /\ Backed(controller'[d].policies, controller'[d].change)
    BY <1>2, <1>3, <1>5, <2>2, <2>4 DEF Working
  <2>6. \A d \in Controllers : controller'[d].pc # "audit"
    BY <1>3, <1>5, <2>2 DEF Working
  <2> QED
    BY <2>2, <2>3, <2>5, <2>6 DEF OneWriter
<1> QED
  BY <1>4, <1>6, <1>7 DEF RegistryInv

(* A promotion changes the copy in the memory of one controller.            *)
LEMMA PromotePolicyStep ==
  ASSUME RegistryInv, NEW c \in Controllers,
         NextVersion(controller[c].policies) <= MaxVersion,
         Change(c, Promoted(controller[c].policies),
           {[event |-> "promotion", version |-> NextVersion(controller[c].policies)]})
  PROVE  RegistryInv'
<1> DEFINE policies == controller[c].policies
           change == {[event |-> "promotion", version |-> NextVersion(policies)]}
<1>1. policies \in SUBSET Policy /\ Lineage(policies)
  BY DEF RegistryInv, RegistryTyped, Lineages
<1>2. NextVersion(policies) \in 1..MaxVersion
  BY <1>1, NewestVersion, RegistryAssumption
<1>3. change \in SUBSET Event
  BY <1>2 DEF Event
<1>4. /\ Promoted(policies) \in SUBSET Policy /\ Lineage(Promoted(policies))
      /\ \A p \in policies : \E q \in Promoted(policies) :
           q.version = p.version /\ (p.status = "rolled_back" => q.status = "rolled_back")
      /\ \E q \in Promoted(policies) : q.version = NextVersion(policies)
  BY <1>1, PromotedKeeps
<1>5. Backed(Promoted(policies), change)
  BY <1>4 DEF Backed
<1> QED
  BY <1>3, <1>4, <1>5, ChangeStep

(* A rollback changes the copy of one controller too.                       *)
LEMMA MonitorStep ==
  ASSUME RegistryInv, NEW c \in Controllers, Monitor(c)
  PROVE  RegistryInv'
<1> DEFINE policies == controller[c].policies
           Entry(p) == {[event |-> "rollback", version |-> p.version]}
<1>1. policies \in SUBSET Policy /\ Lineage(policies)
  BY DEF RegistryInv, RegistryTyped, Lineages
<1>2. PICK policy \in WithStatus(policies, "active") :
        Change(c, RolledBack(policies, policy), Entry(policy))
  BY DEF Monitor
<1>3. Entry(policy) \in SUBSET Event
  BY <1>1 DEF Event, WithStatus, Policy
<1>4. /\ RolledBack(policies, policy) \in SUBSET Policy /\ Lineage(RolledBack(policies, policy))
      /\ \A p \in policies : \E q \in RolledBack(policies, policy) :
           q.version = p.version /\ (p.status = "rolled_back" => q.status = "rolled_back")
      /\ \E q \in RolledBack(policies, policy) :
           q.version = policy.version /\ q.status = "rolled_back"
  BY <1>1, RolledBackKeeps
<1>5. Backed(RolledBack(policies, policy), Entry(policy))
  BY <1>4 DEF Backed
<1> QED
  BY <1>2, <1>3, <1>4, <1>5, ChangeStep

(* The file becomes the copy of the controller that writes it.              *)
LEMMA PersistStep ==
  ASSUME RegistryInv, NEW c \in Controllers, Persist(c)
  PROVE  RegistryInv'
<1> DEFINE entry == [controller[c] EXCEPT !.pc = "audit"]
<1>1. RegistryTyped /\ Lineages /\ OneWriter
  BY DEF RegistryInv
<1>2. /\ controller[c].pc = "persist" /\ stored' = controller[c].policies /\ audit' = audit
      /\ alone' = alone /\ controller' = [controller EXCEPT ![c] = entry]
  BY <1>1 DEF Persist, RegistryTyped
<1>3. /\ entry.pc = "audit" /\ entry.policies = controller[c].policies
      /\ entry.change = controller[c].change
      /\ entry \in [pc : {"none", "ready", "persist", "audit"},
                    policies : SUBSET Policy, change : SUBSET Event]
  BY <1>1 DEF RegistryTyped
<1> HIDE DEF entry
<1>4. \A d \in Controllers : controller'[d] = IF d = c THEN entry ELSE controller[d]
  BY <1>1, <1>2 DEF RegistryTyped
<1>5. RegistryTyped'
  BY <1>1, <1>2, <1>3 DEF RegistryTyped
<1>6. Lineages'
  BY <1>1, <1>2, <1>3, <1>4 DEF Lineages
<1>7. OneWriter'
  <2> SUFFICES ASSUME alone PROVE OneWriter'
    BY <1>2 DEF OneWriter
  <2>1. \A d \in Controllers : Working(d) <=> d = c
    BY <1>1, <1>2 DEF OneWriter, Working
  <2>2. \A d \in Controllers : Working(d)' <=> d = c
    BY <1>3, <1>4, <2>1 DEF Working
  <2>3. Backed(stored', audit') /\ Backed(stored', entry.change)
    BY <1>1, <1>2, <1>3 DEF OneWriter
  <2>4. \A d \in Controllers : controller'[d].pc # "persist"
    BY <1>3, <1>4, <2>2 DEF Working
  <2>5. \A d \in Controllers : controller'[d].pc = "audit" =>
          Backed(stored', controller'[d].change)
    BY <1>4, <2>2, <2>3 DEF Working
  <2> QED
    BY <2>2, <2>3, <2>4, <2>5 DEF OneWriter
<1> QED
  BY <1>5, <1>6, <1>7 DEF RegistryInv

(* What is told of in the audit file was stored one step before.            *)
LEMMA AuditStep ==
  ASSUME RegistryInv, NEW c \in Controllers, Audit(c)
  PROVE  RegistryInv'
<1> DEFINE entry == [controller[c] EXCEPT !.pc = "ready", !.change = {}]
<1>1. RegistryTyped /\ Lineages /\ OneWriter
  BY DEF RegistryInv
<1>2. controller[c] \in [pc : {"none", "ready", "persist", "audit"},
                         policies : SUBSET Policy, change : SUBSET Event]
  BY <1>1 DEF RegistryTyped
<1>3. /\ controller[c].pc = "audit" /\ stored' = stored /\ alone' = alone
      /\ audit' = audit \cup controller[c].change /\ controller' = [controller EXCEPT ![c] = entry]
  BY <1>1, <1>2 DEF Audit, RegistryTyped
<1>4. /\ entry.pc = "ready" /\ entry.policies = controller[c].policies
      /\ entry \in [pc : {"none", "ready", "persist", "audit"},
                    policies : SUBSET Policy, change : SUBSET Event]
  BY <1>2
<1> HIDE DEF entry
<1>5. \A d \in Controllers : controller'[d] = IF d = c THEN entry ELSE controller[d]
  BY <1>1, <1>3 DEF RegistryTyped
<1>6. RegistryTyped'
  BY <1>1, <1>2, <1>3, <1>4 DEF RegistryTyped
<1>7. Lineages'
  BY <1>1, <1>3, <1>4, <1>5 DEF Lineages
<1>8. OneWriter'
  <2> SUFFICES ASSUME alone PROVE OneWriter'
    BY <1>3 DEF OneWriter
  <2>1. \A d \in Controllers : Working(d) <=> d = c
    BY <1>1, <1>3 DEF OneWriter, Working
  <2>2. \A d \in Controllers : ~Working(d)'
    BY <1>4, <1>5, <2>1 DEF Working
  <2>3. Backed(stored, audit) /\ Backed(stored, controller[c].change)
    BY <1>1, <1>3 DEF OneWriter
  <2>4. Backed(stored', audit')
    BY <1>3, <2>3 DEF Backed
  <2> QED
    BY <2>2, <2>4 DEF OneWriter, Working
<1> QED
  BY <1>6, <1>7, <1>8 DEF RegistryInv

(* A controller that starts or ends: it holds no change.                     *)
LEMMA ConstructEndStep ==
  ASSUME RegistryInv, NEW c \in Controllers, Construct(c) \/ ControllerEnds(c)
  PROVE  RegistryInv'
<1>1. RegistryTyped /\ Lineages /\ OneWriter
  BY DEF RegistryInv
<1>2. PICK entry \in [pc : {"none", "ready"}, policies : {stored, {}}, change : {{}}] :
        controller' = [controller EXCEPT ![c] = entry]
  BY DEF Construct, ControllerEnds, NoController
<1>3. UNCHANGED <<stored, audit, alone>>
  BY DEF Construct, ControllerEnds
<1>4. \A d \in Controllers : controller'[d] = IF d = c THEN entry ELSE controller[d]
  BY <1>1, <1>2 DEF RegistryTyped
<1>5. entry.pc \notin {"persist", "audit"} /\ entry.policies \in {stored, {}}
  BY <1>2
<1>6. entry \in [pc : {"none", "ready", "persist", "audit"},
                 policies : SUBSET Policy, change : SUBSET Event]
  BY <1>1, <1>2 DEF RegistryTyped
<1>7. RegistryTyped'
  BY <1>1, <1>2, <1>3, <1>6 DEF RegistryTyped
<1>8. Lineage({})
  BY DEF Lineage, WithStatus
<1>9. Lineages'
  BY <1>1, <1>3, <1>4, <1>5, <1>8 DEF Lineages
<1>10. OneWriter'
  <2>1. \A d \in Controllers : Working(d)' => Working(d) /\ controller'[d] = controller[d]
    BY <1>4, <1>5 DEF Working
  <2> QED
    BY <1>1, <1>3, <2>1 DEF OneWriter, Working
<1> QED
  BY <1>7, <1>9, <1>10 DEF RegistryInv

(* One step for each action of a controller.                                *)
LEMMA RegistryInvNext == RegistryInv /\ [RegistryNext]_registryVars => RegistryInv'
<1> SUFFICES ASSUME RegistryInv, [RegistryNext]_registryVars PROVE RegistryInv'
  OBVIOUS
<1>1. CASE UNCHANGED registryVars
  BY <1>1 DEF registryVars, RegistryInv, RegistryTyped, Lineages, OneWriter, Working
<1>2. ASSUME NEW c \in Controllers, ControllerStep(c)
      PROVE  RegistryInv'
  <2>1. CASE \E replay, shadow, canary, trusted \in BOOLEAN :
               PromotePolicy(c, replay, shadow, canary, trusted)
    BY <2>1, PromotePolicyStep DEF PromotePolicy
  <2> QED
    BY <1>2, <2>1, MonitorStep, PersistStep, AuditStep, ConstructEndStep DEF ControllerStep
<1> QED
  BY <1>1, <1>2 DEF RegistryNext

(* Whatever the controllers do to the registry and the audit file            *)
(* (PolicyRegistry.promote and rollback, LearningController.monitor): every  *)
(* registry has one active policy as long as any is superseded, newer than   *)
(* those; and as long as each works on the registry that is stored, what was *)
(* audited is stored.                                                        *)
THEOREM Policies == RegistrySpec => []PoliciesSound
<1>1. RegistryInit => RegistryInv
  BY RegistryInvInit
<1>2. RegistryInv /\ [RegistryNext]_registryVars => RegistryInv'
  BY RegistryInvNext
<1>3. RegistryInv => PoliciesSound
  BY RegistryInvImplies
<1> QED
  BY <1>1, <1>2, <1>3, PTL DEF RegistrySpec
-------------------------------------------------------------------------------
(* A build is pinned before it is linked, and nothing takes the pin away.    *)
(* What is torn was being copied again when a command was interrupted.       *)
(* Between two commands, as long as none was interrupted, the link and       *)
(* active.json name the build of the last entry; within one, which of them   *)
(* do so is told by the write that comes next.                               *)
InstallCommand == [pc : {"copy", "copying", "pin", "unlink", "link", "active", "history"},
                   name : {"install", "update", "rollback"}, build : Builds]
Activation == [event : {"activate", "rollback"}, build : Builds]
InstallTyped ==
  /\ dirs \in [Builds -> {"absent", "partial", "copied", "pinned", "torn"}]
  /\ current \in Builds \cup {NoBuild} /\ active \in Builds \cup {NoBuild}
  /\ activations \in Seq(Activation)
  /\ command \in InstallCommand \cup {NoCommand} /\ interruptions \in Nat
Latest == IF activations = <<>> THEN NoBuild ELSE activations[Len(activations)].build
Pinned == {b \in Builds : HasPin(b)}
OnlyPinned ==
  /\ current \in Pinned \cup {NoBuild} /\ active \in Pinned \cup {NoBuild}
  /\ \A i \in 1..Len(activations) : activations[i].build \in Pinned
  /\ command.pc \in {"unlink", "link", "active", "history"} => command.build \in Pinned
BeforeActive(build) == \E i \in 1..Len(activations) - 1 :
  /\ activations[i].build = build
  /\ \A j \in i + 1..Len(activations) : activations[j].build = active
Uninterrupted == interruptions = 0 =>
  /\ command.pc # "history" => active = Latest
  /\ command.pc = "history" => active = command.build
  /\ command.pc \in {"active", "history"} => current = command.build
  /\ command.pc \in {"idle", "copy", "copying", "pin", "unlink"} => current = active
  /\ command.name = "update" /\ activations # <<>> =>
       VersionOf[command.build] >= VersionOf[Latest]
  /\ command.name = "rollback" /\ command.pc # "history" => BeforeActive(command.build)
FewTorn == IsFiniteSet(LeftTorn) /\ Cardinality(LeftTorn) <= interruptions
InstallInv == InstallTyped /\ OnlyPinned /\ FewTorn /\ Uninterrupted

(* The invariant of the builds carries what the run checks of them.         *)
LEMMA InstallInvImplies == InstallInv => InstallationSound
<1> SUFFICES ASSUME InstallInv PROVE InstallationSound
  OBVIOUS
<1>1. InstallTyped /\ OnlyPinned /\ FewTorn /\ Uninterrupted
  BY DEF InstallInv
<1>2. {current, active} \cup {a.build : a \in Range(activations)} \subseteq Pinned \cup {NoBuild}
  <2>1. \A a \in Range(activations) : \E i \in 1..Len(activations) : a = activations[i]
    BY <1>1 DEF Range, InstallTyped
  <2> QED
    BY <1>1, <2>1 DEF OnlyPinned
<1>3. activations # <<>> => Latest = Last(activations).build
  BY DEF Latest, Last
<1>4. NoCommand.pc = "idle"
  BY DEF NoCommand
<1> QED
  BY <1>1, <1>2, <1>3, <1>4 DEF Uninterrupted, InstallationSound, BeforeActive, Pinned, FewTorn

(* Nothing installed, nothing on record.                                    *)
LEMMA InstallInvInit == InstallInit => InstallInv
<1> SUFFICES ASSUME InstallInit PROVE InstallInv
  OBVIOUS
<1>1. NoCommand.pc = "idle" /\ NoCommand.name = "none"
  BY DEF NoCommand
<1>2. InstallTyped
  BY DEF InstallInit, InstallTyped
<1>3. OnlyPinned
  BY <1>1 DEF InstallInit, OnlyPinned
<1>4. Uninterrupted
  BY <1>1 DEF InstallInit, Uninterrupted, Latest
<1>5. FewTorn
  <2>1. LeftTorn = {}
    BY DEF InstallInit, LeftTorn
  <2> QED
    BY <2>1, FS_EmptySet DEF InstallInit, FewTorn
<1> QED
  BY <1>2, <1>3, <1>4, <1>5 DEF InstallInv

(* A step that tears no build, or that leaves all builds as they are.        *)
LEMMA FewerTorn ==
  ASSUME FewTorn, LeftTorn' \subseteq LeftTorn, UNCHANGED interruptions,
         interruptions \in Nat
  PROVE  FewTorn'
<1>1. LeftTorn' \in SUBSET LeftTorn /\ IsFiniteSet(LeftTorn)
  BY DEF FewTorn
<1>2. IsFiniteSet(LeftTorn)' /\ Cardinality(LeftTorn)' <= Cardinality(LeftTorn)
      /\ Cardinality(LeftTorn)' \in Nat /\ Cardinality(LeftTorn) \in Nat
  BY <1>1, FS_Subset, FS_CardinalityType
<1> QED
  BY <1>2 DEF FewTorn
LEMMA NothingTorn ==
  ASSUME InstallTyped, FewTorn, UNCHANGED <<dirs, interruptions>>, command.pc # "copying",
         command'.pc # "copying"
  PROVE  FewTorn'
<1>1. LeftTorn' \subseteq LeftTorn
  BY DEF LeftTorn
<1> QED
  BY <1>1, FewerTorn DEF InstallTyped

(* The commands: what they check before they write anything.                 *)
LEMMA StartStep ==
  ASSUME InstallInv, NEW b \in Builds, Install(b) \/ Update(b)
  PROVE  InstallInv'
<1>1. InstallTyped /\ OnlyPinned /\ FewTorn /\ Uninterrupted
  BY DEF InstallInv
<1>2. PICK name \in {"install", "update"} :
        /\ command' = [pc |-> "copy", name |-> name, build |-> b]
        /\ name = "update" => VersionOf[b] >= ActiveVersion
  BY DEF Install, Update, StartCommand
<1>3. command = NoCommand /\ UNCHANGED <<dirs, current, active, activations, interruptions>>
  BY DEF Install, Update, StartCommand
<1>4. command.pc = "idle"
  BY <1>3 DEF NoCommand
<1>5. command' \in InstallCommand /\ command'.pc = "copy" /\ command'.name = name
        /\ command'.build = b
  BY <1>2 DEF InstallCommand
<1>6. InstallTyped'
  BY <1>1, <1>3, <1>5 DEF InstallTyped
<1>7. OnlyPinned'
  BY <1>1, <1>3, <1>5 DEF OnlyPinned, Pinned, HasPin
<1>8. Uninterrupted'
  <2> SUFFICES ASSUME interruptions = 0 PROVE Uninterrupted'
    BY <1>3 DEF Uninterrupted
  <2>1. active = Latest /\ current = active
    BY <1>1, <1>4 DEF Uninterrupted
  <2>2. activations # <<>> => Latest \in Builds
    <3>1. activations # <<>> => activations[Len(activations)] \in Activation
      BY <1>1 DEF InstallTyped
    <3> QED
      BY <3>1 DEF Activation, Latest
  <2>3. name = "update" /\ activations # <<>> => VersionOf[b] >= VersionOf[Latest]
    BY <1>2, <2>1, <2>2, InstallationAssumption DEF ActiveVersion
  <2>4. Latest' = Latest
    BY <1>3 DEF Latest
  <2> QED
    BY <1>2, <1>3, <1>5, <2>1, <2>3, <2>4 DEF Uninterrupted
<1>9. FewTorn'
  BY <1>1, <1>3, <1>4, <1>5, NothingTorn
<1> QED
  BY <1>6, <1>7, <1>8, <1>9 DEF InstallInv

(* A rollback picks a build from the history, which holds pinned ones only. *)
LEMMA RollBackStep ==
  ASSUME InstallInv, RollBack
  PROVE  InstallInv'
<1>1. InstallTyped /\ OnlyPinned /\ FewTorn /\ Uninterrupted
  BY DEF InstallInv
<1>2. PICK i \in Previous :
        /\ \A j \in Previous : j <= i
        /\ HasPin(activations[i].build)
        /\ StartCommand("rollback", activations[i].build, "unlink")
  BY DEF RollBack
<1>3. /\ i \in 1..Len(activations) /\ activations[i].build # active
      /\ Len(activations) \in Nat /\ activations[i] \in Activation
  BY <1>1 DEF Previous, InstallTyped
<1>4. PICK b \in Builds : b = activations[i].build
  BY <1>3 DEF Activation
<1>5. /\ command = NoCommand /\ UNCHANGED <<dirs, current, active, activations, interruptions>>
      /\ command' = [pc |-> "unlink", name |-> "rollback", build |-> b]
  BY <1>2, <1>4 DEF StartCommand
<1>6. command' \in InstallCommand /\ command'.pc = "unlink" /\ command'.name = "rollback"
        /\ command'.build = b
  BY <1>4, <1>5 DEF InstallCommand
<1>7. command.pc = "idle"
  BY <1>5 DEF NoCommand
<1>8. InstallTyped'
  BY <1>1, <1>5, <1>6 DEF InstallTyped
<1>9. OnlyPinned'
  BY <1>1, <1>2, <1>4, <1>5, <1>6 DEF OnlyPinned, Pinned, HasPin
<1>10. Uninterrupted'
  <2> SUFFICES ASSUME interruptions = 0 PROVE Uninterrupted'
    BY <1>5 DEF Uninterrupted
  <2>1. active = Latest /\ current = active
    BY <1>1, <1>7 DEF Uninterrupted
  <2>2. activations # <<>> /\ active = activations[Len(activations)].build
    BY <1>3, <2>1 DEF Latest
  <2>3. i # Len(activations)
    BY <1>3, <2>2
  <2>4. i \in 1..Len(activations) - 1
    BY <1>3, <2>3
  <2>5. ASSUME NEW j \in i + 1..Len(activations)
        PROVE  activations[j].build = active
    <3>1. j \in 1..Len(activations) /\ ~(j <= i)
      BY <1>3
    <3> QED
      BY <1>2, <3>1 DEF Previous
  <2>6. BeforeActive(b)
    BY <1>4, <2>4, <2>5 DEF BeforeActive
  <2>7. BeforeActive(b)'
    BY <1>5, <2>6 DEF BeforeActive
  <2>8. Latest' = Latest
    BY <1>5 DEF Latest
  <2> QED
    BY <1>5, <1>6, <2>1, <2>7, <2>8 DEF Uninterrupted
<1>11. FewTorn'
  BY <1>1, <1>5, <1>6, <1>7, NothingTorn
<1> QED
  BY <1>8, <1>9, <1>10, <1>11 DEF InstallInv

(* The writes of a command before its entry in the history.                  *)
LEMMA WriteStep ==
  ASSUME InstallInv, CopyPayload \/ PayloadCopied \/ PinBuild \/ Unlink \/ Link \/ WriteActive
  PROVE  InstallInv'
<1>1. InstallTyped /\ OnlyPinned /\ FewTorn /\ Uninterrupted
  BY DEF InstallInv
<1>2. UNCHANGED <<activations, interruptions>> /\ Latest' = Latest
  BY DEF CopyPayload, PayloadCopied, PinBuild, Unlink, Link, WriteActive, Latest
<1>3. command \in InstallCommand
  BY <1>1 DEF CopyPayload, PayloadCopied, PinBuild, Unlink, Link, WriteActive, At, InstallTyped, NoCommand
<1>4. PICK next \in {"copying", "pin", "unlink", "link", "active", "history"} :
        command' = [command EXCEPT !.pc = next]
  BY DEF CopyPayload, PayloadCopied, PinBuild, Unlink, Link, WriteActive, At
<1>5. /\ command' \in InstallCommand /\ command'.pc = next
      /\ command'.name = command.name /\ command'.build = command.build
      /\ command.build \in Builds
  BY <1>3, <1>4 DEF InstallCommand
<1>6. CASE CopyPayload \/ PayloadCopied \/ PinBuild
  <2> DEFINE b == command.build
  <2>1. /\ UNCHANGED <<current, active>>
        /\ \/ CopyPayload /\ command.pc = "copy" /\ next = "copying"
           \/ PayloadCopied /\ command.pc = "copying" /\ next = "pin"
           \/ PinBuild /\ command.pc = "pin" /\ next = "unlink"
    BY <1>3, <1>4, <1>5, <1>6 DEF CopyPayload, PayloadCopied, PinBuild, At, InstallCommand
  <2>2. PICK d \in {"partial", "copied", "pinned", "torn"} : dirs' = [dirs EXCEPT ![b] = d]
          /\ (d = "torn" => command.pc = "copy") /\ (PinBuild => d = "pinned")
          /\ (HasPin(b) => d \in {"pinned", "torn"})
    BY <1>6 DEF CopyPayload, PayloadCopied, PinBuild, At
  <2>3. /\ dirs'[b] = d /\ (\A c \in Builds \ {b} : dirs'[c] = dirs[c])
        /\ dirs' \in [Builds -> {"absent", "partial", "copied", "pinned", "torn"}]
    BY <1>1, <1>5, <2>2 DEF InstallTyped
  <2>4. InstallTyped'
    BY <1>1, <1>2, <1>5, <2>1, <2>3 DEF InstallTyped
  <2>5. Pinned \subseteq Pinned'
    BY <1>5, <2>2, <2>3 DEF Pinned, HasPin
  <2>6. next = "unlink" => b \in Pinned'
    BY <1>5, <2>1, <2>2, <2>3 DEF Pinned, HasPin
  <2>7. OnlyPinned'
    BY <1>1, <1>2, <1>5, <2>1, <2>5, <2>6 DEF OnlyPinned
  <2>8. Uninterrupted'
    BY <1>1, <1>2, <1>5, <2>1 DEF Uninterrupted, BeforeActive
  <2>9. LeftTorn' \subseteq LeftTorn
    <3>1. ASSUME NEW c \in Builds, dirs'[c] = "torn",
                 ~(command'.pc = "copying" /\ command'.build = c)
          PROVE  c # b /\ dirs[c] = "torn"
      BY <1>5, <2>1, <2>2, <2>3, <3>1
    <3> QED
      BY <3>1 DEF LeftTorn
  <2>10. FewTorn'
    BY <1>1, <1>2, <2>9, FewerTorn DEF InstallTyped
  <2> QED
    BY <2>4, <2>7, <2>8, <2>10 DEF InstallInv
<1>7. CASE Unlink
  <2>1. /\ UNCHANGED <<dirs, active>> /\ current' = NoBuild
        /\ command.pc = "unlink" /\ next = "link"
    BY <1>3, <1>4, <1>5, <1>7 DEF Unlink, At, InstallCommand
  <2>2. InstallTyped'
    BY <1>1, <1>2, <1>5, <2>1 DEF InstallTyped
  <2>3. OnlyPinned'
    BY <1>1, <1>2, <1>5, <2>1 DEF OnlyPinned, Pinned, HasPin
  <2>4. Uninterrupted'
    BY <1>1, <1>2, <1>5, <2>1 DEF Uninterrupted, BeforeActive
  <2>5. FewTorn'
    BY <1>1, <1>2, <1>5, <2>1, NothingTorn
  <2> QED
    BY <2>2, <2>3, <2>4, <2>5 DEF InstallInv
<1>8. CASE Link
  <2>1. /\ UNCHANGED <<dirs, active>> /\ current' = command.build
        /\ command.pc = "link" /\ next = "active"
    BY <1>3, <1>4, <1>5, <1>8 DEF Link, At, InstallCommand
  <2>2. InstallTyped'
    BY <1>1, <1>2, <1>5, <2>1 DEF InstallTyped
  <2>3. OnlyPinned'
    BY <1>1, <1>2, <1>5, <2>1 DEF OnlyPinned, Pinned, HasPin
  <2>4. Uninterrupted'
    BY <1>1, <1>2, <1>5, <2>1 DEF Uninterrupted, BeforeActive
  <2>5. FewTorn'
    BY <1>1, <1>2, <1>5, <2>1, NothingTorn
  <2> QED
    BY <2>2, <2>3, <2>4, <2>5 DEF InstallInv
<1>9. CASE WriteActive
  <2>1. /\ UNCHANGED <<dirs, current>> /\ active' = command.build
        /\ command.pc = "active" /\ next = "history"
    BY <1>3, <1>4, <1>5, <1>9 DEF WriteActive, At, InstallCommand
  <2>2. InstallTyped'
    BY <1>1, <1>2, <1>5, <2>1 DEF InstallTyped
  <2>3. OnlyPinned'
    BY <1>1, <1>2, <1>5, <2>1 DEF OnlyPinned, Pinned, HasPin
  <2>4. Uninterrupted'
    BY <1>1, <1>2, <1>5, <2>1 DEF Uninterrupted, BeforeActive
  <2>5. FewTorn'
    BY <1>1, <1>2, <1>5, <2>1, NothingTorn
  <2> QED
    BY <2>2, <2>3, <2>4, <2>5 DEF InstallInv
<1> QED
  BY <1>6, <1>7, <1>8, <1>9

(* The entry that ends a command is of the build its earlier writes name.   *)
LEMMA AppendHistoryStep ==
  ASSUME InstallInv, AppendHistory
  PROVE  InstallInv'
<1> DEFINE entry == [event |-> IF command.name = "rollback" THEN "rollback" ELSE "activate",
                     build |-> command.build]
<1>1. InstallTyped /\ OnlyPinned /\ FewTorn /\ Uninterrupted
  BY DEF InstallInv
<1>2. /\ command.pc = "history" /\ command' = NoCommand
      /\ activations' = Append(activations, entry)
      /\ UNCHANGED <<dirs, current, active, interruptions>>
  BY DEF AppendHistory
<1>3. command.build \in Builds
  BY <1>1, <1>2 DEF InstallTyped, InstallCommand, NoCommand
<1>4. entry \in Activation /\ entry.build = command.build
  BY <1>3 DEF Activation
<1> HIDE DEF entry
<1>5. /\ activations' \in Seq(Activation) /\ Len(activations') = Len(activations) + 1
      /\ Len(activations) \in Nat /\ activations'[Len(activations')] = entry
      /\ \A i \in 1..Len(activations) : activations'[i] = activations[i]
  BY <1>1, <1>2, <1>4 DEF InstallTyped
<1>6. InstallTyped'
  BY <1>1, <1>2, <1>5 DEF InstallTyped
<1>7. NoCommand.pc = "idle" /\ NoCommand.name = "none"
  BY DEF NoCommand
<1>8. OnlyPinned'
  <2>1. ASSUME NEW i \in 1..Len(activations')
        PROVE  activations'[i].build \in Pinned
    <3>1. i \in 1..Len(activations) \/ i = Len(activations')
      BY <1>5
    <3> QED
      BY <1>1, <1>2, <1>4, <1>5, <3>1 DEF OnlyPinned
  <2>2. Pinned' = Pinned
    BY <1>2 DEF Pinned, HasPin
  <2> QED
    BY <1>1, <1>2, <1>7, <2>1, <2>2 DEF OnlyPinned
<1>9. Uninterrupted'
  <2>1. Latest' = command.build
    BY <1>4, <1>5 DEF Latest
  <2> QED
    BY <1>1, <1>2, <1>7, <2>1 DEF Uninterrupted
<1>10. FewTorn'
  BY <1>1, <1>2, <1>7, NothingTorn
<1> QED
  BY <1>6, <1>8, <1>9, <1>10 DEF InstallInv

(* An interruption leaves what has been written.                            *)
LEMMA InterruptStep ==
  ASSUME InstallInv, Interrupt
  PROVE  InstallInv'
<1>1. InstallTyped /\ OnlyPinned /\ FewTorn /\ Uninterrupted
  BY DEF InstallInv
<1>2. /\ command' = NoCommand /\ interruptions' = interruptions + 1
      /\ UNCHANGED <<dirs, current, active, activations>>
  BY DEF Interrupt
<1>3. InstallTyped'
  BY <1>1, <1>2 DEF InstallTyped
<1>4. OnlyPinned'
  BY <1>1, <1>2 DEF OnlyPinned, Pinned, HasPin, NoCommand
<1>5. Uninterrupted'
  BY <1>1, <1>2 DEF InstallTyped, Uninterrupted
<1>6. FewTorn'
  <2> DEFINE more == LeftTorn \cup {command.build}
  <2>1. LeftTorn' \in SUBSET more
    BY <1>2 DEF LeftTorn, NoCommand
  <2>2. Cardinality(LeftTorn) \in Nat /\ interruptions \in Nat
    BY <1>1, FS_CardinalityType DEF FewTorn, InstallTyped
  <2>3. IsFiniteSet(more) /\ Cardinality(more) <= Cardinality(LeftTorn) + 1
        /\ Cardinality(more) \in Nat
    BY <1>1, <2>2, FS_AddElement, FS_CardinalityType DEF FewTorn
  <2>4. IsFiniteSet(LeftTorn)' /\ Cardinality(LeftTorn)' <= Cardinality(more)
        /\ Cardinality(LeftTorn)' \in Nat
    BY <2>1, <2>3, FS_Subset, FS_CardinalityType
  <2> QED
    BY <1>1, <1>2, <2>2, <2>3, <2>4 DEF FewTorn
<1> QED
  BY <1>3, <1>4, <1>5, <1>6 DEF InstallInv

(* One step for each write of a command.                                    *)
LEMMA InstallInvNext == InstallInv /\ [InstallNext]_installVars => InstallInv'
<1> SUFFICES ASSUME InstallInv, [InstallNext]_installVars PROVE InstallInv'
  OBVIOUS
<1>1. CASE UNCHANGED installVars
  BY <1>1 DEF installVars, InstallInv, InstallTyped, OnlyPinned, Pinned, HasPin, FewTorn,
              LeftTorn, Uninterrupted, BeforeActive, Latest
<1>2. CASE InstallNext
  BY <1>2, StartStep, RollBackStep, WriteStep, AppendHistoryStep, InterruptStep DEF InstallNext
<1> QED
  BY <1>1, <1>2

(* Wherever install, update and rollback (aer_runtime.py) are interrupted,   *)
(* only pinned builds are linked or on record, and no more pinned builds are *)
(* left torn than there were interruptions; uninterrupted, the link,         *)
(* active.json and the history agree, updates do not go back, and a rollback *)
(* leads to the build that was active before.                                *)
THEOREM Installations == InstallSpec => []InstallationSound
<1>1. InstallInit => InstallInv
  BY InstallInvInit
<1>2. InstallInv /\ [InstallNext]_installVars => InstallInv'
  BY InstallInvNext
<1>3. InstallInv => InstallationSound
  BY InstallInvImplies
<1> QED
  BY <1>1, <1>2, <1>3, PTL DEF InstallSpec
-------------------------------------------------------------------------------
(* Everything that may become current has been tried: the canary, what is on *)
(* record, and what a writer is about to put there.  While transitions are   *)
(* serial, the last release on record is current until the next one is       *)
(* switched to, and current is what will be recorded from then on; a rollback*)
(* that was chosen after two promotions leads to the first of them.          *)
Known == Refs \cup {None}
Entry == [action : {"promote", "rollback"}, ref : Known]
Trying == [pc : {"put"}, action : {"shadow", "canary"}, ref : Refs]
Releasing == [pc : {"switch", "drop canary", "drop shadow", "record"},
              action : {"promote", "rollback"}, ref : Refs]
Keeping == [pc : {"record"}, action : {"rollback"}, ref : {None}]
ReleaseTyped ==
  /\ channel \in [{"shadow", "canary", "current"} -> Known]
  /\ meta \in [Digests -> {r.id : r \in Refs}]
  /\ \A d \in Digests : [id |-> meta[d], digest |-> d] \in Refs
  /\ history \in Seq(Entry) /\ serial \in BOOLEAN
  /\ writer \in [Writers -> {Resting} \cup Trying \cup Releasing \cup Keeping]
Trial(ref) == ref = None \/ ref.digest \in trialled
Trials ==
  /\ Trial(channel["canary"]) /\ Trial(channel["current"])
  /\ \A i \in 1..Len(history) : Trial(history[i].ref)
  /\ \A w \in Writers : writer[w].action \in {"promote", "rollback"} => Trial(writer[w].ref)
Promotions ==
  /\ \A i \in 1..Len(history) : history[i].action = "promote" => history[i].ref \in Refs
  /\ \A w \in Writers : writer[w].action = "promote" => writer[w].ref \in Refs
Released == IF history = <<>> THEN None ELSE history[Len(history)].ref
Superseded(ref) == LET n == Len(history) IN
  (/\ n >= 2 /\ history[n].action = "promote" /\ history[n - 1].action = "promote"
   /\ history[n].ref.id # history[n - 1].ref.id)
  => ref.digest = history[n - 1].ref.digest
InTurn == serial =>
  /\ \A v, w \in Writers : writer[v] # Resting /\ writer[w] # Resting => v = w
  /\ (\A w \in Writers : writer[w].pc \in {"idle", "put", "switch"}) =>
       channel["current"] = Released
  /\ \A w \in Writers : writer[w].pc \in {"drop canary", "drop shadow", "record"} =>
       channel["current"] = writer[w].ref
  /\ \A w \in Writers : writer[w].action = "rollback" => Superseded(writer[w].ref)
ReleaseInv == ReleaseTyped /\ Trials /\ Promotions /\ InTurn

(* The invariant of the releases carries what the run checks of a state.    *)
LEMMA ReleaseInvImplies == ReleaseInv => CurrentWasTrialled /\ CurrentOnRecord
<1> SUFFICES ASSUME ReleaseInv PROVE CurrentWasTrialled /\ CurrentOnRecord
  OBVIOUS
<1>1. CurrentWasTrialled
  BY DEF ReleaseInv, Trials, Trial, CurrentWasTrialled
<1>2. Resting.pc = "idle"
  BY DEF Resting
<1>3. CurrentOnRecord
  BY <1>2 DEF ReleaseInv, InTurn, Released, CurrentOnRecord, Last
<1> QED
  BY <1>1, <1>3

(* Empty channels and an empty history.                                     *)
LEMMA ReleaseInvInit == ReleaseInit => ReleaseInv
<1> SUFFICES ASSUME ReleaseInit PROVE ReleaseInv
  OBVIOUS
<1>1. Resting.pc = "idle" /\ Resting.action = "none"
  BY DEF Resting
<1>2. \A w \in Writers : writer[w] = Resting
  BY DEF ReleaseInit
<1>3. channel["shadow"] = None /\ channel["canary"] = None /\ channel["current"] = None
        /\ channel \in [{"shadow", "canary", "current"} -> Known]
  BY DEF ReleaseInit, Known
<1>4. ReleaseTyped
  BY <1>3 DEF ReleaseInit, ReleaseTyped
<1>5. Trials /\ Promotions
  BY <1>1, <1>2, <1>3 DEF ReleaseInit, Trials, Trial, Promotions
<1>6. InTurn
  BY <1>1, <1>2, <1>3 DEF ReleaseInit, InTurn, Released
<1> QED
  BY <1>4, <1>5, <1>6 DEF ReleaseInv

(* What the local states of the writers tell of each other.                  *)
LEMMA WriterStates ==
  /\ Resting.pc = "idle" /\ Resting.action = "none" /\ Resting.ref = None
  /\ \A s \in Trying : s.pc = "put" /\ s.action \in {"shadow", "canary"} /\ s.ref \in Refs
  /\ \A s \in Releasing : /\ s.pc \in {"switch", "drop canary", "drop shadow", "record"}
                          /\ s.action \in {"promote", "rollback"} /\ s.ref \in Refs
  /\ \A s \in Keeping : s.pc = "record" /\ s.action = "rollback" /\ s.ref = None
BY DEF Resting, Trying, Releasing, Keeping

(* Staging renames the metadata of a digest; what was tried is told by      *)
(* digest.                                                                  *)
LEMMA StageStep ==
  ASSUME ReleaseInv, NEW ref \in Refs, Stage(ref)
  PROVE  ReleaseInv'
<1>1. ReleaseTyped /\ Trials /\ Promotions /\ InTurn
  BY DEF ReleaseInv
<1>2. /\ meta' = [meta EXCEPT ![ref.digest] = ref.id]
      /\ UNCHANGED <<channel, history, writer, trialled, serial>>
  BY DEF Stage
<1>3. [id |-> ref.id, digest |-> ref.digest] \in Refs /\ ref.digest \in Digests
  BY ReleaseAssumption DEF Digests
<1>4. \A d \in Digests : meta'[d] = IF d = ref.digest THEN ref.id ELSE meta[d]
  BY <1>1, <1>2 DEF ReleaseTyped
<1>5. \A d \in Digests : [id |-> meta'[d], digest |-> d] \in Refs
  BY <1>1, <1>3, <1>4 DEF ReleaseTyped
<1>6. meta' \in [Digests -> {r.id : r \in Refs}]
  BY <1>1, <1>2 DEF ReleaseTyped
<1>7. ReleaseTyped'
  BY <1>1, <1>2, <1>5, <1>6 DEF ReleaseTyped, Digests
<1>8. Trials' /\ Promotions' /\ InTurn'
  BY <1>1, <1>2 DEF Trials, Trial, Promotions, InTurn, Released, Superseded
<1> QED
  BY <1>7, <1>8 DEF ReleaseInv

(* A transition that begins: nothing is written yet.                         *)
LEMMA BeginStep ==
  ASSUME ReleaseInv, NEW w \in Writers, NEW action, NEW ref, NEW pc, Begin(w, action, ref, pc),
         [pc |-> pc, action |-> action, ref |-> ref] \in Trying \cup Releasing \cup Keeping,
         pc \in {"put", "switch", "record"},
         pc = "record" => ref = channel["current"],
         action \in {"promote", "rollback"} => Trial(ref),
         action = "rollback" /\ channel["current"] = Released => Superseded(ref)
  PROVE  ReleaseInv'
<1> DEFINE state == [pc |-> pc, action |-> action, ref |-> ref]
<1>1. ReleaseTyped /\ Trials /\ Promotions /\ InTurn
  BY DEF ReleaseInv
<1>2. /\ writer[w] = Resting /\ writer' = [writer EXCEPT ![w] = state]
      /\ serial' = (serial /\ \A v \in Writers : writer[v] = Resting)
      /\ UNCHANGED <<channel, meta, history, trialled>>
  BY DEF Begin
<1>3. state.pc = pc /\ state.action = action /\ state.ref = ref
  OBVIOUS
<1>4. state # Resting /\ (state.action = "promote" => state.ref \in Refs)
  BY <1>3, WriterStates
<1>5. ReleaseTyped'
  BY <1>1, <1>2 DEF ReleaseTyped
<1> HIDE DEF state
<1>6. \A v \in Writers : writer'[v] = IF v = w THEN state ELSE writer[v]
  BY <1>1, <1>2 DEF ReleaseTyped
<1>7. Trials'
  BY <1>1, <1>2, <1>3, <1>6 DEF Trials, Trial
<1>8. Promotions'
  BY <1>1, <1>2, <1>4, <1>6 DEF Promotions
<1>9. InTurn'
  <2> SUFFICES ASSUME serial' PROVE InTurn'
    BY DEF InTurn
  <2>1. serial /\ \A v \in Writers : writer[v] = Resting
    BY <1>2
  <2>2. channel["current"] = Released
    BY <1>1, <2>1, WriterStates DEF InTurn
  <2>3. Released' = Released /\ Superseded(ref)' = Superseded(ref)
    BY <1>2 DEF Released, Superseded
  <2>4. \A v \in Writers : v # w => writer'[v] = Resting
    BY <1>6, <2>1
  <2>5. \A v, u \in Writers : writer'[v] # Resting /\ writer'[u] # Resting => v = u
    BY <2>4
  <2>6. \A v \in Writers : writer'[v].pc \in {"drop canary", "drop shadow", "record"} =>
          channel'["current"] = writer'[v].ref
    BY <1>2, <1>3, <1>6, <2>4, WriterStates
  <2>7. \A v \in Writers : writer'[v].action = "rollback" => v = w /\ action = "rollback"
    BY <1>3, <1>6, <2>4, WriterStates
  <2>8. ASSUME NEW v \in Writers, writer'[v].action = "rollback"
        PROVE  Superseded(writer[v].ref)'
    <3>1. v = w /\ action = "rollback" /\ writer'[w].ref = ref
      BY <1>3, <1>6, <2>7, <2>8
    <3>2. Superseded(ref)'
      BY <2>2, <2>3, <3>1
    <3> QED
      BY <3>1, <3>2 DEF Superseded
  <2> QED
    BY <1>2, <2>2, <2>3, <2>5, <2>6, <2>8 DEF InTurn
<1> QED
  BY <1>5, <1>7, <1>8, <1>9 DEF ReleaseInv

(* A rollback chooses what to return to from the history it reads.          *)
LEMMA RollbackStep ==
  ASSUME ReleaseInv, NEW w \in Writers, Rollback(w)
  PROVE  ReleaseInv'
<1> DEFINE n == Len(history)
           twice == /\ n >= 2 /\ history[n].action = "promote" /\ history[n - 1].action = "promote"
                    /\ history[n].ref.id # history[n - 1].ref.id
<1>1. ReleaseTyped /\ Trials /\ Promotions /\ InTurn
  BY DEF ReleaseInv
<1>2. n \in Nat /\ \A i \in 1..n : history[i] \in Entry
  BY <1>1 DEF ReleaseTyped
(* After two promotions the first of them is the last candidate.             *)
<1>3. twice /\ channel["current"] = Released =>
        /\ channel["current"] # None /\ n - 1 \in Candidates
        /\ \A i \in Candidates : i <= n - 1
  <2> SUFFICES ASSUME twice, channel["current"] = Released
               PROVE  /\ channel["current"] # None /\ n - 1 \in Candidates
                      /\ \A i \in Candidates : i <= n - 1
    OBVIOUS
  <2>1. n \in 1..n /\ n - 1 \in 1..n /\ history # <<>>
    BY <1>2
  <2>2. channel["current"] = history[n].ref /\ history[n].ref \in Refs
    BY <1>1, <2>1 DEF Released, Promotions
  <2>3. n - 1 \in Candidates /\ n \notin Candidates
    BY <2>1, <2>2 DEF Candidates
  <2>4. \A i \in Candidates : i \in 1..n
    BY DEF Candidates
  <2>5. \A i \in Candidates : i <= n - 1
    BY <1>2, <2>3, <2>4
  <2> QED
    BY <2>2, <2>3, <2>5, ReleaseAssumption
<1>4. CASE /\ channel["current"] = None \/ Candidates = {}
           /\ Begin(w, "rollback", channel["current"], "record")
  <2>1. [pc |-> "record", action |-> "rollback", ref |-> channel["current"]]
          \in Releasing \cup Keeping
    BY <1>1 DEF ReleaseTyped, Known, Releasing, Keeping
  <2>2. Trial(channel["current"])
    BY <1>1 DEF Trials
  <2>3. channel["current"] = Released => Superseded(channel["current"])
    BY <1>3, <1>4 DEF Superseded
  <2> QED
    BY <1>4, <2>1, <2>2, <2>3, BeginStep
<1>5. CASE /\ channel["current"] # None
           /\ \E i \in Candidates : (\A j \in Candidates : j <= i)
                                     /\ Begin(w, "rollback", Target(i), "switch")
  <2>1. PICK i \in Candidates : (\A j \in Candidates : j <= i)
                                /\ Begin(w, "rollback", Target(i), "switch")
    BY <1>5
  <2>2. i \in 1..n /\ history[i].action = "promote" /\ history[i].ref \in Refs
    BY <1>1 DEF Candidates, Promotions
  <2>3. history[i].ref.digest \in Digests
    BY <2>2 DEF Digests
  <2>4. Target(i) \in Refs /\ Target(i).digest = history[i].ref.digest
    BY <1>1, <2>3 DEF Target, ReleaseTyped
  <2>5. [pc |-> "switch", action |-> "rollback", ref |-> Target(i)] \in Releasing
    BY <2>4 DEF Releasing
  <2>6. Trial(Target(i))
    <3>1. Trial(history[i].ref) /\ history[i].ref # None
      BY <1>1, <2>2, ReleaseAssumption DEF Trials
    <3> QED
      BY <2>4, <3>1 DEF Trial
  <2>7. twice /\ channel["current"] = Released => i = n - 1
    BY <1>2, <1>3, <2>1, <2>2
  <2>8. channel["current"] = Released => Superseded(Target(i))
    BY <2>4, <2>7 DEF Superseded
  <2> QED
    BY <2>1, <2>5, <2>6, <2>8, BeginStep
<1> QED
  BY <1>4, <1>5 DEF Rollback

(* A transition that passes its gate; a promotion takes what the canary     *)
(* held.                                                                    *)
LEMMA GateStep ==
  ASSUME ReleaseInv, NEW w \in Writers, NEW ref \in Refs,
         Shadow(w, ref) \/ Canary(w, ref) \/ Promote(w, ref)
  PROVE  ReleaseInv'
<1>1. [pc |-> "put", action |-> "shadow", ref |-> ref] \in Trying
        /\ [pc |-> "put", action |-> "canary", ref |-> ref] \in Trying
        /\ [pc |-> "switch", action |-> "promote", ref |-> ref] \in Releasing
  BY DEF Trying, Releasing
<1>2. CASE Shadow(w, ref)
  BY <1>1, <1>2, BeginStep DEF Shadow
<1>3. CASE Canary(w, ref)
  BY <1>1, <1>3, BeginStep DEF Canary
<1>4. CASE Promote(w, ref)
  <2>1. Trial(ref)
    BY <1>4 DEF ReleaseInv, Promote, Holds, Trials, Trial
  <2> QED
    BY <1>1, <1>4, <2>1, BeginStep DEF Promote
<1> QED
  BY <1>2, <1>3, <1>4

(* Shadow and canary are filled in one write.                               *)
LEMMA PutStep ==
  ASSUME ReleaseInv, NEW w \in Writers, Put(w)
  PROVE  ReleaseInv'
<1> PICK name, ref : name = writer[w].action /\ ref = writer[w].ref
  OBVIOUS
<1>1. ReleaseTyped /\ Trials /\ Promotions /\ InTurn
  BY DEF ReleaseInv
<1>2. /\ writer[w].pc = "put" /\ channel' = [channel EXCEPT ![name] = ref]
      /\ writer' = [writer EXCEPT ![w] = Resting]
      /\ trialled' = trialled \cup IF name = "canary" THEN {ref.digest} ELSE {}
      /\ UNCHANGED <<meta, history, serial>>
  BY DEF Put
<1>3. writer[w] \in Trying
  BY <1>1, <1>2, WriterStates DEF ReleaseTyped
<1>4. name \in {"shadow", "canary"} /\ ref \in Refs
  BY <1>3, WriterStates
<1>5. \A v \in Writers : writer'[v] = IF v = w THEN Resting ELSE writer[v]
  BY <1>1, <1>2 DEF ReleaseTyped
<1>6. /\ channel' \in [{"shadow", "canary", "current"} -> Known]
      /\ channel'["current"] = channel["current"]
      /\ channel'["canary"] = IF name = "canary" THEN ref ELSE channel["canary"]
  BY <1>1, <1>2, <1>4 DEF ReleaseTyped, Known
<1>7. ReleaseTyped'
  BY <1>1, <1>2, <1>6 DEF ReleaseTyped
<1>8. \A r : Trial(r) => Trial(r)'
  BY <1>2 DEF Trial
<1>9. Trial(channel["canary"])' /\ Trial(channel["current"])'
  <2>1. name = "canary" => Trial(ref)'
    BY <1>2 DEF Trial
  <2> QED
    BY <1>1, <1>6, <1>8, <2>1 DEF Trials, Trial
<1>10. \A i \in 1..Len(history') : Trial(history[i].ref)'
  BY <1>1, <1>2, <1>8 DEF Trials, Trial
<1>11. \A v \in Writers : writer'[v].action \in {"promote", "rollback"} => Trial(writer[v].ref)'
  BY <1>1, <1>5, <1>8, WriterStates DEF Trials, Trial
<1>12. Trials'
  BY <1>9, <1>10, <1>11 DEF Trials, Trial
<1>13. Promotions'
  BY <1>1, <1>2, <1>5, WriterStates DEF Promotions
<1>14. InTurn'
  <2> SUFFICES ASSUME serial PROVE InTurn'
    BY <1>2 DEF InTurn
  <2>1. \A v \in Writers : v # w => writer[v] = Resting
    BY <1>1, <1>2, WriterStates DEF InTurn
  <2>2. \A v \in Writers : writer'[v] = Resting
    BY <1>5, <2>1
  <2>3. channel["current"] = Released
    BY <1>1, <1>2, <2>1, WriterStates DEF InTurn
  <2> QED
    BY <1>2, <1>6, <2>2, <2>3, WriterStates DEF InTurn, Released
<1> QED
  BY <1>7, <1>12, <1>13, <1>14 DEF ReleaseInv

(* The three files of a promotion or a rollback, current first.              *)
LEMMA SetStep ==
  ASSUME ReleaseInv, NEW w \in Writers, Switch(w) \/ DropCanary(w) \/ DropShadow(w)
  PROVE  ReleaseInv'
<1>1. ReleaseTyped /\ Trials /\ Promotions /\ InTurn
  BY DEF ReleaseInv
<1>2. UNCHANGED <<meta, history, serial, trialled>>
  BY DEF Switch, DropCanary, DropShadow, Set
<1>3. PICK next \in {"drop canary", "drop shadow", "record"} :
        writer' = [writer EXCEPT ![w].pc = next]
  BY DEF Switch, DropCanary, DropShadow, Set
<1>4. writer[w].pc \in {"switch", "drop canary", "drop shadow"}
  BY DEF Switch, DropCanary, DropShadow
<1>5. writer[w] \in Releasing
  BY <1>1, <1>4, WriterStates DEF ReleaseTyped
<1> DEFINE state == [writer[w] EXCEPT !.pc = next]
<1>6. /\ state \in Releasing /\ state.pc = next /\ state.action = writer[w].action
      /\ state.ref = writer[w].ref
  BY <1>5 DEF Releasing
<1>7. writer' = [writer EXCEPT ![w] = state]
  BY <1>1, <1>3 DEF ReleaseTyped
<1> HIDE DEF state
<1>8. \A v \in Writers : writer'[v] = IF v = w THEN state ELSE writer[v]
  BY <1>1, <1>7 DEF ReleaseTyped
<1>9. writer[w].ref \in Refs /\ writer[w].action \in {"promote", "rollback"}
  BY <1>5, WriterStates
<1>10. /\ channel' \in [{"shadow", "canary", "current"} -> Known]
       /\ channel'["canary"] \in {channel["canary"], None}
       /\ channel'["current"] = IF writer[w].pc = "switch" THEN writer[w].ref
                                ELSE channel["current"]
  <2>1. CASE Switch(w)
    BY <1>1, <1>9, <2>1 DEF Switch, Set, ReleaseTyped, Known
  <2>2. CASE DropCanary(w)
    BY <1>1, <2>2 DEF DropCanary, Set, ReleaseTyped, Known
  <2>3. CASE DropShadow(w)
    BY <1>1, <2>3 DEF DropShadow, Set, ReleaseTyped, Known
  <2> QED
    BY <2>1, <2>2, <2>3
<1>11. ReleaseTyped'
  BY <1>1, <1>2, <1>6, <1>7, <1>10 DEF ReleaseTyped
<1>12. \A r : Trial(r)' = Trial(r)
  BY <1>2 DEF Trial
<1>13. Trial(channel["canary"])' /\ Trial(channel["current"])'
  <2>1. Trial(writer[w].ref) /\ Trial(channel["canary"]) /\ Trial(channel["current"])
    BY <1>1, <1>9 DEF Trials
  <2> QED
    BY <1>2, <1>10, <2>1 DEF Trial
<1>14. Trials'
  BY <1>1, <1>2, <1>6, <1>8, <1>13 DEF Trials, Trial
<1>15. Promotions'
  BY <1>1, <1>2, <1>6, <1>8 DEF Promotions
<1>16. InTurn'
  <2> SUFFICES ASSUME serial PROVE InTurn'
    BY <1>2 DEF InTurn
  <2>1. \A v \in Writers : v # w => writer[v] = Resting
    BY <1>1, <1>4, WriterStates DEF InTurn
  <2>2. channel'["current"] = writer[w].ref
    BY <1>1, <1>4, <1>10 DEF InTurn
  <2>3. \A v, u \in Writers : writer'[v] # Resting /\ writer'[u] # Resting => v = u
    BY <1>8, <2>1
  <2>4. writer'[w].pc \notin {"idle", "put", "switch"}
    BY <1>6, <1>8
  <2>5. \A v \in Writers : writer'[v].pc \in {"drop canary", "drop shadow", "record"} =>
          channel'["current"] = writer'[v].ref
    BY <1>6, <1>8, <2>1, <2>2, WriterStates
  <2>6. ASSUME NEW v \in Writers, writer'[v].action = "rollback"
        PROVE  Superseded(writer[v].ref)'
    <3>1. writer'[v].action = writer[v].action /\ writer'[v].ref = writer[v].ref
      BY <1>6, <1>8
    <3>2. Superseded(writer[v].ref)
      BY <1>1, <2>6, <3>1 DEF InTurn
    <3> QED
      BY <1>2, <3>1, <3>2 DEF Superseded
  <2> QED
    BY <2>3, <2>4, <2>5, <2>6 DEF InTurn
<1> QED
  BY <1>11, <1>14, <1>15, <1>16 DEF ReleaseInv

(* The history grows last, by what is current when releases come one at a   *)
(* time; this is where a rollback must lead to the release before.          *)
LEMMA RecordStep ==
  ASSUME ReleaseInv, NEW w \in Writers, Record(w)
  PROVE  ReleaseInv' /\ Restores
<1> DEFINE entry == [action |-> writer[w].action, ref |-> writer[w].ref]
           n == Len(history)
<1>1. ReleaseTyped /\ Trials /\ Promotions /\ InTurn
  BY DEF ReleaseInv
<1>2. /\ writer[w].pc = "record" /\ history' = Append(history, entry)
      /\ writer' = [writer EXCEPT ![w] = Resting]
      /\ UNCHANGED <<channel, meta, trialled, serial>>
  BY DEF Record
<1>3. writer[w] \in Releasing \cup Keeping
  BY <1>1, <1>2, WriterStates DEF ReleaseTyped
<1>4. writer[w].action \in {"promote", "rollback"} /\ writer[w].ref \in Known
  BY <1>3, WriterStates DEF Known
<1>5. entry \in Entry /\ entry.action = writer[w].action /\ entry.ref = writer[w].ref
  BY <1>4 DEF Entry
<1> HIDE DEF entry
<1>6. /\ n \in Nat /\ history' \in Seq(Entry) /\ Len(history') = n + 1
      /\ history'[n + 1] = entry /\ history' # <<>>
      /\ \A i \in 1..n : history'[i] = history[i]
  BY <1>1, <1>2, <1>5 DEF ReleaseTyped
<1>7. \A v \in Writers : writer'[v] = IF v = w THEN Resting ELSE writer[v]
  BY <1>1, <1>2 DEF ReleaseTyped
<1>8. \A i \in 1..Len(history') :
        history'[i] = entry \/ (i \in 1..n /\ history'[i] = history[i])
  BY <1>6
<1>9. ReleaseTyped'
  BY <1>1, <1>2, <1>6 DEF ReleaseTyped
<1>10. Trials'
  <2>1. \A v \in Writers : writer'[v].action \in {"promote", "rollback"} =>
          writer'[v] = writer[v]
    BY <1>7, WriterStates
  <2>2. \A v \in Writers : writer'[v].action \in {"promote", "rollback"} =>
          Trial(writer[v].ref)'
    BY <1>1, <1>2, <2>1 DEF Trials, Trial
  <2>3. \A i \in 1..Len(history') : Trial(history[i].ref)'
    <3>1. Trial(writer[w].ref)
      BY <1>1, <1>4 DEF Trials
    <3>2. \A i \in 1..n : Trial(history[i].ref)
      BY <1>1 DEF Trials
    <3> QED
      BY <1>2, <1>5, <1>8, <3>1, <3>2 DEF Trial
  <2> QED
    BY <1>1, <1>2, <2>2, <2>3 DEF Trials, Trial
<1>11. Promotions'
  <2>1. \A v \in Writers : writer'[v].action = "promote" => writer'[v].ref \in Refs
    BY <1>1, <1>7, WriterStates DEF Promotions
  <2>2. \A i \in 1..Len(history') :
          history'[i].action = "promote" => history'[i].ref \in Refs
    <3>1. entry.action = "promote" => entry.ref \in Refs
      BY <1>1, <1>5 DEF Promotions
    <3>2. \A i \in 1..n : history[i].action = "promote" => history[i].ref \in Refs
      BY <1>1 DEF Promotions
    <3> QED
      BY <1>8, <3>1, <3>2
  <2> QED
    BY <2>1, <2>2 DEF Promotions
<1>12. InTurn'
  <2> SUFFICES ASSUME serial PROVE InTurn'
    BY <1>2 DEF InTurn
  <2>1. \A v \in Writers : v # w => writer[v] = Resting
    BY <1>1, <1>2, WriterStates DEF InTurn
  <2>2. \A v \in Writers : writer'[v] = Resting
    BY <1>7, <2>1
  <2>3. channel'["current"] = Released'
    BY <1>1, <1>2, <1>5, <1>6 DEF InTurn, Released
  <2> QED
    BY <2>2, <2>3, WriterStates DEF InTurn
<1>13. Restores
  <2> SUFFICES ASSUME serial, Len(history') >= 3, history'[n + 1].action = "rollback",
                      history'[n].action = "promote", history'[n - 1].action = "promote",
                      history'[n].ref.id # history'[n - 1].ref.id
               PROVE  history'[n + 1].ref.digest = history'[n - 1].ref.digest
    BY <1>6 DEF Restores
  <2>1. n >= 2 /\ n \in 1..n /\ n - 1 \in 1..n
    BY <1>6
  <2>2. Superseded(writer[w].ref)
    BY <1>1, <1>5, <1>6 DEF InTurn
  <2> QED
    BY <1>5, <1>6, <2>1, <2>2 DEF Superseded
<1> QED
  BY <1>9, <1>10, <1>11, <1>12, <1>13 DEF ReleaseInv

(* A crash leaves what has been written; transitions are no longer serial.  *)
LEMMA CrashStep ==
  ASSUME ReleaseInv, NEW w \in Writers, Crash(w)
  PROVE  ReleaseInv'
<1>1. ReleaseTyped /\ Trials /\ Promotions /\ InTurn
  BY DEF ReleaseInv
<1>2. /\ writer' = [writer EXCEPT ![w] = Resting] /\ serial' = FALSE
      /\ UNCHANGED <<channel, meta, history, trialled>>
  BY DEF Crash
<1>3. \A v \in Writers : writer'[v] = IF v = w THEN Resting ELSE writer[v]
  BY <1>1, <1>2 DEF ReleaseTyped
<1>4. ReleaseTyped'
  BY <1>1, <1>2 DEF ReleaseTyped
<1>5. Trials'
  <2>1. \A v \in Writers : writer'[v].action \in {"promote", "rollback"} =>
          writer'[v] = writer[v]
    BY <1>3, WriterStates
  <2>2. \A v \in Writers : writer'[v].action \in {"promote", "rollback"} =>
          Trial(writer[v].ref)'
    BY <1>1, <1>2, <2>1 DEF Trials, Trial
  <2> QED
    BY <1>1, <1>2, <2>2 DEF Trials, Trial
<1>6. Promotions'
  BY <1>1, <1>2, <1>3, WriterStates DEF Promotions
<1>7. InTurn'
  BY <1>2 DEF InTurn
<1> QED
  BY <1>4, <1>5, <1>6, <1>7 DEF ReleaseInv

(* One step for each write of a transition; only its record can restore.    *)
LEMMA ReleaseInvNext ==
  ASSUME ReleaseInv, [ReleaseNext]_releaseVars
  PROVE  ReleaseInv' /\ [Restores]_releaseVars
<1>1. CASE UNCHANGED releaseVars
  BY <1>1 DEF releaseVars, ReleaseInv, ReleaseTyped, Trials, Trial, Promotions, InTurn, Released,
              Superseded
<1>2. CASE \E ref \in Refs : Stage(ref)
  <2>1. history' = history
    BY <1>2 DEF Stage
  <2> QED
    BY <1>2, <2>1, StageStep DEF Restores
<1>3. ASSUME NEW w \in Writers, Gate(w) \/ Write(w) \/ Crash(w)
      PROVE  ReleaseInv' /\ Restores
  <2>1. CASE Gate(w)
    <3>1. history' = history
      BY <2>1 DEF Gate, Rollback, Shadow, Canary, Promote, Begin
    <3> QED
      BY <2>1, <3>1, RollbackStep, GateStep DEF Gate, Restores
  <2>2. CASE Put(w) \/ Switch(w) \/ DropCanary(w) \/ DropShadow(w)
    <3>1. history' = history
      BY <2>2 DEF Put, Switch, DropCanary, DropShadow, Set
    <3> QED
      BY <2>2, <3>1, PutStep, SetStep DEF Restores
  <2>3. CASE Crash(w)
    <3>1. history' = history
      BY <2>3 DEF Crash
    <3> QED
      BY <2>3, <3>1, CrashStep DEF Restores
  <2> QED
    BY <1>3, <2>1, <2>2, <2>3, RecordStep DEF Write
<1> QED
  BY <1>1, <1>2, <1>3 DEF ReleaseNext

(* Whatever the writers do to the channels (ArtifactStore.transition), and   *)
(* wherever they crash: only what has been in canary becomes current; the    *)
(* last serial release on record is current; and a rollback after two        *)
(* promotions returns to the first of them.                                  *)
THEOREM Releases == ReleaseSpec => ReleaseSound
<1>1. ReleaseInit => ReleaseInv
  BY ReleaseInvInit
<1>2. ReleaseInv /\ [ReleaseNext]_releaseVars => ReleaseInv' /\ [Restores]_releaseVars
  BY ReleaseInvNext
<1>3. ReleaseInv => CurrentWasTrialled /\ CurrentOnRecord
  BY ReleaseInvImplies
<1> QED
  BY <1>1, <1>2, <1>3, PTL DEF ReleaseSpec, ReleaseSound, RollbackRestores
-------------------------------------------------------------------------------
(* The rows of a trial and the call a campaign is in.                        *)
CanaryRow == [evidence : EvidenceIds, result : CanaryOutcomes]
TrialRow == CanaryRow \cup {BeginRow}
CampaignCall == [pc : {"remember", "insert", "answer"}, row : TrialRow]
LifecycleTyped ==
  /\ trials \in Seq(TrialRow) /\ met \in BOOLEAN
  /\ campaign \in [Campaigns -> CampaignCall \cup {Quiet}]
  /\ receipt \in [state : {"canary", "rolled_back", "promoted"}, failures : BOOLEAN]

(* What a receipt answers for is on record: the row it is about, the failure *)
(* that rolls back, the canaries that promote.                               *)
OnTrial(row) == \E i \in DOMAIN trials : trials[i] = row
Receipts ==
  /\ \A c \in Campaigns : campaign[c].pc = "answer" =>
       campaign[c].row \in CanaryRow /\ OnTrial(campaign[c].row)
  /\ receipt.state = "rolled_back" => AnyFailed(DOMAIN trials)
  /\ receipt.state = "promoted" => Cardinality(Canaries(DOMAIN trials)) >= MinCanaries
(* As long as no two calls have overlapped at most one is under way, and no  *)
(* row is stored twice.  While the rows also fit into a search, only an      *)
(* observation whose id came with spaces is on record twice, or before the   *)
(* canary under way is stored.                                               *)
Alone == ~met => \A c \in Campaigns, d \in Campaigns :
                   campaign[c] # Quiet /\ campaign[d] # Quiet => c = d
Single ==
  /\ \A i \in DOMAIN trials, j \in DOMAIN trials : trials[i] = trials[j] => i = j
  /\ \A c \in Campaigns : campaign[c].pc = "insert" =>
       \A i \in DOMAIN trials : trials[i] # campaign[c].row
Separate ==
  /\ \A i \in Canaries(DOMAIN trials), j \in Canaries(DOMAIN trials) :
       trials[i].evidence = trials[j].evidence => i = j \/ trials[i].evidence \in padded
  /\ \A c \in Campaigns : campaign[c].pc \in {"remember", "insert"} /\ campaign[c].row # BeginRow =>
       \A i \in Canaries(DOMAIN trials) :
         trials[i].evidence = campaign[c].row.evidence => trials[i].evidence \in padded
LifecycleInv ==
  /\ LifecycleTyped /\ Receipts /\ Alone /\ (~met => Single)
  /\ ~met /\ Len(trials) <= Window => Separate

(* While the rows fit into a search it returns all of them.                  *)
LEMMA RowsInWindow ==
  ASSUME LifecycleTyped
  PROVE  /\ Rows \subseteq DOMAIN trials
         /\ IsFiniteSet(DOMAIN trials)
         /\ Len(trials) <= Window => Rows = DOMAIN trials
<1> DEFINE n == Len(trials)
<1>1. n \in Nat /\ DOMAIN trials = 1..n
  BY DEF LifecycleTyped
<1>2. IsFiniteSet(1..n) /\ Cardinality(1..n) = n
  <2>1. n \in Int /\ 1 \in Int
    BY <1>1
  <2>2. IsFiniteSet(1..n) /\ Cardinality(1..n) = (IF 1 > n THEN 0 ELSE n - 1 + 1)
    BY <2>1, FS_Interval
  <2> QED
    BY <1>1, <2>2
<1>3. ASSUME NEW i \in 1..n PROVE Cardinality(Ahead(i)) < n
  <2>1. IsFiniteSet((1..n) \ {i}) /\ Cardinality((1..n) \ {i}) = n - 1
    BY <1>2, FS_RemoveElement
  <2>2. Ahead(i) \in SUBSET ((1..n) \ {i})
    BY <1>1, <1>3 DEF Ahead
  <2>3. Cardinality(Ahead(i)) <= n - 1 /\ Cardinality(Ahead(i)) \in Nat
    BY <2>1, <2>2, FS_Subset, FS_CardinalityType
  <2> QED
    BY <1>1, <2>3
<1>4. ASSUME n <= Window PROVE Rows = DOMAIN trials
  <2>1. ASSUME NEW i \in 1..n PROVE Cardinality(Ahead(i)) < Window
    <3>1. Ahead(i) \in SUBSET (1..n)
      BY <1>1 DEF Ahead
    <3>2. Cardinality(Ahead(i)) \in Nat
      BY <1>2, <3>1, FS_Subset, FS_CardinalityType
    <3> QED
      BY <1>1, <1>3, <1>4, <3>2, LifecycleAssumption
  <2> QED
    BY <1>1, <2>1 DEF Rows
<1> QED
  BY <1>1, <1>2, <1>4 DEF Rows

(* Canaries are finite sets of positions, and a search finds some of them.   *)
LEMMA CanariesFound ==
  ASSUME LifecycleTyped
  PROVE  /\ IsFiniteSet(Canaries(DOMAIN trials)) /\ Cardinality(Canaries(DOMAIN trials)) \in Nat
         /\ Enough => Cardinality(Canaries(DOMAIN trials)) >= MinCanaries
<1>1. Canaries(DOMAIN trials) \in SUBSET (DOMAIN trials)
  BY DEF Canaries
<1>2. IsFiniteSet(Canaries(DOMAIN trials)) /\ Cardinality(Canaries(DOMAIN trials)) \in Nat
  BY <1>1, RowsInWindow, FS_Subset, FS_CardinalityType
<1>3. Canaries(Rows) \in SUBSET Canaries(DOMAIN trials)
  BY RowsInWindow DEF Canaries
<1>4. Cardinality(Canaries(Rows)) \in Nat
      /\ Cardinality(Canaries(Rows)) <= Cardinality(Canaries(DOMAIN trials))
  BY <1>2, <1>3, FS_Subset, FS_CardinalityType
<1> QED
  BY <1>2, <1>4, LifecycleAssumption DEF Enough

(* A trial begins with no row and no call.                                   *)
LEMMA TrialStarts == LifecycleInit => LifecycleInv
<1> SUFFICES ASSUME LifecycleInit PROVE LifecycleInv
  OBVIOUS
<1>1. LifecycleTyped
  <2>1. <<>> \in Seq(TrialRow)
    OBVIOUS
  <2> QED
    BY <2>1 DEF LifecycleInit, LifecycleTyped
<1> QED
  BY <1>1 DEF LifecycleInit, LifecycleInv, Receipts, Alone, Single, Separate, Quiet,
              Canaries

(* A campaign that starts a call is the only one in a call, or has met one.  *)
LEMMA CallStarts ==
  ASSUME LifecycleInv, NEW c \in Campaigns, NEW row \in TrialRow,
         Call(c, [pc |-> "remember", row |-> row]), UNCHANGED <<trials, receipt>>,
         padded \subseteq padded',
         Len(trials) <= Window /\ row # BeginRow =>
           \A i \in Canaries(DOMAIN trials) :
             trials[i].evidence = row.evidence => row.evidence \in padded'
  PROVE  LifecycleInv'
<1> DEFINE new == [pc |-> "remember", row |-> row]
<1>1. campaign' = [campaign EXCEPT ![c] = new] /\ campaign'[c] = new
      /\ \A d \in Campaigns \ {c} : campaign'[d] = campaign[d]
  BY DEF Call, LifecycleInv, LifecycleTyped
<1>2. LifecycleTyped'
  <2>1. new \in CampaignCall
    BY DEF CampaignCall
  <2>2. met' \in BOOLEAN
    BY DEF Call, LifecycleInv, LifecycleTyped
  <2> QED
    BY <1>1, <2>1, <2>2 DEF LifecycleInv, LifecycleTyped
<1>3. Receipts'
  BY <1>1 DEF LifecycleInv, Receipts, OnTrial, AnyFailed, FailedRow, Canaries
<1>4. ~met' => ~met /\ \A d \in Campaigns \ {c} : campaign[d] = Quiet
  BY DEF Call, Quiet
<1>5. Alone'
  BY <1>1, <1>4 DEF Alone
<1>6. ~met' => Single'
  BY <1>1, <1>4 DEF LifecycleInv, Single
<1>7. ~met' /\ Len(trials') <= Window => Separate'
  BY <1>1, <1>4 DEF LifecycleInv, Separate, Canaries
<1> QED
  BY <1>2, <1>3, <1>5, <1>6, <1>7 DEF LifecycleInv

(* A campaign whose call goes on or ends, without a row for the others.      *)
LEMMA CallGoesOn ==
  ASSUME LifecycleInv, NEW c \in Campaigns, campaign[c] # Quiet,
         UNCHANGED <<trials, met, padded>>,
         campaign' = [campaign EXCEPT ![c] = campaign'[c]],
         campaign'[c] \in CampaignCall \cup {Quiet}, campaign'[c].pc # "remember",
         campaign'[c].pc = "insert" => campaign[c].pc = "remember"
           /\ campaign'[c].row = campaign[c].row /\ ~OnTrial(campaign[c].row),
         campaign'[c].pc = "answer" => campaign'[c].row \in CanaryRow /\ OnTrial(campaign'[c].row),
         receipt' \in [state : {"canary", "rolled_back", "promoted"}, failures : BOOLEAN],
         receipt'.state = "rolled_back" => AnyFailed(DOMAIN trials),
         receipt'.state = "promoted" => Cardinality(Canaries(DOMAIN trials)) >= MinCanaries
  PROVE  LifecycleInv'
<1>1. \A d \in Campaigns \ {c} : campaign'[d] = campaign[d]
  BY DEF LifecycleInv, LifecycleTyped
<1>2. LifecycleTyped'
  BY DEF LifecycleInv, LifecycleTyped
<1>3. Receipts'
  BY <1>1 DEF LifecycleInv, Receipts, OnTrial, AnyFailed, FailedRow, Canaries
<1>4. Alone'
  BY <1>1 DEF LifecycleInv, Alone
<1>5. ~met' => Single'
  BY <1>1 DEF LifecycleInv, Single, OnTrial
<1>6. ~met' /\ Len(trials') <= Window => Separate'
  BY <1>1 DEF LifecycleInv, Separate, Canaries
<1> QED
  BY <1>2, <1>3, <1>4, <1>5, <1>6 DEF LifecycleInv

(* remember inserts the row.                                                 *)
LEMMA InsertKeeps ==
  ASSUME LifecycleInv, NEW c \in Campaigns, Insert(c)
  PROVE  LifecycleInv'
<1> DEFINE row == campaign[c].row
           n == Len(trials)
<1>0. /\ campaign[c].pc = "insert" /\ campaign[c] \in CampaignCall /\ campaign[c] # Quiet
  BY DEF Insert, LifecycleInv, LifecycleTyped, Quiet
<1>1. /\ campaign[c].pc = "insert" /\ row \in TrialRow /\ n \in Nat
      /\ trials' = Append(trials, row) /\ UNCHANGED <<receipt, met, padded>>
  BY <1>0 DEF Insert, LifecycleInv, LifecycleTyped, CampaignCall
<1>2. /\ campaign'[c] = (IF row = BeginRow THEN Quiet ELSE [campaign[c] EXCEPT !.pc = "answer"])
      /\ \A d \in Campaigns \ {c} : campaign'[d] = campaign[d]
  BY DEF Insert, Remembered, LifecycleInv, LifecycleTyped
<1>3. trials' \in Seq(TrialRow) /\ Len(trials') = n + 1 /\ DOMAIN trials = 1..n
      /\ DOMAIN trials' = 1..(n + 1) /\ trials'[n + 1] = row
      /\ \A i \in 1..n : trials'[i] = trials[i]
  BY <1>1 DEF LifecycleInv, LifecycleTyped
<1>4. campaign'[c] \in CampaignCall \cup {Quiet} /\ campaign'[c].pc \in {"quiet", "answer"}
      /\ (campaign'[c].pc = "answer" => campaign'[c].row = row /\ row \in CanaryRow)
  <2>1. CASE row = BeginRow
    BY <1>2, <2>1 DEF Quiet
  <2>2. CASE row # BeginRow
    BY <1>0, <1>1, <1>2, <2>2 DEF CampaignCall, TrialRow
  <2> QED
    BY <2>1, <2>2
<1>5. LifecycleTyped'
  BY <1>1, <1>3, <1>4 DEF LifecycleInv, LifecycleTyped, Insert, Remembered
<1>6. Canaries(DOMAIN trials) \in SUBSET Canaries(DOMAIN trials)'
  BY <1>3 DEF Canaries
<1>7. Receipts'
  <2>1. ASSUME NEW d \in Campaigns, campaign'[d].pc = "answer"
        PROVE  campaign'[d].row \in CanaryRow /\ OnTrial(campaign[d].row)'
    <3>1. CASE d = c
      BY <1>3, <1>4, <2>1, <3>1 DEF OnTrial
    <3>2. CASE d # c
      <4>1. campaign[d].row \in CanaryRow /\ OnTrial(campaign[d].row) /\ campaign'[d] = campaign[d]
        BY <1>2, <2>1, <3>2 DEF LifecycleInv, Receipts
      <4>2. PICK i \in 1..n : trials[i] = campaign[d].row
        BY <1>3, <4>1 DEF OnTrial
      <4>3. i \in DOMAIN trials' /\ trials'[i] = campaign'[d].row
        BY <1>1, <1>3, <4>1, <4>2
      <4> QED
        BY <4>1, <4>3 DEF OnTrial
    <3> QED
      BY <3>1, <3>2
  <2>2. AnyFailed(DOMAIN trials) => AnyFailed(DOMAIN trials)'
    BY <1>3 DEF AnyFailed
  <2>3. Cardinality(Canaries(DOMAIN trials)) <= Cardinality(Canaries(DOMAIN trials))'
        /\ Cardinality(Canaries(DOMAIN trials)) \in Nat /\ Cardinality(Canaries(DOMAIN trials))' \in Nat
    <3>1. LifecycleTyped
      BY DEF LifecycleInv
    <3>2. IsFiniteSet(Canaries(DOMAIN trials))' /\ Cardinality(Canaries(DOMAIN trials))' \in Nat
      <4>1. Canaries(DOMAIN trials)' \in SUBSET (1..(n + 1)) /\ 1 \in Int /\ n + 1 \in Int
        BY <1>1, <1>3 DEF Canaries
      <4> QED
        BY <4>1, FS_Interval, FS_Subset, FS_CardinalityType
    <3> QED
      BY <1>6, <3>1, <3>2, CanariesFound, FS_Subset
  <2> QED
    BY <1>1, <2>1, <2>2, <2>3, LifecycleAssumption DEF LifecycleInv, Receipts
<1>8. Alone'
  BY <1>0, <1>1, <1>2, <1>4 DEF LifecycleInv, Alone
<1>9. ASSUME ~met' PROVE \A d \in Campaigns \ {c} : campaign'[d] = Quiet
  BY <1>0, <1>1, <1>2, <1>9 DEF LifecycleInv, Alone
<1>10. ASSUME ~met' PROVE Single'
  <2>1. Single
    BY <1>1, <1>10 DEF LifecycleInv
  <2>2. \A i \in 1..n : trials[i] # row
    BY <1>0, <1>3, <2>1 DEF Single
  <2>3. \A i, j \in 1..n : trials[i] = trials[j] => i = j
    BY <1>3, <2>1 DEF Single
  <2>4. \A i, j \in 1..(n + 1) : trials'[i] = trials'[j] => i = j
    BY <1>1, <1>3, <2>2, <2>3
  <2>5. \A d \in Campaigns : campaign'[d].pc # "insert"
    BY <1>4, <1>9, <1>10 DEF Quiet
  <2> QED
    BY <1>3, <2>4, <2>5 DEF Single
<1>11. ASSUME ~met', Len(trials') <= Window PROVE Separate'
  <2>1. Separate
    BY <1>1, <1>3, <1>11, LifecycleAssumption DEF LifecycleInv
  <2>2. ASSUME NEW i \in Canaries(DOMAIN trials)', NEW j \in Canaries(DOMAIN trials)',
               trials'[i].evidence = trials'[j].evidence
        PROVE  i = j \/ trials'[i].evidence \in padded'
    BY <1>0, <1>1, <1>3, <2>1, <2>2 DEF Canaries, Separate
  <2>3. \A d \in Campaigns : campaign'[d].pc \notin {"remember", "insert"}
    BY <1>4, <1>9, <1>11 DEF Quiet
  <2> QED
    BY <2>2, <2>3 DEF Separate
<1> QED
  BY <1>5, <1>7, <1>8, <1>10, <1>11 DEF LifecycleInv

(* begin starts a call, if it has found no row of the kind.                  *)
LEMMA BeginKeeps ==
  ASSUME LifecycleInv, NEW c \in Campaigns, BeginTrial(c)
  PROVE  LifecycleInv'
<1>1. BeginRow \in TrialRow
  BY DEF TrialRow
<1> QED
  BY <1>1, CallStarts DEF BeginTrial

(* record_canary starts one, if it has found no row of that evidence.        *)
LEMMA CheckKeeps ==
  ASSUME LifecycleInv, NEW c \in Campaigns, NEW row \in CanaryRow, NEW spaced \in BOOLEAN,
         Check(c, row, spaced)
  PROVE  LifecycleInv'
<1>1. row \in TrialRow
  BY DEF TrialRow
<1>2. Len(trials) <= Window => Rows = DOMAIN trials
  BY RowsInWindow DEF LifecycleInv
<1>3. Call(c, [pc |-> "remember", row |-> row]) /\ UNCHANGED <<trials, receipt>>
      /\ padded \subseteq padded' /\ (spaced => row.evidence \in padded')
      /\ (spaced \/ \A i \in Canaries(Rows) : trials[i].evidence # row.evidence)
  BY DEF Check, Given
<1> QED
  BY <1>1, <1>2, <1>3, CallStarts

(* What ends a call or moves it on.                                          *)
LEMMA OthersKeep ==
  ASSUME LifecycleInv, NEW c \in Campaigns,
         SeekDuplicate(c) \/ Answer(c) \/ CampaignDies(c)
  PROVE  LifecycleInv'
<1>1. /\ campaign \in [Campaigns -> CampaignCall \cup {Quiet}] /\ Quiet.pc = "quiet"
      /\ receipt \in [state : {"canary", "rolled_back", "promoted"}, failures : BOOLEAN]
      /\ receipt.state = "rolled_back" => AnyFailed(DOMAIN trials)
      /\ receipt.state = "promoted" => Cardinality(Canaries(DOMAIN trials)) >= MinCanaries
  BY DEF LifecycleInv, LifecycleTyped, Receipts, Quiet
<1> DEFINE call == campaign[c]
<1>2. CASE CampaignDies(c)
  <2>1. campaign' = [campaign EXCEPT ![c] = Quiet] /\ campaign'[c] = Quiet
    BY <1>1, <1>2 DEF CampaignDies
  <2> QED
    BY <1>1, <1>2, <2>1, CallGoesOn DEF CampaignDies
<1>3. CASE SeekDuplicate(c)
  <2>1. call \in CampaignCall /\ call.pc = "remember" /\ call # Quiet /\ UNCHANGED <<trials, receipt, met, padded>>
    BY <1>1, <1>3 DEF SeekDuplicate
  <2>2. CASE OnTrial(call.row)
    <3>1. campaign' = [campaign EXCEPT ![c] = IF call.row = BeginRow THEN Quiet
                                              ELSE [call EXCEPT !.pc = "answer"]]
      BY <1>3, <2>2 DEF SeekDuplicate, OnTrial, Remembered
    <3>2. campaign'[c] = (IF call.row = BeginRow THEN Quiet ELSE [call EXCEPT !.pc = "answer"])
      BY <1>1, <3>1
    <3>3. /\ campaign'[c] \in CampaignCall \cup {Quiet} /\ campaign'[c].pc \in {"quiet", "answer"}
          /\ campaign'[c].pc = "answer" => campaign'[c].row \in CanaryRow /\ OnTrial(campaign'[c].row)
      BY <1>1, <2>1, <2>2, <3>2 DEF CampaignCall, TrialRow
    <3> QED
      BY <1>1, <2>1, <3>1, <3>2, <3>3, CallGoesOn
  <2>3. CASE ~OnTrial(call.row)
    <3>1. campaign' = [campaign EXCEPT ![c] = [call EXCEPT !.pc = "insert"]]
      BY <1>3, <2>3 DEF SeekDuplicate, OnTrial
    <3>2. campaign'[c] = [call EXCEPT !.pc = "insert"]
      BY <1>1, <3>1
    <3>3. /\ campaign'[c] \in CampaignCall \cup {Quiet} /\ campaign'[c].pc = "insert"
          /\ campaign'[c].row = call.row
      BY <1>1, <2>1, <3>2 DEF CampaignCall
    <3> QED
      BY <1>1, <2>1, <2>3, <3>1, <3>2, <3>3, CallGoesOn
  <2> QED
    BY <2>2, <2>3
<1>4. CASE Answer(c)
  <2>1. call \in CampaignCall /\ call.pc = "answer" /\ call # Quiet /\ UNCHANGED <<trials, met, padded>>
        /\ campaign' = [campaign EXCEPT ![c] = Quiet] /\ campaign'[c] = Quiet
    BY <1>1, <1>4 DEF Answer
  <2>2. call.row \in CanaryRow /\ OnTrial(call.row)
    BY <2>1 DEF LifecycleInv, Receipts
  <2>3. FailedRow(call.row) => AnyFailed(DOMAIN trials)
    BY <2>2 DEF OnTrial, AnyFailed
  <2>4. Enough => Cardinality(Canaries(DOMAIN trials)) >= MinCanaries
    BY CanariesFound DEF LifecycleInv
  <2>5. receipt' = [state |-> IF FailedRow(call.row) THEN "rolled_back"
                              ELSE IF Enough THEN "promoted" ELSE "canary",
                    failures |-> AnyFailed(DOMAIN trials)]
    BY <1>4 DEF Answer
  <2>6. /\ receipt' \in [state : {"canary", "rolled_back", "promoted"}, failures : BOOLEAN]
        /\ receipt'.state = "rolled_back" => FailedRow(call.row)
        /\ receipt'.state = "promoted" => Enough
    <3>1. AnyFailed(DOMAIN trials) \in BOOLEAN
      BY DEF AnyFailed
    <3> QED
      BY <2>5, <3>1
  <2> QED
    BY <1>1, <2>1, <2>3, <2>4, <2>6, CallGoesOn
<1> QED
  BY <1>2, <1>3, <1>4

(* What a trial in one search, and of calls that have not met, promises.     *)
LEMMA LifecycleInvSuffices == LifecycleInv => LifecycleSound
<1> DEFINE canaries == Canaries(DOMAIN trials)
           Evidence(i) == trials[i].evidence
           tried == {Evidence(i) : i \in canaries}
<1> SUFFICES ASSUME LifecycleInv, ~met PROVE LifecycleSound
  BY DEF LifecycleSound
<1>1. \A i, j \in DOMAIN trials : trials[i] = trials[j] => i = j
  BY DEF LifecycleInv, Single
<1>2. ASSUME Len(trials) <= Window
      PROVE  /\ \A i, j \in canaries : trials[i].evidence = trials[j].evidence =>
                  i = j \/ trials[i].evidence \in padded
             /\ Status = "promoted" =>
                  ~AnyFailed(DOMAIN trials) /\ (padded = {} => Cardinality(tried) >= MinCanaries)
             /\ receipt.state = "rolled_back" => Status = "rolled_back"
             /\ receipt.state = "promoted" /\ ~receipt.failures => Status # "canary"
  <2>1. Rows = DOMAIN trials /\ IsFiniteSet(canaries)
    BY <1>2, RowsInWindow, CanariesFound DEF LifecycleInv
  <2>2. \A i, j \in canaries : trials[i].evidence = trials[j].evidence =>
          i = j \/ trials[i].evidence \in padded
    BY <1>2 DEF LifecycleInv, Separate
  <2>3. ASSUME padded = {} PROVE Cardinality(canaries) = Cardinality(tried)
    <3> DEFINE f == [i \in canaries |-> Evidence(i)]
    <3>1. f \in Surjection(canaries, tried)
      BY DEF Surjection
    <3>2. f \in Injection(canaries, tried)
      BY <2>2, <2>3 DEF Injection, IsInjective
    <3> QED
      BY <2>1, <3>1, <3>2, FS_Surjection
  <2>4. Receipts
    BY DEF LifecycleInv
  <2> QED
    BY <2>1, <2>2, <2>3, <2>4 DEF Status, Enough, Receipts
<1> QED
  BY <1>1, <1>2 DEF LifecycleSound

(* Whatever the campaigns do (CapabilityLifecycle.record_canary, status) and *)
(* wherever they die: while their calls do not overlap no row is stored      *)
(* twice, and while the rows fit into a search a promotion rests on as many  *)
(* different safe observations as it claims, except for those whose id came  *)
(* with spaces around it, and the status confirms the last receipt.          *)
THEOREM Trialled == LifecycleSpec => []LifecycleSound
<1>1. LifecycleInv /\ [LifecycleNext]_lifecycleVars => LifecycleInv'
  <2> SUFFICES ASSUME LifecycleInv, [LifecycleNext]_lifecycleVars PROVE LifecycleInv'
    OBVIOUS
  <2>1. CASE UNCHANGED lifecycleVars
    BY <2>1 DEF lifecycleVars, LifecycleInv, LifecycleTyped, Receipts, OnTrial, AnyFailed,
                FailedRow, Canaries, Alone, Single, Separate
  <2>2. ASSUME NEW e \in EvidenceIds, NEW result \in CanaryOutcomes
        PROVE  Row(e, result) \in CanaryRow /\ Row(e, result) # BeginRow
    BY DEF Row, CanaryRow, BeginRow, CanaryOutcomes
  <2>3. ASSUME NEW c \in Campaigns, BeginTrial(c) PROVE LifecycleInv'
    BY <2>3, BeginKeeps
  <2> QED
    BY <2>1, <2>2, <2>3, CheckKeeps, InsertKeeps, OthersKeep DEF LifecycleNext
<1> QED
  BY <1>1, TrialStarts, LifecycleInvSuffices, PTL DEF LifecycleSpec
===============================================================================
