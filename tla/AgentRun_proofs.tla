---------------------------- MODULE AgentRun_proofs ----------------------------
(***************************************************************************)
(* The harness run for any routes of tasks, any numbers of attempts and      *)
(* repairs and any number of processes that die and are resumed; the broker  *)
(* its jobs are offloaded to, for any jobs and any number of workers; and    *)
(* what is learned from its outcomes, for any number of processes.           *)
(***************************************************************************)
EXTENDS HarnessRun, LocalOffload, DeferredLearning, FiniteSetTheorems, SequenceTheorems, TLAPS

(* A sequence over S without repetitions.                                    *)
Distinct(s, S) == s \in Seq(S) /\ IsInjective(s)
(* What is executed is validated next.                                       *)
Followed(s) == \A i \in 1..Len(s) : s[i] = "execute" => i < Len(s) /\ s[i + 1] = "validate"

(* Sequences of at most two different elements have no repetitions.         *)
LEMMA ShortDistinct ==
  /\ \A S : Distinct(<<>>, S)
  /\ \A S, x : x \in S => Distinct(<<x>>, S)
  /\ \A S, x, y : x \in S /\ y \in S /\ x # y => Distinct(<<x, y>>, S)
BY DEF Distinct, IsInjective

(* Joining sequences over disjoint sets makes no repetition.                *)
LEMMA JoinDistinct ==
  ASSUME NEW S, NEW T, S \cap T = {}, NEW s, NEW t, Distinct(s, S), Distinct(t, T)
  PROVE  Distinct(s \o t, S \cup T)
<1>1. s \in Seq(S \cup T) /\ t \in Seq(S \cup T)
  BY DEF Distinct
<1>2. s \o t \in Seq(S \cup T)
  BY <1>1
<1>3. ASSUME NEW i \in DOMAIN (s \o t), NEW j \in DOMAIN (s \o t), (s \o t)[i] = (s \o t)[j]
      PROVE  i = j
  <2>1. /\ Len(s) \in Nat /\ Len(t) \in Nat /\ DOMAIN (s \o t) = 1..(Len(s) + Len(t))
        /\ DOMAIN s = 1..Len(s) /\ DOMAIN t = 1..Len(t)
        /\ \A k \in 1..(Len(s) + Len(t)) :
             (s \o t)[k] = IF k <= Len(s) THEN s[k] ELSE t[k - Len(s)]
    BY <1>1, ConcatProperties
  <2>2. \A k \in 1..Len(s) : s[k] \in S
    BY DEF Distinct
  <2>3. \A k \in 1..Len(t) : t[k] \in T
    BY DEF Distinct
  <2>4. CASE i <= Len(s) /\ j <= Len(s)
    BY <1>3, <2>1, <2>4 DEF Distinct, IsInjective
  <2>5. CASE i > Len(s) /\ j > Len(s)
    <3>1. t[i - Len(s)] = t[j - Len(s)] /\ i - Len(s) \in DOMAIN t /\ j - Len(s) \in DOMAIN t
      BY <1>3, <2>1, <2>5
    <3>2. i - Len(s) = j - Len(s)
      BY <3>1 DEF Distinct, IsInjective
    <3> QED
      BY <2>1, <3>2
  <2>6. (s \o t)[i] \in S <=> i <= Len(s)
    BY <2>1, <2>2, <2>3
  <2>7. (s \o t)[j] \in S <=> j <= Len(s)
    BY <2>1, <2>2, <2>3
  <2> QED
    BY <1>3, <2>1, <2>4, <2>5, <2>6, <2>7
<1> QED
  BY <1>2, <1>3 DEF Distinct, IsInjective

(* What is appended to a plan without "execute" leaves its order of execute *)
(* and validate.                                                            *)
LEMMA JoinFollowed ==
  ASSUME NEW S, NEW T, "execute" \notin T, NEW s \in Seq(S), NEW t \in Seq(T), Followed(s)
  PROVE  Followed(s \o t)
<1>1. s \in Seq(S \cup T) /\ t \in Seq(S \cup T)
  OBVIOUS
<1>2. /\ Len(s) \in Nat /\ Len(t) \in Nat /\ Len(s \o t) = Len(s) + Len(t)
      /\ \A k \in 1..(Len(s) + Len(t)) :
           (s \o t)[k] = IF k <= Len(s) THEN s[k] ELSE t[k - Len(s)]
  BY <1>1, ConcatProperties
<1>3. \A k \in 1..Len(t) : t[k] # "execute"
  OBVIOUS
<1> QED
  BY <1>2, <1>3 DEF Followed

(* The plan of every route: no phase twice, learn at the end and validate    *)
(* right after execute.                                                      *)
PhaseNames == {"context", "research", "poc", "debug", "execute", "validate", "grill", "review", "learn"}
PlanSound(p) == /\ Distinct(p, PhaseNames) /\ Followed(p)
                /\ p # <<>> /\ Last(p) = "learn"

(* phases_for: whatever the route, a plan repeats no phase, validates after *)
(* it executes and ends with learn.                                         *)
LEMMA PlanIsSound ==
  ASSUME NEW route
  PROVE  PlanSound(PhasesFor(route))
<1> DEFINE mode == route.mode
           s0 == <<"context">>
           w1 == When("research" \in route.caps \/ mode = "research", <<"research">>)
           w2 == When("poc" \in route.caps \/ mode = "poc", <<"poc">>)
           w3 == When(mode = "debug", <<"debug">>)
           w4 == When(mode \in {"implement", "debug"}, <<"execute", "validate">>)
           w5 == When(mode \in {"grill", "review"}, <<mode>>)
           w6 == When("grill" \in route.caps /\ mode # "grill", <<"grill">>)
           w7 == When(mode \in {"implement", "debug", "poc"}, <<"review">>)
           w8 == <<"learn">>
           S5 == IF mode \in {"grill", "review"} THEN {mode} ELSE {}
           S6 == IF mode # "grill" THEN {"grill"} ELSE {}
           S7 == IF mode \in {"implement", "debug", "poc"} THEN {"review"} ELSE {}
<1>1. /\ Distinct(s0, {"context"}) /\ Distinct(w8, {"learn"})
      /\ Distinct(w1, {"research"}) /\ Distinct(w2, {"poc"}) /\ Distinct(w3, {"debug"})
      /\ Distinct(w6, S6) /\ Distinct(w7, S7) /\ Distinct(w5, S5)
  BY ShortDistinct DEF When
<1>2. Distinct(w4, {"execute", "validate"})
  BY ShortDistinct DEF When
<1>3. PhasesFor(route) = s0 \o w1 \o w2 \o w3 \o w4 \o w5 \o w6 \o w7 \o w8
  BY DEF PhasesFor
<1> HIDE DEF w1, w2, w3, w5, w6, w7
<1>4. Distinct(s0 \o w1, {"context"} \cup {"research"})
  BY <1>1, JoinDistinct
<1>5. Distinct(s0 \o w1 \o w2, {"context"} \cup {"research"} \cup {"poc"})
  BY <1>1, <1>4, JoinDistinct
<1> DEFINE a == s0 \o w1 \o w2 \o w3
           A == {"context", "research", "poc", "debug"}
<1>6. Distinct(a, A)
  <2>1. Distinct(a, {"context"} \cup {"research"} \cup {"poc"} \cup {"debug"})
    BY <1>1, <1>5, JoinDistinct
  <2>2. {"context"} \cup {"research"} \cup {"poc"} \cup {"debug"} = A
    OBVIOUS
  <2> QED
    BY <2>1, <2>2
<1> HIDE DEF a
<1> DEFINE b == a \o w4
           B == A \cup {"execute", "validate"}
<1>7. Distinct(b, B)
  BY <1>2, <1>6, JoinDistinct
<1>8. Followed(b)
  <2>1. Followed(a)
    BY <1>6 DEF Distinct, Followed
  <2>2. CASE ~(mode \in {"implement", "debug"})
    <3>1. w4 \in Seq({})
      BY <2>2 DEF When
    <3> QED
      BY <1>6, <2>1, <3>1, JoinFollowed DEF Distinct
  <2>3. CASE mode \in {"implement", "debug"}
    <3>1. w4 = <<"execute", "validate">>
      BY <2>3 DEF When
    <3>2. a \in Seq(B) /\ <<"execute", "validate">> \in Seq(B)
      BY <1>6 DEF Distinct
    <3> DEFINE q == a \o <<"execute", "validate">>
    <3>3. /\ Len(a) \in Nat /\ Len(q) = Len(a) + 2
          /\ q[Len(a) + 1] = "execute" /\ q[Len(a) + 2] = "validate"
          /\ \A k \in 1..Len(a) : q[k] = a[k]
      BY <3>2
    <3>4. \A k \in 1..Len(a) : a[k] # "execute"
      BY <1>6 DEF Distinct
    <3>5. b = q
      BY <3>1
    <3> HIDE DEF q, b
    <3>6. Followed(q)
      BY <3>3, <3>4 DEF Followed
    <3> QED
      BY <3>5, <3>6
  <2> QED
    BY <2>2, <2>3
<1> HIDE DEF b
<1> DEFINE c == b \o w5
           d == c \o w6
           e == d \o w7
           f == e \o w8
<1>9. Distinct(c, B \cup S5)
  BY <1>1, <1>7, JoinDistinct
<1>10. Distinct(d, (B \cup S5) \cup S6)
  BY <1>1, <1>9, JoinDistinct
<1>11. Distinct(e, ((B \cup S5) \cup S6) \cup S7)
  BY <1>1, <1>10, JoinDistinct
<1>12. Distinct(f, (((B \cup S5) \cup S6) \cup S7) \cup {"learn"})
  BY <1>1, <1>11, JoinDistinct
<1>13. Followed(c)
  BY <1>1, <1>7, <1>8, JoinFollowed DEF Distinct
<1>14. Followed(d)
  BY <1>1, <1>9, <1>13, JoinFollowed DEF Distinct
<1>15. Followed(e)
  BY <1>1, <1>10, <1>14, JoinFollowed DEF Distinct
<1>16. Followed(f)
  BY <1>1, <1>11, <1>15, JoinFollowed DEF Distinct
<1>17. f # <<>> /\ Last(f) = "learn"
  <2> DEFINE U == (((B \cup S5) \cup S6) \cup S7) \cup {"learn"}
  <2>1. e \in Seq(U) /\ w8 \in Seq(U)
    BY <1>11 DEF Distinct
  <2> HIDE DEF e
  <2>2. Len(f) = Len(e) + 1 /\ f[Len(e) + 1] = "learn" /\ Len(e) \in Nat
    BY <2>1
  <2> QED
    BY <2>2 DEF Last
<1>18. f = PhasesFor(route)
  BY <1>3 DEF a, b
<1>19. Distinct(f, PhaseNames)
  <2>1. (((B \cup S5) \cup S6) \cup S7) \cup {"learn"} \subseteq PhaseNames
    BY DEF PhaseNames
  <2> QED
    BY <1>12, <2>1, SeqMonotonic DEF Distinct
<1> QED
  BY <1>16, <1>17, <1>18, <1>19 DEF PlanSound
-------------------------------------------------------------------------------
(* The inductive invariant.  Where a process is in its plan, what has been   *)
(* done and what is on disk determine each other.                            *)
Verdicts == {"completed", "blocked_by_verification"}
Manifests ==
  [validation : {"none", "passed", "failed"},
   status : Verdicts \cup {"none", "failed", "blocked_by_scope", "blocked_by_review",
                         "blocked_by_validation"}]
Checkpoints == [phase : PhaseNames \cup {"none", "route", "complete"},
                status : Verdicts \cup {"none", "failed", "blocked"},
                next : PhaseNames \cup {"none", "scope-review", "repair"}]
ProcessStates ==
  [pc : Stopped \cup {"phase", "repair", "verify", "manifest", "checkpoint"}, at : Nat, tries : Nat,
   memory : Manifests, save : Checkpoints, code : 0..2]
Typed ==
  /\ PlanSound(plan) /\ process \in ProcessStates /\ manifest \in Manifests /\ checkpoint \in Checkpoints
  /\ lives \in Nat /\ learned \in Nat
  /\ tested \in {"none", "passed", "failed", "changed"}
  /\ learned <= lives /\ ("validate" \in done => tested # "none")

DoneBefore(k) == \A i \in 1..Len(plan) : i < k => plan[i] \in done
LearnedFrom == DoneBefore(Len(plan) + 1) /\ learned > 0
Undecided == process.memory.status \notin Verdicts /\ manifest.status \notin Verdicts
RouteSaved == [phase |-> "route", status |-> "completed", next |-> plan[1]]
PhaseSaved(i) == [phase |-> plan[i], status |-> "completed",
                  next |-> IF i < Len(plan) THEN plan[i + 1] ELSE "none"]
Failure(i) == [phase |-> plan[i], status |-> "failed", next |-> plan[i]]
Blocks(i) == {[phase |-> plan[i], status |-> "blocked", next |-> next] : next \in {"scope-review", "repair"}}
Final(status) == [phase |-> "complete", status |-> status, next |-> "none"]

(* The checkpoint: what it says is done is done.                             *)
OnDisk ==
  /\ \/ checkpoint \in {NoCheckpoint, RouteSaved}
     \/ \E i \in 1..Len(plan) :
          \/ checkpoint = PhaseSaved(i) /\ DoneBefore(i + 1) /\ (i = Len(plan) => LearnedFrom)
          \/ checkpoint = Failure(i) /\ DoneBefore(i)
          \/ checkpoint \in Blocks(i)
     \/ LearnedFrom /\ \E status \in Verdicts : checkpoint = Final(status)
  /\ manifest.status \in Verdicts => LearnedFrom /\ Recorded = Len(plan) /\ checkpoint.next = "none"

(* A process on a phase, about to verify, or that has ended.                 *)
OnPhase == process.pc \in {"phase", "repair"} =>
  /\ process.at \in 1..Len(plan) /\ Recorded = process.at - 1 /\ DoneBefore(process.at)
  /\ learned < lives /\ Undecided
  /\ process.pc = "repair" => Phase \in {"validate", "review"}
OnVerify == process.pc = "verify" => process.at = Len(plan) /\ checkpoint = PhaseSaved(Len(plan)) /\ Undecided
OnStop == /\ process.pc = "exited" /\ process.code = 0 => LearnedFrom
          /\ lives = 0 => /\ process.pc = "new" /\ process.memory = Fresh /\ manifest = Fresh
                          /\ checkpoint = NoCheckpoint /\ learned = 0 /\ tested = "none"

(* A process that saves: the route, a phase that is over, or the verdict.    *)
SavesRoute == /\ process.pc = "checkpoint" /\ process.at = 0 /\ process.save = RouteSaved
              /\ Recorded = 0 /\ learned < lives /\ Undecided
SavesPhase ==
  /\ process.at \in 1..Len(plan) /\ Recorded = process.at - 1 /\ Undecided
  /\ \/ process.save = PhaseSaved(process.at) /\ DoneBefore(process.at + 1)
        /\ IF process.at = Len(plan) THEN learned > 0 ELSE learned < lives
     \/ /\ process.save = Failure(process.at) /\ DoneBefore(process.at)
        /\ process.pc = "checkpoint" => manifest = process.memory
     \/ process.save \in Blocks(process.at)
SavesVerdict ==
  /\ process.at = Len(plan) /\ checkpoint = PhaseSaved(Len(plan))
  /\ process.memory.status \in Verdicts /\ process.save = Final(process.memory.status)
  /\ IF process.pc = "manifest" THEN manifest.status \notin Verdicts ELSE manifest = process.memory
OnSave == process.pc \in {"manifest", "checkpoint"} => SavesRoute \/ SavesPhase \/ SavesVerdict

(* While no repair was lost, the validation a process has in memory is the   *)
(* one of the working tree, and so is the one a resumed process will read.   *)
Proven == tested = "passed" \/ (tested = "none" /\ ~Contains(plan, "validate"))
InMemory == ~lost =>
  /\ process.pc \in {"phase", "verify"} => tested = process.memory.validation
  /\ process.pc \in {"manifest", "checkpoint"} /\ process.save.next # "repair"
       => tested = process.memory.validation
  /\ process.pc \in {"manifest", "checkpoint"} /\ process.memory.status = "completed" => Proven
  /\ process.pc = "crashed" \/ (process.pc = "exited" /\ Contains(plan, checkpoint.next))
       => tested = manifest.validation
  /\ manifest.status = "completed" => Proven

RunSound == Typed /\ OnDisk /\ OnPhase /\ OnVerify /\ OnStop /\ OnSave /\ InMemory
-------------------------------------------------------------------------------
(* What the steps below use of a plan.                                      *)
LEMMA PlanFacts ==
  ASSUME NEW p, PlanSound(p)
  PROVE  /\ Len(p) \in Nat /\ Len(p) > 0 /\ DOMAIN p = 1..Len(p)
         /\ \A i \in 1..Len(p) : p[i] \in PhaseNames
         /\ \A i, j \in 1..Len(p) : p[i] = p[j] => i = j
         /\ p[Len(p)] = "learn" /\ Followed(p)
         /\ \A x : Contains(p, x) <=> \E i \in 1..Len(p) : p[i] = x
<1>1. p \in Seq(PhaseNames) /\ p # <<>> /\ IsInjective(p)
  BY DEF PlanSound, Distinct
<1>2. Len(p) \in Nat /\ Len(p) > 0 /\ DOMAIN p = 1..Len(p) /\ \A i \in 1..Len(p) : p[i] \in PhaseNames
  BY <1>1
<1> QED
  BY <1>1, <1>2 DEF PlanSound, IsInjective, Last, Contains

(* How far a checkpoint says a plan has got.                                 *)
Position(p, c) ==
  IF c.phase = "complete" THEN Len(p)
  ELSE IF Contains(p, c.phase)
  THEN (CHOOSE i \in DOMAIN p : p[i] = c.phase) - (IF c.status = "completed" THEN 0 ELSE 1)
  ELSE 0

(* The place of a checkpoint in its plan, as resume finds it: by the phase  *)
(* it names, unless the run was just routed or is complete.                 *)
LEMMA PositionIs ==
  ASSUME NEW p, PlanSound(p), NEW c
  PROVE  /\ c.phase \in {"none", "route"} => Position(p, c) = 0
         /\ c.phase = "complete" => Position(p, c) = Len(p)
         /\ \A i \in 1..Len(p) : c.phase = p[i] =>
              Position(p, c) = IF c.status = "completed" THEN i ELSE i - 1
<1>1. \A i \in 1..Len(p) : p[i] \notin {"none", "route", "complete"}
  BY PlanFacts DEF PhaseNames
<1>2. c.phase \in {"none", "route"} => Position(p, c) = 0
  BY <1>1, PlanFacts DEF Position
<1>3. ASSUME NEW i \in 1..Len(p), c.phase = p[i]
      PROVE  Position(p, c) = IF c.status = "completed" THEN i ELSE i - 1
  <2>1. (CHOOSE j \in DOMAIN p : p[j] = c.phase) = i
    BY <1>3, PlanFacts
  <2> QED
    BY <1>1, <1>3, <2>1, PlanFacts DEF Position
<1> QED
  BY <1>2, <1>3 DEF Position

(* What the contract calls recorded is that place.                          *)
LEMMA RecordedIsPosition == Recorded = Position(plan, checkpoint)
BY DEF Recorded, Position

(* No run yet: nothing in memory and nothing on disk.                       *)
LEMMA InitSound == HarnessInit => RunSound
<1> SUFFICES ASSUME HarnessInit PROVE RunSound
  OBVIOUS
<1>1. PlanSound(plan)
  BY PlanIsSound DEF HarnessInit
<1>2. process \in ProcessStates /\ manifest \in Manifests /\ checkpoint \in Checkpoints
  BY DEF HarnessInit, ProcessStates, Manifests, Checkpoints, Fresh, NoCheckpoint, Stopped
<1>3. Typed
  BY <1>1, <1>2 DEF HarnessInit, Typed
<1>4. OnDisk /\ OnPhase /\ OnVerify /\ OnStop /\ OnSave
  BY DEF HarnessInit, OnDisk, OnPhase, OnVerify, OnStop, OnSave, Fresh, Verdicts
<1>5. InMemory
  BY DEF HarnessInit, InMemory, Fresh
<1> QED
  BY <1>3, <1>4, <1>5 DEF RunSound

(* What is on disk stays sound when more has been done.                      *)
LEMMA DiskKept ==
  ASSUME Typed, OnDisk, UNCHANGED <<plan, checkpoint>>, done \subseteq done',
         learned' \in Nat, learned <= learned', manifest'.status \in Verdicts => manifest.status \in Verdicts
  PROVE  OnDisk' /\ Recorded' = Recorded
<1>1. Recorded' = Recorded
  BY DEF Recorded
<1>2. \A k \in Nat : DoneBefore(k) => DoneBefore(k)'
  BY DEF DoneBefore
<1>3. Len(plan) \in Nat
  BY PlanFacts DEF Typed
<1>4. LearnedFrom => LearnedFrom'
  BY <1>2, <1>3 DEF LearnedFrom, Typed
<1>5. \A i \in 1..Len(plan) : i + 1 \in Nat /\ i \in Nat
  BY <1>3
<1>6. RouteSaved' = RouteSaved /\ \A i \in 1..Len(plan) :
        PhaseSaved(i)' = PhaseSaved(i) /\ Failure(i)' = Failure(i) /\ Blocks(i)' = Blocks(i)
  BY DEF RouteSaved, PhaseSaved, Failure, Blocks
<1>7. checkpoint' = checkpoint /\ plan' = plan
  OBVIOUS
<1> QED
  BY <1>1, <1>2, <1>4, <1>5, <1>6, <1>7 DEF OnDisk

(* A run that starts has only its route to save.                            *)
LEMMA StartSound == RunSound /\ StartRun => RunSound'
<1> SUFFICES ASSUME RunSound, StartRun PROVE RunSound'
  OBVIOUS
<1>1. /\ process.pc = "new" /\ process.memory = Fresh /\ manifest = Fresh /\ checkpoint = NoCheckpoint /\ learned = 0
      /\ tested = "none" /\ process \in ProcessStates /\ PlanSound(plan) /\ plan[1] \in PhaseNames
      /\ UNCHANGED <<plan, manifest, checkpoint, done, tested, lost, learned>> /\ lives' = 1
  BY PlanFacts DEF RunSound, OnStop, StartRun, Typed
<1>2. /\ process' \in ProcessStates /\ process'.pc = "checkpoint" /\ process'.at = 0
      /\ process'.save = RouteSaved /\ process'.memory = process.memory
  BY <1>1 DEF StartRun, ProcessStates, Checkpoints, RouteSaved, Verdicts, Stopped
<1>3. OnDisk' /\ Recorded' = Recorded
  BY <1>1, DiskKept DEF RunSound, Typed
<1>4. Recorded = 0
  BY <1>1, RecordedIsPosition, PositionIs DEF NoCheckpoint
<1>5. Typed'
  BY <1>1, <1>2 DEF RunSound, Typed
<1>6. OnPhase' /\ OnVerify' /\ OnStop'
  BY <1>1, <1>2 DEF OnPhase, OnVerify, OnStop
<1>7. OnSave'
  BY <1>1, <1>2, <1>3, <1>4 DEF OnSave, SavesRoute, RouteSaved, Undecided, Fresh, Verdicts
<1>8. InMemory'
  BY <1>1, <1>2 DEF RunSound, InMemory, Fresh, RouteSaved
<1> QED
  BY <1>3, <1>5, <1>6, <1>7, <1>8 DEF RunSound

(* A process on a phase stays on it, is done with it, or is stopped by it.   *)
LEMMA PhaseGoesOn ==
  ASSUME RunSound, process.pc \in {"phase", "repair"}, process' \in ProcessStates,
         process'.pc \in {"phase", "repair"}, process'.at = process.at,
         process'.pc = "repair" => Phase \in {"validate", "review"},
         process'.memory.status = process.memory.status,
         manifest' \in {manifest, process'.memory},
         UNCHANGED <<plan, checkpoint, lives, done, lost, learned>>,
         tested' \in {"none", "passed", "failed", "changed"}, tested' = "none" => tested = "none",
         ~lost /\ process'.pc = "phase" => tested' = process'.memory.validation
  PROVE  RunSound'
<1>1. Undecided /\ Undecided' /\ process' \in ProcessStates /\ manifest' \in Manifests
  BY DEF RunSound, OnPhase, Undecided, Typed, ProcessStates
<1>2. OnDisk' /\ Recorded' = Recorded
  BY <1>1, DiskKept DEF RunSound, Typed, Undecided
<1>3. Typed'
  BY <1>1 DEF RunSound, Typed
<1>4. OnPhase' /\ OnVerify' /\ OnStop' /\ OnSave'
  BY <1>1, <1>2 DEF RunSound, OnPhase, OnVerify, OnStop, OnSave, DoneBefore, Typed, Phase
<1>5. InMemory'
  BY <1>1 DEF RunSound, InMemory, Undecided, Verdicts
<1> QED
  BY <1>2, <1>3, <1>4, <1>5 DEF RunSound

(* A phase that went well is about to be saved, whichever file comes first  *)
(* and whatever it found out about the tree.                                *)
LEMMA PhaseIsOver ==
  ASSUME RunSound, process.pc \in {"phase", "repair"},
         NEW pc \in {"manifest", "checkpoint"}, NEW memory \in Manifests, process' = Finish(pc, memory),
         memory.status \notin Verdicts, manifest' \in {manifest, memory},
         done' = done \cup {Phase}, learned' = learned + (IF Phase = "learn" THEN 1 ELSE 0),
         UNCHANGED <<plan, checkpoint, lives, lost>>,
         tested' \in {"none", "passed", "failed", "changed"}, tested' = "none" => tested = "none" /\ Phase # "validate",
         ~lost => tested' = memory.validation
  PROVE  RunSound'
<1> DEFINE at == process.at
           n == Len(plan)
<1>1. /\ at \in 1..n /\ Recorded = at - 1 /\ DoneBefore(at) /\ learned < lives /\ Undecided
      /\ process \in ProcessStates /\ PlanSound(plan) /\ learned \in Nat /\ lives \in Nat
      /\ manifest \in Manifests
  BY DEF RunSound, OnPhase, Typed
<1>2. /\ n \in Nat /\ plan[at] \in PhaseNames /\ (at < n => plan[at + 1] \in PhaseNames)
      /\ (plan[at] = "learn" <=> at = n)
  BY <1>1, PlanFacts
<1>3. /\ process' \in ProcessStates /\ process'.pc = pc /\ process'.at = at
      /\ process'.memory = memory /\ process'.save = PhaseSaved(at)
  BY <1>1, <1>2 DEF Finish, Saved, NextPhase, Phase, PhaseSaved, ProcessStates, Checkpoints, Verdicts
<1>4. learned' \in Nat /\ learned <= learned' /\ learned' <= lives /\ (IF at = n THEN learned' > 0 ELSE learned' < lives)
  BY <1>1, <1>2 DEF Phase
<1>5. Undecided' /\ manifest' \in Manifests
  BY <1>1, <1>3 DEF Undecided
<1>6. OnDisk' /\ Recorded' = Recorded
  BY <1>1, <1>4, <1>5, DiskKept DEF RunSound, Undecided
<1>7. DoneBefore(at + 1)'
  BY <1>1, <1>2, <1>3 DEF DoneBefore, Phase
<1>8. Typed'
  BY <1>1, <1>3, <1>4, <1>5 DEF RunSound, Typed
<1>9. OnPhase' /\ OnVerify' /\ OnStop'
  BY <1>1, <1>3 DEF OnPhase, OnVerify, OnStop
<1>10. SavesPhase'
  <2>1. PhaseSaved(at)' = PhaseSaved(at)
    BY <1>3 DEF PhaseSaved
  <2> QED
    BY <1>1, <1>3, <1>4, <1>5, <1>6, <1>7, <2>1 DEF SavesPhase
<1>11. InMemory'
  BY <1>3, <1>5 DEF RunSound, InMemory, Undecided, Verdicts
<1> QED
  BY <1>6, <1>8, <1>9, <1>10, <1>11 DEF RunSound, OnSave

(* A phase that failed or was blocked saves where to go on and adds nothing *)
(* to what is done.                                                         *)
LEMMA PhaseStopsRun ==
  ASSUME RunSound, process.pc \in {"phase", "repair"},
         NEW memory \in Manifests, NEW status \in {"failed", "blocked_by_scope", "blocked_by_review", "blocked_by_validation"},
         NEW save \in {Failure(process.at)} \cup Blocks(process.at), process' = Block(memory, status, save),
         UNCHANGED <<plan, manifest, checkpoint, lives, done, lost, learned>>,
         tested' \in {"none", "passed", "failed", "changed"}, tested' = "none" => tested = "none",
         ~lost /\ save.next # "repair" => tested' = memory.validation
  PROVE  RunSound'
<1> DEFINE at == process.at
           n == Len(plan)
<1>1. /\ at \in 1..n /\ Recorded = at - 1 /\ DoneBefore(at) /\ Undecided
      /\ process \in ProcessStates /\ PlanSound(plan) /\ learned \in Nat
  BY DEF RunSound, OnPhase, Typed
<1>2. n \in Nat /\ plan[at] \in PhaseNames
  BY <1>1, PlanFacts
<1>3. save \in Checkpoints
  BY <1>2 DEF Failure, Blocks, Checkpoints
<1>4. /\ process' \in ProcessStates /\ process'.pc = "manifest" /\ process'.at = at
      /\ process'.memory.status = status /\ process'.memory.validation = memory.validation /\ process'.save = save
  BY <1>1, <1>3 DEF Block, ProcessStates, Manifests
<1>5. Undecided'
  BY <1>1, <1>4 DEF Undecided, Verdicts
<1>6. OnDisk' /\ Recorded' = Recorded
  BY <1>1, DiskKept DEF RunSound
<1>7. Typed'
  BY <1>1, <1>4 DEF RunSound, Typed
<1>8. OnPhase' /\ OnVerify' /\ OnStop'
  BY <1>1, <1>4 DEF RunSound, OnPhase, OnVerify, OnStop
<1>9. SavesPhase'
  <2>1. DoneBefore(at)' /\ Failure(at)' = Failure(at) /\ Blocks(at)' = Blocks(at)
    BY <1>1, <1>4 DEF Failure, Blocks, DoneBefore
  <2> QED
    BY <1>1, <1>4, <1>5, <1>6, <2>1 DEF SavesPhase
<1>10. InMemory'
  BY <1>4, <1>5 DEF RunSound, InMemory, Undecided, Verdicts
<1> QED
  BY <1>6, <1>7, <1>8, <1>9, <1>10 DEF RunSound, OnSave

(* Every phase does one of the two.                                         *)
LEMMA PhaseSound ==
  ASSUME RunSound, Context \/ Validate \/ ProviderFails \/ ReviewRequiresFix \/ ProviderSucceeds \/ Repair \/ LearnPhase
  PROVE  RunSound'
<1>1. /\ process \in ProcessStates /\ process.memory \in Manifests /\ manifest \in Manifests
      /\ learned \in Nat /\ tested \in {"none", "passed", "failed", "changed"}
      /\ process.pc = "phase" /\ ~lost => tested = process.memory.validation
  BY DEF RunSound, Typed, ProcessStates, InMemory
<1>2. /\ process.pc \in {"phase", "repair"} => process.memory.status \notin Verdicts
      /\ process.pc = "repair" => Phase \in {"validate", "review"}
  BY DEF RunSound, OnPhase, Undecided
<1>3. CASE Context
  BY <1>1, <1>2, <1>3, PhaseIsOver DEF Context, IsAt
<1>4. CASE LearnPhase
  BY <1>1, <1>2, <1>4, PhaseIsOver DEF LearnPhase, IsAt
<1>5. CASE Validate
  <2>1. PICK result \in {"passed", "failed"} :
          LET memory == [process.memory EXCEPT !.validation = result] IN
          /\ manifest' = memory /\ tested' = result
          /\ IF result = "passed"
             THEN process' = Finish("checkpoint", memory) /\ done' = done \cup {Phase}
             ELSE /\ process' = [process EXCEPT !.pc = "repair", !.tries = 0, !.memory = memory]
                  /\ UNCHANGED done
    BY <1>5 DEF Validate
  <2> DEFINE memory == [process.memory EXCEPT !.validation = result]
  <2>2. memory \in Manifests /\ memory.status = process.memory.status /\ memory.validation = result
    BY <1>1 DEF Manifests
  <2>3. process.pc = "phase" /\ UNCHANGED <<plan, checkpoint, lives, lost, learned>> /\ Phase = "validate"
    BY <1>5 DEF Validate, IsAt
  <2> HIDE DEF memory
  <2>4. CASE result = "passed"
    <3>1. process' = Finish("checkpoint", memory) /\ done' = done \cup {Phase} /\ manifest' = memory /\ tested' = result
      BY <2>1, <2>4 DEF memory
    <3> QED
      BY <1>1, <1>2, <2>2, <2>3, <2>4, <3>1, PhaseIsOver
  <2>5. CASE result = "failed"
    <3>1. process' = [process EXCEPT !.pc = "repair", !.tries = 0, !.memory = memory] /\ UNCHANGED done
      BY <2>1, <2>5 DEF memory
    <3>2. process' \in ProcessStates /\ process'.pc = "repair" /\ process'.at = process.at /\ process'.memory = memory
      BY <1>1, <2>2, <3>1 DEF ProcessStates
    <3> QED
      BY <2>1, <2>2, <2>3, <2>5, <3>1, <3>2, PhaseGoesOn DEF memory
  <2> QED
    BY <2>1, <2>4, <2>5
<1>6. CASE ReviewRequiresFix
  <2>1. process' \in ProcessStates /\ process'.pc = "repair" /\ process'.at = process.at /\ process'.memory = process.memory
    BY <1>1, <1>6 DEF ReviewRequiresFix, ProcessStates
  <2> QED
    BY <1>1, <1>6, <2>1, PhaseGoesOn DEF ReviewRequiresFix, IsAt, Provided
<1>7. CASE ProviderFails
  <2>1. process.pc = "phase" /\ UNCHANGED <<plan, manifest, checkpoint, lives, done, tested, lost, learned>>
    BY <1>7 DEF ProviderFails, IsAt
  <2>2. CASE process.tries + 1 < PhaseAttempts
    <3>1. process' = [process EXCEPT !.tries = @ + 1]
      BY <1>7, <2>2 DEF ProviderFails
    <3>2. process' \in ProcessStates /\ process'.pc = "phase" /\ process'.at = process.at /\ process'.memory = process.memory
      BY <1>1, <2>1, <3>1 DEF ProcessStates
    <3> QED
      BY <1>1, <2>1, <3>2, PhaseGoesOn
  <2>3. CASE ~(process.tries + 1 < PhaseAttempts)
    <3>1. process' = Block(process.memory, "failed", Failure(process.at))
      BY <1>7, <2>3 DEF ProviderFails, Saved, Failure, Phase
    <3> QED
      BY <1>1, <2>1, <3>1, PhaseStopsRun
  <2> QED
    BY <2>2, <2>3
<1>8. CASE ProviderSucceeds
  <2>1. process.pc = "phase" /\ UNCHANGED <<plan, manifest, checkpoint, lives, tested, lost, learned>> /\ Phase \notin {"validate", "learn"}
    BY <1>8 DEF ProviderSucceeds, IsAt, Provided
  <2>2. CASE InScope(process.memory)
    BY <1>1, <1>2, <2>1, <2>2, PhaseIsOver DEF InScope
  <2>3. CASE OutOfScope(process.memory)
    <3>1. Saved("blocked", "scope-review") \in Blocks(process.at)
      BY DEF Saved, Blocks, Phase
    <3> QED
      BY <1>1, <2>1, <2>3, <3>1, PhaseStopsRun DEF OutOfScope
  <2> QED
    BY <1>8, <2>2, <2>3 DEF ProviderSucceeds
<1>9. CASE Repair
  <2>1. process.pc = "repair" /\ UNCHANGED <<plan, manifest, checkpoint, lives, lost, learned>>
    BY <1>9 DEF Repair
  <2>2. CASE process.tries = MaxRepairs /\ process' = GiveUp /\ UNCHANGED <<done, tested>>
    <3>1. Saved("blocked", "repair") \in Blocks(process.at) /\ Saved("blocked", "repair").next = "repair"
      BY DEF Saved, Blocks, Phase
    <3> QED
      BY <1>1, <2>1, <2>2, <3>1, PhaseStopsRun DEF GiveUp
  <2>3. CASE /\ process' = [process EXCEPT !.tries = @ + 1] /\ tested' = "changed" /\ UNCHANGED done
    <3>1. process' \in ProcessStates /\ process'.pc = "repair" /\ process'.at = process.at /\ process'.memory = process.memory
      BY <1>1, <2>1, <2>3 DEF ProcessStates
    <3> QED
      BY <1>1, <1>2, <2>1, <2>3, <3>1, PhaseGoesOn
  <2>4. CASE /\ process' = [process EXCEPT !.tries = @ + 1, !.memory.validation = "failed"]
             /\ tested' = "failed" /\ UNCHANGED done
    <3> DEFINE failed == [process.memory EXCEPT !.validation = "failed"]
    <3>1. failed \in Manifests /\ failed.status = process.memory.status
      BY <1>1 DEF Manifests
    <3>2. process' = [process EXCEPT !.tries = @ + 1, !.memory = failed]
      BY <2>4
    <3> HIDE DEF failed
    <3> DEFINE tries == process.tries + 1
    <3>4. tries \in Nat /\ process' = [process EXCEPT !.tries = tries, !.memory = failed]
      BY <1>1, <3>2 DEF ProcessStates
    <3> HIDE DEF tries
    <3>3. process' \in ProcessStates /\ process'.pc = "repair" /\ process'.at = process.at /\ process'.memory = failed
      BY <1>1, <2>1, <3>1, <3>4 DEF ProcessStates
    <3> QED
      BY <1>1, <1>2, <2>1, <2>4, <3>1, <3>3, PhaseGoesOn
  <2> DEFINE memory == [process.memory EXCEPT !.validation = "passed"]
  <2>5. memory \in Manifests /\ memory.status = process.memory.status /\ memory.validation = "passed"
    BY <1>1 DEF Manifests
  <2> HIDE DEF memory
  <2>6. CASE tested' = "passed" /\ Phase = "review" /\ InScope(memory)
    BY <1>1, <1>2, <2>1, <2>5, <2>6, PhaseIsOver DEF InScope
  <2>7. CASE tested' = "passed" /\ OutOfScope(memory)
    <3>1. Saved("blocked", "scope-review") \in Blocks(process.at)
      BY DEF Saved, Blocks, Phase
    <3> QED
      BY <1>1, <2>1, <2>5, <2>7, <3>1, PhaseStopsRun DEF OutOfScope
  <2>8. CASE tested' = "passed" /\ Phase # "review" /\ process' = Finish("checkpoint", memory) /\ done' = done \cup {Phase}
    BY <1>1, <1>2, <2>1, <2>5, <2>8, PhaseIsOver
  <2> QED
    BY <1>9, <2>2, <2>3, <2>4, <2>6, <2>7, <2>8 DEF Repair, memory
<1> QED
  BY <1>3, <1>4, <1>5, <1>6, <1>7, <1>8, <1>9

(* When the last phase is on disk, the run has learned.                     *)
LEMMA LastPhaseSaved ==
  ASSUME Typed, OnDisk, checkpoint = PhaseSaved(Len(plan))
  PROVE  LearnedFrom
<1>1. /\ Len(plan) \in 1..Len(plan) /\ plan[Len(plan)] = "learn"
      /\ \A i \in 1..Len(plan) : plan[i] = "learn" => i = Len(plan)
  BY PlanFacts DEF Typed
<1>2. checkpoint.phase = "learn" /\ checkpoint.status = "completed"
  BY <1>1 DEF PhaseSaved
<1> QED
  BY <1>1, <1>2 DEF OnDisk, NoCheckpoint, RouteSaved, PhaseSaved, Failure, Blocks, Final

(* The final verification decides a run whose phases are all on disk.       *)
LEMMA VerifySound == RunSound /\ Verify => RunSound'
<1> SUFFICES ASSUME RunSound, Verify PROVE RunSound'
  OBVIOUS
<1>1. PICK diffClean \in BOOLEAN :
        process' = Block(process.memory, Verdict(diffClean), Final(Verdict(diffClean)))
  BY DEF Verify, Final
<1> DEFINE status == Verdict(diffClean)
<1>2. /\ process.pc = "verify" /\ process.at = Len(plan) /\ checkpoint = PhaseSaved(Len(plan)) /\ Undecided
      /\ process \in ProcessStates /\ PlanSound(plan)
      /\ UNCHANGED <<plan, manifest, checkpoint, lives, done, tested, lost, learned>>
  BY DEF RunSound, OnVerify, Verify, Typed
<1>3. status \in Verdicts /\ (status = "completed" => process.memory.validation # "failed")
  BY DEF Verdict, Verdicts
<1> HIDE DEF status
<1>4. /\ process' \in ProcessStates /\ process'.pc = "manifest" /\ process'.at = process.at /\ process'.save = Final(status)
      /\ process'.memory.status = status /\ process'.memory.validation = process.memory.validation
  BY <1>1, <1>2, <1>3 DEF Block, Final, status, ProcessStates, Manifests, Checkpoints, Verdicts
<1>5. OnDisk' /\ Recorded' = Recorded
  BY <1>2, DiskKept DEF RunSound, Typed
<1>6. Typed'
  BY <1>2, <1>4 DEF RunSound, Typed
<1>7. OnPhase' /\ OnVerify' /\ OnStop'
  BY <1>2, <1>4 DEF RunSound, OnPhase, OnVerify, OnStop
<1>8. SavesVerdict'
  BY <1>2, <1>3, <1>4 DEF SavesVerdict, PhaseSaved, Undecided, Final
<1>9. InMemory'
  <2>1. LearnedFrom
    BY <1>2, LastPhaseSaved DEF RunSound
  <2>2. Contains(plan, "validate") => tested # "none"
    BY <1>2, <2>1, PlanFacts DEF RunSound, LearnedFrom, DoneBefore, Typed
  <2>3. manifest.status \notin Verdicts
    BY <1>2 DEF Undecided
  <2>4. ~lost /\ status = "completed" => Proven
    BY <1>2, <1>3, <2>2 DEF RunSound, InMemory, Proven, ProcessStates, Manifests
  <2>5. (Proven <=> Proven') /\ (lost <=> lost')
    BY <1>2 DEF Proven
  <2> QED
    BY <1>2, <1>4, <2>3, <2>4, <2>5 DEF RunSound, InMemory, Verdicts
<1> QED
  BY <1>5, <1>6, <1>7, <1>8, <1>9 DEF RunSound, OnSave

(* The manifest is replaced by the one in memory; where it comes first the  *)
(* checkpoint follows.                                                      *)
LEMMA WriteManifestSound == RunSound /\ WriteManifest => RunSound'
<1> SUFFICES ASSUME RunSound, WriteManifest PROVE RunSound'
  OBVIOUS
<1>1. /\ process.pc = "manifest" /\ process \in ProcessStates /\ PlanSound(plan) /\ manifest' = process.memory
      /\ UNCHANGED <<plan, checkpoint, lives, done, tested, lost, learned>>
      /\ process' = [process EXCEPT !.pc = "checkpoint"]
  BY DEF RunSound, WriteManifest, Typed
<1>2. /\ process' \in ProcessStates /\ process'.pc = "checkpoint" /\ process'.at = process.at
      /\ process'.save = process.save /\ process'.memory = process.memory /\ manifest' \in Manifests
  BY <1>1 DEF ProcessStates
<1>3. Typed'
  BY <1>1, <1>2 DEF RunSound, Typed
<1>4. OnPhase' /\ OnVerify' /\ OnStop'
  BY <1>1, <1>2 DEF RunSound, OnPhase, OnVerify, OnStop
<1>5. SavesPhase \/ SavesVerdict
  BY <1>1 DEF RunSound, OnSave, SavesRoute
<1>6. CASE SavesPhase
  <2>1. Undecided'
    BY <1>1, <1>2, <1>6 DEF SavesPhase, Undecided
  <2>2. OnDisk' /\ Recorded' = Recorded
    BY <1>1, <2>1, DiskKept DEF RunSound, Typed, Undecided
  <2>3. SavesPhase'
    <3> DEFINE at == process.at
    <3>1. /\ PhaseSaved(at)' = PhaseSaved(at) /\ Failure(at)' = Failure(at) /\ Blocks(at)' = Blocks(at)
          /\ (DoneBefore(at + 1) <=> DoneBefore(at + 1)') /\ (DoneBefore(at) <=> DoneBefore(at)')
      BY <1>1, <1>2 DEF PhaseSaved, Failure, Blocks, DoneBefore
    <3> QED
      BY <1>1, <1>2, <1>6, <2>1, <2>2, <3>1 DEF SavesPhase
  <2>4. InMemory'
    BY <1>1, <1>2, <2>1 DEF RunSound, InMemory, Undecided, Verdicts
  <2> QED
    BY <1>3, <1>4, <2>2, <2>3, <2>4 DEF RunSound, OnSave
<1>7. CASE SavesVerdict
  <2>1. LearnedFrom /\ checkpoint.next = "none" /\ Recorded = Len(plan)
    <3>1. Len(plan) \in 1..Len(plan)
      BY <1>1, PlanFacts
    <3>2. checkpoint = PhaseSaved(Len(plan))
      BY <1>7 DEF SavesVerdict
    <3> QED
      BY <1>1, <3>1, <3>2, LastPhaseSaved, RecordedIsPosition, PositionIs DEF RunSound, PhaseSaved
  <2>2. Recorded' = Recorded
    BY <1>1 DEF Recorded
  <2>3. OnDisk'
    <3>1. LearnedFrom' /\ checkpoint'.next = "none" /\ Recorded' = Len(plan')
      BY <1>1, <2>1, <2>2 DEF LearnedFrom, DoneBefore
    <3>2. checkpoint' = PhaseSaved(Len(plan))' /\ Len(plan') \in 1..Len(plan') /\ DoneBefore(Len(plan) + 1)'
      BY <1>1, <1>7, <3>1, PlanFacts DEF SavesVerdict, PhaseSaved, LearnedFrom
    <3> QED
      BY <3>1, <3>2 DEF OnDisk
  <2>4. SavesVerdict'
    BY <1>1, <1>2, <1>7 DEF SavesVerdict, PhaseSaved, Final
  <2>5. InMemory'
    <3>1. Proven' <=> Proven
      BY <1>1 DEF Proven
    <3> QED
      BY <1>1, <1>2, <1>7, <3>1 DEF RunSound, InMemory, SavesVerdict
  <2> QED
    BY <1>3, <1>4, <2>3, <2>4, <2>5 DEF RunSound, OnSave
<1> QED
  BY <1>5, <1>6, <1>7

(* A process that dies leaves both files as they are.                       *)
LEMMA DiesSound == RunSound /\ ProcessDies => RunSound'
<1> SUFFICES ASSUME RunSound, ProcessDies PROVE RunSound'
  OBVIOUS
<1>1. /\ process \in ProcessStates /\ process' = [process EXCEPT !.pc = "crashed"] /\ lives # 0
      /\ UNCHANGED <<plan, manifest, checkpoint, lives, done, tested, learned>>
      /\ lost' = (lost \/ tested # manifest.validation)
  BY DEF RunSound, ProcessDies, Typed, OnStop, Stopped
<1>2. process' \in ProcessStates /\ process'.pc = "crashed"
  BY <1>1 DEF ProcessStates, Stopped
<1>3. OnDisk'
  BY <1>1, DiskKept DEF RunSound, Typed
<1>4. Typed'
  BY <1>1, <1>2 DEF RunSound, Typed
<1>5. OnPhase' /\ OnVerify' /\ OnStop' /\ OnSave'
  BY <1>1, <1>2 DEF OnPhase, OnVerify, OnStop, OnSave
<1>6. InMemory'
  BY <1>1, <1>2 DEF RunSound, InMemory, Proven
<1> QED
  BY <1>3, <1>4, <1>5, <1>6 DEF RunSound

(* A process that exits keeps its memory.                                   *)
LEMMA ExitTyped ==
  ASSUME process \in ProcessStates, NEW code \in 0..2
  PROVE  /\ Exit(code) \in ProcessStates /\ Exit(code).pc = "exited" /\ Exit(code).code = code
         /\ Exit(code).memory = process.memory
BY DEF Exit, ProcessStates, Stopped

(* A resumed process starts where the checkpoint says.                       *)
LEMMA ResumeSound == RunSound /\ Resume => RunSound'
<1> SUFFICES ASSUME RunSound, Resume PROVE RunSound'
  OBVIOUS
<1> DEFINE n == Len(plan)
<1>1. /\ process.pc \in {"exited", "crashed"} /\ process \in ProcessStates /\ PlanSound(plan) /\ lives' = lives + 1
      /\ UNCHANGED <<plan, manifest, checkpoint, done, tested, lost, learned>>
      /\ lives \in Nat /\ learned \in Nat /\ learned <= lives /\ manifest \in Manifests /\ checkpoint \in Checkpoints
  BY DEF RunSound, Resume, Typed
<1>2. OnDisk' /\ Recorded' = Recorded
  BY <1>1, DiskKept DEF RunSound
<1>3. /\ n \in Nat /\ n > 0 /\ \A i \in 1..n : plan[i] \in PhaseNames
      /\ \A i, j \in 1..n : plan[i] = plan[j] => i = j
      /\ \A x : Contains(plan, x) <=> \E i \in 1..n : plan[i] = x
      /\ DOMAIN plan = 1..n
  BY <1>1, PlanFacts
<1>4. \A i \in 1..n : plan[i] \notin {"none", "scope-review", "repair", "complete", "route"}
  BY <1>3 DEF PhaseNames
<1>5. CASE Contains(plan, checkpoint.next)
  <2>1. PICK k \in 1..n : plan[k] = checkpoint.next
    BY <1>3, <1>5
  <2>2. process' = Enter(k, manifest)
    <3>1. (CHOOSE i \in DOMAIN plan : plan[i] = checkpoint.next) = k
      BY <1>3, <2>1
    <3> QED
      BY <1>5, <3>1 DEF Resume
  <2>3. process' \in ProcessStates /\ process'.pc = "phase" /\ process'.at = k /\ process'.memory = manifest
    <3>1. k \in Nat
      BY <1>3
    <3> QED
      BY <1>1, <2>2, <3>1 DEF Enter, ProcessStates
  <2>4. manifest.status \notin Verdicts
    BY <1>4, <2>1 DEF RunSound, OnDisk
  <2>5. Recorded = k - 1 /\ DoneBefore(k)
    <3>1. checkpoint # NoCheckpoint /\ \A status \in Verdicts : checkpoint # Final(status)
      BY <1>4, <2>1 DEF NoCheckpoint, Final
    <3>2. CASE checkpoint = RouteSaved
      <4>1. k = 1
        BY <1>3, <2>1, <3>2 DEF RouteSaved
      <4> QED
        BY <1>1, <3>2, <4>1, RecordedIsPosition, PositionIs DEF RouteSaved, DoneBefore
    <3>3. ASSUME NEW i \in 1..n, checkpoint = PhaseSaved(i), DoneBefore(i + 1)
          PROVE  Recorded = k - 1 /\ DoneBefore(k)
      <4>1. i < n /\ k = i + 1
        BY <1>3, <1>4, <2>1, <3>3 DEF PhaseSaved
      <4>2. checkpoint.phase = plan[i] /\ checkpoint.status = "completed"
        BY <3>3 DEF PhaseSaved
      <4> QED
        BY <1>1, <1>3, <3>3, <4>1, <4>2, RecordedIsPosition, PositionIs
    <3>4. ASSUME NEW i \in 1..n, checkpoint = Failure(i), DoneBefore(i)
          PROVE  Recorded = k - 1 /\ DoneBefore(k)
      <4>1. k = i
        BY <1>3, <2>1, <3>4 DEF Failure
      <4>2. checkpoint.phase = plan[i] /\ checkpoint.status = "failed"
        BY <3>4 DEF Failure
      <4> QED
        BY <1>1, <3>4, <4>1, <4>2, RecordedIsPosition, PositionIs
    <3>5. ASSUME NEW i \in 1..n
          PROVE  checkpoint \notin Blocks(i)
      BY <1>4, <2>1 DEF Blocks
    <3> QED
      BY <3>1, <3>2, <3>3, <3>4, <3>5 DEF RunSound, OnDisk
  <2>6. Typed'
    BY <1>1, <2>3 DEF RunSound, Typed
  <2>7. OnPhase' /\ OnVerify' /\ OnStop' /\ OnSave'
    <3>1. DoneBefore(k)'
      BY <1>1, <2>5 DEF DoneBefore
    <3> QED
      BY <1>1, <1>2, <2>3, <2>4, <2>5, <3>1 DEF OnPhase, OnVerify, OnStop, OnSave, Undecided
  <2>8. InMemory'
    BY <1>1, <1>5, <2>3, <2>4 DEF RunSound, InMemory, Verdicts
  <2> QED
    BY <1>2, <2>6, <2>7, <2>8 DEF RunSound
<1>6. CASE ~Contains(plan, checkpoint.next)
  <2>1. process' = IF checkpoint.status = "completed" THEN Exit(0) ELSE Exit(2)
    BY <1>6 DEF Resume
  <2>2. process' \in ProcessStates /\ process'.pc = "exited" /\ (process'.code = 0 => checkpoint.status = "completed")
    BY <1>1, <2>1, ExitTyped
  <2>3. checkpoint.status = "completed" => LearnedFrom
    <3>1. checkpoint # RouteSaved
      BY <1>3, <1>6 DEF RouteSaved
    <3>2. ASSUME NEW i \in 1..n, checkpoint = PhaseSaved(i), i # n PROVE FALSE
      <4>1. n \in Nat
        BY <1>3
      <4>2. i < n /\ i + 1 \in 1..n
        BY <3>2, <4>1
      <4>3. checkpoint.next = plan[i + 1]
        BY <3>2, <4>2 DEF PhaseSaved
      <4> QED
        BY <1>3, <1>6, <4>2, <4>3
    <3> QED
      BY <3>1, <3>2 DEF RunSound, OnDisk, NoCheckpoint, Failure, Blocks
  <2>4. Typed'
    BY <1>1, <2>2 DEF RunSound, Typed
  <2>5. OnPhase' /\ OnVerify' /\ OnStop' /\ OnSave'
    BY <1>1, <2>2, <2>3 DEF OnPhase, OnVerify, OnStop, OnSave, LearnedFrom, DoneBefore
  <2>6. InMemory'
    BY <1>1, <1>6, <2>2 DEF RunSound, InMemory, Proven
  <2> QED
    BY <1>2, <2>4, <2>5, <2>6 DEF RunSound
<1> QED
  BY <1>5, <1>6

(* The checkpoint names the phase that is over: the run goes on with the    *)
(* next one, verifies, repairs or exits.                                    *)
LEMMA SaveCheckpointSound == RunSound /\ SaveCheckpoint => RunSound'
<1> SUFFICES ASSUME RunSound, SaveCheckpoint PROVE RunSound'
  OBVIOUS
<1> DEFINE n == Len(plan)
           at == process.at
<1>1. /\ process.pc = "checkpoint" /\ process \in ProcessStates /\ PlanSound(plan) /\ manifest \in Manifests
      /\ UNCHANGED <<plan, manifest, lives, done, tested, lost, learned>>
      /\ checkpoint' = process.save /\ process.save \in Checkpoints /\ lives # 0 /\ plan' = plan
  BY DEF RunSound, SaveCheckpoint, Typed, OnStop, ProcessStates
<1>2. /\ n \in Nat /\ n > 0 /\ \A i \in 1..n : plan[i] \in PhaseNames
      /\ \A i \in 1..n : plan[i] \notin {"none", "scope-review", "repair", "complete", "route"}
      /\ \A x : Contains(plan, x) <=> \E i \in 1..n : plan[i] = x
  BY <1>1, PlanFacts DEF PhaseNames
<1>3. Recorded' = Position(plan, process.save)
  BY <1>1, RecordedIsPosition DEF Recorded, Position
<1>4. /\ \A k \in Nat : DoneBefore(k) => DoneBefore(k)'
      /\ LearnedFrom => LearnedFrom'
  BY <1>1, <1>2 DEF DoneBefore, LearnedFrom
<1>5. /\ RouteSaved' = RouteSaved
      /\ \A i \in 1..n : PhaseSaved(i)' = PhaseSaved(i) /\ Failure(i)' = Failure(i) /\ Blocks(i)' = Blocks(i)
  BY <1>1 DEF RouteSaved, PhaseSaved, Failure, Blocks
<1>6. CASE SavesRoute
  <2>1. process' = Enter(1, process.memory)
    BY <1>1, <1>2, <1>6 DEF SaveCheckpoint, SavesRoute, RouteSaved
  <2>2. process' \in ProcessStates /\ process'.pc = "phase" /\ process'.at = 1 /\ process'.memory = process.memory
    BY <1>1, <2>1 DEF Enter, ProcessStates
  <2>3. Recorded' = 0 /\ manifest'.status \notin Verdicts /\ process'.memory.status \notin Verdicts
    BY <1>1, <1>3, <1>6, <2>2, PositionIs DEF SavesRoute, RouteSaved, Undecided
  <2>4. OnDisk'
    BY <1>1, <1>5, <1>6, <2>3 DEF OnDisk, SavesRoute
  <2>5. OnPhase' /\ OnVerify' /\ OnStop' /\ OnSave'
    BY <1>1, <1>2, <1>6, <2>2, <2>3 DEF OnPhase, OnVerify, OnStop, OnSave, Undecided, DoneBefore, SavesRoute
  <2>6. InMemory'
    <3>1. process.save.next # "repair"
      BY <1>2, <1>6 DEF SavesRoute, RouteSaved
    <3> QED
      BY <1>1, <2>2, <2>3, <3>1 DEF RunSound, InMemory, Verdicts
  <2>7. Typed'
    BY <1>1, <2>2 DEF RunSound, Typed
  <2> QED
    BY <2>4, <2>5, <2>6, <2>7 DEF RunSound
<1>7. ASSUME SavesPhase, NEW k \in 1..n, k = process.at, process.save = PhaseSaved(k)
      PROVE  RunSound'
  <2>1. /\ DoneBefore(k + 1) /\ Undecided
        /\ process.save.next # "repair" /\ process.save.phase = plan[k] /\ process.save.status = "completed"
        /\ IF k = n THEN learned > 0 ELSE learned < lives
    <3>1. k < n => k + 1 \in 1..n
      BY <1>2
    <3> QED
      BY <1>2, <1>7, <3>1 DEF SavesPhase, PhaseSaved, Failure, Blocks
  <2>2. Recorded' = k
    BY <1>1, <1>3, <2>1, PositionIs
  <2>3. process' = IF k < n THEN Enter(k + 1, process.memory) ELSE [process EXCEPT !.pc = "verify"]
    BY <1>2, <1>7, <2>1 DEF SaveCheckpoint
  <2>4. k + 1 \in Nat
    BY <1>2
  <2>5. process' \in ProcessStates /\ process'.memory = process.memory
    BY <1>1, <2>3, <2>4 DEF Enter, ProcessStates
  <2>6. IF k < n THEN process'.pc = "phase" /\ process'.at = k + 1
                 ELSE process'.pc = "verify" /\ process'.at = k /\ k = n
    BY <1>1, <1>2, <1>7, <2>3 DEF Enter, ProcessStates
  <2>7. Undecided' /\ DoneBefore(k + 1)' /\ (k = n => LearnedFrom')
    BY <1>1, <1>4, <2>1, <2>4, <2>5 DEF Undecided, LearnedFrom
  <2>8. OnDisk'
    BY <1>1, <1>5, <1>7, <2>7 DEF OnDisk, Undecided
  <2>9. OnPhase' /\ OnVerify' /\ OnStop' /\ OnSave'
    BY <1>1, <1>2, <1>5, <1>7, <2>1, <2>2, <2>6, <2>7 DEF OnPhase, OnVerify, OnStop, OnSave
  <2>10. InMemory'
    BY <1>1, <2>1, <2>5, <2>6, <2>7 DEF RunSound, InMemory, Undecided, Verdicts
  <2>11. Typed'
    BY <1>1, <2>5 DEF RunSound, Typed
  <2> QED
    BY <2>8, <2>9, <2>10, <2>11 DEF RunSound
<1>8. ASSUME SavesPhase, NEW k \in 1..n, k = process.at,
             \/ process.save = Failure(k) /\ DoneBefore(k) /\ manifest = process.memory
             \/ process.save \in Blocks(k)
      PROVE  RunSound'
  <2>1. /\ process.save.phase = plan[k] /\ process.save.status # "completed"
        /\ process.save.phase # "complete" /\ Undecided
        /\ process.save.next = "repair" \/ process.save.next = "scope-review" \/ manifest = process.memory
    BY <1>2, <1>8 DEF SavesPhase, Failure, Blocks
  <2>2. process' = Exit(1)
    BY <1>1, <2>1 DEF SaveCheckpoint
  <2>3. process' \in ProcessStates /\ process'.pc = "exited" /\ process'.code = 1 /\ process'.memory = process.memory
    BY <1>1, <2>2, ExitTyped
  <2>4. OnDisk'
    BY <1>1, <1>4, <1>5, <1>8, <2>1 DEF OnDisk, Undecided
  <2>5. OnPhase' /\ OnVerify' /\ OnStop' /\ OnSave'
    BY <1>1, <2>3 DEF OnPhase, OnVerify, OnStop, OnSave
  <2>6. InMemory'
    BY <1>1, <1>2, <2>1, <2>3 DEF RunSound, InMemory, Undecided, Verdicts, Contains
  <2>7. Typed'
    BY <1>1, <2>3 DEF RunSound, Typed
  <2> QED
    BY <2>4, <2>5, <2>6, <2>7 DEF RunSound
<1>9. CASE SavesVerdict
  <2>1. /\ process.save.phase = "complete" /\ process.save.next = "none"
        /\ process.save.status \in Verdicts /\ manifest = process.memory /\ LearnedFrom
        /\ process.save = Final(process.save.status) /\ process.save.status = manifest.status
    BY <1>1, <1>9, LastPhaseSaved DEF SavesVerdict, Final, RunSound
  <2>2. process' = Exit(IF process.save.status = "completed" THEN 0 ELSE 1)
    BY <1>1, <2>1 DEF SaveCheckpoint
  <2>3. process' \in ProcessStates /\ process'.pc = "exited" /\ process'.memory = process.memory
    BY <1>1, <2>2, ExitTyped
  <2>4. Recorded' = Len(plan)
    BY <1>1, <1>3, <2>1, PositionIs
  <2>5. OnDisk'
    <3>1. \E status \in Verdicts : checkpoint' = Final(status)
      BY <1>1, <2>1
    <3> QED
      BY <1>1, <1>4, <2>1, <2>4, <3>1 DEF OnDisk, Final
  <2>6. OnPhase' /\ OnVerify' /\ OnStop' /\ OnSave'
    BY <1>1, <1>4, <2>1, <2>3 DEF OnPhase, OnVerify, OnStop, OnSave
  <2>7. InMemory'
    <3>1. ~Contains(plan, process.save.next)
      BY <1>2, <2>1
    <3>2. Proven' <=> Proven
      BY <1>1 DEF Proven
    <3> QED
      BY <1>1, <2>1, <2>3, <3>1, <3>2 DEF RunSound, InMemory
  <2>8. Typed'
    BY <1>1, <2>3 DEF RunSound, Typed
  <2> QED
    BY <2>5, <2>6, <2>7, <2>8 DEF RunSound
<1>10. SavesPhase => process.at \in 1..n
  BY DEF SavesPhase
<1> QED
  BY <1>1, <1>6, <1>7, <1>8, <1>9, <1>10 DEF RunSound, OnSave, SavesPhase

(* One step for each action of the run.                                     *)
LEMMA NextSound == RunSound /\ [HarnessNext]_harnessVars => RunSound'
<1> SUFFICES ASSUME RunSound, [HarnessNext]_harnessVars PROVE RunSound'
  OBVIOUS
<1>1. CASE StartRun
  BY <1>1, StartSound
<1>2. CASE Resume
  BY <1>2, ResumeSound
<1>3. CASE PhaseStep
  BY <1>3, PhaseSound, VerifySound, WriteManifestSound, SaveCheckpointSound DEF PhaseStep
<1>4. CASE ProcessDies
  BY <1>4, DiesSound
<1>5. CASE UNCHANGED harnessVars
  <2>1. Typed' /\ OnDisk' /\ Recorded' = Recorded
    BY <1>5, DiskKept DEF RunSound, Typed, harnessVars
  <2>2. OnPhase' /\ OnVerify' /\ OnStop' /\ InMemory'
    BY <1>5, <2>1 DEF RunSound, OnPhase, OnVerify, OnStop, InMemory, Proven, Undecided, DoneBefore,
       LearnedFrom, Phase, PhaseSaved, harnessVars
  <2>3. OnSave'
    BY <1>5, <2>1 DEF RunSound, OnSave, SavesRoute, SavesPhase, SavesVerdict, Undecided, DoneBefore,
       RouteSaved, PhaseSaved, Failure, Blocks, Final, harnessVars
  <2> QED
    BY <2>1, <2>2, <2>3 DEF RunSound
<1> QED
  BY <1>1, <1>2, <1>3, <1>4, <1>5 DEF HarnessNext

(* Every reachable run satisfies the inductive invariant.                    *)
THEOREM RunInvariance == HarnessSpec => []RunSound
BY InitSound, NextSound, PTL DEF HarnessSpec

(* However often the run dies and is resumed, no phase is worked on before   *)
(* the earlier ones have succeeded, and success is reported only when all    *)
(* phases are done and the run has been learned from.                        *)
THEOREM PhasesInOrder == HarnessSpec => []NothingSkipped
<1>1. RunSound => NothingSkipped
  <2> SUFFICES ASSUME RunSound PROVE NothingSkipped
    OBVIOUS
  <2>1. PlanSound(plan) /\ process \in ProcessStates /\ manifest \in Manifests
    BY DEF RunSound, Typed
  <2>2. HarnessTypeOK
    BY <2>1, PlanFacts DEF HarnessTypeOK, PlanSound, Distinct, Followed, ProcessStates, Manifests
  <2>3. LearnedFrom => Range(plan) \subseteq done /\ learned \in 1..lives
    BY <2>1, PlanFacts DEF LearnedFrom, DoneBefore, Range, RunSound, Typed
  <2>4. manifest.status = "completed" \/ (process.pc = "exited" /\ process.code = 0) => LearnedFrom
    BY DEF RunSound, OnDisk, OnStop, Verdicts
  <2>5. process.pc \in {"phase", "repair"} => \A i \in 1..(process.at - 1) : plan[i] \in done
    BY <2>1, PlanFacts DEF RunSound, OnPhase, DoneBefore
  <2> QED
    BY <2>2, <2>3, <2>4, <2>5 DEF NothingSkipped
<1> QED
  BY <1>1, RunInvariance, PTL

(* Unless a crash lost a repair, a completed run has passed its last         *)
(* validation, after the last change of the working tree.                    *)
THEOREM CompletionTested == HarnessSpec => []CompletedIsTested
<1>1. RunSound => CompletedIsTested
  BY DEF RunSound, InMemory, Proven, CompletedIsTested
<1> QED
  BY <1>1, RunInvariance, PTL
-------------------------------------------------------------------------------
(* The run directory implements PhasedRun: a completed phase's checkpoint is *)
(* Pass, the manifest with the verdict is Conclude, and all else is a        *)
(* stutter.                                                                  *)
LEMMA InitPhased == HarnessInit => Phased!PhasedInit
<1> SUFFICES ASSUME HarnessInit PROVE Phased!PhasedInit
  OBVIOUS
<1>1. PlanSound(plan)
  BY PlanIsSound DEF HarnessInit
<1>2. Recorded = 0
  BY <1>1, RecordedIsPosition, PositionIs DEF HarnessInit, NoCheckpoint
<1>3. Len(plan) \in Nat \ {0}
  BY <1>1, PlanFacts
<1> QED
  BY <1>2, <1>3 DEF Phased!PhasedInit, HarnessInit, Fresh

(* A step of the run is a step of the contract, Pass or Conclude, or        *)
(* changes nothing the contract sees.                                       *)
LEMMA StepPhased ==
  RunSound /\ RunSound' /\ [HarnessNext]_harnessVars => [Phased!Pass \/ Phased!Conclude]_(Phased!phasedVars)
<1> SUFFICES ASSUME RunSound, RunSound', [HarnessNext]_harnessVars
             PROVE  [Phased!Pass \/ Phased!Conclude]_(Phased!phasedVars)
  OBVIOUS
<1>1. UNCHANGED plan
  BY DEF HarnessNext, PhaseStep, StartRun, Resume, Context, Validate, ProviderFails, ReviewRequiresFix,
     ProviderSucceeds, Repair, LearnPhase, Verify, WriteManifest, SaveCheckpoint, ProcessDies, harnessVars
<1>2. CASE WriteManifest
  <2>1. UNCHANGED checkpoint /\ Recorded' = Recorded /\ manifest' = process.memory /\ process.pc = "manifest"
    BY <1>1, <1>2 DEF WriteManifest, Recorded
  <2>2. CASE SavesPhase
    BY <1>1, <2>1, <2>2 DEF SavesPhase, Undecided, Verdicts, Phased!phasedVars
  <2>3. CASE SavesVerdict
    <3>1. Recorded = Len(plan)
      BY <2>3, PlanFacts, RecordedIsPosition, PositionIs DEF RunSound, Typed, SavesVerdict, PhaseSaved
    <3> QED
      BY <1>1, <2>1, <2>3, <3>1 DEF SavesVerdict, Verdicts, Phased!Conclude
  <2> QED
    BY <2>1, <2>2, <2>3 DEF RunSound, OnSave, SavesRoute
<1>3. CASE SaveCheckpoint
  <2>1. UNCHANGED manifest /\ checkpoint' = process.save /\ process.pc = "checkpoint" /\ PlanSound(plan)
    BY <1>3 DEF SaveCheckpoint, RunSound, Typed
  <2>2. Recorded' = Position(plan, process.save)
    BY <1>1, <2>1 DEF Recorded, Position
  <2>3. CASE SavesRoute
    BY <1>1, <2>1, <2>2, <2>3, PositionIs DEF SavesRoute, RouteSaved, Phased!phasedVars
  <2>4. CASE SavesPhase
    <3>1. PICK k \in 1..Len(plan) : k = process.at
      BY <2>4 DEF SavesPhase
    <3>2. CASE process.save = PhaseSaved(k)
      <4>1. Recorded' = k /\ Recorded = k - 1
        BY <2>1, <2>2, <2>4, <3>1, <3>2, PositionIs DEF SavesPhase, PhaseSaved
      <4> QED
        BY <1>1, <2>1, <2>4, <4>1, PlanFacts DEF SavesPhase, Undecided, Verdicts, Phased!Pass
    <3>3. CASE process.save = Failure(k) \/ process.save \in Blocks(k)
      <4>1. Recorded' = k - 1 /\ Recorded = k - 1
        BY <2>1, <2>2, <2>4, <3>1, <3>3, PositionIs DEF SavesPhase, Failure, Blocks
      <4> QED
        BY <1>1, <2>1, <4>1 DEF Phased!phasedVars
    <3> QED
      BY <2>4, <3>1, <3>2, <3>3 DEF SavesPhase
  <2>5. CASE SavesVerdict
    <3>1. Recorded' = Len(plan) /\ Recorded = Len(plan)
      BY <2>1, <2>2, <2>5, PlanFacts, RecordedIsPosition, PositionIs DEF SavesVerdict, Final, PhaseSaved
    <3> QED
      BY <1>1, <2>1, <3>1 DEF Phased!phasedVars
  <2> QED
    BY <2>1, <2>3, <2>4, <2>5 DEF RunSound, OnSave
<1>4. CASE Validate
  <2>1. UNCHANGED checkpoint /\ process.pc = "phase" /\ manifest'.status = process.memory.status
    BY <1>4 DEF Validate, IsAt, RunSound, Typed, ProcessStates, Manifests
  <2>2. Undecided /\ Recorded' = Recorded
    BY <1>1, <2>1 DEF RunSound, OnPhase, Recorded
  <2> QED
    BY <1>1, <2>1, <2>2 DEF Undecided, Verdicts, Phased!phasedVars
<1>5. CASE UNCHANGED <<manifest, checkpoint>>
  <2>1. Recorded' = Recorded
    BY <1>1, <1>5 DEF Recorded
  <2> QED
    BY <1>1, <1>5, <2>1 DEF Phased!phasedVars
<1> QED
  BY <1>2, <1>3, <1>4, <1>5 DEF HarnessNext, PhaseStep, StartRun, Resume, Context, ProviderFails,
     ReviewRequiresFix, ProviderSucceeds, Repair, LearnPhase, Verify, ProcessDies, harnessVars

(* Crashes and resumptions never take back a phase on disk or a verdict, and *)
(* there is no verdict before the last phase.                                *)
THEOREM RunRefinement == HarnessSpec => ImplementsPhasedRun
<1>1. RunSound /\ RunSound' /\ [HarnessNext]_harnessVars => [Phased!Pass \/ Phased!Conclude]_(Phased!phasedVars)
  BY StepPhased
<1> QED
  BY <1>1, InitPhased, RunInvariance, PTL DEF HarnessSpec, ImplementsPhasedRun, Phased!PhasedSpec

-------------------------------------------------------------------------------
(* The broker's jobs and counters.                                           *)
OffloadTyped ==
  /\ job \in [AllJobs -> {"new", "queued", "active"} \cup Ended]
  /\ batch \in {"none", "refused", "open", "returned"}
  /\ counter \in [queued : Nat, active : Nat, completed : Nat]
OffloadInv == OffloadTyped /\ OffloadSound

(* How many of a finite set of jobs are in some stage when one of them moves. *)
Count(D, f, stages) == Cardinality({k \in D : f[k] \in stages})
Others(D, f, g, j) == \A k \in D \ {j} : g[k] = f[k]
Steps(a, b, was, is) ==
  /\ a \in Nat /\ b \in Nat
  /\ (was <=> is) => b = a
  /\ was /\ ~is => b = a - 1
  /\ ~was /\ is => b = a + 1

(* When one element changes its stage, the number of those at some stages   *)
(* grows by its arrival and shrinks by its departure.                       *)
LEMMA OneMoves ==
  ASSUME NEW D, IsFiniteSet(D), NEW f, NEW g, NEW j, NEW stages, Others(D, f, g, j)
  PROVE  Steps(Count(D, f, stages), Count(D, g, stages),
               j \in D /\ f[j] \in stages, j \in D /\ g[j] \in stages)
<1> DEFINE F == {k \in D : f[k] \in stages}
           G == {k \in D : g[k] \in stages}
<1>1. IsFiniteSet(F) /\ IsFiniteSet(G)
  BY FS_Subset
<1>2. Cardinality(F) \in Nat /\ Cardinality(G) \in Nat
  BY <1>1, FS_CardinalityType
<1>3. (j \in D /\ f[j] \in stages <=> j \in D /\ g[j] \in stages) => G = F
  BY DEF Others
<1>4. (j \in D /\ f[j] \in stages) /\ ~(j \in D /\ g[j] \in stages) => G = F \ {j} /\ j \in F
  BY DEF Others
<1>5. ~(j \in D /\ f[j] \in stages) /\ (j \in D /\ g[j] \in stages) => G = F \cup {j} /\ j \notin F
  BY DEF Others
<1>6. Cardinality(F \ {j}) = (IF j \in F THEN Cardinality(F) - 1 ELSE Cardinality(F))
  BY <1>1, FS_RemoveElement
<1>7. Cardinality(F \cup {j}) = (IF j \in F THEN Cardinality(F) ELSE Cardinality(F) + 1)
  BY <1>1, FS_AddElement
<1> QED
  BY <1>2, <1>3, <1>4, <1>5, <1>6, <1>7 DEF Count, Steps

(* The same for the jobs of the broker and for those of its batch.           *)
LEMMA JobMoves ==
  ASSUME OffloadTyped, NEW j \in AllJobs, NEW stage, job' = [job EXCEPT ![j] = stage], NEW stages
  PROVE  Steps(In(stages), In(stages)', job[j] \in stages, stage \in stages)
<1> PICK f, g : f = job /\ g = job'
  OBVIOUS
<1>1. IsFiniteSet(AllJobs) /\ Others(AllJobs, f, g, j) /\ g[j] = stage
  BY OffloadAssumption DEF AllJobs, OffloadTyped, Others
<1>2. In(stages) = Count(AllJobs, f, stages) /\ In(stages)' = Count(AllJobs, g, stages)
  BY DEF In, Count
<1>3. Steps(Count(AllJobs, f, stages), Count(AllJobs, g, stages),
            j \in AllJobs /\ f[j] \in stages, j \in AllJobs /\ g[j] \in stages)
  BY <1>1, OneMoves
<1> QED
  BY <1>1, <1>2, <1>3 DEF Steps

(* A job of the batch gets a worker only while one is free.                  *)
LEMMA BatchMoves ==
  ASSUME OffloadTyped, BatchBounded, NEW j \in AllJobs, NEW stage, job' = [job EXCEPT ![j] = stage],
         UNCHANGED batch, job[j] \notin Ended,
         stage = "queued" => (j \in Batch => PoolThread(j)),
         stage = "active" => job[j] = "queued"
  PROVE  BatchBounded'
<1> PICK f, g : f = job /\ g = job'
  OBVIOUS
<1>1. IsFiniteSet(Batch) /\ Others(Batch, f, g, j) /\ g[j] = stage
  <2>1. Batch \in SUBSET AllJobs
    BY DEF AllJobs
  <2> QED
    BY <2>1, OffloadAssumption, FS_Subset DEF AllJobs, OffloadTyped, Others
<1>0. ASSUME NEW S
      PROVE  Steps(Count(Batch, f, S), Count(Batch, g, S),
                   j \in Batch /\ f[j] \in S, j \in Batch /\ g[j] \in S)
  BY <1>1, OneMoves
<1> PICK stages, before, after :
      stages = {"queued", "active"} /\ before = Count(Batch, f, stages) /\ after = Count(Batch, g, stages)
  OBVIOUS
<1>2. Steps(before, after, j \in Batch /\ f[j] \in stages, j \in Batch /\ g[j] \in stages)
  BY <1>0
<1>3. before <= MaxWorkers /\ MaxWorkers \in Nat /\ (stage = "queued" /\ j \in Batch => before < MaxWorkers)
  BY OffloadAssumption DEF Count, BatchBounded, PoolThread
<1>4. after <= MaxWorkers
  <2>1. CASE stage = "queued" /\ j \in Batch
    BY <1>2, <1>3, <2>1 DEF Steps
  <2>2. CASE stage = "active" \/ j \notin Batch
    BY <1>1, <1>2, <1>3, <2>2 DEF Steps
  <2>3. CASE stage \notin stages
    BY <1>1, <1>2, <1>3, <2>3 DEF Steps
  <2> QED
    BY <2>1, <2>2, <2>3
<1>5. batch = "returned" => \A k \in Batch : job'[k] \in Ended
  BY <1>1 DEF BatchBounded, Others
<1> QED
  BY <1>4, <1>5 DEF BatchBounded, Count

(* The broker starts with nothing to do.                                     *)
LEMMA OffloadStarts == OffloadInit => OffloadInv
<1> SUFFICES ASSUME OffloadInit PROVE OffloadInv
  OBVIOUS
<1>1. ASSUME NEW stages, "new" \notin stages PROVE In(stages) = 0
  <2>1. {j \in AllJobs : job[j] \in stages} = {}
    BY <1>1 DEF OffloadInit
  <2> QED
    BY <2>1, FS_EmptySet DEF In
<1>2. Cardinality({j \in Batch : job[j] \in {"queued", "active"}}) = 0
  <2>1. {j \in Batch : job[j] \in {"queued", "active"}} = {}
    BY DEF OffloadInit, AllJobs
  <2> QED
    BY <2>1, FS_EmptySet
<1>3. In({"queued", "active"}) = 0 /\ In({"active"}) = 0 /\ In({"queued"}) = 0 /\ In(Ended) = 0
  BY <1>1 DEF Ended
<1> QED
  BY <1>2, <1>3, OffloadAssumption
     DEF OffloadInit, OffloadInv, OffloadTyped, OffloadSound, PressureBounded, BatchBounded

(* A job that is queued, started, rejected or ended moves the counters in    *)
(* step with the truth, or on the safe side of it.                           *)
LEMMA JobKeeps ==
  ASSUME OffloadInv, NEW j \in AllJobs, OffloadStep(j)
  PROVE  OffloadInv'
<1>1. OffloadTyped /\ PressureBounded /\ BatchBounded /\ UNCHANGED batch
  BY DEF OffloadInv, OffloadSound, OffloadStep, Enqueue, Launch, Reject, End, CountOut
<1> PICK old, new : old = counter /\ new = counter'
  OBVIOUS
<1>2. old.queued \in Nat /\ old.active \in Nat /\ old.completed \in Nat
  BY <1>1 DEF OffloadTyped
<1>3. CASE Enqueue(j)
  <2>1. job[j] = "new" /\ job' = [job EXCEPT ![j] = "queued"] /\ (j \in Batch => PoolThread(j))
        /\ counter' = [counter EXCEPT !.queued = @ + 1]
    BY <1>3 DEF Enqueue
  <2>2. OffloadTyped' /\ new.queued = old.queued + 1 /\ new.active = old.active /\ new.completed = old.completed
    BY <1>1, <1>2, <2>1 DEF OffloadTyped
  <2>3. /\ In({"queued", "active"})' = In({"queued", "active"}) + 1 /\ In({"queued", "active"}) \in Nat
        /\ In({"active"})' = In({"active"}) /\ In({"active"}) \in Nat
        /\ In({"queued"})' = In({"queued"}) + 1 /\ In({"queued"}) \in Nat
        /\ In(Ended)' = In(Ended) /\ In({"rejected"})' = In({"rejected"})
    <3>1. Steps(In({"queued", "active"}), In({"queued", "active"})', job[j] \in {"queued", "active"}, "queued" \in {"queued", "active"})
      BY <1>1, <2>1, JobMoves
    <3>2. Steps(In({"active"}), In({"active"})', job[j] \in {"active"}, "queued" \in {"active"})
      BY <1>1, <2>1, JobMoves
    <3>3. Steps(In({"queued"}), In({"queued"})', job[j] \in {"queued"}, "queued" \in {"queued"})
      BY <1>1, <2>1, JobMoves
    <3>4. Steps(In(Ended), In(Ended)', job[j] \in Ended, "queued" \in Ended)
      BY <1>1, <2>1, JobMoves
    <3>5. Steps(In({"rejected"}), In({"rejected"})', job[j] \in {"rejected"}, "queued" \in {"rejected"})
      BY <1>1, <2>1, JobMoves
    <3> QED
      BY <2>1, <3>1, <3>2, <3>3, <3>4, <3>5 DEF Steps, Ended
  <2>4. PressureBounded'
    BY <1>1, <1>2, <2>2, <2>3 DEF PressureBounded
  <2>5. BatchBounded'
    BY <1>1, <2>1, BatchMoves DEF Ended
  <2> QED
    BY <2>2, <2>4, <2>5 DEF OffloadInv, OffloadSound
<1>4. CASE Launch(j)
  <2>1. job[j] = "queued" /\ job' = [job EXCEPT ![j] = "active"]
        /\ counter' = [counter EXCEPT !.queued = @ - 1, !.active = @ + 1]
    BY <1>4 DEF Launch
  <2>3. /\ In({"queued", "active"})' = In({"queued", "active"}) /\ In({"queued", "active"}) \in Nat
        /\ In({"active"})' = In({"active"}) + 1 /\ In({"active"}) \in Nat
        /\ In({"queued"})' = In({"queued"}) - 1 /\ In({"queued"}) \in Nat /\ In({"queued"})' \in Nat
        /\ In(Ended)' = In(Ended) /\ In({"rejected"})' = In({"rejected"})
    <3>1. Steps(In({"queued", "active"}), In({"queued", "active"})', job[j] \in {"queued", "active"}, "active" \in {"queued", "active"})
      BY <1>1, <2>1, JobMoves
    <3>2. Steps(In({"active"}), In({"active"})', job[j] \in {"active"}, "active" \in {"active"})
      BY <1>1, <2>1, JobMoves
    <3>3. Steps(In({"queued"}), In({"queued"})', job[j] \in {"queued"}, "active" \in {"queued"})
      BY <1>1, <2>1, JobMoves
    <3>4. Steps(In(Ended), In(Ended)', job[j] \in Ended, "active" \in Ended)
      BY <1>1, <2>1, JobMoves
    <3>5. Steps(In({"rejected"}), In({"rejected"})', job[j] \in {"rejected"}, "active" \in {"rejected"})
      BY <1>1, <2>1, JobMoves
    <3> QED
      BY <2>1, <3>1, <3>2, <3>3, <3>4, <3>5 DEF Steps, Ended
  <2>4. old.queued >= 1
    BY <1>1, <1>2, <2>3 DEF PressureBounded
  <2>2. OffloadTyped' /\ new.queued = old.queued - 1 /\ new.active = old.active + 1 /\ new.completed = old.completed
    <3> PICK queued, active : queued = old.queued - 1 /\ active = old.active + 1
      OBVIOUS
    <3>1. queued \in Nat /\ active \in Nat /\ old.completed \in Nat
      BY <1>2, <2>4
    <3>2. counter' = [old EXCEPT !.queued = queued, !.active = active]
      BY <2>1
    <3>3. counter' \in [queued : Nat, active : Nat, completed : Nat]
      <4>1. old \in [queued : Nat, active : Nat, completed : Nat]
        BY <1>1 DEF OffloadTyped
      <4> QED
        BY <3>1, <3>2, <4>1
    <3>4. new.queued = queued /\ new.active = active /\ new.completed = old.completed
      BY <1>1, <3>2 DEF OffloadTyped
    <3> QED
      BY <1>1, <2>1, <3>4, <3>3 DEF OffloadTyped, Ended
  <2>5. PressureBounded'
    BY <1>1, <1>2, <2>2, <2>3 DEF PressureBounded
  <2>6. BatchBounded'
    BY <1>1, <2>1, BatchMoves DEF Ended
  <2> QED
    BY <2>2, <2>5, <2>6 DEF OffloadInv, OffloadSound
<1>5. ASSUME NEW outcome \in Ended, CountOut(j, outcome),
             \/ job[j] = "queued" /\ outcome = "rejected"
             \/ job[j] = "active" /\ outcome # "rejected"
      PROVE  OffloadInv'
  <2>1. job' = [job EXCEPT ![j] = outcome]
        /\ counter' = [counter EXCEPT !.active = IF @ > 0 THEN @ - 1 ELSE 0, !.completed = @ + 1]
    BY <1>5 DEF CountOut
  <2>2. OffloadTyped' /\ new.queued = old.queued /\ new.completed = old.completed + 1
        /\ new.active = (IF old.active > 0 THEN old.active - 1 ELSE 0)
    <3> PICK active, over : /\ active = (IF old.active > 0 THEN old.active - 1 ELSE 0)
                                 /\ over = old.completed + 1
      OBVIOUS
    <3>1. active \in Nat /\ over \in Nat
      BY <1>2
    <3>2. counter' = [old EXCEPT !.active = active, !.completed = over]
      BY <2>1
    <3>3. counter' \in [queued : Nat, active : Nat, completed : Nat]
      <4>1. old \in [queued : Nat, active : Nat, completed : Nat]
        BY <1>1 DEF OffloadTyped
      <4> QED
        BY <3>1, <3>2, <4>1
    <3>4. new.queued = old.queued /\ new.active = active /\ new.completed = over
      BY <1>1, <3>2 DEF OffloadTyped
    <3> QED
      BY <1>1, <2>1, <3>4, <3>3 DEF OffloadTyped
  <2>3. /\ In({"queued", "active"})' = In({"queued", "active"}) - 1 /\ In({"queued", "active"}) \in Nat
        /\ In({"active"}) \in Nat /\ In({"queued"}) \in Nat /\ In(Ended) \in Nat /\ In({"rejected"}) \in Nat
        /\ In({"active"})' \in Nat /\ In({"queued"})' \in Nat
        /\ In(Ended)' = In(Ended) + 1
    BY <1>1, <1>5, <2>1, JobMoves DEF Ended, Steps
  <2>4. ASSUME outcome = "rejected" PROVE PressureBounded'
    <3>1. /\ In({"active"})' = In({"active"}) /\ In({"queued"})' = In({"queued"}) - 1
          /\ In({"rejected"})' = In({"rejected"}) + 1
      BY <1>1, <1>5, <2>1, <2>4, JobMoves DEF Ended, Steps
    <3> QED
      BY <1>1, <1>2, <2>2, <2>3, <3>1 DEF PressureBounded
  <2>5. ASSUME outcome # "rejected" PROVE PressureBounded'
    <3>1. /\ In({"active"})' = In({"active"}) - 1 /\ In({"queued"})' = In({"queued"})
          /\ In({"rejected"})' = In({"rejected"})
      BY <1>1, <1>5, <2>1, <2>5, JobMoves DEF Ended, Steps
    <3> QED
      BY <1>1, <1>2, <2>2, <2>3, <3>1 DEF PressureBounded
  <2>6. BatchBounded'
    BY <1>1, <1>5, <2>1, BatchMoves DEF Ended
  <2> QED
    BY <2>2, <2>4, <2>5, <2>6 DEF OffloadInv, OffloadSound
<1> QED
  BY <1>3, <1>4, <1>5 DEF OffloadStep, Reject, End, Ended

(* Whatever the threads and the batch of LocalOffloadBroker do, and however  *)
(* many jobs are rejected or fail: the pressure that routing reads is never  *)
(* understated, no counter turns negative, and a batch keeps to its workers  *)
(* and returns with all its results.                                         *)
THEOREM Offloads == OffloadInit /\ [][OffloadNext]_offloadVars => []OffloadSound
<1>1. OffloadInv /\ [OffloadNext]_offloadVars => OffloadInv'
  <2> SUFFICES ASSUME OffloadInv, [OffloadNext]_offloadVars PROVE OffloadInv'
    OBVIOUS
  <2>1. ASSUME UNCHANGED <<job, counter>>, batch' \in {"refused", "open"} \/ UNCHANGED batch
        PROVE  OffloadInv'
    BY <2>1 DEF OffloadInv, OffloadTyped, OffloadSound, PressureBounded, BatchBounded, In
  <2>2. CASE ReturnMany
    BY <2>2 DEF ReturnMany, OffloadInv, OffloadTyped, OffloadSound, PressureBounded, BatchBounded, In
  <2> QED
    BY <2>1, <2>2, JobKeeps DEF OffloadNext, RunMany, offloadVars
<1>2. OffloadInv => OffloadSound
  BY DEF OffloadInv
<1> QED
  BY <1>1, <1>2, OffloadStarts, PTL

-------------------------------------------------------------------------------
(* The call a lane is in, and where it is with the first job of its batch.   *)
LaneCall == [pc : {"job", "signal", "evidence", "assess", "believe", "outcome", "profile", "apply",
                   "complete"},
             batch : Seq(Outcomes) \ {<<>>}, read : SUBSET Outcomes, observed : Nat]
Believed == {"outcome", "profile", "apply", "complete"}
Supported == {"assess", "believe"} \cup Believed
Recording == {"evidence", "assess", "believe", "outcome"}
Profiling == {"profile", "apply"}
LearningTyped ==
  /\ pending \in Seq(Outcomes) /\ admitted \subseteq Outcomes /\ completed \subseteq Outcomes
  /\ evidence \subseteq Outcomes /\ belief \subseteq Outcomes
  /\ count \in [signals : Nat, outcomes : Nat, observations : Nat]
  /\ lane \in [Processes -> LaneCall \cup {Away}]
  /\ overlapped \in BOOLEAN /\ aborts \in Nat

(* An outcome is counted, pending or completed, and pending once; those of a *)
(* batch stay pending until they are completed.                              *)
NoRepeats(s) == \A i \in DOMAIN s, j \in DOMAIN s : s[i] = s[j] => i = j
Queued == /\ NoRepeats(pending)
          /\ \A j \in Outcomes : j \in ToSet(pending) => j \notin admitted \cup completed
          /\ admitted \cap completed = {}
          /\ \A p \in Processes : ToSet(lane[p].batch) \subseteq ToSet(pending) \cup completed
(* Evidence comes before belief and completion, whoever else is at work.     *)
Stored(p) ==
  /\ lane[p].pc \in Supported => Job(p) \in evidence
  /\ lane[p].pc \notin {"away", "job"} => Job(p) \notin Unverified
  /\ lane[p].pc = "believe" => lane[p].read \subseteq evidence
EvidenceFirst == Learned \subseteq evidence /\ belief \subseteq evidence /\ \A p \in Processes : Stored(p)
(* Every outcome of the self model has a signal, and every observation of    *)
(* the profile, also the one a lane has read, an outcome, beside those under *)
(* way.                                                                      *)
Busy(S) == Cardinality({p \in Processes : lane[p].pc \in S})
Covered ==
  /\ count.outcomes + Busy(Recording) <= count.signals
  /\ count.observations + Busy(Profiling) <= count.outcomes
  /\ \A p \in Processes : lane[p].pc = "apply" => lane[p].observed + Busy(Profiling) <= count.outcomes
(* A lane that has been alone, what it knows of the tables, and ...          *)
OnlyLane == ~overlapped => \A p \in Processes, q \in Processes : lane[p] # Away /\ lane[q] # Away => p = q
Knows(p) ==
  /\ NoRepeats(lane[p].batch) /\ ToSet(lane[p].batch) \subseteq ToSet(pending)
  /\ lane[p].pc = "believe" => lane[p].read = evidence
  /\ lane[p].pc \in Believed => Job(p) \in belief
  /\ lane[p].pc = "apply" => lane[p].observed = count.observations
  /\ lane[p].pc = "complete" => Cardinality(Learned) + 1 <= count.observations
Reliable == /\ Learned \subseteq belief /\ Cardinality(Learned) <= count.observations
            /\ \A p \in Processes : lane[p] # Away => Knows(p)
(* ... what else it has stored, if none has been cut short.                  *)
Beside(S, p) == IF lane[p].pc \in S THEN {Job(p)} ELSE {}
Extra(S, p) == IF lane[p].pc \in S THEN 1 ELSE 0
ExactFor(p) ==
  /\ evidence = Learned \cup Beside(Supported, p) /\ belief = Learned \cup Beside(Believed, p)
  /\ count.outcomes = Cardinality(Learned) + Extra({"profile", "apply", "complete"}, p)
  /\ count.observations = Cardinality(Learned) + Extra({"complete"}, p)
Exact ==
  /\ \A p \in Processes : lane[p] # Away => ExactFor(p)
  /\ (\A p \in Processes : lane[p] = Away) =>
       /\ evidence = Learned /\ belief = Learned
       /\ count.outcomes = Cardinality(Learned) /\ count.observations = Cardinality(Learned)
LearningInv ==
  /\ LearningTyped /\ Queued /\ EvidenceFirst /\ Covered /\ OnlyLane
  /\ ~overlapped => Reliable
  /\ ~overlapped /\ aborts = 0 => Exact

(* Queues without repetitions: a prefix is one.                              *)
LEMMA Prefix ==
  ASSUME NEW s \in Seq(Outcomes), NEW n \in 1..Len(s), NoRepeats(s)
  PROVE  /\ SubSeq(s, 1, n) \in Seq(Outcomes) \ {<<>>} /\ NoRepeats(SubSeq(s, 1, n))
         /\ ToSet(SubSeq(s, 1, n)) \subseteq ToSet(s)
<1> PICK r : r = SubSeq(s, 1, n)
  OBVIOUS
<1>1. r \in Seq(Outcomes) /\ Len(r) = n /\ \A i \in 1..n : r[i] = s[i]
  OBVIOUS
<1> QED
  BY <1>1 DEF NoRepeats, ToSet
(* A queue with one more job.                                                *)
LEMMA OneMore ==
  ASSUME NEW s \in Seq(Outcomes), NEW j \in Outcomes, NoRepeats(s), j \notin ToSet(s)
  PROVE  /\ Append(s, j) \in Seq(Outcomes) /\ NoRepeats(Append(s, j))
         /\ ToSet(Append(s, j)) = ToSet(s) \cup {j}
<1> PICK r, n : r = Append(s, j) /\ n = Len(s)
  OBVIOUS
<1>1. /\ r \in Seq(Outcomes) /\ n \in Nat /\ DOMAIN r = 1..(n + 1) /\ DOMAIN s = 1..n /\ r[n + 1] = j
      /\ \A i \in 1..n : r[i] = s[i]
  OBVIOUS
<1>2. \A i \in 1..n : s[i] # j
  BY <1>1 DEF ToSet
<1>3. NoRepeats(r)
  BY <1>1, <1>2 DEF NoRepeats
<1>4. ToSet(r) = ToSet(s) \cup {j}
  BY <1>1 DEF ToSet
<1> QED
  BY <1>1, <1>3, <1>4
(* Two pieces around a gap.                                                  *)
Before(a, s, k) == a \in Seq(Outcomes) /\ Len(a) = k - 1 /\ \A i \in 1..(k - 1) : a[i] = s[i]
After(b, s, k, n) == b \in Seq(Outcomes) /\ Len(b) = n - k /\ \A i \in 1..(n - k) : b[i] = s[k + i]
Gap(r, s, k, n) == /\ r \in Seq(Outcomes) /\ Len(r) = n - 1
                   /\ \A i \in 1..(n - 1) : r[i] = IF i < k THEN s[i] ELSE s[i + 1]
(* Joining the pieces leaves out what is between them.                       *)
LEMMA Joined ==
  ASSUME NEW s, NEW n \in Nat, NEW k \in 1..n, NEW a, NEW b, Before(a, s, k), After(b, s, k, n)
  PROVE  Gap(a \o b, s, k, n)
<1>0. /\ a \in Seq(Outcomes) /\ Len(a) = k - 1 /\ \A i \in 1..(k - 1) : a[i] = s[i]
      /\ b \in Seq(Outcomes) /\ Len(b) = n - k /\ \A i \in 1..(n - k) : b[i] = s[k + i]
  BY DEF Before, After
<1>1. /\ a \o b \in Seq(Outcomes) /\ Len(a \o b) = Len(a) + Len(b)
      /\ \A i \in 1..(Len(a) + Len(b)) : (a \o b)[i] = IF i <= Len(a) THEN a[i] ELSE b[i - Len(a)]
  BY <1>0, ConcatProperties
<1>2. k \in Nat /\ k >= 1 /\ k <= n /\ Len(a) + Len(b) = n - 1
  BY <1>0
<1>3. ASSUME NEW i \in 1..(n - 1) PROVE (a \o b)[i] = IF i < k THEN s[i] ELSE s[i + 1]
  <2>1. CASE i < k
    <3>1. i \in 1..(Len(a) + Len(b)) /\ i <= Len(a) /\ i \in 1..(k - 1)
      BY <1>0, <1>2, <2>1
    <3> QED
      BY <1>0, <1>1, <2>1, <3>1
  <2>2. CASE i >= k
    <3>1. i \in 1..(Len(a) + Len(b)) /\ ~(i <= Len(a)) /\ i - Len(a) \in 1..(n - k)
          /\ k + (i - Len(a)) = i + 1 /\ ~(i < k)
      BY <1>0, <1>2, <2>2
    <3>2. (a \o b)[i] = b[i - Len(a)]
      BY <1>1, <3>1
    <3>3. b[i - Len(a)] = s[k + (i - Len(a))]
      BY <1>0, <3>1
    <3> QED
      BY <3>1, <3>2, <3>3
  <2> QED
    BY <1>2, <2>1, <2>2
<1> QED
  BY <1>0, <1>1, <1>2, <1>3 DEF Gap

(* A queue without the job at some place.                                    *)
LEMMA OneLess ==
  ASSUME NEW s \in Seq(Outcomes), NEW k \in DOMAIN s, NoRepeats(s)
  PROVE  /\ RemoveAt(s, k) \in Seq(Outcomes) /\ NoRepeats(RemoveAt(s, k))
         /\ ToSet(RemoveAt(s, k)) = ToSet(s) \ {s[k]}
<1> PICK r, n : r = RemoveAt(s, k) /\ n = Len(s)
  OBVIOUS
<1>1. n \in Nat /\ k \in 1..n /\ DOMAIN s = 1..n
  OBVIOUS
<1>2. /\ SubSeq(s, 1, k - 1) \in Seq(Outcomes) /\ Len(SubSeq(s, 1, k - 1)) = k - 1
      /\ SubSeq(s, k + 1, n) \in Seq(Outcomes) /\ Len(SubSeq(s, k + 1, n)) = n - k
      /\ \A i \in 1..(k - 1) : SubSeq(s, 1, k - 1)[i] = s[i]
      /\ \A i \in 1..(n - k) : SubSeq(s, k + 1, n)[i] = s[k + i]
  BY <1>1
<1>3. /\ r \in Seq(Outcomes) /\ Len(r) = n - 1 /\ DOMAIN r = 1..(n - 1)
      /\ \A i \in 1..(n - 1) : r[i] = IF i < k THEN s[i] ELSE s[i + 1]
  <2>1. r = SubSeq(s, 1, k - 1) \o SubSeq(s, k + 1, n)
    BY DEF RemoveAt
  <2>2. Gap(SubSeq(s, 1, k - 1) \o SubSeq(s, k + 1, n), s, k, n)
    BY <1>1, <1>2, Joined DEF Before, After
  <2>3. Gap(r, s, k, n)
    BY <2>1, <2>2
  <2> QED
    BY <1>1, <2>3 DEF Gap
<1>4. NoRepeats(r)
  <2> SUFFICES ASSUME NEW i \in 1..(n - 1), NEW j \in 1..(n - 1), r[i] = r[j] PROVE i = j
    BY <1>3 DEF NoRepeats
  <2>1. i \in 1..n /\ i + 1 \in 1..n /\ j \in 1..n /\ j + 1 \in 1..n
    BY <1>1
  <2>2. \A x \in 1..n, y \in 1..n : s[x] = s[y] => x = y
    BY <1>1 DEF NoRepeats
  <2> QED
    BY <1>1, <1>3, <2>1, <2>2
<1>5. ToSet(r) \subseteq ToSet(s) \ {s[k]}
  <2> SUFFICES ASSUME NEW i \in 1..(n - 1) PROVE r[i] \in ToSet(s) \ {s[k]}
    BY <1>3 DEF ToSet
  <2>1. i \in 1..n /\ i + 1 \in 1..n
    BY <1>1
  <2>2. \A x \in 1..n, y \in 1..n : s[x] = s[y] => x = y
    BY <1>1 DEF NoRepeats
  <2> QED
    BY <1>1, <1>3, <2>1, <2>2 DEF ToSet
<1>6. ASSUME NEW i \in 1..n, s[i] # s[k] PROVE s[i] \in ToSet(r)
  <2>1. CASE i < k
    <3>1. i \in 1..(n - 1) /\ r[i] = s[i]
      BY <1>1, <1>3, <2>1
    <3> QED
      BY <1>3, <3>1 DEF ToSet
  <2>2. CASE i > k
    <3>1. i - 1 \in 1..(n - 1) /\ r[i - 1] = s[i]
      BY <1>1, <1>3, <2>2
    <3> QED
      BY <1>3, <3>1 DEF ToSet
  <2> QED
    BY <1>1, <1>6, <2>1, <2>2
<1>7. ToSet(r) = ToSet(s) \ {s[k]}
  BY <1>1, <1>5, <1>6 DEF ToSet
<1> QED
  BY <1>3, <1>4, <1>7
(* A queue of several jobs without the first one.                            *)
LEMMA TheRest ==
  ASSUME NEW s \in Seq(Outcomes), s # <<>>, Len(s) # 1
  PROVE  /\ Tail(s) \in Seq(Outcomes) \ {<<>>}
         /\ NoRepeats(s) => /\ NoRepeats(Tail(s)) /\ ToSet(Tail(s)) \subseteq ToSet(s) \ {Head(s)}
<1> PICK r, n : r = Tail(s) /\ n = Len(s)
  OBVIOUS
<1>1. /\ n \in Nat /\ n > 1 /\ DOMAIN s = 1..n /\ r \in Seq(Outcomes) /\ DOMAIN r = 1..(n - 1)
      /\ Len(r) = n - 1 /\ Head(s) = s[1] /\ \A i \in 1..(n - 1) : r[i] = s[i + 1]
  OBVIOUS
<1>2. NoRepeats(s) => NoRepeats(r)
  BY <1>1 DEF NoRepeats
<1>3. NoRepeats(s) => ToSet(r) \subseteq ToSet(s) \ {s[1]}
  BY <1>1 DEF NoRepeats, ToSet
<1> QED
  BY <1>1, <1>2, <1>3

(* The call of a lane that leaves a job.                                     *)
NextOf(c) == IF Len(c.batch) = 1 THEN Away ELSE [Away EXCEPT !.pc = "job", !.batch = Tail(c.batch)]
(* It has the rest of its batch before it, or is over.                       *)
LEMMA NextIsTyped ==
  ASSUME NEW c \in LaneCall
  PROVE  /\ NextOf(c) \in LaneCall \cup {Away} /\ NextOf(c).pc \in {"job", "away"}
         /\ NextOf(c) # Away => NextOf(c).batch = Tail(c.batch) /\ Len(c.batch) # 1
<1>1. CASE Len(c.batch) = 1
  BY <1>1 DEF NextOf, Away
<1>2. CASE Len(c.batch) # 1
  <2> PICK rest : rest = Tail(c.batch)
    OBVIOUS
  <2>1. rest \in Seq(Outcomes) \ {<<>>}
    BY <1>2, TheRest DEF LaneCall
  <2>2. NextOf(c) = [pc |-> "job", batch |-> rest, read |-> {}, observed |-> 0]
    BY <1>2 DEF NextOf, Away
  <2> QED
    BY <1>2, <2>1, <2>2 DEF LaneCall
<1> QED
  BY <1>1, <1>2

(* How many lanes are at some statement when one of them moves.              *)
LEMMA LaneMoves ==
  ASSUME LearningTyped, LearningTyped', NEW p \in Processes, lane' = [lane EXCEPT ![p] = lane'[p]], NEW S
  PROVE  Steps(Busy(S), Busy(S)', lane[p].pc \in S, lane'[p].pc \in S)
<1> PICK f, g : f = [q \in Processes |-> lane[q].pc] /\ g = [q \in Processes |-> lane'[q].pc]
  OBVIOUS
<1>1. Others(Processes, f, g, p) /\ f[p] = lane[p].pc /\ g[p] = lane'[p].pc
  BY DEF Others, LearningTyped
<1>2. Busy(S) = Count(Processes, f, S) /\ Busy(S)' = Count(Processes, g, S)
  <2>1. {q \in Processes : lane[q].pc \in S} = {q \in Processes : f[q] \in S}
    OBVIOUS
  <2>2. {q \in Processes : lane'[q].pc \in S} = {q \in Processes : g[q] \in S}
    OBVIOUS
  <2> QED
    BY <2>1, <2>2 DEF Busy, Count
<1>3. Steps(Count(Processes, f, S), Count(Processes, g, S),
            p \in Processes /\ f[p] \in S, p \in Processes /\ g[p] \in S)
  BY <1>1, LearningAssumption, OneMoves
<1> QED
  BY <1>1, <1>2, <1>3 DEF Steps

(* A step stores a signal for every outcome, and an outcome for every        *)
(* observation, those under way included.                                    *)
Balance(p) ==
  /\ count'.signals - count.signals
       >= count'.outcomes - count.outcomes + Extra(Recording, p)' - Extra(Recording, p)
  /\ count'.outcomes - count.outcomes >= Extra(Profiling, p)' - Extra(Profiling, p)
  /\ \/ count'.observations = count.observations
     \/ /\ lane[p].pc = "apply" /\ lane'[p].pc = "complete"
        /\ count'.observations = lane[p].observed + 1 /\ count'.outcomes = count.outcomes
  /\ lane'[p].pc = "apply" => /\ lane'[p].observed = count.observations /\ lane[p].pc = "profile"
                              /\ count' = count
(* After such a step every outcome still has a signal and every observation  *)
(* an outcome, also those that lanes have read.                              *)
LEMMA CoveredKeeps ==
  ASSUME LearningTyped, LearningTyped', Covered, NEW p \in Processes,
         lane' = [lane EXCEPT ![p] = lane'[p]], Balance(p)
  PROVE  Covered'
<1> PICK s, o, v, s1, o1, v1 :
      /\ s = count.signals /\ o = count.outcomes /\ v = count.observations
      /\ s1 = count'.signals /\ o1 = count'.outcomes /\ v1 = count'.observations
  OBVIOUS
<1> PICK r, b, r1, b1 : r = Busy(Recording) /\ b = Busy(Profiling) /\ r1 = Busy(Recording)' /\ b1 = Busy(Profiling)'
  OBVIOUS
<1>1. {s, o, v, s1, o1, v1} \subseteq Nat
  BY DEF LearningTyped
<1>2. /\ r \in Nat /\ r1 \in Nat /\ r1 - r = Extra(Recording, p)' - Extra(Recording, p)
      /\ b \in Nat /\ b1 \in Nat /\ b1 - b = Extra(Profiling, p)' - Extra(Profiling, p)
  <2>1. Steps(r, r1, lane[p].pc \in Recording, lane'[p].pc \in Recording)
    BY LaneMoves
  <2>2. Steps(b, b1, lane[p].pc \in Profiling, lane'[p].pc \in Profiling)
    BY LaneMoves
  <2> QED
    BY <2>1, <2>2 DEF Steps, Extra
<1>3. /\ o + r <= s /\ v + b <= o
      /\ \A q \in Processes : lane[q].pc = "apply" => lane[q].observed + b <= o
  BY DEF Covered
<1>4. s1 - s >= o1 - o + (r1 - r) /\ o1 - o >= b1 - b
  <2> PICK x, x1, y, y1 : /\ x = Extra(Recording, p) /\ x1 = Extra(Recording, p)'
                          /\ y = Extra(Profiling, p) /\ y1 = Extra(Profiling, p)'
    OBVIOUS
  <2>1. x \in Int /\ x1 \in Int /\ y \in Int /\ y1 \in Int
    BY DEF Extra
  <2>2. s1 - s >= o1 - o + x1 - x /\ o1 - o >= y1 - y /\ r1 - r = x1 - x /\ b1 - b = y1 - y
    BY <1>2 DEF Balance
  <2> QED
    BY <1>1, <2>1, <2>2
<1>5. o1 + r1 <= s1 /\ o - b <= o1 - b1
  BY <1>1, <1>2, <1>3, <1>4
<1>6. \A q \in Processes : lane[q] \in LaneCall \cup {Away} /\ lane[q].observed \in Nat
  BY DEF LearningTyped, LaneCall, Away
<1>7. \A q \in Processes \ {p} : lane'[q] = lane[q]
  BY DEF LearningTyped
<1>8. v1 + b1 <= o1
  <2>1. CASE v1 = v
    BY <1>1, <1>2, <1>3, <1>5, <2>1
  <2>2. CASE /\ lane[p].pc = "apply" /\ lane'[p].pc = "complete" /\ v1 = lane[p].observed + 1 /\ o1 = o
    <3>1. Extra(Profiling, p) = 1 /\ Extra(Profiling, p)' = 0
      BY <2>2 DEF Extra, Profiling
    <3> QED
      BY <1>1, <1>2, <1>3, <1>6, <2>2, <3>1
  <2> QED
    BY <2>1, <2>2 DEF Balance
<1>9. ASSUME NEW q \in Processes, lane'[q].pc = "apply" PROVE lane'[q].observed + b1 <= o1
  <2>1. CASE q = p
    <3>1. lane'[p].observed = v /\ lane[p].pc = "profile" /\ o1 = o /\ lane'[p].pc = "apply"
      BY <1>9, <2>1 DEF Balance
    <3>2. Extra(Profiling, p) = 1 /\ Extra(Profiling, p)' = 1
      BY <3>1 DEF Extra, Profiling
    <3> QED
      BY <1>1, <1>2, <1>3, <2>1, <3>1, <3>2
  <2>2. CASE q # p
    <3>1. lane'[q] = lane[q] /\ lane[q].observed + b <= o /\ lane[q].observed \in Nat
      BY <1>3, <1>6, <1>7, <1>9, <2>2
    <3> QED
      BY <1>1, <1>2, <1>5, <3>1
  <2> QED
    BY <2>1, <2>2
<1> QED
  BY <1>5, <1>8, <1>9 DEF Covered

(* A step of one lane keeps the invariant if it keeps what concerns it: the  *)
(* others hold what they hold, and none is there if it has been alone.       *)
LEMMA LaneKeeps ==
  ASSUME LearningInv, NEW p \in Processes, lane[p] # Away, lane' = [lane EXCEPT ![p] = lane'[p]],
         UNCHANGED overlapped, LearningTyped', Queued', Balance(p),
         evidence \subseteq evidence', Learned' \subseteq evidence', belief' \subseteq evidence', Stored(p)',
         ~overlapped => /\ Learned' \subseteq belief' /\ Cardinality(Learned') <= count'.observations
                        /\ lane'[p] # Away => Knows(p)',
         ~overlapped /\ aborts' = 0 => ExactFor(p)'
  PROVE  LearningInv'
<1>1. LearningTyped /\ Covered /\ OnlyLane /\ EvidenceFirst
  BY DEF LearningInv
<1>2. \A q \in Processes \ {p} : lane'[q] = lane[q]
  BY <1>1 DEF LearningTyped
<1>3. Covered'
  BY <1>1, CoveredKeeps
<1>4. EvidenceFirst'
  <2>1. ASSUME NEW q \in Processes PROVE Stored(q)'
    <3>1. CASE q = p
      BY <3>1
    <3>2. CASE q # p
      BY <1>1, <1>2, <3>2 DEF EvidenceFirst, Stored, Job
    <3> QED
      BY <3>1, <3>2
  <2> QED
    BY <2>1 DEF EvidenceFirst
<1>5. ~overlapped => \A q \in Processes \ {p} : lane'[q] = Away
  BY <1>1, <1>2 DEF OnlyLane
<1>6. OnlyLane'
  BY <1>5 DEF OnlyLane
<1>7. ~overlapped' => Reliable'
  BY <1>5 DEF Reliable
<1>8. ASSUME ~overlapped', aborts' = 0 PROVE Exact'
  <2>1. ExactFor(p)'
    BY <1>8
  <2>2. (\A q \in Processes : lane'[q] = Away) =>
          /\ evidence' = Learned' /\ belief' = Learned'
          /\ count'.outcomes = Cardinality(Learned') /\ count'.observations = Cardinality(Learned')
    <3> SUFFICES ASSUME lane'[p].pc = "away"
                 PROVE  /\ evidence' = Learned' /\ belief' = Learned'
                        /\ count'.outcomes = Cardinality(Learned') /\ count'.observations = Cardinality(Learned')
      BY DEF Away
    <3>1. Beside(Supported, p)' = {} /\ Beside(Believed, p)' = {}
          /\ Extra({"profile", "apply", "complete"}, p)' = 0 /\ Extra({"complete"}, p)' = 0
      BY DEF Beside, Extra, Supported, Believed
    <3>2. IsFiniteSet(Learned') /\ Cardinality(Learned') \in Nat
      <4>1. Learned' \in SUBSET Outcomes
        BY DEF LearningTyped, Learned
      <4> QED
        BY <4>1, LearningAssumption, FS_Subset, FS_CardinalityType
    <3> QED
      BY <2>1, <3>1, <3>2 DEF ExactFor
  <2>3. \A q \in Processes : lane'[q] # Away => ExactFor(q)'
    BY <1>5, <1>8, <2>1
  <2> QED
    BY <2>2, <2>3 DEF Exact
<1> QED
  BY <1>3, <1>4, <1>6, <1>7, <1>8 DEF LearningInv

(* What is known of a lane that is at work.                                  *)
LaneFacts(p) ==
  /\ lane[p] \in LaneCall /\ lane[p] # Away /\ Job(p) \in Outcomes
  /\ lane[p].batch \in Seq(Outcomes) /\ lane[p].batch # <<>> /\ lane[p].observed \in Nat
  /\ Stored(p)
  /\ ~overlapped => Reliable /\ Knows(p)
  /\ ~overlapped /\ aborts = 0 => ExactFor(p)
(* The invariant says all that of it.                                        *)
LEMMA LaneIsKnown ==
  ASSUME LearningInv, NEW p \in Processes, lane[p].pc # "away"
  PROVE  LaneFacts(p)
<1>1. lane[p] \in LaneCall /\ lane[p] # Away
  BY DEF LearningInv, LearningTyped, Away
<1>2. lane[p].batch \in Seq(Outcomes) /\ lane[p].batch # <<>> /\ lane[p].observed \in Nat
  BY <1>1 DEF LaneCall
<1>3. Job(p) \in Outcomes
  BY <1>2 DEF Job
<1> QED
  BY <1>1, <1>2, <1>3 DEF LaneFacts, LearningInv, EvidenceFirst, Reliable, Exact

(* A statement that leaves its lane with the same job: record, assess, the   *)
(* self model, the profile.                                                  *)
Onward(p, pc) ==
  /\ lane' = [lane EXCEPT ![p] = lane'[p]] /\ lane'[p] \in LaneCall /\ lane'[p].pc = pc
  /\ lane'[p].batch = lane[p].batch
  /\ UNCHANGED <<pending, admitted, completed, overlapped, aborts>>
(* The assignments of the model are such steps.                              *)
LEMMA GoIsOnward ==
  ASSUME LearningInv, NEW p \in Processes, lane[p].pc # "away",
         NEW pc \in {"signal", "evidence", "assess", "believe", "outcome", "profile", "apply", "complete"},
         NEW read \in SUBSET Outcomes, NEW observed \in Nat,
         \/ lane' = [lane EXCEPT ![p] = [lane[p] EXCEPT !.pc = pc]]
         \/ lane' = [lane EXCEPT ![p] = [lane[p] EXCEPT !.pc = pc, !.read = read]]
         \/ lane' = [lane EXCEPT ![p] = [lane[p] EXCEPT !.pc = pc, !.observed = observed]],
         UNCHANGED <<pending, admitted, completed, overlapped, aborts>>
  PROVE  /\ Onward(p, pc)
         /\ \/ lane'[p] = [lane[p] EXCEPT !.pc = pc]
            \/ lane'[p] = [lane[p] EXCEPT !.pc = pc, !.read = read]
            \/ lane'[p] = [lane[p] EXCEPT !.pc = pc, !.observed = observed]
<1>1. lane[p] \in LaneCall /\ lane \in [Processes -> LaneCall \cup {Away}]
  BY DEF LearningInv, LearningTyped, Away
<1>2. \/ lane'[p] = [lane[p] EXCEPT !.pc = pc]
      \/ lane'[p] = [lane[p] EXCEPT !.pc = pc, !.read = read]
      \/ lane'[p] = [lane[p] EXCEPT !.pc = pc, !.observed = observed]
  BY <1>1
<1>3. lane'[p] \in LaneCall /\ lane'[p].pc = pc /\ lane'[p].batch = lane[p].batch
  BY <1>1, <1>2 DEF LaneCall
<1>4. lane' = [lane EXCEPT ![p] = lane'[p]]
  BY <1>1
<1> QED
  BY <1>2, <1>3, <1>4 DEF Onward

(* Such a step keeps the invariant if it stores what its next place needs.   *)
LEMMA OnwardKeeps ==
  ASSUME LearningInv, NEW p \in Processes, NEW pc, lane[p].pc # "away", Onward(p, pc),
         count' \in [signals : Nat, outcomes : Nat, observations : Nat], Balance(p),
         evidence' \subseteq Outcomes, evidence \subseteq evidence', belief' \subseteq evidence',
         Stored(p)',
         ~overlapped => /\ Learned \subseteq belief' /\ Cardinality(Learned) <= count'.observations
                        /\ pc = "believe" => lane'[p].read = evidence'
                        /\ pc \in Believed => Job(p) \in belief'
                        /\ pc = "apply" => lane'[p].observed = count'.observations
                        /\ pc = "complete" => Cardinality(Learned) + 1 <= count'.observations,
         ~overlapped /\ aborts = 0 => ExactFor(p)'
  PROVE  LearningInv'
<1>1. LaneFacts(p) /\ LearningTyped /\ Queued /\ EvidenceFirst
  BY LaneIsKnown DEF LearningInv
<1>2. Learned' = Learned /\ Job(p)' = Job(p) /\ lane'[p].pc = pc /\ UNCHANGED overlapped
  BY DEF Onward, Learned, Job
<1>3. LearningTyped'
  BY <1>1 DEF LearningTyped, Onward
<1>4. Queued'
  <2>1. \A q \in Processes : lane'[q].batch = lane[q].batch
    BY <1>1 DEF LearningTyped, Onward
  <2>2. \A q \in Processes : ToSet(lane'[q].batch) \subseteq ToSet(pending) \cup completed
    BY <1>1, <2>1 DEF Queued
  <2> QED
    BY <1>1, <2>2 DEF Queued, Onward
<1>5. ASSUME ~overlapped PROVE Knows(p)'
  <2>1. lane'[p].batch = lane[p].batch /\ pending' = pending
    BY DEF Onward
  <2>2. NoRepeats(lane[p].batch) /\ ToSet(lane[p].batch) \subseteq ToSet(pending)
    BY <1>1, <1>5 DEF LaneFacts, Knows
  <2>3. NoRepeats(lane'[p].batch) /\ ToSet(lane'[p].batch) \subseteq ToSet(pending')
    BY <2>1, <2>2
  <2> QED
    BY <1>2, <1>5, <2>3 DEF Knows
<1>6. Learned' \subseteq evidence'
  BY <1>1, <1>2 DEF EvidenceFirst
<1>7. lane[p] # Away /\ lane' = [lane EXCEPT ![p] = lane'[p]] /\ aborts' = aborts
  BY <1>1 DEF LaneFacts, Onward
<1> QED
  BY <1>2, <1>3, <1>4, <1>5, <1>6, <1>7, LaneKeeps

(* CognitiveLearningLoop.record up to the evidence.                          *)
LEMMA RecordKeeps ==
  ASSUME LearningInv, NEW p \in Processes,
         \/ CountSignals(p) /\ count.signals < MaxSignals
         \/ Signal(p)
         \/ AddEvidence(p) /\ Job(p) \notin Orphaned
  PROVE  LearningInv'
<1>1. lane[p].pc \in {"job", "signal", "evidence"}
  BY DEF CountSignals, Signal, AddEvidence, IsIn
<1>2. LaneFacts(p) /\ LearningTyped /\ EvidenceFirst
  BY <1>1, LaneIsKnown DEF LearningInv
<1>3. CASE CountSignals(p) /\ count.signals < MaxSignals
  <2>1. Onward(p, "signal") /\ UNCHANGED <<count, evidence, belief>> /\ lane[p].pc = "job" /\ Job(p) \notin Unverified
    BY <1>1, <1>3, GoIsOnward DEF CountSignals, IsIn, Go
  <2>2. lane'[p].pc = "signal" /\ Job(p)' = Job(p) /\ Learned' = Learned /\ UNCHANGED <<overlapped, aborts>>
    BY <2>1 DEF Onward, Job, Learned
  <2>3. Stored(p)'
    BY <2>1, <2>2 DEF Stored, Supported, Believed
  <2>4. Balance(p)
    BY <1>2, <2>1, <2>2 DEF Balance, Extra, Recording, Profiling, LearningTyped
  <2>5. ~overlapped /\ aborts = 0 => ExactFor(p)'
    BY <1>2, <2>1, <2>2 DEF LaneFacts, ExactFor, Beside, Extra, Supported, Believed
  <2> QED
    BY <1>1, <1>2, <2>1, <2>2, <2>3, <2>4, <2>5, OnwardKeeps
       DEF LearningTyped, EvidenceFirst, LaneFacts, Reliable, Believed
<1>4. CASE Signal(p)
  <2>1. Onward(p, "evidence") /\ UNCHANGED <<evidence, belief>> /\ lane[p].pc = "signal"
        /\ count' = [count EXCEPT !.signals = @ + 1]
    BY <1>1, <1>4, GoIsOnward DEF Signal, IsIn, Go
  <2>2. lane'[p].pc = "evidence" /\ Job(p)' = Job(p) /\ Learned' = Learned /\ UNCHANGED <<overlapped, aborts>>
    BY <2>1 DEF Onward, Job, Learned
  <2>3. Stored(p)'
    BY <1>2, <2>1, <2>2 DEF Stored, Supported, Believed, LaneFacts
  <2>4. /\ count' \in [signals : Nat, outcomes : Nat, observations : Nat]
        /\ count'.signals = count.signals + 1 /\ count'.outcomes = count.outcomes
        /\ count'.observations = count.observations
    BY <1>2, <2>1 DEF LearningTyped
  <2>5. Balance(p)
    BY <1>2, <2>1, <2>2, <2>4 DEF Balance, Extra, Recording, Profiling, LearningTyped
  <2>6. ~overlapped /\ aborts = 0 => ExactFor(p)'
    BY <1>2, <2>1, <2>2, <2>4 DEF LaneFacts, ExactFor, Beside, Extra, Supported, Believed
  <2> QED
    BY <1>1, <1>2, <2>1, <2>2, <2>3, <2>4, <2>5, <2>6, OnwardKeeps
       DEF LearningTyped, EvidenceFirst, LaneFacts, Reliable, Believed
<1>5. CASE AddEvidence(p) /\ Job(p) \notin Orphaned
  <2>1. Onward(p, "assess") /\ UNCHANGED <<count, belief>> /\ lane[p].pc = "evidence"
        /\ evidence' = evidence \cup {Job(p)}
    BY <1>1, <1>5, GoIsOnward DEF AddEvidence, IsIn, Go
  <2>2. lane'[p].pc = "assess" /\ Job(p)' = Job(p) /\ Learned' = Learned /\ UNCHANGED <<overlapped, aborts>>
    BY <2>1 DEF Onward, Job, Learned
  <2>3. Stored(p)'
    BY <1>2, <2>1, <2>2 DEF Stored, Supported, Believed, LaneFacts
  <2>5. Balance(p)
    BY <1>2, <2>1, <2>2 DEF Balance, Extra, Recording, Profiling, LearningTyped
  <2>6. ~overlapped /\ aborts = 0 => ExactFor(p)'
    BY <1>2, <2>1, <2>2 DEF LaneFacts, ExactFor, Beside, Extra, Supported, Believed
  <2> QED
    BY <1>1, <1>2, <2>1, <2>2, <2>3, <2>5, <2>6, OnwardKeeps
       DEF LearningTyped, EvidenceFirst, LaneFacts, Reliable, Believed
<1> QED
  BY <1>3, <1>4, <1>5

(* The belief: what assess has read, and stores.                             *)
LEMMA BeliefKeeps ==
  ASSUME LearningInv, NEW p \in Processes, AssessRead(p) \/ AssessWrite(p)
  PROVE  LearningInv'
<1>1. lane[p].pc \in {"assess", "believe"}
  BY DEF AssessRead, AssessWrite, IsIn
<1>2. LaneFacts(p) /\ LearningTyped /\ EvidenceFirst
  BY <1>1, LaneIsKnown DEF LearningInv
<1>3. CASE AssessRead(p)
  <2>1. /\ UNCHANGED <<pending, admitted, completed, count, evidence, belief, overlapped, aborts>>
        /\ lane[p].pc = "assess" /\ lane' = [lane EXCEPT ![p] = [lane[p] EXCEPT !.pc = "believe", !.read = evidence]]
    BY <1>2, <1>3 DEF AssessRead, IsIn, LearningTyped
  <2>2. Onward(p, "believe") /\ lane'[p].read = evidence
    <3>1. evidence \in SUBSET Outcomes /\ 0 \in Nat
      BY <1>2 DEF LearningTyped
    <3>2. Onward(p, "believe")
      BY <1>1, <2>1, <3>1, GoIsOnward
    <3> QED
      BY <1>2, <2>1, <3>2 DEF LearningTyped, LaneFacts, LaneCall
  <2>3. lane'[p].pc = "believe" /\ Job(p)' = Job(p) /\ Learned' = Learned
    BY <2>2 DEF Onward, Job, Learned
  <2>4. Stored(p)'
    BY <1>2, <2>1, <2>2, <2>3 DEF Stored, Supported, Believed, LaneFacts
  <2>5. Balance(p)
    BY <1>2, <2>1, <2>3 DEF Balance, Extra, Recording, Profiling, LearningTyped
  <2>6. ~overlapped /\ aborts = 0 => ExactFor(p)'
    BY <1>2, <2>1, <2>3 DEF LaneFacts, ExactFor, Beside, Extra, Supported, Believed
  <2> QED
    BY <1>1, <1>2, <2>1, <2>2, <2>3, <2>4, <2>5, <2>6, OnwardKeeps
       DEF LearningTyped, EvidenceFirst, LaneFacts, Reliable, Believed
<1>4. CASE AssessWrite(p)
  <2>1. Onward(p, "outcome") /\ UNCHANGED <<count, evidence>> /\ lane[p].pc = "believe" /\ belief' = lane[p].read
    BY <1>1, <1>4, GoIsOnward DEF AssessWrite, IsIn, Go
  <2>2. lane'[p].pc = "outcome" /\ Job(p)' = Job(p) /\ Learned' = Learned /\ UNCHANGED <<overlapped, aborts>>
    BY <2>1 DEF Onward, Job, Learned
  <2>3. Stored(p)' /\ Job(p) \in evidence /\ lane[p].read \subseteq evidence
    BY <1>2, <2>1, <2>2 DEF Stored, Supported, Believed, LaneFacts
  <2>4. ~overlapped => belief' = evidence
    BY <1>2, <2>1 DEF LaneFacts, Knows
  <2>5. Balance(p)
    BY <1>2, <2>1, <2>2 DEF Balance, Extra, Recording, Profiling, LearningTyped
  <2>6. ~overlapped /\ aborts = 0 => ExactFor(p)'
    BY <1>2, <2>1, <2>2, <2>4 DEF LaneFacts, ExactFor, Beside, Extra, Supported, Believed
  <2> QED
    BY <1>1, <1>2, <2>1, <2>2, <2>3, <2>4, <2>5, <2>6, OnwardKeeps
       DEF LearningTyped, EvidenceFirst, LaneFacts, Reliable, Believed
<1> QED
  BY <1>3, <1>4

(* What has been learned can be counted.                                     *)
LEMMA LearnedIsFinite ==
  ASSUME LearningTyped
  PROVE  IsFiniteSet(Learned) /\ Cardinality(Learned) \in Nat
<1>1. Learned \in SUBSET Outcomes
  BY DEF LearningTyped, Learned
<1> QED
  BY <1>1, LearningAssumption, FS_Subset, FS_CardinalityType

(* The outcome of the self model.                                            *)
LEMMA OutcomeKeeps ==
  ASSUME LearningInv, NEW p \in Processes, SelfModelOutcome(p)
  PROVE  LearningInv'
<1>1. lane[p].pc = "outcome"
  BY DEF SelfModelOutcome, IsIn
<1>2. LaneFacts(p) /\ LearningTyped /\ EvidenceFirst /\ Cardinality(Learned) \in Nat
  BY <1>1, LaneIsKnown, LearnedIsFinite DEF LearningInv
<1>3. Onward(p, "profile") /\ UNCHANGED <<evidence, belief>> /\ count' = [count EXCEPT !.outcomes = @ + 1]
  BY <1>1, GoIsOnward DEF SelfModelOutcome, IsIn, Go
<1>4. lane'[p].pc = "profile" /\ Job(p)' = Job(p) /\ Learned' = Learned /\ UNCHANGED <<overlapped, aborts>>
  BY <1>3 DEF Onward, Job, Learned
<1>5. Stored(p)'
  BY <1>1, <1>2, <1>3, <1>4 DEF Stored, Supported, Believed, LaneFacts
<1>6. /\ count' \in [signals : Nat, outcomes : Nat, observations : Nat]
      /\ count'.signals = count.signals /\ count'.outcomes = count.outcomes + 1
      /\ count'.observations = count.observations
  BY <1>2, <1>3 DEF LearningTyped
<1>7. Balance(p)
  BY <1>1, <1>2, <1>4, <1>6 DEF Balance, Extra, Recording, Profiling, LearningTyped
<1>8. ~overlapped /\ aborts = 0 => ExactFor(p)'
  BY <1>1, <1>2, <1>3, <1>4, <1>6 DEF LaneFacts, ExactFor, Beside, Extra, Supported, Believed
<1>9. ~overlapped => Job(p) \in belief
  BY <1>1, <1>2 DEF LaneFacts, Knows, Believed
<1> QED
  BY <1>1, <1>2, <1>3, <1>4, <1>5, <1>6, <1>7, <1>8, <1>9, OnwardKeeps
     DEF LearningTyped, EvidenceFirst, LaneFacts, Reliable
(* The profile, which counts it: what the lane has read, and one more.       *)
LEMMA ProfileKeeps ==
  ASSUME LearningInv, NEW p \in Processes, ReadProfile(p) \/ WriteProfile(p)
  PROVE  LearningInv'
<1>1. lane[p].pc \in {"profile", "apply"}
  BY DEF ReadProfile, WriteProfile, IsIn
<1>2. LaneFacts(p) /\ LearningTyped /\ EvidenceFirst /\ Cardinality(Learned) \in Nat
  BY <1>1, LaneIsKnown, LearnedIsFinite DEF LearningInv
<1>3. ~overlapped => Job(p) \in belief /\ Learned \subseteq belief /\ Cardinality(Learned) <= count.observations
  BY <1>1, <1>2 DEF LaneFacts, Knows, Believed, Reliable
<1>4. CASE ReadProfile(p)
  <2>1. /\ UNCHANGED <<pending, admitted, completed, count, evidence, belief, overlapped, aborts>>
        /\ lane[p].pc = "profile"
        /\ lane' = [lane EXCEPT ![p] = [lane[p] EXCEPT !.pc = "apply", !.observed = count.observations]]
    BY <1>2, <1>4 DEF ReadProfile, IsIn, LearningTyped
  <2>2. Onward(p, "apply") /\ lane'[p].observed = count.observations
    <3>1. count.observations \in Nat /\ {} \in SUBSET Outcomes
      BY <1>2 DEF LearningTyped
    <3>2. Onward(p, "apply")
      BY <1>1, <2>1, <3>1, GoIsOnward
    <3> QED
      BY <1>2, <2>1, <3>2 DEF LearningTyped, LaneFacts, LaneCall
  <2>3. lane'[p].pc = "apply" /\ Job(p)' = Job(p) /\ Learned' = Learned
    BY <2>2 DEF Onward, Job, Learned
  <2>4. Stored(p)'
    BY <1>2, <2>1, <2>2, <2>3 DEF Stored, Supported, Believed, LaneFacts
  <2>5. Balance(p)
    BY <1>2, <2>1, <2>2, <2>3 DEF Balance, Extra, Recording, Profiling, LearningTyped
  <2>6. ~overlapped /\ aborts = 0 => ExactFor(p)'
    BY <1>2, <2>1, <2>3 DEF LaneFacts, ExactFor, Beside, Extra, Supported, Believed
  <2> QED
    BY <1>1, <1>2, <1>3, <2>1, <2>2, <2>3, <2>4, <2>5, <2>6, OnwardKeeps
       DEF LearningTyped, EvidenceFirst
<1>5. CASE WriteProfile(p)
  <2> PICK observed : observed = lane[p].observed
    OBVIOUS
  <2>1. /\ Onward(p, "complete") /\ UNCHANGED <<evidence, belief>> /\ lane[p].pc = "apply"
        /\ count' = [count EXCEPT !.observations = observed + 1] /\ observed \in Nat
    BY <1>1, <1>2, <1>5, GoIsOnward DEF WriteProfile, IsIn, Go, LaneFacts
  <2>2. lane'[p].pc = "complete" /\ Job(p)' = Job(p) /\ Learned' = Learned /\ UNCHANGED <<overlapped, aborts>>
    BY <2>1 DEF Onward, Job, Learned
  <2>3. Stored(p)'
    BY <1>2, <2>1, <2>2 DEF Stored, Supported, Believed, LaneFacts
  <2>4. /\ count' \in [signals : Nat, outcomes : Nat, observations : Nat]
        /\ count'.signals = count.signals /\ count'.outcomes = count.outcomes
        /\ count'.observations = observed + 1 /\ count.signals \in Nat /\ count.outcomes \in Nat
        /\ count.observations \in Nat
    BY <1>2, <2>1 DEF LearningTyped
  <2>5. Balance(p)
    BY <1>2, <2>1, <2>2, <2>4 DEF Balance, Extra, Recording, Profiling
  <2>6. ~overlapped => observed = count.observations
    BY <1>2, <2>1 DEF LaneFacts, Knows
  <2>7. ~overlapped /\ aborts = 0 => ExactFor(p)'
    BY <1>2, <2>1, <2>2, <2>4, <2>6 DEF LaneFacts, ExactFor, Beside, Extra, Supported, Believed
  <2>8. ~overlapped => /\ Cardinality(Learned) <= count'.observations
                       /\ Cardinality(Learned) + 1 <= count'.observations
    BY <1>2, <1>3, <2>4, <2>6
  <2> QED
    BY <1>1, <1>2, <1>3, <2>1, <2>2, <2>3, <2>4, <2>5, <2>7, <2>8, OnwardKeeps
       DEF LearningTyped, EvidenceFirst
<1> QED
  BY <1>4, <1>5

(* A lane that leaves its job pending: no signals are left, the evidence is  *)
(* refused, or the call is cut short.                                        *)
LEMMA LeaveKeeps ==
  ASSUME LearningInv, NEW p \in Processes, lane[p].pc # "away", NEW c \in {NextOf(lane[p]), Away},
         lane' = [lane EXCEPT ![p] = c],
         UNCHANGED <<pending, admitted, completed, count, evidence, belief, overlapped>>,
         aborts' \in Nat, (aborts' = aborts /\ lane[p].pc \in {"job", "evidence"}) \/ aborts' # 0
  PROVE  LearningInv'
<1>1. LaneFacts(p) /\ LearningTyped /\ Queued /\ EvidenceFirst
  BY LaneIsKnown DEF LearningInv
<1>2. /\ c \in LaneCall \cup {Away} /\ c.pc \in {"job", "away"}
      /\ c # Away => c.batch = Tail(lane[p].batch) /\ Len(lane[p].batch) # 1
      /\ c = Away => c.batch = <<>>
  BY <1>1, NextIsTyped DEF LaneFacts, Away
<1>3. lane'[p] = c /\ (\A q \in Processes \ {p} : lane'[q] = lane[q]) /\ Learned' = Learned
  BY <1>1 DEF LearningTyped, Learned
<1>4. LearningTyped'
  BY <1>1, <1>2 DEF LearningTyped
<1>5. NoRepeats(lane[p].batch) => NoRepeats(c.batch) /\ ToSet(c.batch) \subseteq ToSet(lane[p].batch) \ {Job(p)}
  <2>1. CASE c = Away
    BY <1>2, <2>1 DEF NoRepeats, ToSet
  <2>2. CASE c # Away
    <3>1. lane[p].batch \in Seq(Outcomes) /\ lane[p].batch # <<>> /\ Len(lane[p].batch) # 1
          /\ c.batch = Tail(lane[p].batch)
      BY <1>1, <1>2, <2>2 DEF LaneFacts
    <3> QED
      BY <3>1, TheRest DEF Job
  <2> QED
    BY <2>1, <2>2
<1>6. ToSet(c.batch) \subseteq ToSet(lane[p].batch)
  <2>1. CASE c = Away
    BY <1>2, <2>1 DEF ToSet
  <2>2. CASE c # Away
    <3> PICK s : s = lane[p].batch
      OBVIOUS
    <3>1. s \in Seq(Outcomes) /\ s # <<>> /\ Len(s) # 1 /\ c.batch = Tail(s)
      BY <1>1, <1>2, <2>2 DEF LaneFacts
    <3>2. \A i \in DOMAIN Tail(s) : i + 1 \in DOMAIN s /\ Tail(s)[i] = s[i + 1]
      BY <3>1
    <3> QED
      BY <3>1, <3>2 DEF ToSet
  <2> QED
    BY <2>1, <2>2
<1>7. Queued'
  <2>1. ASSUME NEW q \in Processes PROVE ToSet(lane'[q].batch) \subseteq ToSet(pending) \cup completed
    BY <1>1, <1>3, <1>6 DEF Queued
  <2> QED
    BY <1>1, <2>1 DEF Queued
<1>8. Stored(p)'
  BY <1>2, <1>3 DEF Stored, Supported, Believed
<1>9. Balance(p)
  BY <1>1, <1>2, <1>3 DEF Balance, Extra, Recording, Profiling, LearningTyped
<1>10. ~overlapped => /\ Learned \subseteq belief /\ Cardinality(Learned) <= count.observations
                      /\ lane'[p] # Away => Knows(p)'
  <2> SUFFICES ASSUME ~overlapped
               PROVE  Learned \subseteq belief /\ Cardinality(Learned) <= count.observations /\ Knows(p)'
    OBVIOUS
  <2>1. Reliable /\ NoRepeats(lane[p].batch) /\ ToSet(lane[p].batch) \subseteq ToSet(pending)
    BY <1>1 DEF LaneFacts, Knows
  <2>2. NoRepeats(lane'[p].batch) /\ ToSet(lane'[p].batch) \subseteq ToSet(pending')
    BY <1>3, <1>5, <1>6, <2>1
  <2> QED
    BY <1>2, <1>3, <2>1, <2>2 DEF Knows, Reliable, Believed
<1>11. ~overlapped /\ aborts' = 0 => ExactFor(p)'
  BY <1>1, <1>2, <1>3 DEF LaneFacts, ExactFor, Beside, Extra, Supported, Believed
<1>12. lane[p] # Away /\ lane' = [lane EXCEPT ![p] = lane'[p]]
  BY <1>1, <1>3 DEF LaneFacts
<1> QED
  BY <1>1, <1>3, <1>4, <1>7, <1>8, <1>9, <1>10, <1>11, <1>12, LaneKeeps DEF EvidenceFirst
(* CognitiveLearningLoop.record gives the job up, or the process dies.       *)
LEMMA SkipKeeps ==
  ASSUME LearningInv, NEW p \in Processes,
         \/ CountSignals(p) /\ ~(count.signals < MaxSignals)
         \/ AddEvidence(p) /\ Job(p) \in Orphaned
         \/ Abort(p)
  PROVE  LearningInv'
<1>1. LearningTyped
  BY DEF LearningInv
<1>2. CASE Abort(p)
  <2>1. lane[p].pc # "away" /\ aborts' \in Nat /\ aborts' # 0
    BY <1>1, <1>2, LearningAssumption DEF Abort, LearningTyped, LaneCall
  <2>2. lane' = [lane EXCEPT ![p] = Away]
        /\ UNCHANGED <<pending, admitted, completed, count, evidence, belief, overlapped>>
    BY <1>2 DEF Abort
  <2> QED
    BY <2>1, <2>2, LeaveKeeps
<1>3. CASE ~Abort(p)
  <2>1. NextJob(p) /\ UNCHANGED <<pending, admitted, completed, count, evidence, belief, overlapped, aborts>>
        /\ lane[p].pc \in {"job", "evidence"}
    BY <1>3 DEF CountSignals, AddEvidence, IsIn
  <2>2. lane' = [lane EXCEPT ![p] = NextOf(lane[p])]
    BY <2>1 DEF NextJob, NextOf
  <2>3. lane[p].pc # "away" /\ aborts' \in Nat
    BY <1>1, <2>1 DEF LearningTyped
  <2> QED
    BY <2>1, <2>2, <2>3, LeaveKeeps
<1> QED
  BY <1>2, <1>3

(* A job is completed and not pending, whether it was or not.                *)
MarkedOff(p) ==
  /\ pending' \in Seq(Outcomes) /\ NoRepeats(pending') /\ ToSet(pending') = ToSet(pending) \ {Job(p)}
  /\ completed' = completed \cup {Job(p)}
(* The UPDATE of the job does that.                                          *)
LEMMA MarksOff ==
  ASSUME LearningTyped, Queued, NEW p \in Processes, MarkCompleted(Job(p))
  PROVE  MarkedOff(p)
<1>1. pending \in Seq(Outcomes) /\ NoRepeats(pending) /\ completed' = completed \cup {Job(p)}
  BY DEF LearningTyped, Queued, MarkCompleted
<1>2. CASE Job(p) \in ToSet(pending)
  <2>1. PICK i \in DOMAIN pending : pending[i] = Job(p) /\ pending' = RemoveAt(pending, i)
    BY <1>2 DEF MarkCompleted
  <2> QED
    BY <1>1, <2>1, OneLess DEF MarkedOff
<1>3. CASE Job(p) \notin ToSet(pending)
  BY <1>1, <1>3 DEF MarkCompleted, MarkedOff
<1> QED
  BY <1>2, <1>3
(* The end of a job: none is completed that a task is still to store, and    *)
(* what is left of the batch is still pending if the lane has been alone.    *)
LEMMA CompleteKeeps ==
  ASSUME LearningInv, NEW p \in Processes, Complete(p)
  PROVE  LearningInv'
<1>1. /\ lane[p].pc \in {"job", "complete"} /\ (lane[p].pc = "job" => Job(p) \in Unverified)
      /\ MarkCompleted(Job(p)) /\ lane' = [lane EXCEPT ![p] = NextOf(lane[p])]
      /\ UNCHANGED <<admitted, count, evidence, belief, overlapped, aborts>>
  BY DEF Complete, IsIn, NextJob, NextOf
<1>2. LaneFacts(p) /\ LearningTyped /\ Queued /\ EvidenceFirst /\ IsFiniteSet(Learned) /\ Cardinality(Learned) \in Nat
  BY <1>1, LaneIsKnown, LearnedIsFinite DEF LearningInv
<1>3. MarkedOff(p)
  BY <1>1, <1>2, MarksOff
<1> PICK c, j : c = NextOf(lane[p]) /\ j = Job(p)
  OBVIOUS
<1>4. /\ c \in LaneCall \cup {Away} /\ c.pc \in {"job", "away"}
      /\ c # Away => c.batch = Tail(lane[p].batch) /\ Len(lane[p].batch) # 1
  BY <1>2, NextIsTyped DEF LaneFacts
<1>5. lane'[p] = c /\ (\A q \in Processes \ {p} : lane'[q] = lane[q]) /\ lane' = [lane EXCEPT ![p] = lane'[p]]
  BY <1>1, <1>2 DEF LearningTyped
<1>6. /\ ToSet(c.batch) \subseteq ToSet(lane[p].batch)
      /\ NoRepeats(lane[p].batch) => NoRepeats(c.batch) /\ ToSet(c.batch) \subseteq ToSet(lane[p].batch) \ {j}
  <2>1. CASE c = Away
    BY <2>1 DEF Away, NoRepeats, ToSet
  <2>2. CASE c # Away
    <3> PICK s : s = lane[p].batch
      OBVIOUS
    <3>1. s \in Seq(Outcomes) /\ s # <<>> /\ Len(s) # 1 /\ c.batch = Tail(s) /\ j = Head(s)
      BY <1>2, <1>4, <2>2 DEF LaneFacts, Job
    <3>2. \A i \in DOMAIN Tail(s) : i + 1 \in DOMAIN s /\ Tail(s)[i] = s[i + 1]
      BY <3>1
    <3>3. ToSet(Tail(s)) \subseteq ToSet(s)
      BY <3>1, <3>2 DEF ToSet
    <3> QED
      BY <3>1, <3>3, TheRest
  <2> QED
    BY <2>1, <2>2
<1>7. j \in ToSet(lane[p].batch) /\ j \in Outcomes
  <2> PICK s : s = lane[p].batch
    OBVIOUS
  <2>1. s \in Seq(Outcomes) /\ s # <<>> /\ j = Head(s)
    BY <1>2 DEF LaneFacts, Job
  <2>2. 1 \in DOMAIN s /\ Head(s) = s[1] /\ Head(s) \in Outcomes
    BY <2>1
  <2> QED
    BY <2>1, <2>2 DEF ToSet
<1>8. LearningTyped'
  BY <1>1, <1>2, <1>3, <1>4, <1>7 DEF LearningTyped, MarkedOff
<1>9. Queued'
  <2>1. j \notin admitted
    BY <1>2, <1>7 DEF Queued
  <2>2. ASSUME NEW q \in Processes PROVE ToSet(lane'[q].batch) \subseteq ToSet(pending') \cup completed'
    <3>1. ToSet(lane'[q].batch) \subseteq ToSet(lane[q].batch)
      BY <1>5, <1>6
    <3>2. ToSet(lane[q].batch) \subseteq ToSet(pending) \cup completed
      BY <1>2 DEF Queued
    <3> QED
      BY <1>3, <3>1, <3>2 DEF MarkedOff
  <2> QED
    BY <1>1, <1>2, <1>3, <2>1, <2>2 DEF Queued, MarkedOff
<1>10. Stored(p)'
  BY <1>4, <1>5 DEF Stored, Supported, Believed
<1>11. Balance(p)
  BY <1>1, <1>2, <1>4, <1>5 DEF Balance, Extra, Recording, Profiling, LearningTyped
<1>12. CASE lane[p].pc = "job"
  <2>1. Learned' = Learned
    BY <1>1, <1>3, <1>12 DEF Learned, MarkedOff
  <2>2. ~overlapped => /\ Learned' \subseteq belief' /\ Cardinality(Learned') <= count'.observations
                       /\ lane'[p] # Away => Knows(p)'
    <3> SUFFICES ASSUME ~overlapped
                 PROVE  Learned \subseteq belief /\ Cardinality(Learned) <= count.observations /\ Knows(p)'
      BY <1>1, <2>1
    <3>1. Reliable /\ NoRepeats(lane[p].batch) /\ ToSet(lane[p].batch) \subseteq ToSet(pending)
      BY <1>2 DEF LaneFacts, Knows
    <3>2. NoRepeats(lane'[p].batch) /\ ToSet(lane'[p].batch) \subseteq ToSet(pending')
      BY <1>3, <1>5, <1>6, <3>1 DEF MarkedOff
    <3> QED
      BY <1>4, <1>5, <3>1, <3>2 DEF Knows, Reliable, Believed
  <2>3. ~overlapped /\ aborts' = 0 => ExactFor(p)'
    BY <1>1, <1>2, <1>4, <1>5, <1>12, <2>1 DEF LaneFacts, ExactFor, Beside, Extra, Supported, Believed
  <2> QED
    BY <1>1, <1>2, <1>5, <1>8, <1>9, <1>10, <1>11, <2>1, <2>2, <2>3, LaneKeeps DEF EvidenceFirst, LaneFacts
<1>13. CASE lane[p].pc = "complete"
  <2>1. Learned' = Learned \cup {j} /\ j \in evidence
    BY <1>2, <1>3, <1>13 DEF Learned, MarkedOff, LaneFacts, Stored, Supported, Believed
  <2>2. /\ j \in Learned => Learned' = Learned
        /\ j \notin Learned => Cardinality(Learned') = Cardinality(Learned) + 1
    BY <1>2, <2>1, FS_AddElement
  <2>3. ~overlapped => /\ Learned' \subseteq belief' /\ Cardinality(Learned') <= count'.observations
                       /\ lane'[p] # Away => Knows(p)'
    <3> SUFFICES ASSUME ~overlapped
                 PROVE  Learned' \subseteq belief /\ Cardinality(Learned') <= count.observations /\ Knows(p)'
      BY <1>1
    <3>1. Reliable /\ Knows(p)
      BY <1>2 DEF LaneFacts
    <3>2. NoRepeats(lane[p].batch) /\ ToSet(lane[p].batch) \subseteq ToSet(pending) /\ j \in belief
          /\ Cardinality(Learned) + 1 <= count.observations
      BY <1>13, <3>1 DEF Knows, Believed
    <3>3. NoRepeats(lane'[p].batch) /\ ToSet(lane'[p].batch) \subseteq ToSet(pending')
      BY <1>3, <1>5, <1>6, <3>2 DEF MarkedOff
    <3>4. Cardinality(Learned') <= count.observations
      <4>1. count.observations \in Nat
        BY <1>2 DEF LearningTyped
      <4> QED
        BY <1>2, <2>2, <3>2, <4>1
    <3>5. Knows(p)'
      BY <1>4, <1>5, <3>3 DEF Knows, Believed
    <3> QED
      BY <2>1, <3>1, <3>2, <3>4, <3>5 DEF Reliable
  <2>4. ASSUME ~overlapped, aborts = 0 PROVE ExactFor(p)'
    <3>1. j \notin Learned
      BY <1>2, <1>7, <2>4 DEF LaneFacts, Knows, Queued, Learned
    <3>2. ExactFor(p)
      BY <1>2, <2>4 DEF LaneFacts
    <3> QED
      BY <1>1, <1>2, <1>4, <1>5, <1>13, <2>1, <2>2, <3>1, <3>2 DEF ExactFor, Beside, Extra, Supported, Believed
  <2> QED
    BY <1>1, <1>2, <1>5, <1>8, <1>9, <1>10, <1>11, <2>1, <2>3, <2>4, LaneKeeps DEF EvidenceFirst, LaneFacts
<1> QED
  BY <1>1, <1>12, <1>13

(* The pending jobs change while the lanes stand still: record_outcome.      *)
LEMMA QueueKeeps ==
  ASSUME LearningInv, LearningTyped', Queued', ToSet(pending) \subseteq ToSet(pending'),
         UNCHANGED <<completed, count, evidence, belief, lane, overlapped, aborts>>
  PROVE  LearningInv'
<1>1. EvidenceFirst' /\ Covered' /\ OnlyLane'
  BY DEF LearningInv, EvidenceFirst, Learned, Stored, Job, Covered, Busy, OnlyLane
<1>2. ~overlapped' => Reliable'
  BY DEF LearningInv, Reliable, Learned, Knows, Job
<1>3. ~overlapped' /\ aborts' = 0 => Exact'
  BY DEF LearningInv, Exact, ExactFor, Learned, Beside, Extra, Job
<1> QED
  BY <1>1, <1>2, <1>3 DEF LearningInv
(* A task defers an outcome.                                                 *)
LEMMA RecordOutcomeKeeps ==
  ASSUME LearningInv, NEW j \in Outcomes, Admit(j) \/ StoreOutcome(j)
  PROVE  LearningInv'
<1>1. LearningTyped /\ Queued
  BY DEF LearningInv
<1>2. CASE Admit(j)
  BY <1>1, <1>2, QueueKeeps DEF Admit, LearningTyped, Queued
<1>3. CASE StoreOutcome(j)
  <2>1. /\ j \in admitted /\ admitted' = admitted \ {j} /\ pending' = Append(pending, j)
        /\ UNCHANGED <<completed, count, evidence, belief, lane, overlapped, aborts>>
    BY <1>3 DEF StoreOutcome
  <2>2. j \notin ToSet(pending) /\ j \notin completed
    BY <1>1, <2>1 DEF Queued
  <2>3. pending' \in Seq(Outcomes) /\ NoRepeats(pending') /\ ToSet(pending') = ToSet(pending) \cup {j}
    BY <1>1, <2>1, <2>2, OneMore DEF LearningTyped, Queued
  <2>4. LearningTyped'
    BY <1>1, <2>1, <2>3 DEF LearningTyped
  <2>5. Queued'
    BY <1>1, <2>1, <2>2, <2>3 DEF Queued
  <2> QED
    BY <2>1, <2>3, <2>4, <2>5, QueueKeeps
<1> QED
  BY <1>2, <1>3

(* The call of a lane that has taken jobs.                                   *)
FirstOf(b) == [pc |-> "job", batch |-> b, read |-> {}, observed |-> 0]
(* It is at the first of them.                                               *)
LEMMA FirstIsTyped ==
  ASSUME NEW b \in Seq(Outcomes) \ {<<>>}
  PROVE  /\ [Away EXCEPT !.pc = "job", !.batch = b] = FirstOf(b) /\ FirstOf(b) \in LaneCall
         /\ FirstOf(b) # Away /\ FirstOf(b).pc = "job" /\ FirstOf(b).batch = b
<1>1. [Away EXCEPT !.pc = "job", !.batch = b] = FirstOf(b)
  <2> PICK c : c = [Away EXCEPT !.pc = "job", !.batch = b]
    OBVIOUS
  <2>1. c = [pc |-> "job", batch |-> b, read |-> {}, observed |-> 0]
    BY DEF Away
  <2> QED
    BY <2>1 DEF FirstOf
<1>2. FirstOf(b).pc = "job" /\ FirstOf(b).batch = b /\ FirstOf(b) \in LaneCall
  BY DEF FirstOf, LaneCall
<1>3. FirstOf(b) # Away
  BY <1>2 DEF Away
<1> QED
  BY <1>1, <1>2, <1>3
(* A lane takes the oldest jobs; if no two overlap, all others are away.     *)
LEMMA FetchKeeps ==
  ASSUME LearningInv, NEW p \in Processes, Fetch(p)
  PROVE  LearningInv'
<1>1. LearningTyped /\ Queued /\ EvidenceFirst /\ Covered
  BY DEF LearningInv
<1> PICK n : n = IF Len(pending) < Limit THEN Len(pending) ELSE Limit
  OBVIOUS
<1> PICK b : b = SubSeq(pending, 1, n)
  OBVIOUS
<1> PICK c : c = FirstOf(b)
  OBVIOUS
<1>2. /\ lane[p] = Away /\ pending # <<>>
      /\ overlapped' = (overlapped \/ \E q \in Processes : lane[q] # Away)
      /\ UNCHANGED <<pending, admitted, completed, count, evidence, belief, aborts>>
  BY DEF Fetch
<1>3. b \in Seq(Outcomes) \ {<<>>} /\ NoRepeats(b) /\ ToSet(b) \subseteq ToSet(pending)
  <2>1. n \in 1..Len(pending)
    BY <1>1, <1>2, LearningAssumption DEF LearningTyped
  <2> QED
    BY <1>1, <2>1, Prefix DEF LearningTyped, Queued
<1>4. lane' = [lane EXCEPT ![p] = c]
  <2>1. lane' = [lane EXCEPT ![p] = [lane[p] EXCEPT !.pc = "job", !.batch = b]]
    BY <1>1 DEF Fetch, LearningTyped
  <2>2. [Away EXCEPT !.pc = "job", !.batch = b] = c
    BY <1>3, FirstIsTyped
  <2> QED
    BY <1>2, <2>1, <2>2
<1>5. /\ lane'[p] = c /\ c.pc = "job" /\ c.batch = b /\ (\A q \in Processes \ {p} : lane'[q] = lane[q])
      /\ lane' = [lane EXCEPT ![p] = lane'[p]] /\ c \in LaneCall /\ c # Away /\ Learned' = Learned
  BY <1>1, <1>2, <1>3, <1>4, FirstIsTyped DEF LearningTyped, Learned
<1>6. LearningTyped'
  BY <1>1, <1>2, <1>4, <1>5 DEF LearningTyped
<1>7. Queued'
  <2>1. ASSUME NEW q \in Processes PROVE ToSet(lane'[q].batch) \subseteq ToSet(pending) \cup completed
    <3>1. CASE q = p
      <4>1. lane'[q].batch = b
        BY <1>5, <3>1
      <4> QED
        BY <1>3, <4>1
    <3>2. CASE q # p
      BY <1>1, <1>5, <3>2 DEF Queued
    <3> QED
      BY <3>1, <3>2
  <2> QED
    BY <1>1, <1>2, <2>1 DEF Queued
<1>8. EvidenceFirst'
  <2>1. ASSUME NEW q \in Processes PROVE Stored(q)'
    <3>1. CASE q = p
      BY <1>5, <3>1 DEF Stored, Supported, Believed
    <3>2. CASE q # p
      BY <1>1, <1>2, <1>5, <3>2 DEF EvidenceFirst, Stored, Job
    <3> QED
      BY <3>1, <3>2
  <2> QED
    BY <1>1, <1>2, <1>5, <2>1 DEF EvidenceFirst
<1>9. Covered'
  <2>1. Balance(p)
    BY <1>1, <1>2, <1>5 DEF Balance, Extra, Recording, Profiling, LearningTyped, Away
  <2> QED
    BY <1>1, <1>5, <1>6, <2>1, CoveredKeeps
<1>10. ~overlapped' => /\ ~overlapped /\ (\A q \in Processes : lane[q] = Away)
                       /\ \A q \in Processes : lane'[q] # Away => q = p
  BY <1>2, <1>5
<1>11. OnlyLane'
  BY <1>10 DEF OnlyLane
<1>12. ~overlapped' => Reliable'
  <2> SUFFICES ASSUME ~overlapped' PROVE Reliable'
    OBVIOUS
  <2>1. Learned \subseteq belief /\ Cardinality(Learned) <= count.observations
    <3>1. ~overlapped
      BY <1>10
    <3> QED
      BY <3>1 DEF LearningInv, Reliable
  <2>2. Knows(p)'
    <3>1. c.batch = b /\ c.pc = "job" /\ lane'[p] = c
      BY <1>5
    <3> QED
      BY <1>2, <1>3, <3>1 DEF Knows, Believed
  <2> QED
    BY <1>2, <1>5, <1>10, <2>1, <2>2 DEF Reliable
<1>13. ASSUME ~overlapped', aborts' = 0 PROVE Exact'
  <2>1. /\ evidence = Learned /\ belief = Learned
        /\ count.outcomes = Cardinality(Learned) /\ count.observations = Cardinality(Learned)
    BY <1>2, <1>10, <1>13 DEF LearningInv, Exact
  <2>2. ExactFor(p)'
    BY <1>2, <1>5, <2>1, <1>1, LearnedIsFinite DEF ExactFor, Beside, Extra, Supported, Believed
  <2> QED
    BY <1>5, <1>10, <1>13, <2>2 DEF Exact
<1> QED
  BY <1>6, <1>7, <1>8, <1>9, <1>11, <1>12, <1>13 DEF LearningInv

(* Nothing is deferred or stored at first.                                   *)
LEMMA LearningStarts ==
  ASSUME LearningInit
  PROVE  LearningInv
<1>1. LearningTyped
  <2>1. pending \in Seq(Outcomes)
    BY DEF LearningInit
  <2>2. count \in [signals : Nat, outcomes : Nat, observations : Nat]
    BY DEF LearningInit
  <2>3. lane \in [Processes -> LaneCall \cup {Away}] /\ aborts \in Nat
    BY DEF LearningInit
  <2> QED
    BY <2>1, <2>2, <2>3 DEF LearningInit, LearningTyped
<1>2. Learned = {} /\ \A S : Busy(S) = 0 \/ "away" \in S
  <2>1. ASSUME NEW S, "away" \notin S PROVE Busy(S) = 0
    <3>1. {p \in Processes : lane[p].pc \in S} = {}
      BY <2>1 DEF LearningInit, Away
    <3> QED
      BY <3>1, FS_EmptySet DEF Busy
  <2> QED
    BY <2>1 DEF LearningInit, Learned
<1>3. Queued
  <2>1. \A p \in Processes : ToSet(lane[p].batch) = {}
    BY DEF LearningInit, Away, ToSet
  <2> QED
    BY <2>1 DEF LearningInit, Queued, NoRepeats, ToSet
<1>4. EvidenceFirst
  BY <1>2 DEF LearningInit, EvidenceFirst, Stored, Away, Supported, Believed
<1>5. Covered
  <2>1. Busy(Recording) = 0 /\ Busy(Profiling) = 0
    BY <1>2 DEF Recording, Profiling
  <2> QED
    BY <2>1 DEF LearningInit, Covered, Away
<1>6. OnlyLane /\ Reliable /\ Exact
  BY <1>2, FS_EmptySet DEF LearningInit, OnlyLane, Reliable, Exact
<1> QED
  BY <1>1, <1>3, <1>4, <1>5, <1>6 DEF LearningInv

(* The invariant gives the property.                                         *)
LEMMA LearningMeans ==
  ASSUME LearningInv
  PROVE  LearningSound
<1>1. LearningTyped /\ EvidenceFirst /\ Covered
  BY DEF LearningInv
<1>2. count.observations <= count.outcomes /\ count.outcomes <= count.signals
  <2>1. ASSUME NEW S PROVE Busy(S) \in Nat
    <3>1. {p \in Processes : lane[p].pc \in S} \in SUBSET Processes
      OBVIOUS
    <3> QED
      BY <3>1, LearningAssumption, FS_Subset, FS_CardinalityType DEF Busy
  <2>2. Busy(Recording) \in Nat /\ Busy(Profiling) \in Nat
    BY <2>1
  <2> QED
    BY <1>1, <2>2 DEF LearningTyped, Covered
<1> QED
  BY <1>1, <1>2 DEF LearningInv, LearningSound, EvidenceFirst, Reliable, Exact

(* Whatever interleaves or dies in AdaptiveLearningStore.process: evidence   *)
(* is stored for completed jobs and nothing counts more often than it was    *)
(* recorded; without overlaps no completed job is lost, and without          *)
(* exceptions either each one counts exactly once.                           *)
THEOREM Learns == LearningInit /\ [][LearningNext]_learningVars => []LearningSound
<1>1. LearningInit => LearningInv
  BY LearningStarts
<1>2. LearningInv /\ [LearningNext]_learningVars => LearningInv'
  <2> SUFFICES ASSUME LearningInv, [LearningNext]_learningVars PROVE LearningInv'
    OBVIOUS
  <2>1. CASE \E j \in Outcomes : Admit(j) \/ StoreOutcome(j)
    BY <2>1, RecordOutcomeKeeps
  <2>2. ASSUME NEW p \in Processes, Learn(p) \/ Abort(p) PROVE LearningInv'
    <3>1. CASE Fetch(p)
      BY <3>1, FetchKeeps
    <3>2. CASE CountSignals(p)
      BY <3>2, RecordKeeps, SkipKeeps
    <3>3. CASE Signal(p)
      BY <3>3, RecordKeeps
    <3>4. CASE AddEvidence(p)
      BY <3>4, RecordKeeps, SkipKeeps
    <3>5. CASE AssessRead(p) \/ AssessWrite(p)
      BY <3>5, BeliefKeeps
    <3>6. CASE SelfModelOutcome(p)
      BY <3>6, OutcomeKeeps
    <3>7. CASE ReadProfile(p) \/ WriteProfile(p)
      BY <3>7, ProfileKeeps
    <3>8. CASE Complete(p)
      BY <3>8, CompleteKeeps
    <3>9. CASE Abort(p)
      BY <3>9, SkipKeeps
    <3> QED
      BY <2>2, <3>1, <3>2, <3>3, <3>4, <3>5, <3>6, <3>7, <3>8, <3>9 DEF Learn
  <2>3. CASE UNCHANGED learningVars
    BY <2>3, QueueKeeps DEF learningVars, LearningInv, LearningTyped, Queued
  <2> QED
    BY <2>1, <2>2, <2>3 DEF LearningNext
<1>3. LearningInv => LearningSound
  BY LearningMeans
<1> QED
  BY <1>1, <1>2, <1>3, PTL
================================================================================
