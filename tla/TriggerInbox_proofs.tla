------------------------- MODULE TriggerInbox_proofs -------------------------
(***************************************************************************)
(* The safety of the trigger inbox and of its two users, for any set of     *)
(* events, any budgets, delays and leases.  Inductive relates the row of an *)
(* event to the claims handed out for it; the invariants and the action     *)
(* properties of TriggerInbox follow from it, and so does the step-by-step  *)
(* refinement of ExclusiveWork.  ChatInv relates the adapter's lock, its    *)
(* futures and its threads; DispatchInv relates the attempt of every        *)
(* process to the row it claimed.  Both rest on Inductive, and give each    *)
(* user's safety and that its steps are steps of the inbox.                 *)
(***************************************************************************)
EXTENDS ChatTrigger, TriggerDispatch, FiniteSetTheorems, SequenceTheorems, TLAPS

(* A row the two UPDATEs of claim and the one of complete produce is typed.  *)
LEMMA BackoffNat ==
  ASSUME NEW n \in Nat, n > 0, n <= MaxAttempts
  PROVE  Backoff(n) \in Nat /\ Backoff(n) = RetryDelay * 2^(n - 1)
<1>1. n - 1 \in 0..MaxAttempts
  BY BoundAssumption
<1>2. 2^(n - 1) \in Nat
  BY <1>1, PowerAssumption
<1> QED
  BY <1>2, ParameterAssumption DEF Backoff

(* The initial table satisfies the inductive invariant.                      *)
LEMMA InitInductive == Init => Inductive
BY DEF Init, Inductive, TypeOK, OneOwner, WithinBudget, SettledByLastOwner,
       AbsentUntouched, LeaseAfterStart, Absent, Exists, Terminal, NoClaim

(* emit preserves it.                                                        *)
LEMMA EmitInductive ==
  ASSUME Inductive, NEW e \in Events, EmitAny(e)
  PROVE  Inductive'
<1>1. PICK content \in Contents, max \in 1..MaxAttempts,
           start \in {now} \cup NotBefore : Emit(e, content, max, start)
  BY DEF EmitAny
<1>2. start \in Nat
  BY BoundAssumption DEF Inductive, TypeOK
<1> DEFINE new == NewRow(content, max, start)
<1>3. new \in Row
  BY <1>2 DEF Row, NoClaim, NewRow
<1>4. /\ row' = [row EXCEPT ![e] = new]
      /\ now' = now /\ issued' = issued /\ settled' = settled
      /\ ~Exists(e)
  BY <1>1 DEF Emit
<1>5. row'[e] = new /\ \A f \in Events \ {e} : row'[f] = row[f]
  BY <1>4 DEF Inductive, TypeOK
<1>6. issued[e] = 0
  BY <1>4 DEF Inductive, AbsentUntouched
<1>7. TypeOK'
  BY <1>3, <1>4 DEF Inductive, TypeOK
<1>8. OneOwner'
  BY <1>4, <1>5 DEF NewRow, Inductive, OneOwner, NoClaim
<1>9. WithinBudget'
  BY <1>4, <1>5, <1>6, BoundAssumption DEF NewRow, Inductive, WithinBudget, Exists
<1>10. SettledByLastOwner'
  BY <1>4, <1>5 DEF NewRow, Inductive, SettledByLastOwner, Terminal
<1>11. AbsentUntouched'
  BY <1>4, <1>5 DEF NewRow, Inductive, AbsentUntouched, Exists
<1>12. LeaseAfterStart'
  BY <1>4, <1>5 DEF NewRow, Inductive, LeaseAfterStart
<1> QED
  BY <1>7, <1>8, <1>9, <1>10, <1>11, <1>12 DEF Inductive

(* claim preserves it.  A claim is granted to a pending row that is due, or  *)
(* to one whose lease is over: LeaseAfterStart makes that one due as well.   *)
LEMMA ClaimInductive ==
  ASSUME Inductive, NEW e \in Events, ClaimAny(e)
  PROVE  Inductive'
<1>1. PICK t \in 0..now : Claim(e, t)
  BY DEF ClaimAny
<1>2. t \in Nat
  BY DEF Inductive, TypeOK
<1> DEFINE old == row[e]
           new == Taken(AfterLapse(old, t), issued[e] + 1, t)
<1>3. /\ old \in Row
      /\ old.status \in {"pending", "claimed"}
      /\ old.attempts < old.max_attempts
      /\ old.available_at <= t
  BY <1>1, <1>2 DEF Claim, Granted, Free, Lapsed, AfterLapse, Inductive, TypeOK,
     LeaseAfterStart, AbsentUntouched, Row, Absent, Exists
<1>4. Granted(e, t)
  BY <1>1, <1>3 DEF Claim, Granted, Free, Lapsed, AfterLapse, Row, NoClaim
<1>5. /\ row' = [row EXCEPT ![e] = new]
      /\ issued' = [issued EXCEPT ![e] = @ + 1]
      /\ now' = now /\ settled' = settled
  BY <1>1, <1>4 DEF Claim, ClaimTx, Granted, Free
<1>6. /\ new = [old EXCEPT !.status = "claimed", !.claim_id = issued[e] + 1,
                          !.lease_until = t + Lease, !.attempts = @ + 1]
  BY <1>3 DEF Taken, AfterLapse, Row
<1>7. new \in Row
  <2>1. /\ issued[e] + 1 \in Nat /\ t + Lease \in Nat
        /\ old.attempts + 1 \in Nat
    BY <1>2, <1>3, ParameterAssumption DEF Row, Inductive, TypeOK
  <2> QED
    BY <1>3, <1>6, <2>1 DEF Row
<1>8. /\ row'[e] = new
      /\ issued'[e] = issued[e] + 1
      /\ \A f \in Events \ {e} : row'[f] = row[f] /\ issued'[f] = issued[f]
  BY <1>5 DEF Inductive, TypeOK
<1>9. /\ new.status = "claimed" /\ new.claim_id = issued[e] + 1
      /\ new.attempts = old.attempts + 1 /\ new.max_attempts = old.max_attempts
      /\ new.available_at = old.available_at /\ new.lease_until = t + Lease
  BY <1>3, <1>6 DEF Row
<1> HIDE DEF new
<1>10. TypeOK'
  BY <1>5, <1>7 DEF Inductive, TypeOK
<1>11. OneOwner'
  BY <1>8, <1>9 DEF Inductive, OneOwner, TypeOK
<1>12. WithinBudget'
  <2>1. old.attempts = issued[e] /\ issued[e] \in Nat /\ old.max_attempts \in Nat
    BY <1>3, BoundAssumption DEF Inductive, WithinBudget, Exists, TypeOK, Row
  <2> QED
    BY <1>3, <1>8, <1>9, <2>1 DEF Inductive, WithinBudget, Exists
<1>13. SettledByLastOwner'
  BY <1>5, <1>8, <1>9 DEF Inductive, SettledByLastOwner, Terminal
<1>14. AbsentUntouched'
  BY <1>8, <1>9 DEF Inductive, AbsentUntouched, Exists
<1>15. LeaseAfterStart'
  <2>1. new.available_at < new.lease_until
    BY <1>2, <1>3, <1>9, ParameterAssumption DEF Row
  <2> QED
    BY <1>8, <2>1 DEF Inductive, LeaseAfterStart
<1> QED
  BY <1>10, <1>11, <1>12, <1>13, <1>14, <1>15 DEF Inductive

(* complete preserves it: the owner holds the newest claim.                  *)
LEMMA CompleteInductive ==
  ASSUME Inductive, NEW e \in Events, CompleteAny(e)
  PROVE  Inductive'
<1>1. PICK c \in 1..issued[e], result \in Terminal \cup {"retryable"},
           t \in 0..now : Complete(e, c, result, t)
  BY DEF CompleteAny
<1>2. t \in Nat
  BY DEF Inductive, TypeOK
<1> DEFINE old == row[e]
           new == Completed(old, result, t)
<1>3. /\ old \in Row /\ old.status = "claimed" /\ old.claim_id = c
      /\ c = issued[e] /\ c > 0
      /\ old.attempts = issued[e] /\ old.attempts <= old.max_attempts
  BY <1>1 DEF Complete, Owns, Inductive, TypeOK, OneOwner, WithinBudget, Exists,
     Absent
<1>4. /\ row' = [row EXCEPT ![e] = new]
      /\ settled' = [settled EXCEPT ![e] = c]
      /\ now' = now /\ issued' = issued
  BY <1>1 DEF Complete
<1>5. /\ row'[e] = new /\ settled'[e] = c
      /\ \A f \in Events \ {e} : row'[f] = row[f] /\ settled'[f] = settled[f]
  BY <1>4 DEF Inductive, TypeOK
<1>6. /\ new \in Row /\ new.status # "claimed" /\ new.claim_id = NoClaim
      /\ new.attempts = old.attempts /\ new.max_attempts = old.max_attempts
      /\ new.status = "pending" => old.attempts < old.max_attempts
  <2>1. CASE result = "retryable" /\ old.attempts < old.max_attempts
    <3>1. old.attempts \in Nat /\ old.attempts > 0 /\ old.attempts <= MaxAttempts
      BY <1>3, <2>1, BoundAssumption DEF Inductive, TypeOK, Row
    <3>2. Backoff(old.attempts) \in Nat
      BY <3>1, BackoffNat
    <3>3. t + Backoff(old.attempts) \in Nat
      BY <1>2, <3>2
    <3>4. new = [old EXCEPT !.status = "pending", !.claim_id = NoClaim,
                            !.lease_until = 0,
                            !.available_at = t + Backoff(old.attempts)]
      BY <2>1 DEF Completed
    <3> HIDE DEF new
    <3>5. new \in Row
      BY <1>3, <3>3, <3>4 DEF Row, NoClaim
    <3> QED
      BY <1>3, <2>1, <3>4, <3>5 DEF Row
  <2>2. CASE ~(result = "retryable" /\ old.attempts < old.max_attempts)
    BY <1>2, <1>3, <2>2 DEF Completed, Row, Terminal, NoClaim
  <2> QED
    BY <2>1, <2>2
<1> HIDE DEF new
<1>7. TypeOK'
  BY <1>3, <1>4, <1>6 DEF Inductive, TypeOK
<1>8. OneOwner'
  BY <1>4, <1>5, <1>6 DEF Inductive, OneOwner
<1>9. WithinBudget'
  BY <1>3, <1>4, <1>5, <1>6 DEF Inductive, WithinBudget, Exists
<1>10. SettledByLastOwner'
  BY <1>3, <1>4, <1>5 DEF Inductive, SettledByLastOwner
<1>11. AbsentUntouched'
  BY <1>4, <1>5, <1>6 DEF Inductive, AbsentUntouched, Exists, Row, Terminal
<1>12. LeaseAfterStart'
  BY <1>4, <1>5, <1>6 DEF Inductive, LeaseAfterStart
<1> QED
  BY <1>7, <1>8, <1>9, <1>10, <1>11, <1>12 DEF Inductive

(* Consecution.                                                              *)
LEMMA NextInductive == Inductive /\ [Next]_inboxVars => Inductive'
<1> SUFFICES ASSUME Inductive, [Next]_inboxVars
             PROVE  Inductive'
  OBVIOUS
<1>1. CASE Tick
  BY <1>1 DEF Tick, Inductive, TypeOK, OneOwner, WithinBudget,
     SettledByLastOwner, AbsentUntouched, LeaseAfterStart, Exists
<1>2. ASSUME NEW e \in Events, EmitAny(e) PROVE Inductive'
  BY <1>2, EmitInductive
<1>3. ASSUME NEW e \in Events, ClaimAny(e) PROVE Inductive'
  BY <1>3, ClaimInductive
<1>4. ASSUME NEW e \in Events, CompleteAny(e) PROVE Inductive'
  BY <1>4, CompleteInductive
<1>5. CASE UNCHANGED inboxVars
  BY <1>5 DEF inboxVars, Inductive, TypeOK, OneOwner, WithinBudget,
     SettledByLastOwner, AbsentUntouched, LeaseAfterStart, Exists
<1> QED
  BY <1>1, <1>2, <1>3, <1>4, <1>5 DEF Next

(* Every reachable table satisfies the inductive invariant.                  *)
THEOREM Invariance == Spec => []Inductive
<1>1. Init => Inductive
  BY InitInductive
<1>2. Inductive /\ [Next]_inboxVars => Inductive'
  BY NextInductive
<1> QED
  BY <1>1, <1>2, PTL DEF Spec

(* Its parts are invariants of the specification: the types, one owner per    *)
(* claimed event, the attempt budget, and settlement by the last owner only.  *)
THEOREM Safety == Spec => [](TypeOK /\ OneOwner /\ WithinBudget /\ SettledByLastOwner)
<1>1. Inductive => TypeOK /\ OneOwner /\ WithinBudget /\ SettledByLastOwner
  BY DEF Inductive
<1> QED
  BY <1>1, Invariance, PTL

(* The claim that releases a lapsed owner always gets the event.             *)
LEMMA RecoveryHolds == Inductive => RecoveryGrants
<1> SUFFICES ASSUME Inductive, NEW e \in Events, NEW t \in 0..now,
                    Lapsed(row[e], t)
             PROVE  Granted(e, t)
  BY DEF RecoveryGrants
<1>1. row[e] \in Row
  BY DEF Inductive, TypeOK, Lapsed, Absent
<1>2. row[e].available_at < row[e].lease_until /\ row[e].lease_until <= t
  BY DEF Inductive, LeaseAfterStart, Lapsed
<1>3. row[e].available_at <= t
  BY <1>1, <1>2 DEF Row, Inductive, TypeOK
<1> QED
  BY <1>1, <1>3 DEF Granted, Free, AfterLapse, Lapsed, Row

(* A claim that has lapsed is granted again to the next one to ask.         *)
THEOREM RecoverySafety == Spec => []RecoveryGrants
BY RecoveryHolds, Invariance, PTL

(* The table never holds more than max_events rows, for any set of ids.      *)
Rows == {e \in Events : Exists(e)}
Bounded == IsFiniteSet(Rows) /\ Cardinality(Rows) <= MaxEvents
(* The empty table is within its bound.                                     *)
LEMMA InitBounded == Init => Bounded
<1> SUFFICES ASSUME Init PROVE Bounded
  OBVIOUS
<1>1. Rows = {}
  BY DEF Init, Rows, Exists, Absent
<1> QED
  BY <1>1, FS_EmptySet, ParameterAssumption DEF Bounded

(* Every transaction keeps it there: emit makes room before it inserts.     *)
LEMMA NextBounded == Bounded /\ Inductive /\ [Next]_inboxVars => Bounded'
<1> SUFFICES ASSUME Bounded, Inductive, [Next]_inboxVars PROVE Bounded'
  OBVIOUS
<1>1. ASSUME NEW e \in Events, EmitAny(e) PROVE Bounded'
  <2>1. Rows' = Rows \cup {e} /\ e \notin Rows /\ Cardinality(Rows) < MaxEvents
    BY <1>1 DEF EmitAny, Emit, NewRow, Rows, Exists, Inductive, TypeOK
  <2>2. /\ IsFiniteSet(Rows \cup {e})
        /\ Cardinality(Rows \cup {e}) = Cardinality(Rows) + 1
    BY <2>1, FS_AddElement DEF Bounded
  <2>3. Cardinality(Rows) \in Nat
    BY FS_CardinalityType DEF Bounded
  <2> QED
    BY <2>1, <2>2, <2>3, ParameterAssumption DEF Bounded
<1>2. ASSUME NEW e \in Events, ClaimAny(e) PROVE Rows' = Rows
  <2>1. PICK t \in 0..now : Claim(e, t)
    BY <1>2 DEF ClaimAny
  <2>2. Exists(e) /\ row'[e].status # "absent"
    BY <2>1 DEF Claim, ClaimTx, Granted, Free, Lapsed, AfterLapse, Taken, Exists,
       Inductive, TypeOK, AbsentUntouched, Absent, Row
  <2> QED
    BY <2>1, <2>2 DEF Claim, ClaimTx, Rows, Exists, Inductive, TypeOK
<1>3. ASSUME NEW e \in Events, CompleteAny(e) PROVE Rows' = Rows
  <2>1. PICK c \in 1..issued[e], result \in Terminal \cup {"retryable"},
             t \in 0..now : Complete(e, c, result, t)
    BY <1>3 DEF CompleteAny
  <2>2. Exists(e) /\ row'[e].status # "absent"
    BY <2>1 DEF Complete, Owns, Completed, Exists, Terminal, Inductive, TypeOK,
       AbsentUntouched, Absent, Row
  <2> QED
    BY <2>1, <2>2 DEF Complete, Rows, Exists, Inductive, TypeOK
<1>4. CASE Tick \/ UNCHANGED inboxVars
  BY <1>4 DEF Tick, inboxVars, Rows, Exists, Bounded
<1> QED
  BY <1>1, <1>2, <1>3, <1>4 DEF Next, Bounded

(* The table never holds more than max_events rows.                         *)
THEOREM CapacitySafety == Spec => []InboxBounded
<1>1. Bounded => InboxBounded
  BY DEF Bounded, InboxBounded, Rows
<1> QED
  BY <1>1, InitBounded, NextBounded, Invariance, PTL DEF Spec

(* While a lease lasts, only its owner's completion ends the claim, and a    *)
(* settled row is never written again: both hold of every single step.       *)
LEMMA StepKeeps ==
  ASSUME Inductive, [Next]_inboxVars, NEW e \in Events
  PROVE  /\ row[e].status \in Terminal => row'[e] = row[e]
         /\ row[e].status = "claimed" /\ row[e].lease_until > now
              => row'[e] = row[e] \/ settled'[e] = row[e].claim_id
<1>1. CASE Tick \/ UNCHANGED inboxVars
  BY <1>1 DEF Tick, inboxVars
<1>2. ASSUME NEW f \in Events, EmitAny(f)
      PROVE  row'[e] = row[e] \/ row[e].status = "absent"
  BY <1>2 DEF EmitAny, Emit, Exists, Inductive, TypeOK
<1>3. ASSUME NEW f \in Events, ClaimAny(f)
      PROVE  \/ row'[e] = row[e]
             \/ row[e].status = "pending"
             \/ row[e].status = "claimed" /\ ~(row[e].lease_until > now)
  <2>1. PICK t \in 0..now : Claim(f, t)
    BY <1>3 DEF ClaimAny
  <2>2. CASE f # e
    BY <2>1, <2>2 DEF Claim, ClaimTx, Inductive, TypeOK
  <2>3. CASE f = e /\ row[e].status # "pending"
    <3>1. Lapsed(row[e], t)
      BY <2>1, <2>3 DEF Claim, Granted, Free, AfterLapse
    <3>2. row[e].lease_until \in Nat
      BY <3>1 DEF Lapsed, Inductive, TypeOK, Row, Absent
    <3> QED
      BY <3>1, <3>2 DEF Lapsed, Inductive, TypeOK
  <2> QED
    BY <2>2, <2>3
<1>4. ASSUME NEW f \in Events, CompleteAny(f)
      PROVE  \/ row'[e] = row[e]
             \/ row[e].status = "claimed" /\ settled'[e] = row[e].claim_id
  BY <1>4 DEF CompleteAny, Complete, Owns, Inductive, TypeOK
<1> QED
  BY <1>1, <1>2, <1>3, <1>4 DEF Next, Terminal

(* "A live claim cannot be stolen."                                          *)
THEOREM LiveClaims == Spec => LiveClaimKept
<1>1. Inductive /\ [Next]_inboxVars =>
        [\A e \in Events :
           (row[e].status = "claimed" /\ row[e].lease_until > now)
             => (row'[e] = row[e] \/ settled'[e] = row[e].claim_id)]_inboxVars
  BY StepKeeps
<1> QED
  BY <1>1, Invariance, PTL DEF Spec, LiveClaimKept

(* A settled event is never reopened and its record never rewritten.         *)
THEOREM Settlement == Spec => TerminalForGood
<1>1. Inductive /\ [Next]_inboxVars =>
        [\A e \in Events : row[e].status \in Terminal => row'[e] = row[e]]_inboxVars
  BY StepKeeps
<1> QED
  BY <1>1, Invariance, PTL DEF Spec, TerminalForGood

(* Every transaction of the inbox is a step of the abstract contract, or     *)
(* leaves the abstract state alone.                                          *)
LEMMA InitRefines == Init => Work!Init
BY DEF Init, Work!Init, Phase, Absent

(* Every step of the inbox is one of the contract, or leaves it alone.      *)
LEMMA StepRefines ==
  ASSUME Inductive, [Next]_inboxVars
  PROVE  [Work!Next]_(Work!workVars)
<1>1. CASE Tick \/ UNCHANGED inboxVars
  BY <1>1 DEF Tick, inboxVars, Work!workVars
<1>2. ASSUME NEW e \in Events, EmitAny(e)
      PROVE  \E b \in 1..MaxAttempts : Work!Submit(e, b)
  <2>1. PICK content \in Contents, max \in 1..MaxAttempts,
             start \in {now} \cup NotBefore : Emit(e, content, max, start)
    BY <1>2 DEF EmitAny
  <2>2. Work!Submit(e, max)
    BY <2>1 DEF Work!Submit, Emit, NewRow, Exists, Phase, Inductive, TypeOK
  <2> QED
    BY <2>2
<1>3. ASSUME NEW e \in Events, ClaimAny(e)
      PROVE  Work!Grant(e)
  <2>1. PICK t \in 0..now : Claim(e, t)
    BY <1>3 DEF ClaimAny
  <2>2. /\ row[e] \in Row /\ row[e].status \in {"pending", "claimed"}
        /\ row[e].attempts < row[e].max_attempts
        /\ row[e].attempts = issued[e]
        /\ row[e].max_attempts \in Nat
    BY <2>1 DEF Claim, Granted, Free, Lapsed, AfterLapse, Inductive, TypeOK,
       WithinBudget, Exists, Absent, Row
  <2>3. Granted(e, t)
    BY <2>1, <2>2 DEF Claim, Granted, Free, Lapsed, AfterLapse, Inductive, TypeOK,
       LeaseAfterStart, Row, NoClaim
  <2>4. /\ row' = [row EXCEPT ![e] = Taken(AfterLapse(row[e], t), issued[e] + 1, t)]
        /\ issued' = [issued EXCEPT ![e] = @ + 1]
        /\ now' = now /\ settled' = settled
    BY <2>1, <2>3 DEF Claim, ClaimTx, Granted, Free
  <2>5. /\ row'[e].status = "claimed" /\ row'[e].max_attempts = row[e].max_attempts
        /\ \A f \in Events \ {e} : row'[f] = row[f]
    BY <2>2, <2>4 DEF Taken, AfterLapse, Row, Inductive, TypeOK
  <2> QED
    BY <2>2, <2>4, <2>5 DEF Work!Grant, Phase, Inductive, TypeOK
<1>4. ASSUME NEW e \in Events, CompleteAny(e)
      PROVE  Work!Return(e) \/ \E outcome \in Work!Outcomes : Work!Settle(e, outcome)
  <2>1. PICK c \in 1..issued[e], result \in Terminal \cup {"retryable"},
             t \in 0..now : Complete(e, c, result, t)
    BY <1>4 DEF CompleteAny
  <2>2. /\ row[e] \in Row /\ row[e].status = "claimed" /\ c = issued[e]
        /\ row[e].attempts = issued[e]
    BY <2>1 DEF Complete, Owns, Inductive, TypeOK, OneOwner, WithinBudget, Exists,
       Absent
  <2>3. /\ row'[e] = Completed(row[e], result, t)
        /\ settled' = [settled EXCEPT ![e] = issued[e]]
        /\ now' = now /\ issued' = issued
        /\ \A f \in Events \ {e} : row'[f] = row[f]
    BY <2>1, <2>2 DEF Complete, Inductive, TypeOK
  <2>4. row'[e].max_attempts = row[e].max_attempts
    BY <2>2, <2>3 DEF Completed, Row
  <2>5. CASE result = "retryable" /\ row[e].attempts < row[e].max_attempts
    <3>1. row'[e].status = "pending"
      BY <2>2, <2>3, <2>5 DEF Completed, Row
    <3>2. Work!Return(e)
      BY <2>2, <2>3, <2>4, <2>5, <3>1 DEF Work!Return, Phase, Inductive, TypeOK
    <3> QED
      BY <3>2
  <2>6. CASE ~(result = "retryable" /\ row[e].attempts < row[e].max_attempts)
    <3> DEFINE outcome == IF result = "retryable" THEN "failed" ELSE result
    <3>1. row'[e].status = outcome /\ outcome \in Terminal
      BY <2>2, <2>3, <2>6 DEF Completed, Row, Terminal
    <3>2. Work!Settle(e, outcome)
      BY <2>2, <2>3, <2>4, <3>1
         DEF Work!Settle, Phase, Inductive, TypeOK, Terminal
    <3> QED
      BY <3>1, <3>2 DEF Work!Outcomes, Terminal
  <2> QED
    BY <2>5, <2>6
<1> QED
  BY <1>1, <1>2, <1>3, <1>4 DEF Next, Work!Next

(* What a run checks of the inbox as one invariant holds for all parameters: *)
(* the inductive invariant, a claim for every recovered event, and a table   *)
(* that never holds more than max_events rows.                               *)
THEOREM InboxSoundness == Spec => []InboxSound
<1>1. Inductive /\ RecoveryGrants /\ InboxBounded => InboxSound
  BY DEF InboxSound
<1> QED
  BY <1>1, Invariance, RecoverySafety, CapacitySafety, PTL

(* The inbox implements ExclusiveWork.                                       *)
THEOREM Refinement == Spec => ImplementsExclusiveWork
<1>1. Init => Work!Init
  BY InitRefines
<1>2. Inductive /\ [Next]_inboxVars => [Work!Next]_(Work!workVars)
  BY StepRefines
<1> QED
  BY <1>1, <1>2, Invariance, PTL DEF Spec, ImplementsExclusiveWork, Work!Spec
-------------------------------------------------------------------------------
(* A caller's steps while it has the lock, and those of them after Submit;   *)
(* the steps of a pool thread before its future is done.                     *)
InSection == {"emit", "submit", "track", "hook", "forget"}
Holding == {"track", "hook", "forget"}
Working == {"claim", "run", "report", "finish"}
FutureRecord == [event : Events, state : {"queued", "running", "done"}, hooked : BOOLEAN]
ThreadRecord == [pc : InSection \cup Working \cup {"idle", "wait", "closed"},
                 background : BOOLEAN, event : Events \cup {"none"}, future : Nat,
                 claim : Nat, started : Nat, result : {"none", "success", "retryable"},
                 waiting : SUBSET Nat]
ChatTypes ==
  /\ adapter \in [lock : Callers \cup {Nobody}, closed : BOOLEAN, futures : SUBSET Nat]
  /\ future \in Seq(FutureRecord)
  /\ thread \in [Threads -> ThreadRecord]

(* The lock is held by the caller that is in the section; what a caller has  *)
(* submitted is not hooked, and tracked once it has said so.                 *)
Locked == \A c \in Callers :
  /\ thread[c].pc \in InSection \cup {"idle"}
  /\ thread[c].pc \in InSection <=> adapter.lock = c
  /\ At(c, "submit") => thread[c].event \in Events /\ Exists(thread[c].event)
  /\ thread[c].pc \in Holding => /\ thread[c].future \in 1..Len(future)
                                 /\ ~future[thread[c].future].hooked
                                 /\ thread[c].future \in adapter.futures <=> ~At(c, "track")
(* Every busy pool thread has a future of its own.                           *)
Pooled == \A w \in Pool :
  /\ thread[w].pc \in Working \cup {"idle", "forget"}
  /\ ~At(w, "idle") => /\ thread[w].future \in 1..Len(future)
                       /\ \A v \in Pool \ {w} : ~At(v, "idle") => thread[v].future # thread[w].future
  /\ thread[w].pc \in Working => /\ future[thread[w].future].state = "running"
                                 /\ thread[w].event = future[thread[w].future].event
  /\ At(w, "forget") => /\ future[thread[w].future].state = "done"
                        /\ future[thread[w].future].hooked
  /\ thread[w].started <= now
  /\ At(w, "report") => thread[w].result # "none"
(* Apart from the future that its caller still holds, _futures is exact, and *)
(* every unfinished future is hooked.                                        *)
HeldByCaller(k) == \E c \in Callers : thread[c].pc \in Holding /\ thread[c].future = k
Awaited(k) == \/ future[k].state # "done"
              \/ \E w \in Pool : At(w, "forget") /\ thread[w].future = k
Tracked ==
  /\ adapter.futures \subseteq 1..Len(future)
  /\ \A k \in 1..Len(future) : ~HeldByCaller(k) =>
       /\ k \in adapter.futures <=> Awaited(k)
       /\ future[k].state # "done" => future[k].hooked
(* Nothing is submitted any more to a closed adapter.                        *)
Draining ==
  /\ thread[Closer].pc \in {"idle", "wait", "closed"}
  /\ adapter.closed <=> ~At(Closer, "idle")
  /\ adapter.closed => \A c \in Callers : thread[c].pc \notin {"submit"} \cup Holding
  /\ At(Closer, "wait") =>
       \A k \in 1..Len(future) : future[k].state # "done" => k \in thread[Closer].waiting
ChatInv == Inductive /\ ChatTypes /\ Locked /\ Pooled /\ PersistedFirst /\ Tracked
             /\ Draining /\ CloseDrains
ChatRest == ChatTypes /\ Locked /\ Pooled /\ PersistedFirst /\ Tracked /\ Draining /\ CloseDrains
Kept == /\ TypeOK /\ now \in Nat /\ now' \in Nat /\ now <= now'
        /\ \A e \in Events : Exists(e) => Exists(e)'

(* What a step of the inbox does not take back.                              *)
LEMMA InboxKeeps ==
  ASSUME Inductive, [Next]_inboxVars
  PROVE  Kept
<1>1. Inductive'
  BY NextInductive
<1>2. TypeOK /\ now \in Nat /\ now' \in Nat
  BY <1>1 DEF Inductive, TypeOK
<1>3. CASE Tick
  BY <1>2, <1>3 DEF Tick, Kept, Exists
<1>4. CASE UNCHANGED inboxVars
  BY <1>2, <1>4 DEF inboxVars, Kept, Exists
<1>5. ASSUME NEW e \in Events, EmitAny(e) PROVE Kept
  <2>1. PICK content \in Contents, max \in 1..MaxAttempts,
             start \in {now} \cup NotBefore : Emit(e, content, max, start)
    BY <1>5 DEF EmitAny
  <2> QED
    BY <1>2, <2>1 DEF Emit, NewRow, Inductive, TypeOK, Kept, Exists
<1>6. ASSUME NEW e \in Events, ClaimAny(e) PROVE Kept
  <2>1. PICK t \in 0..now : Claim(e, t)
    BY <1>6 DEF ClaimAny
  <2>2. now' = now /\ \A f \in Events \ {e} : row'[f] = row[f]
    BY <2>1 DEF Claim, ClaimTx, Inductive, TypeOK
  <2>3. row'[e].status \in {"pending", "claimed"}
    <3> DEFINE r == AfterLapse(row[e], t)
    <3>1. row[e] \in Row /\ row[e].status \in {"pending", "claimed"}
      BY <2>1 DEF Claim, Granted, Free, Lapsed, AfterLapse, Inductive, TypeOK, Row, Absent
    <3>2. r \in Row /\ r.status \in {"pending", "claimed"}
      BY <3>1 DEF AfterLapse, Row, NoClaim
    <3>3. row'[e] = IF Free(r, t) THEN Taken(r, issued[e] + 1, t) ELSE r
      BY <2>1 DEF Claim, ClaimTx, Inductive, TypeOK
    <3>4. Taken(r, issued[e] + 1, t).status = "claimed"
      BY <3>2 DEF Taken, Row
    <3> QED
      BY <3>2, <3>3, <3>4
  <2> QED
    BY <1>2, <2>2, <2>3 DEF Kept, Exists
<1>7. ASSUME NEW e \in Events, CompleteAny(e) PROVE Kept
  <2>1. PICK c \in 1..issued[e], result \in Terminal \cup {"retryable"},
             t \in 0..now : Complete(e, c, result, t)
    BY <1>7 DEF CompleteAny
  <2>2. now' = now /\ \A f \in Events \ {e} : row'[f] = row[f]
    BY <2>1 DEF Complete, Inductive, TypeOK
  <2>3. row[e] \in Row
    BY <2>1 DEF Complete, Owns, Inductive, TypeOK, Absent
  <2>4. row'[e] = Completed(row[e], result, t)
    BY <2>1 DEF Complete, Inductive, TypeOK
  <2>5. row'[e].status # "absent"
    BY <2>3, <2>4 DEF Completed, Row, Terminal
  <2> QED
    BY <1>2, <2>2, <2>5 DEF Kept, Exists
<1> QED
  BY <1>3, <1>4, <1>5, <1>6, <1>7 DEF Next

(* ClaimTx is a claim or writes nothing.                                     *)
LEMMA ClaimTxIsStep ==
  ASSUME Inductive, NEW e \in Events, NEW t \in 0..now, ClaimTx(e, t)
  PROVE  [Next]_inboxVars
<1>1. CASE Granted(e, t) \/ Lapsed(row[e], t)
  BY <1>1 DEF Next, ClaimAny, Claim
<1>2. CASE ~Granted(e, t) /\ ~Lapsed(row[e], t)
  <2>1. row' = row
    BY <1>2 DEF ClaimTx, Granted, AfterLapse, Inductive, TypeOK
  <2>2. issued' = issued
    BY <1>2 DEF ClaimTx, Inductive, TypeOK
  <2> QED
    BY <2>1, <2>2 DEF ClaimTx, inboxVars
<1> QED
  BY <1>1, <1>2

(* Every step of the adapter is one of the inbox, or leaves it alone.        *)
LEMMA ChatStepIsInboxStep ==
  ASSUME ChatInv, [ChatNext]_chatVars
  PROVE  [Next]_inboxVars
<1>1. CASE UNCHANGED chatVars
  BY <1>1 DEF chatVars, inboxVars
<1>2. ASSUME NEW c \in Callers, NEW e \in Events, Persist(c, e)
      PROVE  [Next]_inboxVars
  BY <1>2 DEF Persist, Next, EmitAny
<1>3. ASSUME NEW c \in Callers,
             Refuse(c) \/ Submit(c) \/ Track(c) \/ Hook(c) \/ \E b \in BOOLEAN : EnterCall(c, b)
      PROVE  [Next]_inboxVars
  BY <1>3 DEF Refuse, Submit, Track, Hook, EnterCall, inboxVars
<1>4. ASSUME NEW w \in Pool,
             \/ \E k \in 1..Len(future) : Take(w, k)
             \/ \E result \in {"success", "retryable"} : Handle(w, result)
             \/ Finish(w) \/ Forget(w)
      PROVE  [Next]_inboxVars
  BY <1>4 DEF Take, Handle, Finish, Forget, inboxVars
<1>5. ASSUME NEW w \in Pool, ClaimJob(w) PROVE [Next]_inboxVars
  <2>1. thread[w].event \in Events
    <3>1. /\ thread[w].future \in 1..Len(future)
          /\ thread[w].event = future[thread[w].future].event
      BY <1>5 DEF ClaimJob, At, ChatInv, Pooled, Working
    <3>2. future[thread[w].future] \in FutureRecord
      BY <3>1 DEF ChatInv, ChatTypes
    <3> QED
      BY <3>1, <3>2 DEF FutureRecord
  <2>2. now \in 0..now
    BY DEF ChatInv, Inductive, TypeOK
  <2> QED
    BY <1>5, <2>1, <2>2, ClaimTxIsStep DEF ClaimJob, ChatInv
<1>6. ASSUME NEW w \in Pool, Report(w) PROVE [Next]_inboxVars
  <2> DEFINE r == thread[w]
  <2>1. CASE ~Owns(r.event, r.claim)
    BY <1>6, <2>1 DEF Report, inboxVars
  <2>2. CASE Owns(r.event, r.claim)
    <3>1. /\ r.future \in 1..Len(future) /\ r.event = future[r.future].event
          /\ r.started <= now /\ r.result # "none" /\ r \in ThreadRecord
      BY <1>6 DEF Report, At, ChatInv, Pooled, Working, ChatTypes, Threads
    <3>2. future[r.future] \in FutureRecord
      BY <3>1 DEF ChatInv, ChatTypes
    <3>3. r.event \in Events /\ r.started \in 0..now
          /\ r.result \in Terminal \cup {"retryable"}
      BY <3>1, <3>2 DEF FutureRecord, ThreadRecord, Terminal, ChatInv, Inductive, TypeOK
    <3>4. r.claim \in 1..issued[r.event]
      BY <2>2, <3>1, <3>3 DEF Owns, ChatInv, Inductive, OneOwner, TypeOK, ThreadRecord
    <3>5. Complete(r.event, r.claim, r.result, r.started)
      BY <1>6, <2>2 DEF Report
    <3>6. CompleteAny(r.event)
      BY <3>3, <3>4, <3>5 DEF CompleteAny
    <3> QED
      BY <3>3, <3>6 DEF Next
  <2> QED
    BY <2>1, <2>2
<1>7. CASE Close \/ CloseReturns
  BY <1>7 DEF Close, CloseReturns, inboxVars
<1>8. CASE ChatTick
  BY <1>8 DEF ChatTick, Next
<1> QED
  BY <1>1, <1>2, <1>3, <1>4, <1>5, <1>6, <1>7, <1>8 DEF ChatNext, InCall, PoolStep

(* The same futures are persisted, and held by the same pool threads.        *)
LEMMA PersistedSame ==
  ASSUME ChatRest, Kept,
         \A k \in 1..Len(future') : k \in 1..Len(future) /\ future'[k].event = future[k].event
  PROVE  PersistedFirst'
<1> SUFFICES ASSUME NEW k \in 1..Len(future') PROVE Exists(future[k].event)'
  BY DEF PersistedFirst
<1>1. k \in 1..Len(future) /\ future[k] \in FutureRecord /\ Exists(future[k].event)
  BY DEF ChatRest, ChatTypes, PersistedFirst
<1>2. future[k].event \in Events
  BY <1>1 DEF FutureRecord
<1> QED
  BY <1>1, <1>2 DEF Kept, Exists

(* The pool keeps its futures while neither of the two moves.               *)
LEMMA PooledSame ==
  ASSUME ChatRest, Kept, future' = future, \A w \in Pool : thread'[w] = thread[w]
  PROVE  Pooled'
<1>1. \A w \in Pool : thread[w].started \in Nat
  BY DEF ChatRest, ChatTypes, ThreadRecord, Threads
<1>2. \A w \in Pool : thread[w].started <= now /\ now <= now' /\ now \in Nat /\ now' \in Nat
  BY DEF ChatRest, Pooled, Kept
<1>3. \A w \in Pool : thread'[w].started <= now'
  BY <1>1, <1>2
<1> QED
  BY <1>3 DEF ChatRest, Pooled, At

(* A caller takes the lock.                                                  *)
LEMMA EnterKeeps ==
  ASSUME ChatRest, Kept, NEW c \in Callers, NEW b \in BOOLEAN, EnterCall(c, b)
  PROVE  ChatRest'
<1> DEFINE new == [Idle EXCEPT !.pc = "emit", !.background = b]
<1>1. new \in ThreadRecord
  BY DEF Idle, ThreadRecord, InSection, Working, NoClaim
<1>2. /\ thread' = [thread EXCEPT ![c] = new] /\ adapter' = [adapter EXCEPT !.lock = c]
      /\ future' = future /\ At(c, "idle") /\ adapter.lock = Nobody
  BY DEF EnterCall
<1>3. /\ thread'[c] = new /\ new.pc = "emit"
      /\ \A x \in Threads \ {c} : thread'[x] = thread[x]
  BY <1>2 DEF ChatRest, ChatTypes, Idle, Threads
<1>4. /\ adapter'.lock = c /\ adapter'.closed = adapter.closed
      /\ adapter'.futures = adapter.futures
  BY <1>2 DEF ChatRest, ChatTypes
<1> HIDE DEF new
<1>5. c \in Threads /\ Pool \subseteq Threads /\ Callers \subseteq Threads
      /\ Closer \in Threads /\ c \notin Pool /\ c # Closer /\ Nobody \notin Callers
  BY ChatAssumption DEF Threads
<1>6. ChatTypes'
  BY <1>1, <1>2, <1>5 DEF ChatRest, ChatTypes
<1>7. Locked'
  <2> SUFFICES ASSUME NEW d \in Callers
               PROVE  /\ thread'[d].pc \in InSection \cup {"idle"}
                      /\ thread'[d].pc \in InSection <=> adapter'.lock = d
                      /\ d # c => thread'[d].pc \notin InSection
    BY <1>2, <1>3, <1>4 DEF Locked, At, InSection, Holding
  <2> QED
    BY <1>2, <1>3, <1>4, <1>5 DEF ChatRest, Locked, InSection
<1>8. Pooled'
  BY <1>2, <1>3, <1>5, PooledSame
<1>9. PersistedFirst'
  BY <1>2, PersistedSame
<1>10. Tracked'
  BY <1>2, <1>3, <1>4, <1>5 DEF ChatRest, Tracked, HeldByCaller, Awaited, At, Holding
<1>11. Draining' /\ CloseDrains'
  BY <1>2, <1>3, <1>4, <1>5 DEF ChatRest, Draining, CloseDrains, At, Holding
<1> QED
  BY <1>6, <1>7, <1>8, <1>9, <1>10, <1>11 DEF ChatRest

(* A caller that has submitted nothing gives the lock back.                  *)
LEMMA LeaveKeeps ==
  ASSUME ChatRest, Kept, NEW c \in Callers, At(c, "emit"), Leave(c), future' = future
  PROVE  ChatRest'
<1>1. Idle \in ThreadRecord /\ Idle.pc = "idle"
  BY DEF Idle, ThreadRecord, InSection, Working, NoClaim
<1>2. /\ thread' = [thread EXCEPT ![c] = Idle] /\ adapter' = [adapter EXCEPT !.lock = Nobody]
  BY DEF Leave
<1>3. /\ thread'[c] = Idle
      /\ \A x \in Threads \ {c} : thread'[x] = thread[x]
  BY <1>2 DEF ChatRest, ChatTypes, Threads
<1>4. /\ adapter'.lock = Nobody /\ adapter'.closed = adapter.closed
      /\ adapter'.futures = adapter.futures
  BY <1>2 DEF ChatRest, ChatTypes
<1>5. c \in Threads /\ Pool \subseteq Threads /\ Callers \subseteq Threads
      /\ Closer \in Threads /\ c \notin Pool /\ c # Closer /\ Nobody \notin Callers
  BY ChatAssumption DEF Threads
<1>6. ChatTypes'
  BY <1>1, <1>2, <1>5 DEF ChatRest, ChatTypes
<1>7. Locked'
  BY <1>1, <1>3, <1>4, <1>5 DEF ChatRest, Locked, Kept, At, InSection, Holding
<1>8. Pooled'
  BY <1>3, <1>5, PooledSame
<1>9. PersistedFirst'
  BY PersistedSame
<1>10. Tracked'
  BY <1>1, <1>3, <1>4, <1>5 DEF ChatRest, Tracked, HeldByCaller, Awaited, At, Holding
<1>11. Draining' /\ CloseDrains'
  BY <1>1, <1>3, <1>4, <1>5 DEF ChatRest, Draining, CloseDrains, At, Holding
<1> QED
  BY <1>6, <1>7, <1>8, <1>9, <1>10, <1>11 DEF ChatRest

(* Its next steps, up to the callback: only the lock holder moves.           *)
LEMMA PersistKeeps ==
  ASSUME ChatRest, Kept, NEW c \in Callers, NEW e \in Events, Persist(c, e)
  PROVE  ChatRest'
<1>1. CASE ~thread[c].background
  BY <1>1, LeaveKeeps DEF Persist
<1>2. CASE thread[c].background
  <2>0. c \in Threads /\ Pool \subseteq Threads /\ Callers \subseteq Threads
        /\ Closer \in Threads /\ c \notin Pool /\ c # Closer /\ Nobody \notin Callers
    BY ChatAssumption DEF Threads
  <2> DEFINE new == [thread[c] EXCEPT !.pc = "submit", !.event = e]
  <2>1. thread[c] \in ThreadRecord
    BY <2>0 DEF ChatRest, ChatTypes
  <2>2. new \in ThreadRecord /\ new.pc = "submit" /\ new.event = e
    BY <2>1 DEF ThreadRecord, InSection
  <2>3. thread' = [thread EXCEPT ![c] = new] /\ adapter' = adapter /\ future' = future
        /\ At(c, "emit") /\ ~adapter.closed
    BY <1>2 DEF Persist
  <2>4. thread'[c] = new /\ \A x \in Threads \ {c} : thread'[x] = thread[x]
    BY <2>0, <2>3 DEF ChatRest, ChatTypes
  <2>5. Exists(e)'
    <3>1. ASSUME NEW content \in Contents, NEW max \in 1..MaxAttempts, Emit(e, content, max, now)
          PROVE  row'[e].status = "pending"
      BY <3>1 DEF Emit, NewRow, Kept, TypeOK
    <3>2. CASE Exists(e) /\ UNCHANGED inboxVars
      BY <3>2 DEF inboxVars, Exists
    <3> QED
      BY <3>1, <3>2 DEF Persist, Exists
  <2> HIDE DEF new
  <2>6. ChatTypes'
    BY <2>0, <2>2, <2>3 DEF ChatRest, ChatTypes
  <2>7. Locked'
    <3>1. \A d \in Callers : At(d, "submit") => row'[thread[d].event].status # "absent"
      BY DEF ChatRest, Locked, Kept, Exists
    <3> SUFFICES ASSUME NEW d \in Callers
                 PROVE  /\ thread'[d].pc \in InSection \cup {"idle"}
                        /\ thread'[d].pc \in InSection <=> adapter'.lock = d
                        /\ d # c => thread'[d].pc \notin InSection
      BY <2>2, <2>3, <2>4, <2>5, <3>1 DEF Locked, At, InSection, Holding, Exists
    <3> QED
      BY <2>0, <2>2, <2>3, <2>4 DEF ChatRest, Locked, InSection, At
  <2>8. Pooled'
    BY <2>0, <2>3, <2>4, PooledSame
  <2>9. PersistedFirst'
    BY <2>3, PersistedSame
  <2>10. Tracked'
    BY <2>0, <2>2, <2>3, <2>4 DEF ChatRest, Tracked, HeldByCaller, Awaited, At, Holding
  <2>11. Draining' /\ CloseDrains'
    BY <2>0, <2>2, <2>3, <2>4 DEF ChatRest, Draining, CloseDrains, At, Holding
  <2> QED
    BY <2>6, <2>7, <2>8, <2>9, <2>10, <2>11 DEF ChatRest
<1> QED
  BY <1>1, <1>2

(* ensure_claim, holding the lock, hands a new future to the pool.          *)
LEMMA SubmitKeeps ==
  ASSUME ChatRest, Kept, NEW c \in Callers, Submit(c)
  PROVE  ChatRest'
<1>0. c \in Threads /\ Pool \subseteq Threads /\ Callers \subseteq Threads
      /\ Closer \in Threads /\ c \notin Pool /\ c # Closer /\ Nobody \notin Callers
  BY ChatAssumption DEF Threads
<1> PICK n : n = Len(future) + 1
  OBVIOUS
<1> DEFINE record == [event |-> thread[c].event, state |-> "queued", hooked |-> FALSE]
           new == [thread[c] EXCEPT !.pc = "track", !.future = n]
<1>1. /\ thread[c] \in ThreadRecord /\ n \in Nat /\ thread[c].event \in Events
      /\ Exists(thread[c].event) /\ future \in Seq(FutureRecord)
  BY <1>0 DEF ChatRest, ChatTypes, Locked, Submit
<1>2. new \in ThreadRecord /\ new.pc = "track" /\ new.future = n
  BY <1>1 DEF ThreadRecord, InSection
<1>3. record \in FutureRecord /\ record.event = thread[c].event /\ record.state = "queued"
      /\ ~record.hooked
  BY <1>1 DEF FutureRecord
<1>4. thread' = [thread EXCEPT ![c] = new] /\ adapter' = adapter
      /\ future' = Append(future, record) /\ At(c, "submit")
  BY DEF Submit
<1>5. thread'[c] = new /\ \A x \in Threads \ {c} : thread'[x] = thread[x]
  BY <1>0, <1>4 DEF ChatRest, ChatTypes
<1> HIDE DEF new, record
<1>6. /\ future' \in Seq(FutureRecord) /\ Len(future') = n /\ Len(future) = n - 1
      /\ future'[n] = record /\ \A k \in 1..Len(future) : k # n /\ future'[k] = future[k]
  BY <1>1, <1>3, <1>4, AppendProperties
<1>7. 1..Len(future') = 1..Len(future) \cup {n} /\ n \notin 1..Len(future)
  BY <1>1, <1>6
<1>8. ChatTypes'
  BY <1>0, <1>2, <1>4, <1>6 DEF ChatRest, ChatTypes
<1>9. adapter.lock = c /\ \A d \in Callers \ {c} : thread[d].pc = "idle"
  BY <1>4 DEF ChatRest, Locked, At, InSection
<1>10. Locked'
  <2>1. n \notin adapter.futures
    BY <1>7 DEF ChatRest, Tracked
  <2>2. \A d \in Callers \ {c} : thread'[d].pc = "idle" /\ adapter'.lock # d
    BY <1>0, <1>4, <1>5, <1>9
  <2> QED
    BY <1>2, <1>3, <1>4, <1>5, <1>6, <1>7, <1>9, <2>1, <2>2
       DEF Locked, At, InSection, Holding
<1>11. Pooled'
  <2>1. \A w \in Pool : thread[w].started <= now'
    <3> SUFFICES ASSUME NEW w \in Pool PROVE thread[w].started <= now'
      OBVIOUS
    <3>1. thread[w].started \in Nat /\ thread[w].started <= now
      BY <1>0 DEF ChatRest, ChatTypes, ThreadRecord, Pooled
    <3> QED
      BY <3>1 DEF Kept
  <2>2. \A w \in Pool : thread'[w] = thread[w]
    BY <1>0, <1>5
  <2> QED
    BY <1>6, <1>7, <2>1, <2>2 DEF ChatRest, Pooled, At, Working
<1>12. PersistedFirst'
  <2> SUFFICES ASSUME NEW k \in 1..Len(future') PROVE Exists(future[k].event)'
    BY DEF PersistedFirst
  <2>1. CASE k = n
    BY <1>1, <1>3, <1>6, <2>1 DEF Kept, Exists
  <2>2. CASE k # n
    <3>1. k \in 1..Len(future) /\ future[k] \in FutureRecord /\ Exists(future[k].event)
      BY <1>1, <1>7, <2>2 DEF ChatRest, PersistedFirst
    <3> QED
      BY <1>6, <3>1 DEF FutureRecord, Kept, Exists
  <2> QED
    BY <2>1, <2>2
<1>13. Tracked'
  <2>1. HeldByCaller(n)'
    BY <1>2, <1>5 DEF HeldByCaller, Holding
  <2>2. ASSUME NEW k \in 1..Len(future)
        PROVE  /\ ~HeldByCaller(k)
               /\ Awaited(k)' <=> Awaited(k)
    BY <1>0, <1>4, <1>5, <1>6, <1>9 DEF HeldByCaller, Holding, At, Awaited
  <2> QED
    BY <1>4, <1>6, <1>7, <2>1, <2>2 DEF ChatRest, Tracked
<1>14. Draining' /\ CloseDrains'
  <2>1. ~adapter.closed /\ At(Closer, "idle")
    BY <1>4 DEF ChatRest, Draining, At
  <2> QED
    BY <1>0, <1>4, <1>5, <2>1 DEF ChatRest, Draining, CloseDrains, At
<1> QED
  BY <1>8, <1>10, <1>11, <1>12, <1>13, <1>14 DEF ChatRest

(* The caller adds the future it has submitted to _futures.                 *)
LEMMA TrackKeeps ==
  ASSUME ChatRest, Kept, NEW c \in Callers, Track(c)
  PROVE  ChatRest'
<1>0. c \in Threads /\ Pool \subseteq Threads /\ Callers \subseteq Threads
      /\ Closer \in Threads /\ c \notin Pool /\ c # Closer /\ Nobody \notin Callers
  BY ChatAssumption DEF Threads
<1> DEFINE new == [thread[c] EXCEPT !.pc = "hook"]
<1>1. thread[c] \in ThreadRecord
  BY <1>0 DEF ChatRest, ChatTypes
<1>2. new \in ThreadRecord /\ new.pc = "hook" /\ new.future = thread[c].future
  BY <1>1 DEF ThreadRecord, InSection
<1>3. /\ thread' = [thread EXCEPT ![c] = new] /\ future' = future /\ At(c, "track")
      /\ adapter' = [adapter EXCEPT !.futures = @ \cup {thread[c].future}]
  BY DEF Track, Move
<1>4. thread'[c] = new /\ \A x \in Threads \ {c} : thread'[x] = thread[x]
  BY <1>0, <1>3 DEF ChatRest, ChatTypes
<1>5. /\ adapter'.lock = adapter.lock /\ adapter'.closed = adapter.closed
      /\ adapter'.futures = adapter.futures \cup {thread[c].future}
      /\ thread[c].future \in Nat
  BY <1>1, <1>3 DEF ChatRest, ChatTypes, ThreadRecord
<1> HIDE DEF new
<1>6. ChatTypes'
  BY <1>0, <1>2, <1>3, <1>5 DEF ChatRest, ChatTypes
<1>7. /\ adapter.lock = c /\ \A d \in Callers \ {c} : thread[d].pc = "idle"
      /\ thread[c].future \in 1..Len(future) /\ ~future[thread[c].future].hooked
  BY <1>3 DEF ChatRest, Locked, At, InSection, Holding
<1>8. Locked'
  <2>1. \A d \in Callers \ {c} : thread'[d].pc = "idle" /\ adapter'.lock # d
    BY <1>0, <1>4, <1>5, <1>7
  <2> QED
    BY <1>2, <1>3, <1>4, <1>5, <1>7, <2>1 DEF Locked, At, InSection, Holding
<1>9. Pooled' /\ PersistedFirst'
  BY <1>0, <1>3, <1>4, PooledSame, PersistedSame
<1>10. Tracked'
  <2>1. ASSUME NEW k \in 1..Len(future), ~HeldByCaller(k)'
        PROVE  /\ ~HeldByCaller(k) /\ k # thread[c].future
               /\ Awaited(k)' <=> Awaited(k)
    BY <1>0, <1>2, <1>3, <1>4, <1>7, <2>1 DEF HeldByCaller, Holding, At, Awaited
  <2> QED
    BY <1>3, <1>5, <1>7, <2>1 DEF ChatRest, Tracked
<1>11. Draining' /\ CloseDrains'
  BY <1>0, <1>2, <1>3, <1>4, <1>5 DEF ChatRest, Draining, CloseDrains, At, Holding
<1> QED
  BY <1>6, <1>8, <1>9, <1>10, <1>11 DEF ChatRest

(* add_done_callback: of a future that is done, the caller stays in the      *)
(* section for good; any other is hooked, and then Tracked in the full sense.*)
LEMMA HookKeeps ==
  ASSUME ChatRest, Kept, NEW c \in Callers, Hook(c)
  PROVE  ChatRest'
<1>0. c \in Threads /\ Pool \subseteq Threads /\ Callers \subseteq Threads
      /\ Closer \in Threads /\ c \notin Pool /\ c # Closer /\ Nobody \notin Callers
  BY ChatAssumption DEF Threads
<1> PICK f : f = thread[c].future
  OBVIOUS
<1>1. /\ thread[c] \in ThreadRecord /\ At(c, "hook") /\ f \in 1..Len(future)
      /\ future \in Seq(FutureRecord) /\ future[f] \in FutureRecord
      /\ ~future[f].hooked /\ f \in adapter.futures
      /\ adapter.lock = c /\ \A d \in Callers \ {c} : thread[d].pc = "idle"
  BY <1>0 DEF ChatRest, ChatTypes, Locked, Hook, At, InSection, Holding
<1>2. CASE future[f].state = "done"
  <2> DEFINE new == [thread[c] EXCEPT !.pc = "forget"]
  <2>1. new \in ThreadRecord /\ new.pc = "forget" /\ new.future = f
    BY <1>1 DEF ThreadRecord, InSection
  <2>2. thread' = [thread EXCEPT ![c] = new] /\ future' = future /\ adapter' = adapter
    BY <1>2 DEF Hook, Move
  <2>3. thread'[c] = new /\ \A x \in Threads \ {c} : thread'[x] = thread[x]
    BY <1>0, <2>2 DEF ChatRest, ChatTypes
  <2> HIDE DEF new
  <2>4. ChatTypes'
    BY <1>0, <2>1, <2>2 DEF ChatRest, ChatTypes
  <2>5. Locked'
    <3>1. \A d \in Callers \ {c} : thread'[d].pc = "idle" /\ adapter'.lock # d
      BY <1>0, <1>1, <2>2, <2>3
    <3> QED
      BY <1>1, <2>1, <2>2, <2>3, <3>1 DEF Locked, At, InSection, Holding
  <2>6. Pooled' /\ PersistedFirst'
    BY <1>0, <2>2, <2>3, PooledSame, PersistedSame
  <2>7. Tracked'
    <3>1. ASSUME NEW k \in 1..Len(future)
          PROVE  /\ HeldByCaller(k)' <=> HeldByCaller(k)
                 /\ Awaited(k)' <=> Awaited(k)
      BY <1>0, <1>1, <2>1, <2>2, <2>3 DEF HeldByCaller, Holding, At, Awaited
    <3> QED
      BY <2>2, <3>1 DEF ChatRest, Tracked
  <2>8. Draining' /\ CloseDrains'
    BY <1>0, <1>1, <2>1, <2>2, <2>3 DEF ChatRest, Draining, CloseDrains, At, Holding
  <2> QED
    BY <2>4, <2>5, <2>6, <2>7, <2>8 DEF ChatRest
<1>3. CASE future[f].state # "done"
  <2> PICK record : record = [future[f] EXCEPT !.hooked = TRUE]
    OBVIOUS
  <2>1. record \in FutureRecord /\ record.event = future[f].event
        /\ record.state = future[f].state /\ record.hooked
    BY <1>1 DEF FutureRecord
  <2>2. /\ future' = [future EXCEPT ![f] = record]
        /\ thread' = [thread EXCEPT ![c] = Idle]
        /\ adapter' = [adapter EXCEPT !.lock = Nobody]
    BY <1>1, <1>3 DEF Hook, Leave
  <2>3. /\ future' \in Seq(FutureRecord) /\ Len(future') = Len(future)
        /\ future'[f] = record /\ \A k \in 1..Len(future) \ {f} : future'[k] = future[k]
    <3>1. /\ [future EXCEPT ![f] = record] \in Seq(FutureRecord)
          /\ Len([future EXCEPT ![f] = record]) = Len(future)
          /\ \A k \in 1..Len(future) :
               [future EXCEPT ![f] = record][k] = IF k = f THEN record ELSE future[k]
      BY <1>1, <2>1, ExceptSeq
    <3> QED
      BY <1>1, <2>2, <3>1
  <2>4. thread'[c] = Idle /\ \A x \in Threads \ {c} : thread'[x] = thread[x]
    BY <1>0, <2>2 DEF ChatRest, ChatTypes
  <2>5. Idle \in ThreadRecord /\ Idle.pc = "idle"
    BY DEF Idle, ThreadRecord, InSection, Working, NoClaim
  <2>6. /\ adapter'.lock = Nobody /\ adapter'.closed = adapter.closed
        /\ adapter'.futures = adapter.futures
    BY <2>2 DEF ChatRest, ChatTypes
  <2>7. ChatTypes'
    BY <1>0, <2>2, <2>3, <2>5, <2>6 DEF ChatRest, ChatTypes
  <2>8. Locked'
    <3>1. \A d \in Callers : thread'[d].pc = "idle" /\ adapter'.lock # d
      BY <1>0, <1>1, <2>4, <2>5, <2>6
    <3> QED
      BY <3>1 DEF Locked, At, InSection, Holding
  <2>9. Pooled'
    <3>1. \A w \in Pool : thread'[w] = thread[w]
      BY <1>0, <2>4
    <3>2. \A k \in 1..Len(future) : /\ future'[k].state = future[k].state
                                    /\ future'[k].event = future[k].event
                                    /\ future[k].hooked => future'[k].hooked
      BY <2>1, <2>3
    <3>3. \A w \in Pool : thread[w].started <= now'
      <4> SUFFICES ASSUME NEW w \in Pool PROVE thread[w].started <= now'
        OBVIOUS
      <4>1. thread[w].started \in Nat /\ thread[w].started <= now
        BY <1>0 DEF ChatRest, ChatTypes, ThreadRecord, Pooled
      <4> QED
        BY <4>1 DEF Kept
    <3> QED
      BY <2>3, <3>1, <3>2, <3>3 DEF ChatRest, Pooled, At, Working
  <2>10. PersistedFirst'
    BY <2>1, <2>3, PersistedSame
  <2>11. Tracked'
    <3>1. ASSUME NEW k \in 1..Len(future)
          PROVE  /\ k # f => ~HeldByCaller(k)
                 /\ k # f => future'[k] = future[k]
      BY <1>0, <1>1, <2>3 DEF HeldByCaller, Holding, At
    <3>2. ASSUME NEW k \in 1..Len(future)
          PROVE  Awaited(k)' <=> Awaited(k)
      <4>1. future'[k].state = future[k].state
        BY <2>1, <2>3
      <4>2. \A w \in Pool : thread'[w] = thread[w]
        BY <1>0, <2>4
      <4> QED
        BY <4>1, <4>2 DEF Awaited, At
    <3>3. Awaited(f)
      BY <1>3 DEF Awaited
    <3>4. adapter.futures \subseteq 1..Len(future)
      BY DEF ChatRest, Tracked
    <3> SUFFICES ASSUME NEW k \in 1..Len(future)
                 PROVE  /\ k \in adapter.futures <=> Awaited(k)'
                        /\ future'[k].state # "done" => future'[k].hooked
      BY <2>3, <2>6, <3>4 DEF Tracked
    <3>5. CASE k = f
      BY <1>1, <2>1, <2>3, <3>2, <3>3, <3>5
    <3>6. CASE k # f
      BY <3>1, <3>2, <3>6 DEF ChatRest, Tracked
    <3> QED
      BY <3>5, <3>6
  <2>12. Draining' /\ CloseDrains'
    <3>1. \A k \in 1..Len(future) : future'[k].state = future[k].state
      BY <2>1, <2>3
    <3> QED
      BY <1>0, <2>3, <2>4, <2>5, <2>6, <3>1 DEF ChatRest, Draining, CloseDrains, At, Holding
  <2> QED
    BY <2>7, <2>8, <2>9, <2>10, <2>11, <2>12 DEF ChatRest
<1> QED
  BY <1>2, <1>3

(* A pool thread goes on with the future it has.                             *)
LEMMA WorkKeeps ==
  ASSUME ChatRest, Kept, NEW w \in Pool, thread[w].pc \in Working,
         NEW new \in ThreadRecord, new.pc \in Working, new.future = thread[w].future,
         new.event = thread[w].event, new.started <= now',
         new.pc = "report" => new.result # "none",
         thread' = [thread EXCEPT ![w] = new], UNCHANGED <<adapter, future>>
  PROVE  ChatRest'
<1>0. w \in Threads /\ Pool \subseteq Threads /\ Callers \subseteq Threads
      /\ Closer \in Threads /\ w \notin Callers /\ w # Closer
  BY ChatAssumption DEF Threads
<1>1. thread'[w] = new /\ \A x \in Threads \ {w} : thread'[x] = thread[x]
  BY <1>0 DEF ChatRest, ChatTypes
<1>2. ChatTypes'
  BY <1>0 DEF ChatRest, ChatTypes
<1>3. \A c \in Callers : thread'[c] = thread[c]
  BY <1>0, <1>1
<1>4. Locked'
  <2>1. \A c \in Callers : At(c, "submit") => row'[thread[c].event].status # "absent"
    BY DEF ChatRest, Locked, Kept, Exists
  <2> QED
    BY <1>3, <2>1 DEF ChatRest, Locked, Exists, At
<1>5. Pooled'
  <2>1. \A v \in Pool : thread'[v].started <= now'
    <3> SUFFICES ASSUME NEW v \in Pool PROVE thread'[v].started <= now'
      OBVIOUS
    <3>1. thread[v].started \in Nat /\ thread[v].started <= now
      BY <1>0 DEF ChatRest, ChatTypes, ThreadRecord, Pooled
    <3> QED
      BY <1>0, <1>1, <3>1 DEF Kept
  <2>2. new.pc # "idle" /\ new.pc # "forget" /\ ~At(w, "idle")
    BY DEF Working, At
  <2> SUFFICES ASSUME NEW v \in Pool
               PROVE  /\ thread'[v].pc \in Working \cup {"idle", "forget"}
                      /\ thread'[v].pc # "idle" =>
                           /\ thread'[v].future \in 1..Len(future)
                           /\ \A u \in Pool \ {v} : thread'[u].pc # "idle"
                                => thread'[u].future # thread'[v].future
                      /\ thread'[v].pc \in Working =>
                           /\ future[thread'[v].future].state = "running"
                           /\ thread'[v].event = future[thread'[v].future].event
                      /\ thread'[v].pc = "forget" => /\ future[thread'[v].future].state = "done"
                                                     /\ future[thread'[v].future].hooked
                      /\ thread'[v].pc = "report" => thread'[v].result # "none"
    BY <2>1 DEF Pooled, At
  <2>3. \A u \in Pool : /\ thread'[u].future = thread[u].future
                        /\ thread'[u].pc = "idle" <=> thread[u].pc = "idle"
    BY <1>0, <1>1, <2>2 DEF At
  <2>4. thread[v].pc # "idle" => /\ thread[v].future \in 1..Len(future)
                                 /\ \A u \in Pool \ {v} : thread[u].pc # "idle"
                                      => thread[u].future # thread[v].future
    BY DEF ChatRest, Pooled, At
  <2>5. CASE v = w
    BY <1>1, <2>2, <2>3, <2>4, <2>5 DEF ChatRest, Pooled, At
  <2>6. CASE v # w
    BY <1>0, <1>1, <2>3, <2>4, <2>6 DEF ChatRest, Pooled, At
  <2> QED
    BY <2>5, <2>6
<1>6. PersistedFirst'
  BY PersistedSame
<1>7. Tracked'
  <2>1. \A v \in Pool : At(v, "forget")' => At(v, "forget") /\ thread'[v] = thread[v]
    BY <1>0, <1>1 DEF At, Working
  <2>2. \A v \in Pool : At(v, "forget") => At(v, "forget")' /\ thread'[v] = thread[v]
    BY <1>0, <1>1 DEF At, Working
  <2>3. ASSUME NEW k \in 1..Len(future)
        PROVE  (HeldByCaller(k)' <=> HeldByCaller(k)) /\ (Awaited(k)' <=> Awaited(k))
    BY <1>3, <2>1, <2>2 DEF HeldByCaller, Awaited, At
  <2> QED
    BY <2>3 DEF ChatRest, Tracked
<1>8. Draining' /\ CloseDrains'
  BY <1>0, <1>1, <1>3 DEF ChatRest, Draining, CloseDrains, At
<1> QED
  BY <1>2, <1>4, <1>5, <1>6, <1>7, <1>8 DEF ChatRest

(* A pool thread claims the event of its future.                            *)
LEMMA ClaimJobKeeps ==
  ASSUME ChatRest, Kept, TypeOK', NEW w \in Pool, ClaimJob(w)
  PROVE  ChatRest'
<1>1. /\ At(w, "claim") /\ thread[w] \in ThreadRecord /\ w \in Threads
      /\ thread[w].event = future[thread[w].future].event
      /\ thread[w].future \in 1..Len(future)
  BY DEF ClaimJob, ChatRest, ChatTypes, Threads, Pooled, At, Working
<1>2. thread[w].event \in Events
  <2>1. future[thread[w].future] \in FutureRecord
    BY <1>1 DEF ChatRest, ChatTypes
  <2> QED
    BY <1>1, <2>1 DEF FutureRecord
<1>3. issued'[thread[w].event] \in Nat
  BY <1>2 DEF TypeOK
<1> PICK pc \in {"run", "finish"} :
      pc = IF Granted(thread[w].event, now) THEN "run" ELSE "finish"
  OBVIOUS
<1> PICK new : new = [thread[w] EXCEPT !.pc = pc, !.claim = issued'[thread[w].event],
                                       !.started = now]
  OBVIOUS
<1>4. /\ new \in ThreadRecord /\ new.pc \in Working /\ new.future = thread[w].future
      /\ new.event = thread[w].event /\ new.started = now /\ new.pc # "report"
  BY <1>1, <1>3 DEF ThreadRecord, Working, Kept
<1>5. thread' = [thread EXCEPT ![w] = new]
  BY <1>1 DEF ClaimJob
<1>6. UNCHANGED <<adapter, future>> /\ thread[w].pc \in Working /\ new.started <= now'
  BY <1>1, <1>4 DEF ClaimJob, At, Working, Kept
<1> QED
  BY <1>4, <1>5, <1>6, WorkKeeps

(* A pool thread runs the handler.                                          *)
LEMMA HandleKeeps ==
  ASSUME ChatRest, Kept, NEW w \in Pool, NEW result \in {"success", "retryable"},
         Handle(w, result)
  PROVE  ChatRest'
<1>1. /\ At(w, "run") /\ thread[w] \in ThreadRecord /\ thread[w].started <= now
  BY DEF Handle, ChatRest, ChatTypes, Threads, Pooled
<1> PICK new : new = [thread[w] EXCEPT !.pc = "report", !.result = result]
  OBVIOUS
<1>2. /\ new \in ThreadRecord /\ new.pc = "report" /\ new.future = thread[w].future
      /\ new.event = thread[w].event /\ new.started = thread[w].started
      /\ new.result # "none" /\ thread[w].started \in Nat
  BY <1>1 DEF ThreadRecord, Working
<1>3. thread' = [thread EXCEPT ![w] = new] /\ UNCHANGED <<adapter, future>>
  BY DEF Handle
<1>4. thread[w].pc \in Working /\ new.pc \in Working /\ new.started <= now'
  BY <1>1, <1>2 DEF At, Working, Kept
<1> QED
  BY <1>2, <1>3, <1>4, WorkKeeps

(* A pool thread completes its claim, which may have been overtaken.        *)
LEMMA ReportKeeps ==
  ASSUME ChatRest, Kept, NEW w \in Pool, Report(w)
  PROVE  ChatRest'
<1>1. /\ At(w, "report") /\ thread[w] \in ThreadRecord /\ thread[w].started <= now
  BY DEF Report, ChatRest, ChatTypes, Threads, Pooled
<1> PICK new : new = [thread[w] EXCEPT !.pc = "finish"]
  OBVIOUS
<1>2. /\ new \in ThreadRecord /\ new.pc = "finish" /\ new.future = thread[w].future
      /\ new.event = thread[w].event /\ new.started = thread[w].started
      /\ thread[w].started \in Nat
  BY <1>1 DEF ThreadRecord, Working
<1>3. thread' = [thread EXCEPT ![w] = new] /\ UNCHANGED <<adapter, future>>
  BY DEF Report, Move
<1>4. thread[w].pc \in Working /\ new.pc \in Working /\ new.started <= now'
  BY <1>1, <1>2 DEF At, Working, Kept
<1> QED
  BY <1>2, <1>3, <1>4, WorkKeeps

(* What the started clock readings of the pool are bounded by.               *)
LEMMA StartedBefore ==
  ASSUME ChatRest, Kept, NEW w \in Pool
  PROVE  thread[w].started <= now'
<1>1. thread[w].started \in Nat /\ thread[w].started <= now
  BY DEF ChatRest, ChatTypes, ThreadRecord, Pooled, Threads
<1> QED
  BY <1>1 DEF Kept

(* The callers keep the lock's discipline while they do not move.           *)
LEMMA LockedSame ==
  ASSUME ChatRest, Kept, adapter' = adapter, Len(future') = Len(future),
         \A c \in Callers : thread'[c] = thread[c],
         \A j \in 1..Len(future) : future'[j].hooked = future[j].hooked
  PROVE  Locked'
<1> SUFFICES ASSUME NEW c \in Callers
             PROVE  /\ thread[c].pc \in InSection \cup {"idle"}
                    /\ thread[c].pc \in InSection <=> adapter.lock = c
                    /\ thread[c].pc = "submit" => /\ thread[c].event \in Events
                                                 /\ row'[thread[c].event].status # "absent"
                    /\ thread[c].pc \in Holding =>
                         /\ thread[c].future \in 1..Len(future)
                         /\ ~future[thread[c].future].hooked
                         /\ thread[c].future \in adapter.futures <=> thread[c].pc # "track"
  BY DEF Locked, At, Exists
<1> QED
  BY DEF ChatRest, Locked, At, Kept, Exists

(* One pool thread moves on, with a future nobody else has.                  *)
LEMMA PooledMoves ==
  ASSUME ChatRest, Kept, NEW w \in Pool, NEW k \in 1..Len(future),
         \A v \in Pool \ {w} : thread'[v] = thread[v],
         Len(future') = Len(future),
         \A j \in 1..Len(future) : j # k => future'[j] = future[j],
         \A v \in Pool \ {w} : thread[v].pc # "idle" => thread[v].future # k,
         thread'[w].pc \in Working \cup {"idle", "forget"}, thread'[w].started <= now',
         thread'[w].pc # "idle" => thread'[w].future = k,
         thread'[w].pc \in Working => /\ future'[k].state = "running"
                                     /\ thread'[w].event = future'[k].event,
         thread'[w].pc = "forget" => future'[k].state = "done" /\ future'[k].hooked,
         thread'[w].pc = "report" => thread'[w].result # "none"
  PROVE  Pooled'
<1>1. \A v \in Pool : thread'[v].started <= now'
  BY StartedBefore
<1>2. ASSUME NEW v \in Pool, v # w
      PROVE  /\ thread'[v].pc \in Working \cup {"idle", "forget"}
             /\ thread'[v].pc # "idle" => thread'[v].future \in 1..Len(future) \ {k}
             /\ thread'[v].pc \in Working =>
                  /\ future[thread'[v].future].state = "running"
                  /\ thread'[v].event = future[thread'[v].future].event
             /\ thread'[v].pc = "forget" => /\ future[thread'[v].future].state = "done"
                                            /\ future[thread'[v].future].hooked
             /\ thread'[v].pc = "report" => thread'[v].result # "none"
  BY <1>2 DEF ChatRest, Pooled, At
<1>3. ASSUME NEW v \in Pool, v # w, thread'[v].pc # "idle"
      PROVE  future'[thread'[v].future] = future[thread'[v].future]
  BY <1>2, <1>3
<1>4. ASSUME NEW v \in Pool, NEW u \in Pool \ {v}, thread'[v].pc # "idle", thread'[u].pc # "idle"
      PROVE  thread'[u].future # thread'[v].future
  <2>1. CASE v = w
    BY <1>2, <1>4, <2>1
  <2>2. CASE u = w
    BY <1>2, <1>4, <2>2
  <2>3. CASE v # w /\ u # w
    BY <1>4, <2>3 DEF ChatRest, Pooled, At
  <2> QED
    BY <2>1, <2>2, <2>3
<1> SUFFICES ASSUME NEW v \in Pool
             PROVE  /\ thread'[v].pc \in Working \cup {"idle", "forget"}
                    /\ thread'[v].pc # "idle" => thread'[v].future \in 1..Len(future)
                    /\ thread'[v].pc \in Working =>
                         /\ future'[thread'[v].future].state = "running"
                         /\ thread'[v].event = future'[thread'[v].future].event
                    /\ thread'[v].pc = "forget" => /\ future'[thread'[v].future].state = "done"
                                                   /\ future'[thread'[v].future].hooked
                    /\ thread'[v].pc = "report" => thread'[v].result # "none"
  BY <1>1, <1>4 DEF Pooled, At
<1>5. CASE v = w
  <2>1. thread'[w].pc \in Working => thread'[w].pc # "idle"
    BY DEF Working
  <2> QED
    BY <1>5, <2>1
<1>6. CASE v # w
  <2>1. thread'[v].pc \in Working \/ thread'[v].pc = "forget" => thread'[v].pc # "idle"
    BY DEF Working
  <2> QED
    BY <1>2, <1>3, <1>6, <2>1
<1> QED
  BY <1>5, <1>6

(* A pool thread takes a queued future.                                     *)
LEMMA TakeKeeps ==
  ASSUME ChatRest, Kept, NEW w \in Pool, NEW k \in 1..Len(future), Take(w, k)
  PROVE  ChatRest'
<1>0. w \in Threads /\ Pool \subseteq Threads /\ Callers \subseteq Threads
      /\ Closer \in Threads /\ w \notin Callers /\ w # Closer
  BY ChatAssumption DEF Threads
<1>1. /\ future \in Seq(FutureRecord) /\ future[k] \in FutureRecord
      /\ future[k].state = "queued" /\ At(w, "idle")
  BY DEF ChatRest, ChatTypes, Take
<1> PICK record : record = [future[k] EXCEPT !.state = "running"]
  OBVIOUS
<1> PICK new : new = [Idle EXCEPT !.pc = "claim", !.future = k, !.event = future[k].event]
  OBVIOUS
<1>2. record \in FutureRecord /\ record.event = future[k].event
      /\ record.state = "running" /\ record.hooked = future[k].hooked
  BY <1>1 DEF FutureRecord
<1>3. /\ new \in ThreadRecord /\ new.pc = "claim" /\ new.future = k
      /\ new.event = future[k].event /\ new.started = 0
  <2>1. k \in Nat /\ future[k].event \in Events
    BY <1>1 DEF FutureRecord
  <2> QED
    BY <2>1 DEF Idle, ThreadRecord, Working, NoClaim
<1>4. /\ future' = [future EXCEPT ![k] = record] /\ thread' = [thread EXCEPT ![w] = new]
      /\ adapter' = adapter
  BY DEF Take
<1>5. /\ future' \in Seq(FutureRecord) /\ Len(future') = Len(future)
      /\ future'[k] = record /\ \A j \in 1..Len(future) \ {k} : future'[j] = future[j]
  <2>1. /\ [future EXCEPT ![k] = record] \in Seq(FutureRecord)
        /\ Len([future EXCEPT ![k] = record]) = Len(future)
        /\ \A j \in 1..Len(future) :
             [future EXCEPT ![k] = record][j] = IF j = k THEN record ELSE future[j]
    BY <1>1, <1>2, ExceptSeq
  <2> QED
    BY <1>4, <2>1
<1>6. thread'[w] = new /\ \A x \in Threads \ {w} : thread'[x] = thread[x]
  BY <1>0, <1>4 DEF ChatRest, ChatTypes
<1>7. ChatTypes'
  BY <1>0, <1>3, <1>4, <1>5 DEF ChatRest, ChatTypes
<1>8. /\ \A c \in Callers : thread'[c] = thread[c]
      /\ \A j \in 1..Len(future) : /\ future'[j].hooked = future[j].hooked
                                   /\ future'[j].event = future[j].event
                                   /\ future'[j].state = "done" <=> future[j].state = "done"
  BY <1>0, <1>1, <1>2, <1>5, <1>6
<1>9. Locked'
  BY <1>4, <1>5, <1>8, LockedSame
<1>10. Pooled'
  <2>1. ASSUME NEW v \in Pool PROVE thread'[v].started <= now'
    <3>1. thread[v].started <= now' /\ thread[w].started <= now' /\ 0 <= now'
      BY StartedBefore DEF Kept
    <3>2. v # w => thread'[v] = thread[v]
      BY <1>0, <1>6
    <3> QED
      BY <1>3, <1>6, <3>1, <3>2
  <2>2. ASSUME NEW v \in Pool \ {w}, thread[v].pc # "idle"
        PROVE  thread[v].future # k
    <3>1. future[thread[v].future].state # "queued"
      BY <2>2 DEF ChatRest, Pooled, At
    <3> QED
      BY <1>1, <3>1
  <2>3. \A v \in Pool \ {w} : thread'[v] = thread[v]
    BY <1>0, <1>6
  <2>4. \A v \in Pool \ {w} : thread[v].pc # "idle" => thread[v].future # k
    BY <2>2
  <2>5. /\ thread'[w].pc \in Working \cup {"idle", "forget"}
        /\ thread'[w].pc # "idle" => thread'[w].future = k
        /\ thread'[w].pc \in Working => /\ future'[k].state = "running"
                                        /\ thread'[w].event = future'[k].event
        /\ thread'[w].pc = "forget" => future'[k].state = "done" /\ future'[k].hooked
        /\ thread'[w].pc = "report" => thread'[w].result # "none"
    BY <1>2, <1>3, <1>5, <1>6 DEF Working
  <2>6. thread'[w].started <= now' /\ Len(future') = Len(future)
        /\ \A j \in 1..Len(future) : j # k => future'[j] = future[j]
    BY <1>5, <2>1
  <2> QED
    BY <2>3, <2>4, <2>5, <2>6, PooledMoves
<1>11. PersistedFirst'
  BY <1>5, <1>8, PersistedSame
<1>12. Tracked'
  <2>1. \A v \in Pool : At(v, "forget")' <=> At(v, "forget")
    BY <1>0, <1>1, <1>3, <1>6 DEF At
  <2>2. \A v \in Pool : At(v, "forget") => thread'[v] = thread[v]
    BY <1>0, <1>1, <1>6 DEF At
  <2>3. ASSUME NEW j \in 1..Len(future)
        PROVE  (HeldByCaller(j)' <=> HeldByCaller(j)) /\ (Awaited(j)' <=> Awaited(j))
    BY <1>8, <2>1, <2>2 DEF HeldByCaller, Awaited
  <2> QED
    BY <1>4, <1>5, <1>8, <2>3 DEF ChatRest, Tracked
<1>13. Draining' /\ CloseDrains'
  BY <1>0, <1>4, <1>5, <1>6, <1>8 DEF ChatRest, Draining, CloseDrains, At
<1> QED
  BY <1>7, <1>9, <1>10, <1>11, <1>12, <1>13 DEF ChatRest

(* The future is done: its thread is at "forget" if it is hooked, and idle   *)
(* if the caller has not come to add_done_callback.                          *)
LEMMA FinishKeeps ==
  ASSUME ChatRest, Kept, NEW w \in Pool, Finish(w)
  PROVE  ChatRest'
<1>0. w \in Threads /\ Pool \subseteq Threads /\ Callers \subseteq Threads
      /\ Closer \in Threads /\ w \notin Callers /\ w # Closer
  BY ChatAssumption DEF Threads
<1> PICK k : k = thread[w].future
  OBVIOUS
<1>1. /\ future \in Seq(FutureRecord) /\ k \in 1..Len(future) /\ future[k] \in FutureRecord
      /\ future[k].state = "running" /\ At(w, "finish") /\ thread[w] \in ThreadRecord
      /\ \A v \in Pool \ {w} : ~At(v, "idle") => thread[v].future # k
  BY <1>0 DEF ChatRest, ChatTypes, Finish, Pooled, At, Working
<1> PICK record : record = [future[k] EXCEPT !.state = "done"]
  OBVIOUS
<1> PICK new : new = IF future[k].hooked THEN [thread[w] EXCEPT !.pc = "forget"] ELSE Idle
  OBVIOUS
<1>2. record \in FutureRecord /\ record.event = future[k].event
      /\ record.state = "done" /\ record.hooked = future[k].hooked
  BY <1>1 DEF FutureRecord
<1>3. /\ new \in ThreadRecord
      /\ future[k].hooked => new.pc = "forget" /\ new.future = k /\ new.started = thread[w].started
      /\ ~future[k].hooked => new.pc = "idle" /\ new.started = 0
  BY <1>1 DEF Idle, ThreadRecord, Working, InSection, NoClaim
<1>4. /\ future' = [future EXCEPT ![k] = record] /\ thread' = [thread EXCEPT ![w] = new]
      /\ adapter' = adapter
  BY DEF Finish
<1>5. /\ future' \in Seq(FutureRecord) /\ Len(future') = Len(future)
      /\ future'[k] = record /\ \A j \in 1..Len(future) \ {k} : future'[j] = future[j]
  <2>1. /\ [future EXCEPT ![k] = record] \in Seq(FutureRecord)
        /\ Len([future EXCEPT ![k] = record]) = Len(future)
        /\ \A j \in 1..Len(future) :
             [future EXCEPT ![k] = record][j] = IF j = k THEN record ELSE future[j]
    BY <1>1, <1>2, ExceptSeq
  <2> QED
    BY <1>4, <2>1
<1>6. thread'[w] = new /\ \A x \in Threads \ {w} : thread'[x] = thread[x]
  BY <1>0, <1>4 DEF ChatRest, ChatTypes
<1>7. ChatTypes'
  BY <1>0, <1>3, <1>4, <1>5 DEF ChatRest, ChatTypes
<1>8. /\ \A c \in Callers : thread'[c] = thread[c]
      /\ \A j \in 1..Len(future) : /\ future'[j].hooked = future[j].hooked
                                   /\ future'[j].event = future[j].event
                                   /\ future[j].state = "done" => future'[j].state = "done"
  BY <1>0, <1>1, <1>2, <1>5, <1>6
<1>9. Locked'
  BY <1>4, <1>5, <1>8, LockedSame
<1>10. Pooled'
  <2>1. ASSUME NEW v \in Pool PROVE thread'[v].started <= now'
    <3>1. thread[v].started <= now' /\ thread[w].started <= now' /\ 0 <= now'
      BY StartedBefore DEF Kept
    <3>2. v # w => thread'[v] = thread[v]
      BY <1>0, <1>6
    <3> QED
      BY <1>3, <1>6, <3>1, <3>2
  <2>2. \A v \in Pool \ {w} : thread'[v] = thread[v]
    BY <1>0, <1>6
  <2>3. \A v \in Pool \ {w} : thread[v].pc # "idle" => thread[v].future # k
    BY <1>1 DEF At
  <2>4. /\ thread'[w].pc \in Working \cup {"idle", "forget"}
        /\ thread'[w].pc # "idle" => thread'[w].future = k
        /\ thread'[w].pc \in Working => /\ future'[k].state = "running"
                                        /\ thread'[w].event = future'[k].event
        /\ thread'[w].pc = "forget" => future'[k].state = "done" /\ future'[k].hooked
        /\ thread'[w].pc = "report" => thread'[w].result # "none"
    BY <1>2, <1>3, <1>5, <1>6 DEF Working
  <2>5. thread'[w].started <= now' /\ Len(future') = Len(future)
        /\ \A j \in 1..Len(future) : j # k => future'[j] = future[j]
    BY <1>5, <2>1
  <2> QED
    BY <1>1, <2>2, <2>3, <2>4, <2>5, PooledMoves
<1>11. PersistedFirst'
  BY <1>5, <1>8, PersistedSame
<1>12. Tracked'
  <2>1. \A j \in 1..Len(future) : HeldByCaller(j)' <=> HeldByCaller(j)
    BY <1>8 DEF HeldByCaller
  <2>2. ASSUME NEW j \in 1..Len(future), j # k PROVE Awaited(j)' <=> Awaited(j)
    <3>1. future'[j] = future[j]
      BY <1>5, <2>2
    <3>2. ~(At(w, "forget")' /\ thread'[w].future = j) /\ ~At(w, "forget")
      BY <1>1, <1>3, <1>6, <2>2 DEF At
    <3>3. \A v \in Pool \ {w} : thread'[v] = thread[v]
      BY <1>0, <1>6
    <3> QED
      BY <3>1, <3>2, <3>3 DEF Awaited, At
  <2>3. Awaited(k) /\ (future[k].hooked => Awaited(k)')
    BY <1>1, <1>3, <1>6 DEF Awaited, At
  <2>4. ~HeldByCaller(k) => future[k].hooked
    BY <1>1 DEF ChatRest, Tracked
  <2> SUFFICES ASSUME NEW j \in 1..Len(future), ~HeldByCaller(j)
               PROVE  /\ j \in adapter.futures <=> Awaited(j)'
                      /\ future'[j].state # "done" => future'[j].hooked
    BY <1>4, <1>5, <2>1 DEF ChatRest, Tracked
  <2>5. j \in adapter.futures <=> Awaited(j)'
    BY <2>2, <2>3, <2>4 DEF ChatRest, Tracked
  <2>6. future'[j].state # "done" => future'[j].hooked
    BY <1>8 DEF ChatRest, Tracked
  <2> QED
    BY <2>5, <2>6
<1>13. Draining' /\ CloseDrains'
  BY <1>0, <1>4, <1>5, <1>6, <1>8 DEF ChatRest, Draining, CloseDrains, At
<1> QED
  BY <1>7, <1>9, <1>10, <1>11, <1>12, <1>13 DEF ChatRest

(* The callback of a hooked future, when the lock is free.                   *)
LEMMA ForgetKeeps ==
  ASSUME ChatRest, Kept, NEW w \in Pool, Forget(w)
  PROVE  ChatRest'
<1>0. w \in Threads /\ Pool \subseteq Threads /\ Callers \subseteq Threads
      /\ Closer \in Threads /\ w \notin Callers /\ w # Closer /\ Nobody \notin Callers
  BY ChatAssumption DEF Threads
<1> PICK k : k = thread[w].future
  OBVIOUS
<1>1. /\ k \in 1..Len(future) /\ future[k].state = "done" /\ future[k].hooked
      /\ At(w, "forget") /\ adapter.lock = Nobody
      /\ \A v \in Pool \ {w} : thread[v].pc # "idle" => thread[v].future # k
  BY DEF Forget, ChatRest, Pooled, At
<1>2. /\ thread' = [thread EXCEPT ![w] = Idle] /\ future' = future
      /\ adapter' = [adapter EXCEPT !.futures = @ \ {k}]
  BY DEF Forget
<1>3. Idle \in ThreadRecord /\ Idle.pc = "idle" /\ Idle.started = 0
  BY DEF Idle, ThreadRecord, InSection, Working, NoClaim
<1>4. thread'[w] = Idle /\ \A x \in Threads \ {w} : thread'[x] = thread[x]
  BY <1>0, <1>2 DEF ChatRest, ChatTypes
<1>5. /\ adapter'.lock = Nobody /\ adapter'.closed = adapter.closed
      /\ adapter'.futures = adapter.futures \ {k}
  BY <1>1, <1>2 DEF ChatRest, ChatTypes
<1>6. ChatTypes'
  BY <1>0, <1>1, <1>2, <1>3, <1>5 DEF ChatRest, ChatTypes
<1>7. \A c \in Callers : thread'[c] = thread[c] /\ thread[c].pc \notin InSection
                         /\ thread[c].pc = "idle"
  BY <1>0, <1>1, <1>4 DEF ChatRest, Locked
<1>8. Locked'
  BY <1>0, <1>5, <1>7 DEF Locked, InSection, Holding, At
<1>9. Pooled'
  <2>1. \A v \in Pool \ {w} : thread'[v] = thread[v]
    BY <1>0, <1>4
  <2>2. /\ thread'[w].pc \in Working \cup {"idle", "forget"}
        /\ thread'[w].pc # "idle" => thread'[w].future = k
        /\ thread'[w].pc \in Working => /\ future'[k].state = "running"
                                        /\ thread'[w].event = future'[k].event
        /\ thread'[w].pc = "forget" => future'[k].state = "done" /\ future'[k].hooked
        /\ thread'[w].pc = "report" => thread'[w].result # "none"
    BY <1>3, <1>4 DEF Working
  <2>3. thread'[w].started <= now' /\ Len(future') = Len(future)
        /\ \A j \in 1..Len(future) : j # k => future'[j] = future[j]
    BY <1>2, <1>3, <1>4 DEF Kept
  <2> QED
    BY <1>1, <2>1, <2>2, <2>3, PooledMoves
<1>10. PersistedFirst'
  BY <1>2, PersistedSame
<1>11. Tracked'
  <2>1. ASSUME NEW j \in 1..Len(future) PROVE ~HeldByCaller(j)
    BY <1>7 DEF HeldByCaller, InSection, Holding
  <2>2. ~Awaited(k)'
    <3>1. \A v \in Pool : ~(At(v, "forget")' /\ thread'[v].future = k)
      BY <1>0, <1>1, <1>3, <1>4 DEF At
    <3> QED
      BY <1>1, <1>2, <3>1 DEF Awaited
  <2>3. ASSUME NEW j \in 1..Len(future), j # k PROVE Awaited(j)' <=> Awaited(j)
    BY <1>0, <1>2, <1>3, <1>4, <2>3 DEF Awaited, At
  <2> SUFFICES ASSUME NEW j \in 1..Len(future)
               PROVE  /\ j \in adapter.futures \ {k} <=> Awaited(j)'
                      /\ future[j].state # "done" => future[j].hooked
    BY <1>2, <1>5 DEF ChatRest, Tracked
  <2> QED
    BY <2>1, <2>2, <2>3 DEF ChatRest, Tracked
<1>12. Draining' /\ CloseDrains'
  BY <1>0, <1>2, <1>4, <1>5, <1>7 DEF ChatRest, Draining, CloseDrains, At
<1> QED
  BY <1>6, <1>8, <1>9, <1>10, <1>11, <1>12 DEF ChatRest

(* While the lock is free, what is unfinished is in _futures: the snapshot   *)
(* that close takes misses nothing.                                          *)
LEMMA UnlockedExact == ChatRest => TrackedExactly
<1> SUFFICES ASSUME ChatRest, adapter.lock = Nobody, NEW k \in 1..Len(future)
             PROVE  k \in adapter.futures <=> Awaited(k)
  BY DEF TrackedExactly, Awaited
<1>1. \A c \in Callers : thread[c].pc \notin InSection
  BY ChatAssumption DEF ChatRest, Locked, Threads
<1>2. ~HeldByCaller(k)
  BY <1>1 DEF HeldByCaller, InSection, Holding
<1> QED
  BY <1>2 DEF ChatRest, Tracked

(* close sets closed and takes the futures to wait for.                     *)
LEMMA CloseKeeps ==
  ASSUME ChatRest, Kept, Close
  PROVE  ChatRest'
<1>0. Pool \subseteq Threads /\ Callers \subseteq Threads /\ Closer \in Threads
      /\ Closer \notin Callers /\ Closer \notin Pool /\ Nobody \notin Callers
  BY ChatAssumption DEF Threads
<1> PICK new : new = [thread[Closer] EXCEPT !.pc = "wait", !.waiting = adapter.futures]
  OBVIOUS
<1>1. /\ At(Closer, "idle") /\ adapter.lock = Nobody
      /\ thread[Closer] \in ThreadRecord /\ adapter.futures \subseteq Nat
  BY <1>0 DEF Close, ChatRest, ChatTypes
<1>2. new \in ThreadRecord /\ new.pc = "wait" /\ new.waiting = adapter.futures
  BY <1>1 DEF ThreadRecord
<1>3. /\ thread' = [thread EXCEPT ![Closer] = new] /\ future' = future
      /\ adapter' = [adapter EXCEPT !.closed = TRUE]
  BY DEF Close
<1>4. thread'[Closer] = new /\ \A x \in Threads \ {Closer} : thread'[x] = thread[x]
  BY <1>0, <1>3 DEF ChatRest, ChatTypes
<1>5. /\ adapter'.lock = Nobody /\ adapter'.closed
      /\ adapter'.futures = adapter.futures
  BY <1>1, <1>3 DEF ChatRest, ChatTypes
<1>6. ChatTypes'
  BY <1>0, <1>2, <1>3 DEF ChatRest, ChatTypes
<1>7. /\ \A c \in Callers : thread'[c] = thread[c] /\ thread[c].pc \notin InSection
                            /\ thread[c].pc = "idle"
      /\ \A w \in Pool : thread'[w] = thread[w]
  BY <1>0, <1>1, <1>4 DEF ChatRest, Locked
<1>8. Locked'
  BY <1>0, <1>5, <1>7 DEF Locked, InSection, Holding, At
<1>9. Pooled' /\ PersistedFirst'
  BY <1>3, <1>7, PooledSame, PersistedSame
<1>10. Tracked'
  <2>1. ASSUME NEW k \in 1..Len(future)
        PROVE  (HeldByCaller(k)' <=> HeldByCaller(k)) /\ (Awaited(k)' <=> Awaited(k))
    BY <1>3, <1>7 DEF HeldByCaller, Awaited, At
  <2> QED
    BY <1>3, <1>5, <2>1 DEF ChatRest, Tracked
<1>11. Draining' /\ CloseDrains'
  <2>1. \A k \in 1..Len(future) : future[k].state # "done" => k \in adapter.futures
    BY <1>1, UnlockedExact DEF TrackedExactly
  <2> QED
    BY <1>2, <1>3, <1>4, <1>5, <1>7, <2>1 DEF Draining, CloseDrains, At, Holding
<1> QED
  BY <1>6, <1>8, <1>9, <1>10, <1>11 DEF ChatRest

(* close returns once all of them are done.                                 *)
LEMMA CloseReturnsKeeps ==
  ASSUME ChatRest, Kept, CloseReturns
  PROVE  ChatRest'
<1>0. Pool \subseteq Threads /\ Callers \subseteq Threads /\ Closer \in Threads
      /\ Closer \notin Callers /\ Closer \notin Pool /\ Nobody \notin Callers
  BY ChatAssumption DEF Threads
<1> PICK new : new = [thread[Closer] EXCEPT !.pc = "closed"]
  OBVIOUS
<1>1. At(Closer, "wait") /\ thread[Closer] \in ThreadRecord
  BY <1>0 DEF CloseReturns, ChatRest, ChatTypes
<1>2. new \in ThreadRecord /\ new.pc = "closed"
  BY <1>1 DEF ThreadRecord
<1>3. thread' = [thread EXCEPT ![Closer] = new] /\ future' = future /\ adapter' = adapter
  BY DEF CloseReturns, Move
<1>4. thread'[Closer] = new /\ \A x \in Threads \ {Closer} : thread'[x] = thread[x]
  BY <1>0, <1>3 DEF ChatRest, ChatTypes
<1>5. ChatTypes'
  BY <1>0, <1>2, <1>3 DEF ChatRest, ChatTypes
<1>6. (\A c \in Callers : thread'[c] = thread[c]) /\ \A w \in Pool : thread'[w] = thread[w]
  BY <1>0, <1>4
<1>7. Locked' /\ Pooled' /\ PersistedFirst'
  BY <1>3, <1>6, PooledSame, PersistedSame, LockedSame
<1>8. Tracked'
  <2>1. ASSUME NEW k \in 1..Len(future)
        PROVE  (HeldByCaller(k)' <=> HeldByCaller(k)) /\ (Awaited(k)' <=> Awaited(k))
    BY <1>3, <1>6 DEF HeldByCaller, Awaited, At
  <2> QED
    BY <1>3, <2>1 DEF ChatRest, Tracked
<1>9. Draining' /\ CloseDrains'
  <2>1. \A k \in 1..Len(future) : future[k].state = "done"
    BY <1>1 DEF CloseReturns, ChatRest, Draining
  <2> QED
    BY <1>1, <1>2, <1>3, <1>4, <1>6, <2>1 DEF ChatRest, Draining, CloseDrains, At
<1> QED
  BY <1>5, <1>7, <1>8, <1>9 DEF ChatRest

(* What only the inbox does leaves the adapter as it is.                    *)
LEMMA QuietKeeps ==
  ASSUME ChatRest, Kept, UNCHANGED <<adapter, future, thread>>
  PROVE  ChatRest'
<1>1. Locked' /\ Pooled' /\ PersistedFirst'
  BY PooledSame, PersistedSame, LockedSame
<1> QED
  BY <1>1 DEF ChatRest, ChatTypes, Tracked, HeldByCaller, Awaited, Draining, CloseDrains, At

(* The adapter starts with no lock held and no future.                      *)
LEMMA ChatStarts == ChatInit => ChatInv
<1> SUFFICES ASSUME ChatInit PROVE ChatInv
  OBVIOUS
<1>1. Inductive
  BY InitInductive DEF ChatInit
<1>2. /\ Idle \in ThreadRecord /\ Idle.pc = "idle" /\ Idle.started = 0
      /\ \A x \in Threads : thread[x] = Idle
      /\ future = <<>> /\ future \in Seq(FutureRecord) /\ Len(future) = 0
      /\ adapter = [lock |-> Nobody, closed |-> FALSE, futures |-> {}]
      /\ now = 0
  BY DEF ChatInit, Init, Idle, ThreadRecord, InSection, Working, NoClaim
<1>3. Pool \subseteq Threads /\ Callers \subseteq Threads /\ Closer \in Threads
      /\ Nobody \notin Callers
  BY ChatAssumption DEF Threads
<1>4. ChatTypes
  BY <1>2 DEF ChatTypes, ChatInit
<1>5. Locked /\ Pooled
  BY <1>2, <1>3 DEF Locked, Pooled, At, InSection, Holding, Working
<1>6. PersistedFirst /\ Tracked /\ Draining /\ CloseDrains
  BY <1>2, <1>3 DEF PersistedFirst, Tracked, Draining, CloseDrains, At, Holding
<1> QED
  BY <1>1, <1>4, <1>5, <1>6 DEF ChatInv

(* Every step of the adapter keeps the invariant.                           *)
LEMMA ChatStepKeeps == ChatInv /\ [ChatNext]_chatVars => ChatInv'
<1> SUFFICES ASSUME ChatInv, [ChatNext]_chatVars PROVE ChatInv'
  OBVIOUS
<1>1. [Next]_inboxVars /\ Inductive' /\ Kept /\ TypeOK' /\ ChatRest
  BY ChatStepIsInboxStep, NextInductive, InboxKeeps DEF ChatInv, ChatRest, Inductive
<1>2. ASSUME NEW c \in Callers, InCall(c) \/ \E b \in BOOLEAN : EnterCall(c, b)
      PROVE  ChatRest'
  BY <1>1, <1>2, EnterKeeps, LeaveKeeps, PersistKeeps, SubmitKeeps, TrackKeeps, HookKeeps
     DEF InCall, Refuse
<1>3. ASSUME NEW w \in Pool, PoolStep(w)
      PROVE  ChatRest'
  BY <1>1, <1>3, TakeKeeps, ClaimJobKeeps, HandleKeeps, ReportKeeps, FinishKeeps, ForgetKeeps
     DEF PoolStep
<1>4. CASE Close \/ CloseReturns
  BY <1>1, <1>4, CloseKeeps, CloseReturnsKeeps DEF ChatInv, ChatRest
<1>5. CASE ChatTick \/ UNCHANGED chatVars
  BY <1>1, <1>5, QuietKeeps DEF ChatTick, chatVars, ChatInv, ChatRest
<1>6. ChatRest'
  BY <1>1, <1>2, <1>3, <1>4, <1>5, CloseKeeps, CloseReturnsKeeps, QuietKeeps
     DEF ChatNext, ChatTick, chatVars
<1> QED
  BY <1>1, <1>6 DEF ChatInv, ChatRest

(* adaptive_trigger.py:3, "persists an execution intent first": requests are *)
(* in the inbox before the pool has them, close leaves none behind, and      *)
(* _futures is exact whenever the lock is free.                              *)
THEOREM AdapterKept == ChatSpec => []AdapterSound
<1>1. ChatInv => AdapterSound
  BY UnlockedExact DEF ChatInv, ChatRest, AdapterSound
<1> QED
  BY <1>1, ChatStarts, ChatStepKeeps, PTL DEF ChatSpec

(* Whatever its threads do, the adapter writes the inbox only as the         *)
(* transactions of TriggerRuntime allow: the theorems above hold for it.     *)
THEOREM AdapterRefinement == ChatSpec => ImplementsInbox
<1>1. ChatInit => Init
  BY DEF ChatInit
<1> QED
  BY <1>1, ChatStarts, ChatStepKeeps, ChatStepIsInboxStep, PTL DEF ChatSpec, ImplementsInbox, Spec
-------------------------------------------------------------------------------
(* What claim does: the event has a new owner, and if it had one its lease   *)
(* was over; or the transaction leaves no trace.                             *)
LEMMA ClaimEffect ==
  ASSUME Inductive, NEW f \in Events, NEW t \in 0..now, ClaimTx(f, t)
  PROVE  /\ now' = now
         /\ \A e \in Events \ {f} : row'[e] = row[e] /\ issued'[e] = issued[e]
         /\ Granted(f, t) => /\ issued'[f] = issued[f] + 1
                             /\ row'[f].status = "claimed" /\ row'[f].claim_id = issued[f] + 1
                             /\ row'[f].lease_until = t + Lease
                             /\ row[f].status = "claimed" => row[f].lease_until <= t
         /\ ~Granted(f, t) => row' = row /\ issued' = issued
<1>1. /\ now' = now
      /\ \A e \in Events \ {f} : row'[e] = row[e] /\ issued'[e] = issued[e]
  BY DEF ClaimTx, Inductive, TypeOK
<1>2. ASSUME Granted(f, t)
      PROVE  /\ issued'[f] = issued[f] + 1
             /\ row'[f].status = "claimed" /\ row'[f].claim_id = issued[f] + 1
             /\ row'[f].lease_until = t + Lease
             /\ row[f].status = "claimed" => row[f].lease_until <= t
  <2> DEFINE r == AfterLapse(row[f], t)
  <2>1. row[f] \in Row
    BY <1>2 DEF Granted, Free, AfterLapse, Lapsed, Inductive, TypeOK, Absent
  <2>2. r \in Row
    BY <2>1 DEF AfterLapse, Row, NoClaim
  <2>3. row'[f] = Taken(r, issued[f] + 1, t) /\ issued'[f] = issued[f] + 1
    BY <1>2 DEF ClaimTx, Granted, Inductive, TypeOK
  <2>4. row[f].status = "claimed" => row[f].lease_until <= t
    BY <1>2 DEF Granted, Free, AfterLapse, Lapsed
  <2> QED
    BY <2>2, <2>3, <2>4 DEF Taken, Row
<1>3. ASSUME ~Granted(f, t) PROVE row' = row /\ issued' = issued
  <2>1. ~Lapsed(row[f], t)
    BY <1>3, RecoveryHolds DEF RecoveryGrants
  <2> QED
    BY <1>3, <2>1 DEF ClaimTx, Granted, AfterLapse, Inductive, TypeOK
<1> QED
  BY <1>1, <1>2, <1>3

(* An attempt still owns its event, with the lease it was granted, or it was *)
(* overtaken; a fresh one (claimed with the clock of the moment) only after  *)
(* its lease.                                                                *)
InRun(w) == proc[w].pc \in {"run", "report"}
Fenced(w, e, c, s) ==
  \/ Owns(e, c) /\ row[e].lease_until = s + Lease
  \/ c < issued[e] /\ (w \in Chatters => s + Lease <= now)

(* A claim of the same event by another overtakes the attempt, after its    *)
(* lease if it is a chatter's; a claim of another event does not touch it.  *)
LEMMA FencedByClaim ==
  ASSUME Inductive, NEW f \in Events, NEW t \in 0..now, ClaimTx(f, t),
         NEW e \in Events, NEW c \in Nat, NEW s \in Nat, NEW w,
         Fenced(w, e, c, s)
  PROVE  Fenced(w, e, c, s)'
<1>1. now \in Nat /\ issued[e] \in Nat /\ Lease \in Nat
  BY ParameterAssumption DEF Inductive, TypeOK
<1>2. CASE f # e \/ ~Granted(f, t)
  BY <1>2, ClaimEffect DEF Fenced, Owns
<1>3. CASE f = e /\ Granted(f, t)
  <2>1. /\ issued'[e] = issued[e] + 1 /\ now' = now
        /\ row[e].status = "claimed" => row[e].lease_until <= t
    BY <1>3, ClaimEffect
  <2>2. CASE Owns(e, c) /\ row[e].lease_until = s + Lease
    <3>1. c = issued[e]
      BY <2>2 DEF Owns, Inductive, OneOwner
    <3>2. s + Lease <= now
      BY <1>1, <2>1, <2>2 DEF Owns
    <3> QED
      BY <1>1, <2>1, <3>1, <3>2 DEF Fenced
  <2>3. CASE c < issued[e] /\ (w \in Chatters => s + Lease <= now)
    BY <1>1, <2>1, <2>3 DEF Fenced
  <2> QED
    BY <2>2, <2>3 DEF Fenced
<1> QED
  BY <1>2, <1>3

(* No other step of the inbox moves an attempt's row from under it, except  *)
(* the completion of its own claim.                                         *)
LEMMA FencedByOthers ==
  ASSUME Inductive,
         NEW e \in Events, NEW c \in Nat, NEW s \in Nat, NEW w,
         Fenced(w, e, c, s),
         \/ Tick \/ UNCHANGED inboxVars \/ (\E f \in Events : EmitAny(f))
         \/ \E f \in Events, d \in Nat, result \in Terminal \cup {"retryable"}, t \in Nat :
              Complete(f, d, result, t) /\ (f # e \/ d # c)
  PROVE  Fenced(w, e, c, s)'
<1>1. now \in Nat /\ issued[e] \in Nat /\ Lease \in Nat
  BY ParameterAssumption DEF Inductive, TypeOK
<1>2. CASE Tick
  BY <1>1, <1>2 DEF Tick, Fenced, Owns
<1>3. CASE UNCHANGED inboxVars
  BY <1>3 DEF inboxVars, Fenced, Owns
<1>4. ASSUME NEW f \in Events, EmitAny(f) PROVE Fenced(w, e, c, s)'
  <2>1. now' = now /\ issued' = issued /\ (f # e => row'[e] = row[e])
    BY <1>4 DEF EmitAny, Emit, Inductive, TypeOK
  <2>2. CASE f = e
    BY <1>4, <2>1, <2>2 DEF EmitAny, Emit, Exists, Fenced, Owns, Inductive, AbsentUntouched, Absent
  <2>3. CASE f # e
    BY <2>1, <2>3 DEF Fenced, Owns
  <2> QED
    BY <2>2, <2>3
<1>5. ASSUME NEW f \in Events, NEW d \in Nat, NEW result \in Terminal \cup {"retryable"},
             NEW t \in Nat, Complete(f, d, result, t), f # e \/ d # c
      PROVE  Fenced(w, e, c, s)'
  <2>1. now' = now /\ issued' = issued /\ (f # e => row'[e] = row[e])
    BY <1>5 DEF Complete, Inductive, TypeOK
  <2>2. CASE f = e
    BY <1>5, <2>1, <2>2 DEF Complete, Fenced, Owns
  <2>3. CASE f # e
    BY <2>1, <2>3 DEF Fenced, Owns
  <2> QED
    BY <2>2, <2>3
<1> QED
  BY <1>2, <1>3, <1>4, <1>5

(* The dispatchers' own state, step by step.                                *)

ProcRecord == [pc : {"down", "idle", "next", "run", "report"}, queue : Seq(Events), asOf : Nat,
               event : Nat, claim : Nat, started : Nat,
               result : {"none", "success", "retryable"}]
ProcTypes == proc \in [Workers -> ProcRecord]
Attempting(w) ==
  InRun(w) => /\ proc[w].event \in Events /\ proc[w].claim \in 1..issued[proc[w].event]
              /\ proc[w].started <= now
              /\ Fenced(w, proc[w].event, proc[w].claim, proc[w].started)
(* Every attempt has a claim of its own.                                     *)
Distinct == \A v \in Workers, w \in Workers :
  v # w /\ InRun(v) /\ InRun(w) /\ proc[v].event = proc[w].event => proc[v].claim # proc[w].claim
Polled(w) == /\ proc[w].asOf <= now
             /\ proc[w].pc = "next" => proc[w].queue # <<>>
             /\ proc[w].pc = "report" => proc[w].result # "none"
DispatchRest == ProcTypes /\ (\A w \in Workers : Attempting(w) /\ Polled(w)) /\ Distinct
DispatchInv == Inductive /\ Bounded /\ DispatchRest

(* Clock and claims only grow.                                               *)
Later == /\ now \in Nat /\ now' \in Nat /\ now <= now'
         /\ \A e \in Events : issued[e] \in Nat /\ issued'[e] \in Nat /\ issued[e] <= issued'[e]

(* A process that does not move keeps what it polled.                       *)
LEMMA OthersPolled ==
  ASSUME DispatchRest, Later, NEW w \in Workers, proc'[w] = proc[w]
  PROVE  Polled(w)'
<1>1. proc[w].asOf \in Nat /\ proc[w].asOf <= now
  BY DEF DispatchRest, ProcTypes, ProcRecord, Polled
<1> QED
  BY <1>1 DEF DispatchRest, Polled, Later

(* A process that does not move keeps its attempt if its row is still       *)
(* fenced.                                                                  *)
LEMMA OthersAttempt ==
  ASSUME DispatchRest, Later, NEW w \in Workers, proc'[w] = proc[w],
         \A e \in Events, c \in Nat, s \in Nat :
           InRun(w) /\ e = proc[w].event /\ c = proc[w].claim /\ Fenced(w, e, c, s)
             => Fenced(w, e, c, s)'
  PROVE  Attempting(w)'
<1> SUFFICES ASSUME InRun(w)
             PROVE  /\ proc[w].event \in Events /\ proc[w].claim \in 1..issued'[proc[w].event]
                    /\ proc[w].started <= now'
                    /\ Fenced(w, proc[w].event, proc[w].claim, proc[w].started)'
  BY DEF Attempting, InRun
<1> PICK e, c, s : e = proc[w].event /\ c = proc[w].claim /\ s = proc[w].started
  OBVIOUS
<1>1. /\ e \in Events /\ c \in 1..issued[e] /\ s <= now /\ c \in Nat /\ s \in Nat
      /\ Fenced(w, e, c, s)
  BY DEF DispatchRest, Attempting, ProcTypes, ProcRecord
<1>2. Fenced(w, e, c, s)'
  BY <1>1
<1>3. c \in 1..issued'[e] /\ s <= now'
  BY <1>1 DEF Later
<1> QED
  BY <1>1, <1>2, <1>3 DEF Fenced, Owns

(* One process moves on.                                                     *)
LEMMA ProcessMoves ==
  ASSUME DispatchRest, Later, NEW w \in Workers, NEW new \in ProcRecord,
         proc' = [proc EXCEPT ![w] = new],
         \A v \in Workers \ {w} : Attempting(v)', Attempting(w)', Polled(w)',
         \A v \in Workers \ {w} :
           new.pc \in {"run", "report"} /\ InRun(v) /\ proc[v].event = new.event
             => proc[v].claim # new.claim
  PROVE  DispatchRest'
<1>1. proc'[w] = new /\ \A v \in Workers \ {w} : proc'[v] = proc[v]
  BY DEF DispatchRest, ProcTypes
<1>2. ProcTypes'
  BY DEF DispatchRest, ProcTypes
<1>3. \A v \in Workers : Polled(v)'
  BY <1>1, OthersPolled
<1>4. Distinct'
  <2> SUFFICES ASSUME NEW v \in Workers, NEW u \in Workers, v # u, InRun(v)', InRun(u)',
                      proc'[v].event = proc'[u].event
               PROVE  proc'[v].claim # proc'[u].claim
    BY DEF Distinct
  <2>1. CASE v = w
    BY <1>1, <2>1 DEF InRun
  <2>2. CASE u = w
    BY <1>1, <2>2 DEF InRun
  <2>3. CASE v # w /\ u # w
    BY <1>1, <2>3 DEF InRun, DispatchRest, Distinct
  <2> QED
    BY <2>1, <2>2, <2>3
<1> QED
  BY <1>2, <1>3, <1>4 DEF DispatchRest

(* A process at rest is typed.                                              *)
LEMMA RestingIsTyped == Resting \in ProcRecord /\ Resting.pc = "idle" /\ Resting.asOf = 0
<1>1. <<>> \in Seq(Events)
  OBVIOUS
<1> QED
  BY <1>1 DEF Resting, ProcRecord, NoClaim

(* A process that is going to claim the first event of a queue.              *)
WithQueue(queue, asOf) == [Resting EXCEPT !.pc = "next", !.queue = queue, !.asOf = asOf]

(* What a dispatching process holds after a poll.                           *)
LEMMA WithQueueIsTyped ==
  ASSUME NEW queue \in Seq(Events), NEW asOf \in Nat
  PROVE  /\ WithQueue(queue, asOf) \in ProcRecord /\ WithQueue(queue, asOf).pc = "next"
         /\ WithQueue(queue, asOf).queue = queue /\ WithQueue(queue, asOf).asOf = asOf
<1>1. WithQueue(queue, asOf) \in ProcRecord
  BY DEF Resting, ProcRecord, NoClaim, WithQueue
<1>2. /\ WithQueue(queue, asOf).pc = "next" /\ WithQueue(queue, asOf).queue = queue
      /\ WithQueue(queue, asOf).asOf = asOf
  BY DEF Resting, WithQueue
<1> QED
  BY <1>1, <1>2

(* A process that leaves the inbox alone and does not run afterwards.        *)
LEMMA SettlesDown ==
  ASSUME DispatchInv, Later, UNCHANGED inboxVars,
         NEW w \in Workers, NEW new \in ProcRecord, proc' = [proc EXCEPT ![w] = new],
         new.pc \in {"idle", "next"}, new.asOf <= now, new.pc = "next" => new.queue # <<>>
  PROVE  DispatchRest'
<1>1. proc'[w] = new /\ \A v \in Workers \ {w} : proc'[v] = proc[v]
  BY DEF DispatchInv, DispatchRest, ProcTypes
<1>2. Inductive /\ DispatchRest /\ now' = now
  BY DEF DispatchInv, inboxVars
<1>3. \A v \in Workers \ {w} : Attempting(v)'
  BY <1>1, <1>2, FencedByOthers, OthersAttempt
<1>4. Attempting(w)' /\ Polled(w)'
  BY <1>1, <1>2 DEF Attempting, Polled, InRun
<1> QED
  BY <1>2, <1>3, <1>4, ProcessMoves

(* Nobody but the clock and the producers moves.                             *)
LEMMA ProcessesRest ==
  ASSUME DispatchInv, Later, proc' = proc,
         Tick \/ UNCHANGED inboxVars \/ \E f \in Events : EmitAny(f)
  PROVE  DispatchRest'
<1>1. Inductive /\ DispatchRest
  BY DEF DispatchInv
<1>2. \A w \in Workers : Attempting(w)'
  <2> SUFFICES ASSUME NEW w \in Workers PROVE Attempting(w)'
    OBVIOUS
  <2>1. \A e \in Events, c \in Nat, s \in Nat :
          Fenced(w, e, c, s) => Fenced(w, e, c, s)'
    BY <1>1, FencedByOthers
  <2> QED
    BY <1>1, <2>1, OthersAttempt
<1>3. \A w \in Workers : Polled(w)'
  BY <1>1, OthersPolled
<1> QED
  BY <1>1, <1>2, <1>3 DEF DispatchRest, ProcTypes, Distinct, InRun

(* A poll: rows of the table, so finitely many, in a sequence.               *)
LEMMA PollKeeps ==
  ASSUME DispatchInv, Later, NEW w \in Workers, Poll(w)
  PROVE  DispatchRest'
<1> PICK queue \in FirstRows(Due(w)) :
      proc' = [proc EXCEPT ![w] = [Resting EXCEPT !.pc = "next", !.queue = queue,
                                     !.asOf = IF w \in Batchers THEN now ELSE 0]]
  BY DEF Poll
<1> PICK new : new = [Resting EXCEPT !.pc = "next", !.queue = queue,
                        !.asOf = IF w \in Batchers THEN now ELSE 0]
  OBVIOUS
<1> PICK due : due = Due(w)
  OBVIOUS
<1>1. due \subseteq Events /\ due \subseteq Rows /\ due # {}
  BY DEF Poll, Due, DuePending, DueOfKind, Rows, Exists
<1>2. IsFiniteSet(due) /\ Cardinality(due) \in Nat \ {0}
  <2>1. IsFiniteSet(due)
    BY <1>1, FS_Subset DEF DispatchInv, Bounded
  <2> QED
    BY <1>1, <2>1, FS_CardinalityType, FS_EmptySet
<1> PICK m : m = IF Cardinality(due) < Limit THEN Cardinality(due) ELSE Limit
  OBVIOUS
<1>3. m \in Nat \ {0}
  BY <1>2, DispatchAssumption
<1>4. queue \in [1..m -> due]
  BY DEF FirstRows
<1>5. queue \in Seq(Events) /\ queue # <<>>
  <2>1. queue \in [1..m -> Events]
    BY <1>1, <1>4
  <2>2. queue \in Seq(Events) /\ Len(queue) = m
    BY <1>3, <2>1
  <2> QED
    BY <1>3, <2>2
<1>6. new \in ProcRecord /\ new.pc = "next" /\ new.queue = queue /\ new.asOf <= now
  <2> PICK asOf : asOf = IF w \in Batchers THEN now ELSE 0
    OBVIOUS
  <2>1. asOf \in Nat /\ asOf <= now
    BY DEF Later
  <2>2. new = WithQueue(queue, asOf)
    BY DEF WithQueue
  <2> QED
    BY <1>5, <2>1, <2>2, WithQueueIsTyped
<1>7. UNCHANGED inboxVars /\ proc' = [proc EXCEPT ![w] = new]
  BY DEF Poll, inboxVars
<1> QED
  BY <1>5, <1>6, <1>7, SettlesDown

(* A process that dies forgets its attempt.                                 *)
LEMMA CrashKeeps ==
  ASSUME DispatchInv, Later, NEW w \in Workers, Crash(w)
  PROVE  DispatchRest'
<1>1. UNCHANGED inboxVars /\ proc' = [proc EXCEPT ![w] = Resting]
  BY DEF Crash, inboxVars
<1>2. /\ Resting.pc \in {"idle", "next"} /\ Resting.asOf <= now
      /\ Resting.pc = "next" => Resting.queue # <<>>
  BY RestingIsTyped DEF Later
<1> QED
  BY <1>1, <1>2, RestingIsTyped, SettlesDown

(* What is left of a batch.                                                  *)
LEMMA ProceedIsTyped ==
  ASSUME NEW p \in ProcRecord, p.asOf <= now, TypeOK
  PROVE  /\ Proceed(p) \in ProcRecord /\ Proceed(p).pc \in {"idle", "next"}
         /\ Proceed(p).asOf <= now
         /\ Proceed(p).pc = "next" => Proceed(p).queue # <<>>
<1>1. CASE p.queue = <<>>
  BY <1>1, RestingIsTyped DEF Proceed, TypeOK
<1>2. CASE p.queue # <<>>
  <2>1. /\ Proceed(p) = WithQueue(p.queue, p.asOf)
        /\ p.queue \in Seq(Events) /\ p.asOf \in Nat
    BY <1>2 DEF Proceed, ProcRecord, WithQueue
  <2> QED
    BY <1>2, <2>1, WithQueueIsTyped
<1> QED
  BY <1>1, <1>2

(* A handler that returns keeps the claim of its attempt.                   *)
LEMMA RunHandlerKeeps ==
  ASSUME DispatchInv, Later, NEW w \in Workers, RunHandler(w)
  PROVE  DispatchRest'
<1> PICK result \in {"success", "retryable"} :
      proc' = [proc EXCEPT ![w].pc = "report", ![w].result = result]
  BY DEF RunHandler
<1> PICK new : new = [proc[w] EXCEPT !.pc = "report", !.result = result]
  OBVIOUS
<1>1. /\ Inductive /\ DispatchRest /\ proc[w] \in ProcRecord /\ InRun(w) /\ UNCHANGED inboxVars
      /\ now' = now
  BY DEF DispatchInv, DispatchRest, ProcTypes, RunHandler, InRun, inboxVars
<1>2. /\ new \in ProcRecord /\ new.pc = "report" /\ new.event = proc[w].event
      /\ new.claim = proc[w].claim /\ new.started = proc[w].started
      /\ new.asOf = proc[w].asOf /\ new.result # "none"
  BY <1>1 DEF ProcRecord
<1>3. proc' = [proc EXCEPT ![w] = new]
  OBVIOUS
<1>4. proc'[w] = new /\ \A v \in Workers \ {w} : proc'[v] = proc[v]
  BY <1>1, <1>3 DEF DispatchRest, ProcTypes
<1>5. \A v \in Workers \ {w} : Attempting(v)'
  BY <1>1, <1>4, FencedByOthers, OthersAttempt
<1>6. Attempting(w)' /\ Polled(w)'
  <2>1. row' = row /\ issued' = issued
    BY <1>1 DEF inboxVars
  <2>2. Attempting(w) /\ Polled(w)
    BY <1>1 DEF DispatchRest
  <2>3. Attempting(w)'
    BY <1>1, <1>2, <1>4, <2>1, <2>2 DEF Attempting, InRun, Fenced, Owns
  <2>4. Polled(w)'
    BY <1>1, <1>2, <1>4, <2>2 DEF Polled
  <2> QED
    BY <2>3, <2>4
<1>7. \A v \in Workers \ {w} : InRun(v) /\ proc[v].event = new.event => proc[v].claim # new.claim
  BY <1>1, <1>2 DEF DispatchRest, Distinct
<1> QED
  BY <1>1, <1>2, <1>3, <1>5, <1>6, <1>7, ProcessMoves

(* A process is at the claim of an event, with a time the clock has shown.   *)
LEMMA AboutToClaim ==
  ASSUME DispatchInv, NEW w \in Workers, ClaimNext(w)
  PROVE  /\ proc[w] \in ProcRecord /\ proc[w].queue # <<>>
         /\ Head(proc[w].queue) \in Events /\ Tail(proc[w].queue) \in Seq(Events)
         /\ Timestamp(w) \in 0..now /\ (w \in Chatters => Timestamp(w) = now)
         /\ ClaimTx(Head(proc[w].queue), Timestamp(w))
<1>1. proc[w] \in ProcRecord /\ proc[w].queue # <<>> /\ proc[w].asOf <= now /\ now \in Nat
  BY DEF DispatchInv, DispatchRest, ProcTypes, Polled, ClaimNext, Inductive, TypeOK
<1>2. proc[w].queue \in Seq(Events) /\ proc[w].asOf \in Nat
  BY <1>1 DEF ProcRecord
<1>3. Head(proc[w].queue) \in Events /\ Tail(proc[w].queue) \in Seq(Events)
  BY <1>1, <1>2, HeadTailProperties
<1>4. Timestamp(w) \in 0..now /\ (w \in Chatters => Timestamp(w) = now)
  BY <1>1, <1>2, DispatchAssumption DEF Timestamp
<1> QED
  BY <1>1, <1>3, <1>4 DEF ClaimNext

(* Claiming the next event of the queue starts an attempt with a claim      *)
(* nobody else has, or none.                                                *)
LEMMA ClaimNextKeeps ==
  ASSUME DispatchInv, Later, NEW w \in Workers, ClaimNext(w)
  PROVE  DispatchRest'
<1> PICK e, t, rest : /\ e = Head(proc[w].queue) /\ t = Timestamp(w)
                      /\ rest = [proc[w] EXCEPT !.queue = Tail(@)]
  OBVIOUS
<1>1. /\ proc[w] \in ProcRecord /\ e \in Events /\ t \in 0..now /\ (w \in Chatters => t = now)
      /\ ClaimTx(e, t) /\ Tail(proc[w].queue) \in Seq(Events)
      /\ Inductive /\ DispatchRest /\ now \in Nat /\ issued[e] \in Nat
  BY AboutToClaim DEF DispatchInv, Inductive, TypeOK
<1>2. /\ rest \in ProcRecord /\ rest.asOf = proc[w].asOf
  BY <1>1 DEF ProcRecord
<1>3. proc' = [proc EXCEPT ![w] =
                 IF Granted(e, t) THEN [rest EXCEPT !.pc = "run", !.event = e,
                                          !.claim = issued[e] + 1, !.started = t]
                                  ELSE Proceed(rest)]
  BY DEF ClaimNext
<1>4. proc[w].asOf <= now /\ now' = now
  BY <1>1, ClaimEffect DEF DispatchRest, Polled
<1>5. CASE ~Granted(e, t)
  <2>1. UNCHANGED inboxVars
    BY <1>1, <1>5, ClaimEffect DEF ClaimTx, inboxVars
  <2>2. proc' = [proc EXCEPT ![w] = Proceed(rest)]
    BY <1>3, <1>5
  <2>3. /\ Proceed(rest) \in ProcRecord /\ Proceed(rest).pc \in {"idle", "next"}
        /\ Proceed(rest).asOf <= now
        /\ Proceed(rest).pc = "next" => Proceed(rest).queue # <<>>
    BY <1>1, <1>2, <1>4, ProceedIsTyped DEF Inductive
  <2> QED
    BY <2>1, <2>2, <2>3, SettlesDown
<1>6. CASE Granted(e, t)
  <2> PICK new : new = [rest EXCEPT !.pc = "run", !.event = e,
                          !.claim = issued[e] + 1, !.started = t]
    OBVIOUS
  <2>1. e \in Nat /\ t \in Nat /\ issued[e] + 1 \in Nat
    BY <1>1, DispatchAssumption
  <2>2. /\ new \in ProcRecord /\ new.pc = "run" /\ new.event = e /\ new.claim = issued[e] + 1
        /\ new.started = t /\ new.asOf = proc[w].asOf
    BY <1>2, <2>1 DEF ProcRecord
  <2>3. proc' = [proc EXCEPT ![w] = new]
    BY <1>3, <1>6
  <2>4. proc'[w] = new /\ \A v \in Workers \ {w} : proc'[v] = proc[v]
    BY <1>1, <2>3 DEF DispatchRest, ProcTypes
  <2>5. \A v \in Workers \ {w} : Attempting(v)'
    BY <1>1, <2>4, FencedByClaim, OthersAttempt
  <2>6. /\ issued'[e] = issued[e] + 1 /\ row'[e].status = "claimed"
        /\ row'[e].claim_id = issued[e] + 1 /\ row'[e].lease_until = t + Lease
    BY <1>1, <1>6, ClaimEffect
  <2>7. Attempting(w)' /\ Polled(w)'
    <3>1. issued[e] + 1 \in 1..issued'[e] /\ t <= now'
      BY <1>1, <1>4, <2>6
    <3>2. Attempting(w)'
      BY <1>1, <2>2, <2>4, <2>6, <3>1 DEF Attempting, Fenced, Owns
    <3>3. Polled(w)'
      BY <1>4, <2>2, <2>4 DEF Polled
    <3> QED
      BY <3>2, <3>3
  <2>8. ASSUME NEW v \in Workers \ {w}, InRun(v), proc[v].event = e
        PROVE  proc[v].claim # issued[e] + 1
    BY <1>1, <2>8 DEF DispatchRest, Attempting
  <2>9. \A v \in Workers \ {w} :
          new.pc \in {"run", "report"} /\ InRun(v) /\ proc[v].event = new.event
            => proc[v].claim # new.claim
    BY <2>2, <2>8
  <2>10. new \in ProcRecord /\ DispatchRest
    BY <1>1, <2>2
  <2> QED
    BY <2>3, <2>5, <2>7, <2>9, <2>10, ProcessMoves
<1> QED
  BY <1>5, <1>6

(* Nobody else has the claim of a report, so it takes nothing from others.   *)
LEMMA SendReportKeeps ==
  ASSUME DispatchInv, Later, NEW w \in Workers, SendReport(w)
  PROVE  DispatchRest'
<1> PICK p : p = proc[w]
  OBVIOUS
<1>1. /\ p \in ProcRecord /\ InRun(w) /\ p.pc = "report" /\ p.result # "none"
      /\ p.event \in Events /\ p.claim \in Nat /\ p.started \in Nat /\ p.asOf <= now
      /\ Inductive /\ DispatchRest
  BY DEF DispatchInv, DispatchRest, ProcTypes, ProcRecord, Attempting, Polled, SendReport, InRun
<1>2. CASE ~Owns(p.event, p.claim)
  <2>1. UNCHANGED inboxVars /\ proc' = [proc EXCEPT ![w] = Resting]
    BY <1>2 DEF SendReport, inboxVars
  <2>2. /\ Resting.pc \in {"idle", "next"} /\ Resting.asOf <= now
        /\ Resting.pc = "next" => Resting.queue # <<>>
    BY RestingIsTyped DEF Later
  <2> QED
    BY <2>1, <2>2, RestingIsTyped, SettlesDown
<1>3. CASE Owns(p.event, p.claim)
  <2> PICK new : new = Proceed(p)
    OBVIOUS
  <2>1. proc' = [proc EXCEPT ![w] = new] /\ Complete(p.event, p.claim, p.result, p.started)
    BY <1>3 DEF SendReport
  <2>2. /\ new \in ProcRecord /\ new.pc \in {"idle", "next"} /\ new.asOf <= now
        /\ new.pc = "next" => new.queue # <<>>
    BY <1>1, ProceedIsTyped DEF Inductive
  <2>3. proc'[w] = new /\ \A v \in Workers \ {w} : proc'[v] = proc[v]
    BY <1>1, <2>1 DEF DispatchRest, ProcTypes
  <2>4. p.result \in Terminal \cup {"retryable"}
    BY <1>1 DEF ProcRecord, Terminal
  <2>5. ASSUME NEW v \in Workers \ {w} PROVE Attempting(v)'
    <3>1. InRun(v) /\ proc[v].event = p.event => proc[v].claim # p.claim
      BY <1>1 DEF DispatchRest, Distinct
    <3>2. \A e \in Events, c \in Nat, s \in Nat :
            InRun(v) /\ e = proc[v].event /\ c = proc[v].claim /\ Fenced(v, e, c, s)
              => Fenced(v, e, c, s)'
      BY <1>1, <2>1, <2>4, <3>1, FencedByOthers
    <3> QED
      BY <1>1, <2>3, <3>2, OthersAttempt
  <2>6. Attempting(w)' /\ Polled(w)'
    BY <2>1, <2>2, <2>3 DEF Attempting, Polled, InRun, Complete
  <2> QED
    BY <1>1, <2>1, <2>2, <2>5, <2>6, ProcessMoves
<1> QED
  BY <1>2, <1>3

(* Every process that is started is at rest, with the empty table.          *)
LEMMA DispatchStarts == DispatchInit => DispatchInv
<1> SUFFICES ASSUME DispatchInit PROVE DispatchInv
  OBVIOUS
<1>1. Inductive /\ Bounded
  BY InitInductive, InitBounded DEF DispatchInit
<1>2. /\ ProcTypes /\ now = 0
      /\ \A w \in Workers : proc[w].pc \in {"idle", "down"} /\ proc[w].asOf = 0
  <2>1. PICK up \in Deployments : proc = [w \in Workers |-> IF w \in up THEN Resting ELSE Down]
    BY DEF DispatchInit
  <2>2. Down \in ProcRecord /\ Down.pc = "down" /\ Down.asOf = 0
    BY RestingIsTyped DEF Down, ProcRecord
  <2> QED
    BY <2>1, <2>2, RestingIsTyped DEF DispatchInit, Init, ProcTypes
<1>3. DispatchRest
  BY <1>2 DEF DispatchRest, Attempting, Polled, Distinct, InRun
<1> QED
  BY <1>1, <1>3 DEF DispatchInv

(* The steps of the inbox let the clock and the claims grow.                 *)
LEMMA ClaimsGrow ==
  ASSUME Inductive, [Next]_inboxVars
  PROVE  Later
<1>1. Inductive' /\ Kept
  BY NextInductive, InboxKeeps
<1>2. \A e \in Events : issued[e] \in Nat /\ issued'[e] \in Nat
  BY <1>1 DEF Inductive, TypeOK
<1>3. ASSUME NEW f \in Events, ClaimAny(f) PROVE \A e \in Events : issued[e] <= issued'[e]
  <2>1. PICK t \in 0..now : ClaimTx(f, t)
    BY <1>3 DEF ClaimAny, Claim
  <2> SUFFICES ASSUME NEW e \in Events PROVE issued[e] <= issued'[e]
    OBVIOUS
  <2>2. issued'[e] = issued[e] \/ issued'[e] = issued[e] + 1
    BY <2>1, ClaimEffect
  <2> QED
    BY <1>2, <2>2
<1>4. CASE UNCHANGED issued
  BY <1>1, <1>2, <1>4 DEF Later, Kept
<1>5. \/ UNCHANGED issued \/ \E f \in Events : ClaimAny(f)
  BY DEF Next, Tick, EmitAny, Emit, CompleteAny, Complete, inboxVars
<1> QED
  BY <1>1, <1>2, <1>3, <1>4, <1>5 DEF Later, Kept

(* Every step of a process is a transaction of the inbox or none.           *)
LEMMA DispatchStepIsInboxStep ==
  ASSUME DispatchInv, [DispatchNext]_dispatchVars
  PROVE  [Next]_inboxVars
<1>1. CASE UNCHANGED dispatchVars
  BY <1>1 DEF dispatchVars, inboxVars
<1>2. CASE DispatchTick \/ Producer
  BY <1>2 DEF DispatchTick, Producer, Next
<1>3. ASSUME NEW w \in Workers, Poll(w) \/ RunHandler(w) \/ Crash(w)
      PROVE  UNCHANGED inboxVars
  BY <1>3 DEF Poll, RunHandler, Crash, inboxVars
<1>4. ASSUME NEW w \in Workers, ClaimNext(w) PROVE [Next]_inboxVars
  BY <1>4, AboutToClaim, ClaimTxIsStep DEF DispatchInv
<1>5. ASSUME NEW w \in Workers, SendReport(w) PROVE [Next]_inboxVars
  <2> PICK p : p = proc[w]
    OBVIOUS
  <2>1. CASE ~Owns(p.event, p.claim)
    BY <1>5, <2>1 DEF SendReport, inboxVars
  <2>2. CASE Owns(p.event, p.claim)
    <3>1. /\ p.event \in Events /\ p.claim \in 1..issued[p.event]
          /\ p.started \in 0..now /\ p.result \in Terminal \cup {"retryable"}
      BY <1>5 DEF SendReport, DispatchInv, DispatchRest, ProcTypes, ProcRecord, Attempting,
         Polled, InRun, Terminal, Inductive, TypeOK
    <3>2. Complete(p.event, p.claim, p.result, p.started)
      BY <1>5, <2>2 DEF SendReport
    <3> QED
      BY <3>1, <3>2 DEF Next, CompleteAny
  <2> QED
    BY <2>1, <2>2
<1> QED
  BY <1>1, <1>2, <1>3, <1>4, <1>5 DEF DispatchNext, Step

(* Every step of a process keeps the invariant.                             *)
LEMMA DispatchStepKeeps == DispatchInv /\ [DispatchNext]_dispatchVars => DispatchInv'
<1> SUFFICES ASSUME DispatchInv, [DispatchNext]_dispatchVars PROVE DispatchInv'
  OBVIOUS
<1>1. [Next]_inboxVars /\ Inductive' /\ Bounded' /\ Later
  BY DispatchStepIsInboxStep, NextInductive, NextBounded, ClaimsGrow DEF DispatchInv
<1>2. CASE DispatchTick \/ Producer \/ UNCHANGED dispatchVars
  <2>1. /\ proc' = proc
        /\ Tick \/ UNCHANGED inboxVars \/ \E f \in Events : EmitAny(f)
    BY <1>2 DEF DispatchTick, Producer, dispatchVars, inboxVars
  <2> QED
    BY <1>1, <2>1, ProcessesRest DEF DispatchInv
<1>3. ASSUME NEW w \in Workers, Step(w) \/ Crash(w) PROVE DispatchRest'
  BY <1>1, <1>3, PollKeeps, ClaimNextKeeps, RunHandlerKeeps, SendReportKeeps, CrashKeeps
     DEF Step
<1>4. CASE \E w \in Workers : Step(w) \/ Crash(w)
  BY <1>1, <1>3, <1>4 DEF DispatchInv
<1> QED
  BY <1>2, <1>4 DEF DispatchNext

(* A retry starts where the failed attempt did, plus its backoff.            *)
LEMMA RetryIsSpaced ==
  ASSUME DispatchInv, [DispatchNext]_dispatchVars, NEW e \in Events,
         row[e].status = "claimed", row'[e].status = "pending"
  PROVE  row'[e].available_at >= row[e].lease_until - Lease + Backoff(row[e].attempts)
<1>1. Inductive /\ row[e] \in Row /\ row[e].claim_id = issued[e] /\ issued[e] > 0
      /\ row[e].attempts = issued[e] /\ row[e].attempts <= row[e].max_attempts
      /\ issued[e] \in Nat
  BY DEF DispatchInv, Inductive, TypeOK, OneOwner, WithinBudget, Exists, Absent
<1>2. row'[e] # row[e]
  OBVIOUS
<1>3. ~\E f \in Events : EmitAny(f)
  BY <1>1, <1>2 DEF EmitAny, Emit, Exists, Inductive, TypeOK
<1>4. ~\E f \in Events, t \in 0..now : ClaimTx(f, t)
  <2> SUFFICES ASSUME NEW f \in Events, NEW t \in 0..now, ClaimTx(f, t) PROVE FALSE
    OBVIOUS
  <2>1. row'[e] = row[e] \/ row'[e].status = "claimed"
    BY <1>1, ClaimEffect
  <2> QED
    BY <2>1
<1>5. PICK w \in Workers : SendReport(w)
  BY <1>2, <1>3, <1>4, AboutToClaim
     DEF DispatchNext, Step, DispatchTick, Tick, Producer, Poll, RunHandler, Crash, dispatchVars
<1> PICK p : p = proc[w]
  OBVIOUS
<1>6. /\ p.event \in Events /\ p.claim \in 1..issued[p.event] /\ p.started \in Nat
      /\ p.result \in {"none", "success", "retryable"}
      /\ Fenced(w, p.event, p.claim, p.started)
  BY <1>5 DEF SendReport, DispatchInv, DispatchRest, ProcTypes, ProcRecord, Attempting, InRun
<1>7. Owns(p.event, p.claim) /\ Complete(p.event, p.claim, p.result, p.started)
  BY <1>2, <1>5 DEF SendReport
<1>8. p.event = e
  BY <1>1, <1>2, <1>6, <1>7 DEF Complete, Inductive, TypeOK
<1>9. row[e].lease_until = p.started + Lease
  BY <1>1, <1>6, <1>7, <1>8 DEF Fenced, Owns
<1>10. row'[e] = Completed(row[e], p.result, p.started)
  BY <1>1, <1>7, <1>8 DEF Complete, Inductive, TypeOK
<1>11. Completed(row[e], p.result, p.started).status = "pending"
         => Completed(row[e], p.result, p.started).available_at
              = p.started + Backoff(row[e].attempts)
  BY <1>1, <1>6 DEF Completed, Row
<1>12. Backoff(row[e].attempts) \in Nat
  BY <1>1, BackoffNat, BoundAssumption DEF Row
<1> QED
  BY <1>6, <1>9, <1>10, <1>11, <1>12, ParameterAssumption

(* trigger_runtime.py:4, "single-owner claims, bounded retry/backoff": no    *)
(* report of a superseded attempt is accepted, an attempt of dispatch_once   *)
(* is taken over only after its lease, and a retry waits for its backoff,    *)
(* for any processes, polls and crashes.                                     *)
THEOREM DispatchKept == DispatchSpec => DispatchSound
<1>1. DispatchInv => AttemptsAreFenced
  BY DEF DispatchInv, DispatchRest, Attempting, Fenced, AttemptsAreFenced, Running, InRun
<1>2. DispatchInv => SingleOwnerForALease
  <2> SUFFICES ASSUME DispatchInv, NEW v \in Chatters, NEW w \in Workers, NEW e \in Events,
                      Running(v, e), Running(w, e), proc[v].claim < proc[w].claim
               PROVE  proc[v].started + Lease <= now
    BY DEF SingleOwnerForALease
  <2>1. v \in Workers /\ proc[v].claim \in 1..issued[e] /\ proc[w].claim \in 1..issued[e]
        /\ Fenced(v, e, proc[v].claim, proc[v].started)
    BY DEF Running, InRun, DispatchInv, DispatchRest, Attempting, Workers
  <2>2. issued[e] \in Nat /\ (row[e].status = "claimed" => row[e].claim_id = issued[e])
    BY DEF DispatchInv, Inductive, TypeOK, OneOwner
  <2> QED
    BY <2>1, <2>2 DEF Fenced, Owns
<1>3. DispatchInv /\ [DispatchNext]_dispatchVars =>
        [\A e \in Events :
           (row[e].status = "claimed" /\ row'[e].status = "pending")
             => row'[e].available_at >= row[e].lease_until - Lease + Backoff(row[e].attempts)]_dispatchVars
  BY RetryIsSpaced
<1> QED
  BY <1>1, <1>2, <1>3, DispatchStarts, DispatchStepKeeps, PTL
     DEF DispatchSpec, DispatchSound, RetriesAreSpaced

(* Whatever dispatchers do, they use the inbox only as its transactions      *)
(* allow.                                                                    *)
THEOREM DispatchRefinement == DispatchSpec => DispatchersUseInbox
<1>1. DispatchInit => Init
  BY DEF DispatchInit
<1> QED
  BY <1>1, DispatchStarts, DispatchStepKeeps, DispatchStepIsInboxStep, PTL
     DEF DispatchSpec, DispatchersUseInbox, Spec
===============================================================================
