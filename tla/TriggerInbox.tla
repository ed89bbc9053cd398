----------------------------- MODULE TriggerInbox -----------------------------
(***************************************************************************)
(* The durable event inbox of portable/trigger_runtime.py: the SQLite table *)
(* trigger_events and the transactions that write it (emit, claim,          *)
(* complete), each one atomic because it runs under BEGIN IMMEDIATE.        *)
(*                                                                         *)
(* The clients of this module are the most general ones: any process may    *)
(* call any operation at any time, with a claim id it was once given, and   *)
(* with a `now` argument it read from the clock at any earlier moment       *)
(* (dispatch_due and AdaptiveTrigger._dispatch_event both pass a timestamp  *)
(* taken before the call).  What holds here holds for every dispatcher.     *)
(***************************************************************************)
EXTENDS Naturals, FiniteSets

CONSTANTS Events,       \* event ids
          Contents,     \* what an event says: its kind, payload and priority
          MaxEvents,    \* max_events: rows the table may hold
          MaxAttempts,  \* bound of the max_attempts argument of emit
          RetryDelay,   \* retry_delay_seconds
          Lease,        \* claim_lease_seconds
          NotBefore,    \* explicit not_before arguments of emit
          MaxTime       \* bound of the clock

ASSUME ParameterAssumption ==    \* TriggerRuntime.__init__ refuses other values
  /\ MaxEvents \in Nat \ {0}
  /\ RetryDelay \in Nat \ {0}
  /\ Lease \in Nat \ {0}
ASSUME BoundAssumption ==
  /\ MaxAttempts \in Nat \ {0}
  /\ MaxTime \in Nat
  /\ NotBefore \subseteq Nat
ASSUME PowerAssumption == \A n \in 0..MaxAttempts : 2^n \in Nat

VARIABLES now,      \* the clock, in seconds
          row,      \* the table trigger_events
          issued,   \* claims handed out for an event; claim k is the k-th uuid
          settled   \* the claim whose completion was accepted last (0: none)
inboxVars == <<now, row, issued, settled>>

Terminal == {"success", "failed", "cancelled"}
NoClaim == 0     \* NULL in the column claim_id

Absent == [content |-> "none", status |-> "absent", attempts |-> 0,
           max_attempts |-> 0, available_at |-> 0, claim_id |-> NoClaim,
           lease_until |-> 0]
Row == [content : Contents, status : {"pending", "claimed"} \cup Terminal,
        attempts : Nat, max_attempts : 1..MaxAttempts, available_at : Nat,
        claim_id : Nat, lease_until : Nat]

Exists(e) == row[e].status # "absent"

Init == /\ now = 0
        /\ row = [e \in Events |-> Absent]
        /\ issued = [e \in Events |-> 0]
        /\ settled = [e \in Events |-> 0]

-------------------------------------------------------------------------------
(* emit: the row is inserted when the id is new and the table has room.  An  *)
(* id that exists is either returned unchanged or refused, and a full table  *)
(* refuses: neither writes.                                                  *)
NewRow(content, max, start) ==
  [content |-> content, status |-> "pending", attempts |-> 0, max_attempts |-> max,
   available_at |-> start, claim_id |-> NoClaim, lease_until |-> 0]
Emit(e, content, max, start) ==
  /\ ~Exists(e)
  /\ Cardinality({f \in Events : Exists(f)}) < MaxEvents
  /\ row' = [row EXCEPT ![e] = NewRow(content, max, start)]
  /\ UNCHANGED <<now, issued, settled>>

(* claim, first UPDATE: a claim whose lease is over at time t is released,   *)
(* unless it was the last attempt.                                           *)
BugLapsedAnytime(r, t) == r.status = "claimed" /\ r.attempts < r.max_attempts
Lapsed(r, t) == /\ r.status = "claimed"
                /\ r.lease_until <= t
                /\ r.attempts < r.max_attempts
AfterLapse(r, t) ==
  IF Lapsed(r, t)
    THEN [r EXCEPT !.status = "pending", !.claim_id = NoClaim, !.lease_until = 0]
    ELSE r

(* claim, second UPDATE: a pending event that is due at t and has attempts   *)
(* left gets a new owner.                                                    *)
Free(r, t) == /\ r.status = "pending"
              /\ r.available_at <= t
              /\ r.attempts < r.max_attempts
              /\ r.claim_id = NoClaim
Granted(e, t) == Free(AfterLapse(row[e], t), t)
Taken(r, c, t) == [r EXCEPT !.status = "claimed", !.claim_id = c,
                            !.lease_until = t + Lease, !.attempts = @ + 1]

(* The whole transaction.  It commits the release even when the claim is     *)
(* then refused (RecoveryGrants says that this never happens).               *)
ClaimTx(e, t) ==
  /\ row' = [row EXCEPT ![e] =
               LET r == AfterLapse(@, t)
               IN  IF Free(r, t) THEN Taken(r, issued[e] + 1, t) ELSE r]
  /\ issued' = [issued EXCEPT ![e] = IF Granted(e, t) THEN @ + 1 ELSE @]
  /\ UNCHANGED <<now, settled>>
Claim(e, t) == /\ Granted(e, t) \/ Lapsed(row[e], t)
               /\ ClaimTx(e, t)

(* complete: the caller must own the claim, whatever its lease says.         *)
BugOwnsAny(e, c) == row[e].status = "claimed"    \* mutant: claim_id not compared
Owns(e, c) == row[e].status = "claimed" /\ row[e].claim_id = c
Backoff(attempts) == RetryDelay * 2^(attempts - 1)
BugRetryForever(r, result, t) ==   \* mutant: attempts not compared with the budget
  [r EXCEPT !.status = IF result = "retryable" THEN "pending" ELSE result,
            !.claim_id = NoClaim, !.lease_until = 0,
            !.available_at = IF result = "retryable" THEN t + Backoff(r.attempts) ELSE t]
Completed(r, result, t) ==
  IF result = "retryable" /\ r.attempts < r.max_attempts
    THEN [r EXCEPT !.status = "pending", !.claim_id = NoClaim, !.lease_until = 0,
                   !.available_at = t + Backoff(r.attempts)]
    ELSE [r EXCEPT !.status = IF result = "retryable" THEN "failed" ELSE result,
                   !.claim_id = NoClaim, !.lease_until = 0, !.available_at = t]
Complete(e, c, result, t) ==
  /\ Owns(e, c)
  /\ row' = [row EXCEPT ![e] = Completed(@, result, t)]
  /\ settled' = [settled EXCEPT ![e] = c]
  /\ UNCHANGED <<now, issued>>

Tick == /\ now < MaxTime
        /\ now' = now + 1
        /\ UNCHANGED <<row, issued, settled>>

EmitAny(e) == \E content \in Contents, max \in 1..MaxAttempts,
                 start \in {now} \cup NotBefore : Emit(e, content, max, start)
ClaimAny(e) == \E t \in 0..now : Claim(e, t)
CompleteAny(e) == \E c \in 1..issued[e], result \in Terminal \cup {"retryable"},
                     t \in 0..now : Complete(e, c, result, t)

Next == Tick \/ \E e \in Events : EmitAny(e) \/ ClaimAny(e) \/ CompleteAny(e)

Spec == Init /\ [][Next]_inboxVars
-------------------------------------------------------------------------------
(* Types of the four variables. *)
TypeOK == /\ now \in Nat
          /\ row \in [Events -> Row \cup {Absent}]
          /\ issued \in [Events -> Nat]
          /\ settled \in [Events -> Nat]

(* trigger_runtime.py:95, "at-most-one active claim per event": the claim a  *)
(* row records is the newest one handed out, so every older holder has been  *)
(* fenced off, and only a claimed row records one.                           *)
OneOwner == \A e \in Events :
  /\ row[e].status = "claimed" => row[e].claim_id = issued[e] /\ issued[e] > 0
  /\ row[e].status # "claimed" => row[e].claim_id = NoClaim

(* max_attempts bounds the claims ever handed out for an event, counting     *)
(* those of crashed owners, and a pending event has an attempt left: nothing *)
(* waits in the inbox that no claim would ever take.                         *)
WithinBudget == \A e \in Events : Exists(e) =>
  /\ row[e].attempts = issued[e]
  /\ row[e].attempts <= row[e].max_attempts
  /\ row[e].status = "pending" => row[e].attempts < row[e].max_attempts

(* A lease is over only after the event is available, so the claim that      *)
(* releases a lapsed owner also gets the event: the path on which claim      *)
(* commits the release and returns None (trigger_runtime.py:265) is dead.    *)
RecoveryGrants == \A e \in Events, t \in 0..now :
  Lapsed(row[e], t) => Granted(e, t)

(* A terminal status was written by the last owner the event ever had: a     *)
(* slow handler whose claim was taken over cannot settle it.                 *)
SettledByLastOwner == \A e \in Events :
  row[e].status \in Terminal => settled[e] = issued[e] /\ issued[e] > 0

(* emit never lets the table outgrow max_events.                             *)
InboxBounded == Cardinality({e \in Events : Exists(e)}) <= MaxEvents

(* "A live claim cannot be stolen" (docs/LLM_CHAT_TRIGGER.md:117): while the *)
(* lease lasts, only its owner's completion ends a claim.                    *)
LiveClaimKept == [][\A e \in Events :
  (row[e].status = "claimed" /\ row[e].lease_until > now)
    => (row'[e] = row[e] \/ settled'[e] = row[e].claim_id)]_inboxVars

(* The inductive invariant: with the last two facts the parts above are      *)
(* preserved by every transaction.                                           *)
AbsentUntouched == \A e \in Events :
  ~Exists(e) => row[e] = Absent /\ issued[e] = 0
LeaseAfterStart == \A e \in Events :
  row[e].status = "claimed" => row[e].available_at < row[e].lease_until
Inductive == /\ TypeOK
             /\ OneOwner
             /\ WithinBudget
             /\ SettledByLastOwner
             /\ AbsentUntouched
             /\ LeaseAfterStart

(* What the inbox promises in every state: ownership, budget and settlement  *)
(* (Inductive), recovery of lapsed owners, and the size of the table.        *)
InboxSound == Inductive /\ RecoveryGrants /\ InboxBounded

(* A settled event is never reopened, and its record never rewritten.        *)
TerminalForGood == [][\A e \in Events :
  row[e].status \in Terminal => row'[e] = row[e]]_inboxVars

(* The abstract contract, and the phase each status stands for.              *)
Phase(status) == CASE status = "absent" -> "none"
                   [] status = "pending" -> "open"
                   [] status = "claimed" -> "held"
                   [] OTHER -> status
Work == INSTANCE ExclusiveWork WITH
  Items <- Events, MaxBudget <- MaxAttempts,
  phase <- [e \in Events |-> Phase(row[e].status)],
  grant <- issued, settler <- settled,
  budget <- [e \in Events |-> row[e].max_attempts]
(* Every transaction of the inbox is one step of ExclusiveWork or none.      *)
ImplementsExclusiveWork == Work!Spec
===============================================================================
