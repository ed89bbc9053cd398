---------------------------- MODULE TriggerDispatch ----------------------------
(***************************************************************************)
(* Dispatchers on top of the inbox: processes that poll the table and run   *)
(* handlers, interleaved between their transactions, crashing and           *)
(* restarting.  A batcher calls TriggerRuntime.dispatch_due as              *)
(* AdaptiveRuntime.dispatch_triggers does (no kind, one timestamp for the   *)
(* whole batch); a chatter calls AdaptiveTrigger.dispatch_once (its own     *)
(* kind, a fresh timestamp per event).  Every step is a step of             *)
(* TriggerInbox or leaves its variables alone.                              *)
(***************************************************************************)
EXTENDS TriggerInbox, Sequences

CONSTANTS Batchers, Chatters,    \* the dispatching processes
          KindOf, PriorityOf,    \* columns kind and priority of a content
          ChatKind,              \* "adaptive_runtime", the kind chatters drain
          Limit,                 \* rows a poll returns at most
          Deployments,           \* the sets of processes that may be running
          MaxCrashes             \* bound of the crashes

ASSUME DispatchAssumption ==
  /\ Batchers \cap Chatters = {} /\ Deployments \subseteq SUBSET (Batchers \cup Chatters)
  /\ Events \subseteq Nat        \* event ids are ordered as numbers
  /\ Limit \in Nat \ {0} /\ MaxCrashes \in Nat

VARIABLES proc,     \* local state of every process, lost in a crash
          crashes   \* crashes so far
dispatchVars == <<now, row, issued, settled, proc, crashes>>

Workers == Batchers \cup Chatters

(* queue: events polled and not yet tried; asOf: the batch timestamp;        *)
(* event, claim, started: the attempt under way and the timestamp of its     *)
(* claim; result: what the handler ended with.                               *)
Resting == [pc |-> "idle", queue |-> <<>>, asOf |-> 0, event |-> 0, claim |-> NoClaim,
         started |-> 0, result |-> "none"]

Down == [Resting EXCEPT !.pc = "down"]    \* a process nobody has started
DispatchInit ==
  /\ Init /\ crashes = 0
  /\ \E up \in Deployments : proc = [w \in Workers |-> IF w \in up THEN Resting ELSE Down]

-------------------------------------------------------------------------------
(* due: only the query with a kind sees claims whose lease is over.          *)
BugDueWithSpent(t) ==    \* mutant: the query without a kind sees them as well
  {e \in Events : \/ row[e].status = "pending" /\ row[e].available_at <= t
                  \/ row[e].status = "claimed" /\ row[e].lease_until <= t}
DuePending(t) == {e \in Events : row[e].status = "pending" /\ row[e].available_at <= t}
BugDueWithoutRecovery(kind, t) ==    \* mutant: the query of the other branch
  {e \in DuePending(t) : KindOf[row[e].content] = kind}
DueOfKind(kind, t) ==
  {e \in Events : /\ Exists(e) /\ KindOf[row[e].content] = kind
                  /\ \/ e \in DuePending(t)
                     \/ row[e].status = "claimed" /\ row[e].lease_until <= t}
Before(e, f) ==     \* ORDER BY priority, available_at, event_id
  LET p == PriorityOf[row[e].content]  q == PriorityOf[row[f].content]
      a == row[e].available_at         b == row[f].available_at
  IN  \/ p < q
      \/ p = q /\ a < b
      \/ p = q /\ a = b /\ e < f
(* The first LIMIT of them in this order: the i-th row has i-1 before it.    *)
FirstRows(events) ==
  LET n == Cardinality(events)
  IN {queue \in [1..(IF n < Limit THEN n ELSE Limit) -> events] :
       \A i \in DOMAIN queue :
         {e \in events : Before(e, queue[i])} = {queue[j] : j \in 1..(i - 1)}}
Due(w) == IF w \in Batchers THEN DuePending(now) ELSE DueOfKind(ChatKind, now)

Poll(w) ==
  /\ proc[w].pc = "idle" /\ Due(w) # {}
  /\ \E queue \in FirstRows(Due(w)) :
       proc' = [proc EXCEPT ![w] = [Resting EXCEPT !.pc = "next", !.queue = queue,
                                     !.asOf = IF w \in Batchers THEN now ELSE 0]]
  /\ UNCHANGED <<now, row, issued, settled, crashes>>

(* The `now` a process hands to claim and complete: the batch's, or its own. *)
Timestamp(w) == IF w \in Batchers THEN proc[w].asOf ELSE now
Proceed(p) == IF p.queue = <<>> THEN Resting
              ELSE [Resting EXCEPT !.pc = "next", !.queue = p.queue, !.asOf = p.asOf]

(* claim of the next polled event: the handler starts, or the event is       *)
(* skipped because somebody else was faster.                                 *)
ClaimNext(w) ==
  /\ proc[w].pc = "next"
  /\ LET e == Head(proc[w].queue)
         t == Timestamp(w)
         rest == [proc[w] EXCEPT !.queue = Tail(@)]
     IN  /\ ClaimTx(e, t)
         /\ proc' = [proc EXCEPT ![w] =
              IF Granted(e, t)
                THEN [rest EXCEPT !.pc = "run", !.event = e, !.claim = issued[e] + 1,
                                  !.started = t]
                ELSE Proceed(rest)]
  /\ UNCHANGED crashes

(* The handler returns or raises.                                            *)
RunHandler(w) ==
  /\ proc[w].pc = "run"
  /\ \E result \in {"success", "retryable"} :
       proc' = [proc EXCEPT ![w].pc = "report", ![w].result = result]
  /\ UNCHANGED <<now, row, issued, settled, crashes>>

(* complete with the timestamp taken before the handler ran.  When the claim *)
(* was taken over, KeyError ends the whole batch (and in _dispatch_event the *)
(* second complete, in the except branch, raises it again).                  *)
BugSendUnowned(w) ==    \* mutant: the result is written without the claim check
  /\ proc[w].pc = "report"
  /\ LET p == proc[w]
     IN  /\ row' = [row EXCEPT ![p.event] = Completed(@, p.result, p.started)]
         /\ settled' = [settled EXCEPT ![p.event] = p.claim]
         /\ proc' = [proc EXCEPT ![w] = Proceed(p)]
  /\ UNCHANGED <<now, issued, crashes>>
SendReport(w) ==
  /\ proc[w].pc = "report"
  /\ LET p == proc[w]
     IN  IF Owns(p.event, p.claim)
           THEN /\ Complete(p.event, p.claim, p.result, p.started)
                /\ proc' = [proc EXCEPT ![w] = Proceed(p)]
           ELSE /\ proc' = [proc EXCEPT ![w] = Resting]
                /\ UNCHANGED <<now, row, issued, settled>>
  /\ UNCHANGED crashes

Crash(w) ==
  /\ proc[w].pc \notin {"idle", "down"}
  /\ crashes < MaxCrashes
  /\ crashes' = crashes + 1
  /\ proc' = [proc EXCEPT ![w] = Resting]
  /\ UNCHANGED <<now, row, issued, settled>>

DispatchTick == Tick /\ UNCHANGED <<proc, crashes>>
Producer == (\E e \in Events : EmitAny(e)) /\ UNCHANGED <<proc, crashes>>
Step(w) == Poll(w) \/ ClaimNext(w) \/ RunHandler(w) \/ SendReport(w)

DispatchNext == DispatchTick \/ Producer \/ \E w \in Workers : Step(w) \/ Crash(w)

(* A process that is up keeps running and the clock goes on; nothing obliges *)
(* anybody to emit, and a crash may happen or not.                           *)
DispatchFairness == /\ WF_dispatchVars(DispatchTick)
            /\ \A w \in Workers : WF_dispatchVars(Step(w))
DispatchSpec == DispatchInit /\ [][DispatchNext]_dispatchVars /\ DispatchFairness
-------------------------------------------------------------------------------
(* Whatever the interleaving and the crashes, the dispatchers use the inbox  *)
(* only as TriggerInbox allows, so its theorems apply to them.               *)
DispatchersUseInbox == Spec

Running(w, e) == proc[w].pc \in {"run", "report"} /\ proc[w].event = e

(* An attempt under way holds the recorded claim, unless a later claim       *)
(* superseded it: no report of an older attempt can be accepted.             *)
AttemptsAreFenced == \A w \in Workers, e \in Events :
  Running(w, e) => \/ Owns(e, proc[w].claim)
                   \/ proc[w].claim < issued[e]

(* trigger_runtime.py:4, "single-owner claims": an attempt of dispatch_once   *)
(* is taken over, by whoever, only when claim_lease_seconds have passed since *)
(* it was granted.  (One of dispatch_due is taken over earlier: its lease     *)
(* counts from the beginning of the batch.)                                  *)
SingleOwnerForALease == \A v \in Chatters, w \in Workers : \A e \in Events :
  (Running(v, e) /\ Running(w, e) /\ proc[v].claim < proc[w].claim)
    => proc[v].started + Lease <= now

(* trigger_runtime.py:4, "bounded retry/backoff": the clock value a report   *)
(* carries was read before its handler ran, by either dispatcher, so the     *)
(* delay, doubled with every attempt, has often passed when it is written;   *)
(* but it never counts from before the grant of the failed attempt.          *)
RetriesAreSpaced == [][\A e \in Events :
  (row[e].status = "claimed" /\ row'[e].status = "pending")
    => row'[e].available_at >= row[e].lease_until - Lease + Backoff(row[e].attempts)]_dispatchVars

(* No late report is accepted, no attempt is taken over too early, and none  *)
(* is repeated too early.                                                    *)
DispatchSound == [](AttemptsAreFenced /\ SingleOwnerForALease) /\ RetriesAreSpaced

(* Both dispatchers ask for LIMIT rows.  A claim that was the last attempt   *)
(* and whose owner died is listed by the query with a kind for good, though  *)
(* nobody can claim it: LIMIT such rows hide what comes behind them.         *)
Spent(f) == /\ row[f].status = "claimed" /\ row[f].attempts = row[f].max_attempts
            /\ row[f].lease_until <= now /\ KindOf[row[f].content] = ChatKind
Hidden(e) == Cardinality({f \in Events : Spent(f) /\ Before(f, e)}) >= Limit
Up(workers) == \E w \in workers : proc[w].pc # "down"

(* docs/LLM_CHAT_TRIGGER.md:117, "If a worker disappears after claiming an   *)
(* event, another dispatcher can reclaim the event after the lease expires": *)
(* a claim of the chat's kind that was not the last attempt ends, unless     *)
(* spent claims hide it.  Leases that end after the last clock value of the  *)
(* model are out of scope.                                                   *)
RetryableClaimsEnd == \A e \in Events :
  LET lapses == row[e].status = "claimed" /\ row[e].lease_until <= MaxTime IN
  (Up(Chatters) /\ lapses /\ KindOf[row[e].content] = ChatKind
                /\ row[e].attempts < row[e].max_attempts)
    ~> (~lapses \/ row[e].attempts = row[e].max_attempts \/ Hidden(e))

(* No pending event is forgotten: it is claimed again and again until it is  *)
(* settled, unless its time lies beyond the last clock value.  The query     *)
(* without a kind leaves spent claims out, so a batcher finds every pending  *)
(* event behind any number of them; chatters alone find those of their kind  *)
(* that are not hidden.                                                      *)
PendingIsServed == \A e \in Events :
  LET waits == row[e].status = "pending" /\ row[e].available_at <= MaxTime
      found == Up(Batchers) \/ (Up(Chatters) /\ KindOf[row[e].content] = ChatKind)
  IN  (waits /\ found) ~> (~waits \/ (Hidden(e) /\ ~Up(Batchers)))
===============================================================================
