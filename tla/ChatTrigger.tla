------------------------------ MODULE ChatTrigger ------------------------------
(***************************************************************************)
(* The fire-and-forget path of portable/adaptive_trigger.py: caller threads *)
(* persist a request and submit it to the shared pool while they hold the   *)
(* adapter's lock, pool threads claim the event and run it, and close()     *)
(* waits for what was submitted.  The lock is a threading.Lock: a thread    *)
(* that asks for it twice waits for itself.                                 *)
(***************************************************************************)
EXTENDS TriggerInbox, Sequences

CONSTANTS Callers,     \* threads calling trigger_adaptive_runtime
          Pool,        \* threads of _BACKGROUND_EXECUTOR
          Closer,      \* the thread calling close()
          Nobody,      \* the lock is free
          MaxCalls     \* bound of the futures submitted
Threads == Callers \cup Pool \cup {Closer}
ASSUME ChatAssumption ==    \* a thread has one of these roles
  /\ MaxCalls \in Nat /\ Nobody \notin Threads
  /\ Callers \cap Pool = {} /\ Closer \notin Callers \cup Pool

VARIABLES adapter,   \* _lock, _closed and _futures of the AdaptiveTrigger
          future,    \* the futures submitted, in order: event, done?, callback?
          thread     \* local state of every thread
chatVars == <<now, row, issued, settled, adapter, future, thread>>

Idle == [pc |-> "idle", background |-> FALSE, event |-> "none", future |-> 0,
         claim |-> NoClaim, started |-> 0, result |-> "none", waiting |-> {}]

ChatInit == /\ Init
            /\ adapter = [lock |-> Nobody, closed |-> FALSE, futures |-> {}]
            /\ future = <<>>
            /\ thread = [x \in Threads |-> Idle]

At(x, pc) == thread[x].pc = pc
Move(x, pc) == thread' = [thread EXCEPT ![x].pc = pc]
-------------------------------------------------------------------------------
(* A call: with self._lock ...                                               *)
EnterCall(c, background) ==
  /\ At(c, "idle") /\ adapter.lock = Nobody /\ Len(future) < MaxCalls
  /\ adapter' = [adapter EXCEPT !.lock = c]
  /\ thread' = [thread EXCEPT ![c] = [Idle EXCEPT !.pc = "emit",
                                                  !.background = background]]
  /\ UNCHANGED <<now, row, issued, settled, future>>

Leave(c) == /\ adapter' = [adapter EXCEPT !.lock = Nobody]
            /\ thread' = [thread EXCEPT ![c] = Idle]

(* ... a closed adapter refuses, and so does emit when the id exists with    *)
(* other content or the inbox is full: the call raises ...                   *)
BugRefuse(c) ==    \* mutant: close is not noticed
  /\ At(c, "emit") /\ \E e \in Events : Exists(e)
  /\ Leave(c)
  /\ UNCHANGED <<now, row, issued, settled, future>>
Refuse(c) ==
  /\ At(c, "emit")
  /\ adapter.closed \/ \E e \in Events : Exists(e)
  /\ Leave(c)
  /\ UNCHANGED <<now, row, issued, settled, future>>

(* ... otherwise the event is committed (or exists with this very content)   *)
(* and, for fire_and_forget, goes on to the pool.                            *)
Persist(c, e) ==
  /\ At(c, "emit") /\ ~adapter.closed
  /\ \/ \E content \in Contents, max \in 1..MaxAttempts : Emit(e, content, max, now)
     \/ Exists(e) /\ UNCHANGED inboxVars
  /\ IF thread[c].background
       THEN /\ thread' = [thread EXCEPT ![c].pc = "submit", ![c].event = e]
            /\ UNCHANGED adapter
       ELSE Leave(c)
  /\ UNCHANGED future

Submit(c) ==
  /\ At(c, "submit")
  /\ future' = Append(future, [event |-> thread[c].event, state |-> "queued",
                               hooked |-> FALSE])
  /\ thread' = [thread EXCEPT ![c].pc = "track", ![c].future = Len(future) + 1]
  /\ UNCHANGED <<now, row, issued, settled, adapter>>

Track(c) ==
  /\ At(c, "track")
  /\ adapter' = [adapter EXCEPT !.futures = @ \cup {thread[c].future}]
  /\ Move(c, "hook")
  /\ UNCHANGED <<now, row, issued, settled, future>>

(* add_done_callback.  The callback of a future that is already done is      *)
(* called at once, by this thread: _forget_future then waits for the lock    *)
(* this thread holds, and there is no step out of "forget" for a caller.     *)
Hook(c) ==
  /\ At(c, "hook")
  /\ IF future[thread[c].future].state = "done"
       THEN Move(c, "forget") /\ UNCHANGED <<adapter, future>>
       ELSE /\ future' = [future EXCEPT ![thread[c].future].hooked = TRUE]
            /\ Leave(c)
  /\ UNCHANGED <<now, row, issued, settled>>
-------------------------------------------------------------------------------
(* A pool thread takes the oldest queued future and runs _dispatch_event:    *)
(* claim, read the clock, run, complete with that reading.                   *)
Take(w, k) ==
  /\ At(w, "idle")
  /\ future[k].state = "queued"
  /\ \A j \in 1..(k - 1) : future[j].state # "queued"
  /\ future' = [future EXCEPT ![k].state = "running"]
  /\ thread' = [thread EXCEPT ![w] = [Idle EXCEPT !.pc = "claim", !.future = k,
                                                  !.event = future[k].event]]
  /\ UNCHANGED <<now, row, issued, settled, adapter>>

ClaimJob(w) ==
  /\ At(w, "claim")
  /\ LET e == thread[w].event
     IN  /\ ClaimTx(e, now)
         /\ thread' = [thread EXCEPT ![w].pc = IF Granted(e, now) THEN "run" ELSE "finish",
                                     ![w].claim = issued'[e], ![w].started = now]
  /\ UNCHANGED <<adapter, future>>

Handle(w, result) ==
  /\ At(w, "run")
  /\ thread' = [thread EXCEPT ![w].pc = "report", ![w].result = result]
  /\ UNCHANGED <<now, row, issued, settled, adapter, future>>

(* A claim that was taken over makes both completes raise KeyError; the      *)
(* future then holds the exception, which nobody reads.                      *)
BugReportUnowned(w) ==    \* mutant: the result is written without the claim check
  /\ At(w, "report")
  /\ LET r == thread[w]
     IN  /\ row' = [row EXCEPT ![r.event] = Completed(@, r.result, r.started)]
         /\ settled' = [settled EXCEPT ![r.event] = r.claim]
  /\ Move(w, "finish")
  /\ UNCHANGED <<now, issued, adapter, future>>
BugReportHangs(w) ==      \* mutant: complete is retried while it raises KeyError
  /\ At(w, "report")
  /\ LET r == thread[w]
     IN  Owns(r.event, r.claim) /\ Complete(r.event, r.claim, r.result, r.started)
  /\ Move(w, "finish")
  /\ UNCHANGED <<adapter, future>>
Report(w) ==
  /\ At(w, "report")
  /\ LET r == thread[w]
     IN  IF Owns(r.event, r.claim) THEN Complete(r.event, r.claim, r.result, r.started)
                                   ELSE UNCHANGED inboxVars
  /\ Move(w, "finish")
  /\ UNCHANGED <<adapter, future>>

(* The future is done, and its callback, if it was added, needs the lock.    *)
Finish(w) ==
  /\ At(w, "finish")
  /\ future' = [future EXCEPT ![thread[w].future].state = "done"]
  /\ thread' = [thread EXCEPT ![w] =
       IF future[@.future].hooked THEN [@ EXCEPT !.pc = "forget"] ELSE Idle]
  /\ UNCHANGED <<now, row, issued, settled, adapter>>

Forget(w) ==
  /\ At(w, "forget") /\ adapter.lock = Nobody
  /\ adapter' = [adapter EXCEPT !.futures = @ \ {thread[w].future}]
  /\ thread' = [thread EXCEPT ![w] = Idle]
  /\ UNCHANGED <<now, row, issued, settled, future>>
-------------------------------------------------------------------------------
(* close: mark and take the snapshot under the lock, then wait for it.       *)
BugCloseUnlocked ==    \* mutant: the snapshot is taken without the lock
  /\ At(Closer, "idle")
  /\ adapter' = [adapter EXCEPT !.closed = TRUE]
  /\ thread' = [thread EXCEPT ![Closer].pc = "wait",
                              ![Closer].waiting = adapter.futures]
  /\ UNCHANGED <<now, row, issued, settled, future>>
Close ==
  /\ At(Closer, "idle") /\ adapter.lock = Nobody
  /\ adapter' = [adapter EXCEPT !.closed = TRUE]
  /\ thread' = [thread EXCEPT ![Closer].pc = "wait",
                              ![Closer].waiting = adapter.futures]
  /\ UNCHANGED <<now, row, issued, settled, future>>
CloseReturns ==
  /\ At(Closer, "wait")
  /\ \A k \in thread[Closer].waiting : future[k].state = "done"
  /\ Move(Closer, "closed")
  /\ UNCHANGED <<now, row, issued, settled, adapter, future>>

ChatTick == Tick /\ UNCHANGED <<adapter, future, thread>>
InCall(c) == Refuse(c) \/ (\E e \in Events : Persist(c, e)) \/ Submit(c) \/ Track(c) \/ Hook(c)
PoolStep(w) == \/ \E k \in 1..Len(future) : Take(w, k)
               \/ ClaimJob(w)
               \/ \E result \in {"success", "retryable"} : Handle(w, result)
               \/ Report(w) \/ Finish(w) \/ Forget(w)

ChatNext == \/ \E c \in Callers : InCall(c) \/ \E b \in BOOLEAN : EnterCall(c, b)
            \/ \E w \in Pool : PoolStep(w)
            \/ Close \/ CloseReturns \/ ChatTick

(* Threads that can run do run; whoever waits for the lock gets it in the    *)
(* end (strong fairness: it may be taken and released again in between).     *)
Fairness == /\ \A c \in Callers : WF_chatVars(InCall(c))
            /\ \A w \in Pool : WF_chatVars(PoolStep(w)) /\ SF_chatVars(Forget(w))
            /\ WF_chatVars(CloseReturns)
ChatSpec == ChatInit /\ [][ChatNext]_chatVars /\ Fairness
-------------------------------------------------------------------------------
(* The adapter writes the inbox only through its transactions.               *)
ImplementsInbox == Spec

(* adaptive_trigger.py:3, "persists an execution intent first": whatever the *)
(* pool was given is in the inbox, so a restart finds it there.              *)
PersistedFirst == \A k \in 1..Len(future) : Exists(future[k].event)

(* When close() has returned, no submitted request is running or about to.   *)
CloseDrains == At(Closer, "closed") =>
  \A k \in 1..Len(future) : future[k].state = "done"

(* Outside the critical sections _futures holds every unfinished future, and *)
(* a finished one only until its callback has run: the set does not grow.    *)
TrackedExactly == adapter.lock = Nobody =>
  \A k \in 1..Len(future) :
    k \in adapter.futures <=> \/ future[k].state # "done"
                              \/ \E w \in Pool : At(w, "forget") /\ thread[w].future = k

(* What the lock of the adapter protects: requests are durable before they   *)
(* are run, close leaves none behind, and the set of futures is exact.       *)
AdapterSound == PersistedFirst /\ CloseDrains /\ TrackedExactly

(* "Persist a chat request and optionally dispatch it without blocking"      *)
(* (adaptive_trigger.py:109): a call that is under way returns.              *)
CallsReturn == \A c \in Callers : ~At(c, "idle") ~> At(c, "idle")

(* The same for calls whose future was not finished before its callback was  *)
(* added; if one was, its caller keeps the lock for ever.                    *)
CallsReturnUnlessOvertaken == \A c \in Callers :
  ~At(c, "idle") ~> (At(c, "idle") \/ \E d \in Callers : At(d, "forget"))

(* Every request the pool was given is run to its end.                       *)
FuturesFinish == \A k \in 1..MaxCalls :
  k <= Len(future) ~> (\/ k <= Len(future) /\ future[k].state = "done"
                       \/ \E d \in Callers : At(d, "forget"))
===============================================================================
