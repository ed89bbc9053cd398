# TLA+ verification of the portable engineering runtime

This directory models the stateful core of the repository: the durable event
inbox and its dispatchers, the chat adapter, the scheduler with its claim/run
ledger and the maintenance lane above it, the state-graph engine with the agent
team it executes, the harness run with its checkpoints, the orchestrator, the
offload broker, deferred learning, the stores that decide what is active
(releases, orchestrations, installed builds, policies, goals, capability
trials), engineering episodes, the shared task memory and sessions. Each model
is translated from the source file named at the top of its module;
`PROJECT.json` maps every definition to the lines it stands for.

Paths below are relative to the repository (`portable/...` is
`src/portable/...` in `PROJECT.json`).

## 1. Inventory

| Component | State it keeps | Operations | What is hard about it |
|---|---|---|---|
| **TriggerRuntime** `portable/trigger_runtime.py` | SQLite table of events: status, attempts, `available_at`, `claim_id`, `lease_until` | `emit`, `due`, `claim` (with recovery of lapsed claims), `complete`, `dispatch_due` | several processes poll and claim; owners die or come back after their lease; attempts and capacity are bounded |
| **AdaptiveTrigger** `portable/adaptive_trigger.py` | a lock, `_closed`, the set `_futures`; a thread pool | `trigger_adaptive_runtime`, `_dispatch_event`, `dispatch_once`, `_forget_future`, `close` | callbacks that run in whichever thread is there, a non-reentrant lock, `close` beside callers |
| **AutomationScheduler** `portable/agent_capabilities.py:272-340`, `portable/automation_scheduler.py` | SQLite tables `schedules` (claim, attempts, next_run, enabled) and `runs` | `add`, `claim`, `finish`, `finish_calendar`, `disable_task`, `find_task`, `add_last_day_of_month` | reads and writes in different transactions; claims without a lease; calendar arithmetic |
| **Maintenance lane** `portable/adaptive_runtime.py:121-173`, `portable/maintenance_service.py` | none of its own beside the scheduler | `ensure_learning_maintenance`, `maintenance_tick`, the polling loop | registration on every poll, migration of a legacy schedule, a cycle that fails or dies |
| **StateGraph** `portable/agency_state_graph.py` | checkpoint per run id; in memory the step, state, next nodes and futures | `invoke` (start or resume), its supersteps, gates, checkpoints | threads, timeouts, cancellation, isolated failures, crash and resume |
| **GraphAgentTeam** `.ai-harness/runtime/graph_agent_team.py` | results of the agents in the graph's state | `_build_execution_graph`, an agent's node, `execute` | dependencies become edges: agents run once per superstep that holds one of them |
| **Release lifecycle** `portable/agency_release_lifecycle.py`, `portable/context_bound_release.py` | channel files, artifact metadata by digest, a JSON-lines history | `stage`, `transition` to shadow / canary / promote / rollback | several files per transition, no lock, a history searched by id |
| **Harness engine** `.ai-harness/engine.py` | `manifest.json`, `checkpoint.json`, the observation log; in memory the manifest of the run | `run_task` (start or `--resume`), phases, validation, repair, final verification | two files written one after the other, results in memory between them, nested bounded retries |
| **Orchestrator** `portable/orchestration.py` | results of the nodes, attempts of the run | `Graph.order`, `run`, `_execute_node` with repairs | failure propagation and two budgets that interact |
| **SelfModificationEngine** `portable/orchestration.py` | `active.py`, `previous.py`, temporary files, a journal | `evaluate_and_promote`, `_activate`, `rollback` | a sequence of file replacements on a shared directory |
| **Local offload** `portable/local_offload.py` | three counters under a lock | `run`, `run_many`, `pressure` | threads of several agents; jobs rejected between two critical sections |
| **Deferred learning** `portable/adaptive_learning.py`, `cognitive_learning.py`, `hypothesis_engine.py`, `self_model.py` | SQLite tables: jobs, signals, evidence, beliefs, outcomes, profile | `record_outcome`, `process` | a job is six transactions; several lanes; crashes in between |
| **Policy registry** `.ai-harness/runtime/policy_registry.py`, `learning_controller.py` | `policy-registry.jsonl`, `policy-events.jsonl`, a copy in every controller | promote, monitor (rollback), persist, audit | whole file rewritten from a copy loaded earlier |
| **Goals** `portable/goal_manager.py` | SQLite table of goals | `create`, `set_status`, `ready` | a status checked before it is written, an answer assembled from two reads |
| **Capability lifecycle** `portable/capability_lifecycle.py`, `agent_capabilities.py:187-241` | rows of the persistent memory | `begin`, `record_canary`, `status` | evidence found by a search that ranks and cuts its result |
| **Runtime installation** `portable/aer_runtime.py` | build directories, the link `current`, `active.json`, `history.jsonl` | `install`, `update`, `rollback` | several writes per command, which may be interrupted |
| **Engineering episodes** `portable/continuous_engineering_runtime.py`, `autonomous_engineering_loop.py`, `persistent_remediation_backlog.py` | a SQLite row per episode, the rows of the backlog; in memory the iteration | `run` (start, resume, refuse), the loop's predict, plan, execute, verify, review, learn, promote | work whose result is unknown after a crash; a backlog others change |
| **Shared task memory** `.ai-harness/runtime/task_memory.py`, `portable/dream_memory.py` | SQLite ledger of observations and revisions | `record`, `revise`, `dream` | a dream decides in one transaction and writes in another |
| **Sessions** `portable/session_state.py`, `portable/adaptive_runtime.py:216-409` | one JSON file per session and its temporary file | `run`, `recover`, `save`, `load` | an error path that saves and teaches too; one temporary file for all processes |
| Task plan, handoffs, experiment queue | JSON or SQLite files | status changes | single transactions or one writer; see `components` in `PROJECT.json` |
| Repository index, world models, decision fabrics, campaigns, dashboards, providers, scripts | data and text | scoring, parsing, rendering, I/O | not modelled: floating-point scoring, pure functions over text, external services |

How they interact: an event reaches the inbox through `emit` (called by the
chat adapter under its lock, or by any producer). Dispatchers poll it: the
adapter's pool threads and `dispatch_once` for the chat's own kind,
`AdaptiveRuntime.dispatch_triggers` for whatever is pending. The maintenance
service calls `maintenance_tick`, which asks the scheduler for the project's
learning schedule, claims, runs and finishes it. The agent team compiles its
dependencies into a state graph and lets `invoke` run it. A maintenance tick
works off the deferred outcomes that tasks have recorded. A harness run ends
with an observation, from which the learning controller may promote a policy;
campaigns turn the receipts of a capability's canaries into decisions.
An engineering episode works off findings of the backlog, which reviews and
other episodes fill. A run of `AdaptiveRuntime` checkpoints its session and
records a deferred outcome; runs record observations, which dreams turn into
verified patterns. Releases,
activated orchestrations and installed builds are used on their own. The inbox,
the scheduler, the learning jobs and the goals are shared through SQLite by
several processes; releases, orchestrations and the policy registry by processes
through files; everything else by threads of one process.

What makes each correct: an event has one owner at a time, is attempted at most
`max_attempts` times and is settled once, by its last owner, and is not
forgotten while work is left (inbox); requests are durable before they run,
calls return, `close` drains (adapter); a schedule is run by one process at a
time, is never stuck enabled, advances only after success and is registered once
(scheduler, maintenance); a checkpoint is the result of whole supersteps
whatever happened in between, gates hold and invocations end (graph); no agent
works twice and every agent is decided (team); only what went through canary
becomes current and a rollback returns to the release before (releases). A
resumed run skips no phase and completes only when tested and verified
(harness); nodes run within their budgets and only after their dependencies
(orchestrator); a whole source that is active has passed its gates, only pinned
builds are linked, and the record explains what is active as long as operations
neither overlap nor die (orchestrations, builds, policies); a completed job has
taught what it should, and jobs get completed (learning); pressure is not
understated and batches return (offload); terminal goals stay terminal and goals
are ready only when their dependencies are completed (goals); a promotion rests
on distinct safe observations, as long as their ids come without spaces around
them (capability lifecycle); work whose result is unknown is not done again
(episodes); a verified pattern rests on independent runs that agree (task
memory); a session can be read after any crash and is complete only for approved
work (sessions).

## 2. Modules

| Module | Models | Notes |
|---|---|---|
| `ExclusiveWork` | the abstract contract of a work inbox: grant, return, settle | no leases, clocks or tables |
| `TriggerInbox` | the transactions of `TriggerRuntime`, called by the most general clients | refines `ExclusiveWork` |
| `TriggerInbox_proofs` | theorems about `TriggerInbox`, `ChatTrigger` and `TriggerDispatch` | |
| `TriggerDispatch` | dispatching processes over `TriggerInbox` | extends it; every step refines it |
| `ChatTrigger` | caller, pool and closing threads of `AdaptiveTrigger` over `TriggerInbox` | extends it; every step refines it |
| `Calendar` | `last_day_datetime`: months of 28 to 31 days, leap years, the end of a year | used by `Scheduler` |
| `Scheduler` | claim, finish, monthly advance and disable, statement by statement | extends `Calendar` |
| `Scheduler_proofs` | theorems about `Scheduler` and `LearningMaintenance` | |
| `LearningMaintenance` | `find_task`, `maintenance_tick` and the polling loop | extends `Scheduler` and reuses its actions |
| `Supersteps` | the abstract contract of a checkpointed graph run | no threads, timeouts, cancellations or crashes |
| `StateGraph` | `CompiledStateGraph.invoke` and its threads | refines `Supersteps` |
| `AgentTeam` | the team's graph and its agents over `StateGraph` | extends it, restricting what nodes return |
| `ArtifactRelease` | release transitions, one file write at a time | |
| `PhasedRun` | the abstract contract of a resumable run: phases pass in order, one verdict for good | no files, retries or crashes |
| `HarnessRun` | `run_task` of the harness, write by write, with `--resume` | refines `PhasedRun` |
| `LocalOffload` | the broker's counters, its threads and one batch | |
| `DeferredLearning` | recording and processing of deferred outcomes, transaction by transaction | |
| `Orchestrator` | order, attempts, repairs and failure propagation of a graph run | |
| `SelfModification` | activation and rollback of orchestrations, file by file | |
| `Installation` | install, update and rollback of builds, write by write | |
| `PolicyRegistry` | controllers that share the policy registry | |
| `Goals` | goals with parents and dependencies in one table | |
| `CapabilityLifecycle` | the trial of one capability over memory rows | |
| `MCLiveComponents` | offload, learning, harness run and maintenance side by side, one per behaviour | composes four modules |
| `EngineeringEpisode` | one episode, its loop and the remediation backlog | |
| `TaskMemory` | the rows of one learning key, and dreams over them | |
| `SessionRun` | `run` and `recover` of `AdaptiveRuntime` on one session | |
| `MCSafeComponents` | the stores, the teams, the orchestrator, episodes, memory and sessions side by side, one per behaviour | composes eleven modules |
| `AgentRun_proofs` | theorems about `HarnessRun`, `LocalOffload` and `DeferredLearning` | |
| `StateGraph_proofs` | theorems about `StateGraph` and `AgentTeam` | |
| `Orchestration_proofs` | theorems about `Orchestrator` and `SelfModification` | |
| `Stores_proofs` | theorems about `Goals`, `PolicyRegistry`, `Installation`, `ArtifactRelease` and `CapabilityLifecycle` | |
| `Work_proofs` | theorems about `SessionRun`, `EngineeringEpisode` and `TaskMemory` | |
| `Recursion` | lemmas about recursive functions over an interval | used by the proofs |
| other `MC*` | instances for TLC | |

Operators named `Bug...` are wrong variants of the definition that follows
them (a dropped guard, a missing reset, another branch's query). They are not
used by any specification; `PROJECT.json` lists, for every property, one whose
substitution makes TLC report that property violated.

### State and actions against the code

*TriggerInbox.* `row[e]` is the row of the table, with `Absent` for no row;
`claim_id` is a number handed out per event instead of a random one, and
`issued`, `settled` are history variables (claims handed out, the claim that
settled the event). Each action is one SQLite transaction with all its
statements: `ClaimTx` contains the release of a lapsed owner, the check of
status, time and budget, and the update. Timestamps come from the caller, as
in the code: `Claim` and `Complete` take any time up to the clock.

*TriggerDispatch.* A *batcher* is `dispatch_due` without a kind (one timestamp
for a whole batch), a *chatter* is `dispatch_once` (own kind, fresh timestamp
for each event, but the completion still uses the one read before the handler). A
process is between two transactions when others move: `Poll` (the first LIMIT
rows in the order of the query, `FirstRows`), `ClaimNext`, `RunHandler`,
`SendReport`. A report of a lost claim raises KeyError, which ends the
batch. `Crash` loses the process's state and nothing of the inbox. A deployment
is the set of processes that are up; the others are `Down` for good.

*ChatTrigger.* The adapter's lock is a variable. A caller holds it from
`EnterCall` to the end of the call; `Hook` is `add_done_callback`, which runs
the callback in the caller when the future is done. The pool is shared by all
adapters; its threads take futures in order. `Finish` first marks the future
done, then runs the callback if it was added in time: the order of
`concurrent.futures`.

*Scheduler.* `claim` is `ClaimRead` (the SELECT, outside the transaction) and
`ClaimWrite` (the UPDATE with only two of the four conditions). `finish` is
`FinishRead` and `FinishWrite`; `finish_calendar` adds `Advance`, a second
transaction. A crash between any two of them, `disable_task` from anywhere and
another process in between are all possible. An instant is a wall-clock day and
whether it is before, at or after the schedule's time of that day, numbered so
that later instants have larger numbers (`Calendar`); `LastDay` takes this
month's last day or, when that is not in the future, next month's, over
December and in leap years too. The clock jumps forward among `Moments`.

*LearningMaintenance.* One process runs `Find`, `Migrate`, `AddMonthly` (the
three parts of `find_task`, each its own transaction), then `TickClaim` and the
scheduler's actions. Task strings are the kind of the schedule: a monthly one
wraps the task, a legacy one is the bare task.

*StateGraph.* One run id with at most one checkpoint (`saved`). `Invoke` starts
or resumes; the head of the loop, the submission, each wait, the failure paths,
the merge and both gates are actions in the order of the code. `threads` holds
the futures of the current superstep. A node's retries and their delays are
inside `NodeReturns` / `NodeRaises`. Threads an invocation has stopped waiting
for are dropped: nobody reads their futures. The checkpoint store is taken to
be durable, and one invocation of a run id is under way at a time.

*AgentTeam.* A node is an agent: it reports "blocked" unless all its
dependencies have passed in the state it was given, otherwise it passes or
fails. The steward is exempt. The routes are `_build_execution_graph`'s edges.

*HarnessRun.* `process` is the process with the manifest in its memory,
`manifest` and `checkpoint` the two files. `Finish` and `Block` say which file
is written first in each branch, as the code does: after `context` and
`validate` only the checkpoint, otherwise the manifest before it. `Resume` goes on
at `next_phase` with the manifest on disk. `tested` (what the last validation
said of the tree as it is) and `done` are history variables, and `lost` records
that a crash threw away a newer validation result than the one on disk.

*LocalOffload.* The two critical sections of `run` and its `finally` block are
steps; what a job does in between is an outcome. A batch is refused only when it
is larger than eight times the workers, which the instance does not reach.

*DeferredLearning.* A lane holds the batch it has read. Each statement of a job
is a step of its own: count and insert of the signal, evidence, the two halves
of `assess`, the outcome, the two halves of the profile, the status. Beliefs are
sets of jobs instead of weights, counters stand for rows.

*Orchestrator.* An attempt with its evaluation and repair is one step; the
adaptive policy's ceiling is part of a node's `limit`.

*SelfModification, Installation, PolicyRegistry.* One action per file operation;
processes that share the files interleave between any two, except that an
operator installs one build at a time, and die anywhere. An engine truncates the
shared temporary file (`OpenTemp`), writes it (`WriteTemp`), reads it back and
replaces `active.py`; a file that it has open keeps being written wherever it is
renamed to, and what is not the whole of a source is `Damaged`. A bundle is
copied in place: over nothing it leaves a directory without a pin, over a pinned
build it leaves a torn one until the copy ends. The registry's file is
replaced atomically from the copy in a controller's memory.

*Goals, CapabilityLifecycle.* One action per SQLite statement that decides or
writes. `record_canary` looks for the id as it was given among ids that are
stored stripped: `padded` are the observations whose id came with spaces. `Rows`
is the search of the memory, safe rows first, newest first, cut at the window:
the positions with fewer than `Window` others ahead of them. `settled`, `raced`,
`met` are history variables.

*MCLiveComponents, MCSafeComponents.* The components have no state in common,
so each behaviour runs one of them while the others rest; the state space is
the sum of theirs, not the product.

*EngineeringEpisode.* `episode` is the row, `engineer` the call a process is in,
`work` (a history variable) every execution. Loads and saves are steps of their
own, so another call or a death comes between any two. The risk of
`failure_prediction` is computed from severities, statuses and attempts as in
the code; results of execution, verification, review and promotion are
arbitrary.

*TaskMemory.* The ledger holds rows of one logical key in insertion order.
Recording is one step, as the code holds a file lock and a transaction; a dream
is `ReadCandidates` and `Revise`. The text of a lesson is the number of runs and
the representative's note, because the fingerprint is taken of it. `basis`,
`disturbed` and `contradicted` are history fields.

*SessionRun.* `SessionStore.save` is `OpenDraft` (open and truncate),
`WriteDraft` and `ReplaceFile`; a process that holds the temporary file open
writes into the session's file once another has replaced it. `RunFails` stands
for a veto or an exception anywhere in the try block.

*ArtifactRelease.* A transition reads the channels once (its gate), then writes
one file per step (`Switch`, `DropCanary`, `DropShadow`, `Put`) and appends to
the history last. The score gate of `apply_decision` is nondeterminism: any
transition may be asked for. `meta` is what a digest's metadata file says its
id is, which staging again changes. `trialled` and `serial` are history
variables.

## 3. Runs

`tlc -config <run>.cfg <module>` for each entry of `runs`. Deadlock checking is
off in every run: the clock and the counters of calls, crashes and releases
are bounded, so every model stops when its bounds are used up, and the program
itself may be idle for ever.

| Run | Question | Bounds, and why they are enough |
|---|---|---|
| `trigger_inbox` | do the transactions keep one owner, the budget, permanence of outcomes? Do they implement `ExclusiveWork`? | two ids for one place, up to three attempts, lease 2, clock to 5: two lapses and a backoff fit; every claim and completion time up to the clock is tried. Every further emission is refused for want of a place here; that an id with a row is not emitted again is decided by its own guard in `dispatch`, which has two places, and in the proof |
| `dispatch` | do real dispatchers keep it so, are retries spaced, and is every event served? | a batcher beside a chatter, or two chatters; two events of different kind and priority, two attempts, lease 1, LIMIT 1, one crash: an attempt of either kind is overtaken by a chatter, a chatter's by another chatter only after its lease, owners die and come back, and one spent claim hides what is behind it |
| `chat_trigger` | do requests survive, calls return, `close` drain? | two callers, two pool threads, one closer, two futures, one lapse: all orders of submit, finish and add_done_callback |
| `scheduler` | is a schedule run once, advanced after success, never stuck? | two processes, one schedule of either kind, two attempts, one crash, one disable; seven instants: the end of a month of 30 days, the last day of a year before, at and after the time of the schedule, the 31st of January, the 28th and the 29th of February in a leap year |
| `state_graph` | do checkpoints move by whole supersteps, do gates hold, do invocations end? | six graphs of four nodes (fork, mixed first step, router, loop; with gates or with isolated failures), two pool threads for three nodes, three invocations, a cancellation, a crash |
| `components_live` | offload: are the counters bounded by the truth, do batches return? learning: what survives overlap and crashes, are jobs completed? harness: can a run skip a phase, complete untested, hang? maintenance: is the schedule migrated, kept, run, released? | two threads and a batch of three on two workers; three outcomes (one unverified, one whose evidence is refused), two lanes, one crash, fewer places than outcomes; every mode of a task, two attempts, two repairs, four processes; one process, a legacy row and three new ids, five instants around the end of a year, one crash |
| `components_safe` | is what is active gated and on record? what do overlapping or interrupted writes leave behind? are goals and trials decided on the truth? do teams and graphs respect dependencies and budgets? | two writers per store with a death anywhere; three releases of two artifacts and a restaged one; four activations begun; four installs of three builds, two of one version; three policy versions; two goals; two observations, with and without spaces in their ids, a window of three rows, and no call begun with more stored, so that only overlapping calls outgrow it; all 64 teams of four agents with a crash and a resume; all graphs of three nodes with two attempts each and four in all; two calls of an episode with two iterations, two findings and one foreign change; three observations of three runs; two calls on a session |
| `chat_call_blocks` | finding 1 | as `chat_trigger` |
| `registered_twice` | finding 2 | as the maintenance part of `components_live`, without the legacy row |
| `isolated_hang` | finding 3 | the fork with isolated failures, under fairness of `invoke` and the pool only |
| `resume_unverified` | finding 4 | one mode, up to three processes |
| `promoted_after_rollback` | finding 5 | one campaign, two observations |

Symmetry is used in `components_safe` only: processes, and two candidates, goals,
observations, findings and runs, are interchangeable, and `ReleaseSound`, the one
temporal property there, is an invariant and an action property.

### Fairness

* `TriggerDispatch`: a process that is up goes on (`WF` of its steps): a poll
  loop calls it again and a handler returns in the end. The clock advances.
  Nothing obliges a producer to emit or a process to crash. Promises about
  time are restricted to times the model's clock can reach.
* `ChatTrigger`: threads that can run do; a pool thread that waits for the lock
  gets it in the end though it is taken and released in between (`SF`, the
  behaviour of `threading.Lock` under the interpreter's scheduler).
* `LearningMaintenance`: `MaintenanceService.loop` polls for ever and survives
  exceptions, so its process's steps are weakly fair.
* `LocalOffload`: every job has a timeout (local_offload.py:185) and the pool
  serves what is submitted, so the steps of a batch's jobs and its return are
  weakly fair; threads that call `run` on their own need not start.
* `DeferredLearning`: every lane is polled for ever by the same loop; tasks need
  not end, and whether a lane dies is open.
* `HarnessRun`: provider calls and validations have timeouts, so a process that
  works goes on (`WF` of its steps); nobody need start or resume a run.
* `StateGraph`: `invoke` goes on and idle workers take queued nodes. **Nodes
  are not fair** in `GraphSpec`: one may hang for ever. `AnsweringSpec` adds
  that nodes answer in graphs with isolated failures only; `isolated_hang`
  shows that this is needed.

## 4. Findings

1. `chat_call_blocks`: when the pool finishes a request before
   `add_done_callback` (adaptive_trigger.py:134), the caller runs
   `_forget_future` itself and waits for the lock it holds.
2. `registered_twice`: in a database without the legacy row every call of
   `find_task` (automation_scheduler.py:81) adds another monthly schedule.
3. `isolated_hang`: with isolated failures a timed-out node is caught as an
   ordinary failure and `invoke` then joins its executor
   (agency_state_graph.py:340).
4. `resume_unverified`: a run that dies between the checkpoint of its last
   phase and the final verification is resumed with exit code 0 and never
   verified (engine.py:504), although `config.toml:9` requires verification.
5. `promoted_after_rollback`: the receipt of a canary promotes a candidate that
   an earlier canary has rolled back (capability_lifecycle.py:139);
   `autonomous_campaign_learning.py` and `world_mega_model.py` pass the receipt
   on.

### Conditions in the properties

Several properties hold under a condition, and the condition marks what the
code does not provide. Each was established by running the property without
it.

* `RetryableClaimsEnd` speaks of claims with an attempt left and of the chat's
  kind. An owner that dies in its *last* attempt leaves the event claimed for
  ever (trigger_runtime.py:260), and a poll without a kind never sees lapsed
  claims (line 235).
* `SingleOwnerForALease` speaks of attempts granted through `dispatch_once`. A
  batch claims with the clock of its start (line 348), so its leases can be
  over when they are granted.
* `PendingIsServed` and `RetryableClaimsEnd` except what is `Hidden`: claims of a
  last attempt whose owner died are listed by `due(kind)` for ever though nobody
  can claim them (line 241), so LIMIT of them hide every event behind them from
  `dispatch_once`. A batch asks without a kind and is not affected, so a pending
  event is promised service without exception where a batcher runs.
* `NoRunLost` speaks of executions without `disable_task`, which drops a claim
  whose run is then refused by `finish`. A claim in the table belongs to a run
  under way or was left by a death, and what a death leaves is never released:
  a schedule has no lease. A death between the two transactions of
  `finish_calendar` keeps the row of the ledger and loses the advance.
* `SingleRunner` speaks of executions without `disable_task`, which drops the
  claim of a run under way; `finish_calendar` may then enable the schedule
  again (automation_scheduler.py:180), and so may `finish`
  (agent_capabilities.py:329). A second process may also claim a slot that
  was run and finished since its SELECT, before it is due again (line 315).
* `MonthlyAfterSuccess` and `ClaimsReleased` exclude crashes: `finish_calendar`
  is two transactions, and a claim has no lease.
* `GateHonoured` (in `GraphSound`) lets the first superstep of a resumed run
  pass its gates, because any existing checkpoint sets `skip_before_once`
  (agency_state_graph.py:297), also one left by a cancellation.
* `ImplementsSupersteps` is checked, and proved, with `interrupt_after` on nodes
  that are alone in their superstep (`StopsAlone`): beside siblings the
  checkpoint is taken in the middle of the merge (line 351). It allows a
  superstep to be repeated, as a cancellation or crash inside one throws its
  results away (line 325).
* `TeamSound` promises a decision of every agent for teams whose dependencies
  all lie one level up, and not of the steward, which works before the team
  has. An agent is scheduled after the *first* of its dependencies; in the team
  `team_for_route` builds for an implementation task the run ends with the
  synthesizer blocked although nobody failed (graph_agent_team.py:854).
* `CurrentOnRecord` and `RollbackRestores` (both in `ReleaseSound`) speak of
  releases one at a time and uncrashed (`serial`): channels are switched before
  the history is written. A second rollback in a row goes back to what the first
  one withdrew (agency_release_lifecycle.py:112), and releases under one
  artifact id are one release to a rollback (agency_runtime.py:227).
* `CompletedIsTested` excludes runs in which a crash came before a newer
  validation result was on disk: a repair that breaks the tree and dies is
  resumed with the result before it, and the run completes (engine.py:564).
* `OffloadSound` bounds the counters instead of equating them: a rejected job
  stays counted as queued and takes away an active one (local_offload.py:209).
* `LearningSound` promises exact counts only without overlap and crashes, and
  `JobsCompleted` excepts a batch full of orphaned jobs and used-up signals
  (cognitive_learning.py:138).
* `OrchestrationSound` allows a node to run after a *skipped* dependency
  (orchestration.py:387), and a run to be blocked because its last node spent
  the budget although every node passed (line 415).
* `ActivationSound` promises of overlapping engines only that whole sources were
  gated: they share one temporary file, which is truncated before it is written
  (orchestration.py:256), so one engine can empty what another has validated and
  is about to make active. It explains the files by the journal only when
  activations came one at a time and none died: `_activate` moves the active
  file away before the candidate is written (line 254).
* `InstallationSound` speaks of pins, and of completeness only as far as the
  code gives it: installing a pinned build again copies over its files, linked
  or not (aer_runtime.py:346), and an interruption there leaves it pinned and
  torn, although the docstring (line 318) calls builds immutable. What holds is
  that each interruption tears at most one. It lets link, `active.json` and
  history disagree after an interruption; a build whose copy was interrupted
  stays unusable, because a directory without a pin is refused
  (aer_runtime.py:344).
* `PoliciesSound` promises that audited changes are stored as long as no
  controller works on an older registry: its whole-file write drops what others
  promoted since it was constructed (learning_controller.py:106).
* `GoalsSound` excludes overlapping `set_status` calls on one goal, which can
  reopen it (goal_manager.py:157).
* `LifecycleSound` speaks of calls that do not overlap and of trials that fit
  into a search: failures have confidence 0 and drop out of it first
  (capability_lifecycle.py:55). An id given with spaces around it is compared as
  it is (line 116) with ids that were stripped (line 125), so the same
  observation, with another score, counts twice; the property says what a
  promotion rests on when no id came so.
* `EpisodeSound` excludes overlapping calls of one episode: both load the row
  before either has saved it, and both execute. Its last part, completion only
  after a verification that passed, holds while nobody else settles the findings:
  when they are settled beside it, the next plan is empty and the episode is
  complete (autonomous_engineering_loop.py:78). An episode that says `verifying` is
  escalated under the family of the call that finds it, whichever that is: the
  comparison of families comes after (continuous_engineering_runtime.py:199).
* `MemorySound` lets a verified pattern contradict what a run recorded while the
  dream was under way (dream_memory.py:116). It says nothing of the candidates a
  dream counted beside its representative: only that one is superseded
  (task_memory.py:178), although dream_memory.py:93 speaks of "the observations it
  consolidates", and the others stay candidates of later dreams.
* `SessionSound` excludes overlapping calls where it says that the session can be
  read: they share one temporary file (session_state.py:56). A run may teach two
  outcomes, the accepted one and, when it cannot complete its episode
  afterwards, a failed one (adaptive_runtime.py:352), but then it does not return.

## 5. Proofs

Eight modules hold the theorems; each is checked by `tlapm <module>.tla`:
`TriggerInbox_proofs`, `Scheduler_proofs`, `AgentRun_proofs`,
`StateGraph_proofs`, `Orchestration_proofs`, `Stores_proofs`, `Work_proofs`, and
`Recursion`, which four of the others use. Every invariant, every action
property and every refinement that a passing run checks is stated by a theorem.
What a run shows for its small instance, the theorem shows for any number of
processes, rows, steps and crashes; the bounds of clocks and counters are
parameters, so no result depends on their values.

Assumptions are those the modules declare (and TLC evaluates): positive
budgets, delays and leases; sets of processes, nodes, findings and evidence
are finite where something is counted; the nodes of a graph are numbered 1..N,
because the recursive functions over them run over intervals; a graph is
acyclic, routes lead to its nodes and nobody depends on the steward
(graph_agent_team.py:1411); the threads of the adapter have one role each;
events are ordered as numbers. One theorem has a further hypothesis,
`StopsAlone` in `GraphRefinement` (see section 4).

A theorem usually comes from an inductive invariant that says more than the
property. What is added, and why the property does not carry itself:

**Inbox and its users** (`TriggerInbox_proofs`).
* `Inductive`: one owner per claimed row, whose claim is the last one handed
  out (`OneOwner`); attempts equal to claims and within the budget
  (`WithinBudget`); settlement by the last owner; absent rows untouched; and a
  lease that ends after its event became available. The last two are there for
  the induction only: without them `emit` could meet a nonzero count, and the
  release of a lapsed owner could leave an event that is not yet free. From it:
  `InboxSoundness` with its parts `Invariance`, `Safety`, `RecoverySafety` (the
  early return at trigger_runtime.py:265 is dead code) and `CapacitySafety`;
  the action properties `LiveClaims` and `Settlement`; and `Refinement`: every
  transaction is one step of `ExclusiveWork` or none.
* `ChatInv`: whoever holds the lock is the only caller inside the section; a
  future that its caller no longer holds is in `_futures` exactly if it is
  unfinished or its callback is pending, and hooked while it is unfinished;
  nothing is submitted once the adapter is closed. Without the middle part
  `TrackedExactly` says nothing of a future between submission and
  `add_done_callback`, which is where the race is. From it: `AdapterKept` and
  `AdapterRefinement`.
* `DispatchInv`: every attempt has a claim of its own, and either owns the row,
  with the lease it was granted, or has been overtaken, which happens to a
  chatter only after its lease. From it: `DispatchKept` and
  `DispatchRefinement`; that a batch's claims are made at times the inbox
  allows is part of the latter.

**Scheduler and maintenance** (`Scheduler_proofs`).
* `Sound`: types of the tables and of what each process holds between two
  statements, with `EnabledCanRun`. They need each other: `ClaimWrite` does not
  look at the budget, and only because an enabled, free schedule always has an
  attempt left does it stay within it (`Soundness`).
* `Guarded`, for `Exclusive`: while nobody calls `disable_task`, the schedule of
  a running task carries a claim. So the UPDATE of `claim`, which insists on an
  empty column, meets no runner, although its SELECT may be stale.
* `Books`, for `Ledger`: a running process holds the claim of the table (`Owned`),
  so the SELECT of `finish`, which insists on it, refuses nothing; claims handed
  out are rows of the ledger plus runners plus at most one for each death
  (`Balanced`); and a claim in the table has its runner (`Accounted`). `Owned`
  rests on `Guarded`: a second claimer would replace the claim of a run.
* `NextMonthEnd`: for every instant `LastDay` is the first end of a month after
  it. The division that numbers years, months, days and parts of a day is undone
  by `DateOf` and `Dates`; the cases are the month's end before and after it, in
  December and in the other months. `MonthKept` follows with types only.
* `Monthly`, for `AdvanceKept`: what `MonthlyAfterSuccess` says of a free
  schedule holds of a claimed one too, as a claim does not move it, except while
  some process that succeeded is between its two writes.
* `RetiredInv`, for `LegacyStaysRetired`: a maintenance process claims no
  schedule but a monthly one, and no monthly one exists, or is about to be
  added, before the legacy schedule is disabled. It holds for any number of
  processes; the run has one.

**Harness run, offload, learning** (`AgentRun_proofs`).
* `RunSound`: the place in the plan, the phases done and what is on disk
  determine each other, for each place at which a process can stop between two
  writes; and while no repair was lost, the result in memory, and the one a
  resumed process will read, is that of the working tree. From it:
  `PhasesInOrder`, `CompletionTested` and `RunRefinement` (`PhasedRun`).
* `OffloadInv` adds types only; the work is counting threads that move from one
  stage to another (`OneMoves`). From it: `Offloads`.
* `LearningInv`: evidence comes before belief and completion; each outcome has
  a signal, and each observation, also one a lane has only read, an outcome; a
  lane that was always alone knows the counters exactly. From it: `Learns`.

**Graphs and teams** (`StateGraph_proofs`).
* `GraphInv`: the run stands at its last durable boundary; the threads, the
  nodes still awaited and those lost are members of that superstep and account
  for every member of it. Without the count a merge could forget a node that
  nobody waits for. From it: `GraphKept` and `GraphRefinement`.
* `TeamInv` adds what a boundary holds of dependencies and levels, and what the
  threads may report. From it: `TeamKept`, and `TeamRefinement`, which needs no
  hypothesis, as a team has no interrupts.

**Orchestrations** (`Orchestration_proofs`).
* For `GraphRuns`: a node is attempted only while what it depends on is through
  and did not fail (`OnTurn`), which nothing undoes because only a pending node
  gets a result; attempts add up to no more than either budget (`InBudget`); and
  a run that goes on or was accepted lost no critical node (`OnVerdict`). That
  the attempts in all are their sum is `IntervalRecursion` over the nodes.
* For `Activations`: whatever file an engine has open, truncated or renamed, the
  whole sources among the files passed both gates (`AllGated`); while
  activations come one at a time, the engine at work has its own temporary file
  open, then its whole source in it, and nothing broken is active or kept
  (`OneAtATime`); and when none died the files are, step by step, on the way
  from what the journal says to what it will say with the entry of the engine at
  work (`Undisturbed`).

**Stores** (`Stores_proofs`).
* `GoalsInv`: a goal depends on goals stored before it, so no set of them waits
  for itself; the row a writer has read still allows its write, unless two of
  them overlapped on this goal. From it: `GoalsKept`.
* `RegistryInv`: every copy of the registry, in the file or in a controller, has
  one active policy, newer than the superseded ones, whatever registry it started
  from (`Lineages`); and while each works on what is stored, one controller at a
  time is between changing its registry and telling of it (`OneWriter`).
  From it: `Policies`.
* `InstallInv`: whatever is linked, recorded or about to be has a pin
  (`OnlyPinned`), torn builds but the one being copied are no more than the
  interruptions (`FewTorn`), and an uninterrupted command leaves link, record
  and history in step (`Uninterrupted`). From it: `Installations`.
* `ReleaseInv`: everything that may become current has been tried: the canary,
  what is on record and what a writer is about to put there; one at a time, the
  last release on record is current until the next is switched to, and a rollback
  chosen after two promotions leads to the first of them. From it: `Releases`.
* `LifecycleInv`: while no calls met, at most one is under way (`Alone`), no row
  is stored twice (`Single`), and no piece of evidence is on record twice, or on
  record and pending, unless its id came with spaces (`Separate`); and each
  receipt answers for rows on record. From it: `Trialled`.

**Sessions, episodes, memory** (`Work_proofs`).
* `SessionInv`: a run is live in one process at most and not after it returned
  or raised (`Fates`); what a process saves once it is no longer live carries an
  attempt; and a call that is alone knows what both files hold (`OneCall`). From
  it: `Sessions`.
* `EpisodeInv`: unless two calls overlapped there is one engineer, and the row
  on disk says at which of its steps it is. From it: `Episodes`.
* `MemoryInv`: a verified row is the merger of rows that never become verified
  themselves (`RowsSound`), one for each basis, since recording a fingerprint
  twice is refused (`OneEach`); a dream that nobody disturbed has counted every
  run with a candidate (`DreamsSound`). From it: `Memories`.

**Recursion.** Nodes, rounds and journals are recursive functions over an
interval; `IntervalInduction`, `IntervalRecursion` and `IntervalMaximum` are
what the proofs use of them. A recursion's defining equation and facts about
each of its steps are proved; induction over other data is out of reach.

Each of these invariants was first checked by TLC on the instance of its run,
`RetiredInv` with two maintenance processes and a crash. They are not invariants
of the runs, because the theorems show them.

**Model-checked only.** Liveness, as fairness and ENABLED are outside the
prover: `RetryableClaimsEnd`, `PendingIsServed`, `CallsReturnUnlessOvertaken`,
`FuturesFinish`, `InvocationEnds`, `BatchReturns`, `JobsCompleted`,
`RunReturns`, `ClaimsReleased`, and `MaintenanceRuns`, of which
`LegacyStaysRetired` proves the safety part. The disagreements of section 4 are
counterexamples of TLC. The scheduler's theorems are about `Scheduler`'s own
next-state relation; the maintenance lane reuses its actions for claim, run and
finish, but no theorem yet says that the lane keeps the scheduler's invariants.

## 6. What the models leave out

Payloads, their validation and redaction, error texts, outcome metadata,
logging, pid files, prompts, providers, scores. SQLite's busy timeouts: a
transaction either happens or the caller raises, which for the scheduler's
process is a crash. Time zones: the instants of `Calendar` are wall-clock times
in the zone of the schedule, and a change of its offset between computing an
instant and reaching it does not occur. Wall clocks that go backwards. Two
invocations of one run id at the same time, and threads that an invocation has
stopped waiting for: they may still run their node's code beside the next
invocation, but nobody reads what they return. In-memory checkpoint stores across
a crash. The copy that `aer_runtime.py` makes of a build where symbolic links
are refused. The temporary file of the policy registry, which controllers share:
the second of two replacements may raise, and a mixture of two writes may be
stored. In `TaskMemory`, observations without a run id and direct calls of
`revise`; and `recorded_at` is taken inside the lock there, while the code takes
it just before (task_memory.py:139), so that it may be a little older than that
of the row before.

## 7. How to read a module

Constants and their assumption, variables, initial states, one action per
operation or step (mutated variants directly before the definition they
replace), the next-state relation and fairness, then the properties, each with
the sentence of the repository it comes from.

## 8. Plan

Written in this order, most important first: inbox and contract, dispatchers,
chat adapter, scheduler, maintenance lane, state graph and contract, agent
team, releases; the proofs of the inbox and of the scheduler; the harness run
and its contract, offload, deferred learning, orchestrator, and the stores, the
last two groups composed in one run each; then episodes, task memory and
sessions, in the second of these runs; then the proofs of all of them.

Next, proving more: that the maintenance lane's steps are steps of the
scheduler, so that `Sound` and `Exclusive` hold under it; the safety facts that
the liveness properties rest on (a lapsed claim with an attempt left can be
claimed again, a hooked future will be forgotten); invariants of the modules
still to be written.

Next, modelling: `experiment_queue.py` and `adaptive_tuning.py` (which rows of a
bounded window decide), the shared files of `worktree.py`, and the turn loop of
`.ai-harness/runtime/agent_turn.py`.
