------------------------------ MODULE HarnessRun ------------------------------
(***************************************************************************)
(* run_task of .ai-harness/engine.py: the phases of one task, each followed   *)
(* by the writes of manifest.json and checkpoint.json, and --resume in a new *)
(* process.  Every write is atomic, but the two files are written one after  *)
(* the other, and between the writes the result is in memory only.           *)
(* Left out: prompts, metrics and the lists of completed phases, which       *)
(* nothing reads back.                                                       *)
(***************************************************************************)
EXTENDS Naturals, Sequences, SequencesExt

CONSTANTS Routes,       \* routes of a task: [mode, caps]
          PhaseAttempts,  \* max_phase_retries + 1
          MaxRepairs,   \* max_repair_attempts
          MaxLives      \* bound of the processes started for the run
ASSUME HarnessAssumption ==
  /\ \A r \in Routes : DOMAIN r = {"mode", "caps"}
  /\ PhaseAttempts \in Nat \ {0} /\ MaxRepairs \in Nat /\ MaxLives \in Nat

VARIABLES plan,        \* the phases chosen for the task
          process,        \* the process, with the manifest it holds in memory
          manifest,    \* manifest.json: result of the validation, status
          checkpoint,  \* checkpoint.json
          lives,       \* processes started so far
          done,        \* phases whose work has succeeded
          tested,      \* what the last validation said of the working tree
          lost,        \* whether a crash came before manifest.json had that result
          learned      \* observations appended to memory/observations.jsonl
harnessVars == <<plan, process, manifest, checkpoint, lives, done, tested, lost, learned>>

When(condition, phases) == IF condition THEN phases ELSE <<>>
PhasesFor(route) ==    \* dict.fromkeys: only grill can be wanted twice
  LET mode == route.mode IN
  <<"context">>
    \o When("research" \in route.caps \/ mode = "research", <<"research">>)
    \o When("poc" \in route.caps \/ mode = "poc", <<"poc">>)
    \o When(mode = "debug", <<"debug">>)
    \o When(mode \in {"implement", "debug"}, <<"execute", "validate">>)
    \o When(mode \in {"grill", "review"}, <<mode>>)
    \o When("grill" \in route.caps /\ mode # "grill", <<"grill">>)
    \o When(mode \in {"implement", "debug", "poc"}, <<"review">>)
    \o <<"learn">>

NoCheckpoint == [phase |-> "none", status |-> "none", next |-> "none"]
Fresh == [validation |-> "none", status |-> "none"]
Stopped == {"new", "exited", "crashed"}
HarnessInit ==
  /\ plan \in {PhasesFor(r) : r \in Routes}
  /\ process = [pc |-> "new", at |-> 1, tries |-> 0, memory |-> Fresh, save |-> NoCheckpoint, code |-> 0]
  /\ manifest = Fresh /\ checkpoint = NoCheckpoint
  /\ lives = 0 /\ done = {} /\ tested = "none" /\ lost = FALSE /\ learned = 0
-------------------------------------------------------------------------------
Phase == plan[process.at]
IsAt(phases) == process.pc = "phase" /\ Phase \in phases
Saved(status, next) == [phase |-> Phase, status |-> status, next |-> next]
NextPhase == IF process.at < Len(plan) THEN plan[process.at + 1] ELSE "none"
Enter(at, memory) == [process EXCEPT !.pc = "phase", !.at = at, !.tries = 0, !.memory = memory]
Exit(code) == [process EXCEPT !.pc = "exited", !.code = code]
(* The phase is over: pc tells which file is written first.                  *)
Finish(pc, memory) ==
  [process EXCEPT !.pc = pc, !.memory = memory, !.save = Saved("completed", NextPhase)]
Block(memory, status, saved) ==
  [process EXCEPT !.pc = "manifest", !.memory = [memory EXCEPT !.status = status], !.save = saved]

(* A new run: the manifest, then the checkpoint of the route.                *)
StartRun ==
  /\ lives = 0 /\ lives < MaxLives /\ lives' = 1
  /\ process' = [process EXCEPT !.pc = "checkpoint", !.at = 0,
                !.save = [phase |-> "route", status |-> "completed", next |-> plan[1]]]
  /\ UNCHANGED <<plan, manifest, checkpoint, done, tested, lost, learned>>

(* --resume goes on at next_phase with the manifest on disk.                 *)
BugResume ==    \* mutant: resumes after the phase of the checkpoint
  /\ process.pc \in {"exited", "crashed"} /\ lives < MaxLives /\ lives' = lives + 1
  /\ process' = IF Contains(plan, checkpoint.next) /\ Contains(plan, checkpoint.phase)
                /\ checkpoint.phase # Last(plan)
             THEN Enter(1 + CHOOSE i \in DOMAIN plan : plan[i] = checkpoint.phase, manifest)
             ELSE IF checkpoint.status = "completed" THEN Exit(0) ELSE Exit(2)
  /\ UNCHANGED <<plan, manifest, checkpoint, done, tested, lost, learned>>
BugRestart ==    \* mutant: resumes with the first phase
  /\ process.pc \in {"exited", "crashed"} /\ lives < MaxLives /\ lives' = lives + 1
  /\ process' = IF checkpoint.next = "none" THEN Exit(0) ELSE Enter(1, manifest)
  /\ UNCHANGED <<plan, manifest, checkpoint, done, tested, lost, learned>>
Resume ==
  /\ process.pc \in {"exited", "crashed"} /\ lives < MaxLives /\ lives' = lives + 1
  /\ process' = IF Contains(plan, checkpoint.next)
             THEN Enter(CHOOSE i \in DOMAIN plan : plan[i] = checkpoint.next, manifest)
             ELSE IF checkpoint.status = "completed" THEN Exit(0) ELSE Exit(2)
  /\ UNCHANGED <<plan, manifest, checkpoint, done, tested, lost, learned>>

Context ==
  /\ IsAt({"context"}) /\ done' = done \cup {Phase}
  /\ process' = Finish("checkpoint", process.memory)
  /\ UNCHANGED <<plan, manifest, checkpoint, lives, tested, lost, learned>>

Validate ==
  /\ IsAt({"validate"})
  /\ \E result \in {"passed", "failed"} :
       LET memory == [process.memory EXCEPT !.validation = result] IN
       /\ manifest' = memory /\ tested' = result
       /\ IF result = "passed"
          THEN process' = Finish("checkpoint", memory) /\ done' = done \cup {Phase}
          ELSE /\ process' = [process EXCEPT !.pc = "repair", !.tries = 0, !.memory = memory]
               /\ UNCHANGED done
  /\ UNCHANGED <<plan, checkpoint, lives, lost, learned>>

(* The other phases call the provider, again when it fails; then a review    *)
(* may ask for a repair, and the scope check may stop the run.               *)
Provided == Range(plan) \ {"context", "validate", "learn"}
BugProviderFails ==    \* mutant: after the last attempt the attempts begin anew
  /\ IsAt(Provided)
  /\ process' = [process EXCEPT !.tries = (@ + 1) % PhaseAttempts]
  /\ UNCHANGED <<plan, manifest, checkpoint, lives, done, tested, lost, learned>>
ProviderFails ==
  /\ IsAt(Provided)
  /\ process' = IF process.tries + 1 < PhaseAttempts THEN [process EXCEPT !.tries = @ + 1]
             ELSE Block(process.memory, "failed", Saved("failed", Phase))
  /\ UNCHANGED <<plan, manifest, checkpoint, lives, done, tested, lost, learned>>
ReviewRequiresFix ==
  /\ IsAt(Provided \cap {"review"}) /\ process' = [process EXCEPT !.pc = "repair", !.tries = 0]
  /\ UNCHANGED <<plan, manifest, checkpoint, lives, done, tested, lost, learned>>
InScope(memory) == /\ process' = Finish("manifest", memory) /\ done' = done \cup {Phase}
OutOfScope(memory) == /\ process' = Block(memory, "blocked_by_scope", Saved("blocked", "scope-review"))
                      /\ UNCHANGED done
ProviderSucceeds ==
  /\ IsAt(Provided) /\ (InScope(process.memory) \/ OutOfScope(process.memory))
  /\ UNCHANGED <<plan, manifest, checkpoint, lives, tested, lost, learned>>

(* repair_after_failure: one attempt, with its validation.                   *)
GiveUp == Block(process.memory, IF Phase = "review" THEN "blocked_by_review" ELSE "blocked_by_validation",
                Saved("blocked", "repair"))
Repair ==
  /\ process.pc = "repair"
  /\ IF process.tries = MaxRepairs THEN process' = GiveUp /\ UNCHANGED <<done, tested>>
     ELSE \/ process' = [process EXCEPT !.tries = @ + 1] /\ tested' = "changed" /\ UNCHANGED done
          \/ /\ process' = [process EXCEPT !.tries = @ + 1, !.memory.validation = "failed"]
             /\ tested' = "failed" /\ UNCHANGED done
          \/ /\ tested' = "passed"
             /\ LET memory == [process.memory EXCEPT !.validation = "passed"] IN
                IF Phase = "review" THEN InScope(memory) \/ OutOfScope(memory)
                ELSE process' = Finish("checkpoint", memory) /\ done' = done \cup {Phase}
  /\ UNCHANGED <<plan, manifest, checkpoint, lives, lost, learned>>

LearnPhase ==
  /\ IsAt({"learn"}) /\ learned' = learned + 1 /\ done' = done \cup {Phase}
  /\ process' = Finish("manifest", process.memory)
  /\ UNCHANGED <<plan, manifest, checkpoint, lives, tested, lost>>

BugVerdict(diffClean) ==    \* mutant: only the diff is checked
  IF diffClean THEN "completed" ELSE "blocked_by_verification"
Verdict(diffClean) ==
  IF process.memory.validation # "failed" /\ diffClean THEN "completed" ELSE "blocked_by_verification"
Verify ==
  /\ process.pc = "verify"
  /\ \E diffClean \in BOOLEAN :
       LET status == Verdict(diffClean) IN
       process' = Block(process.memory, status, [phase |-> "complete", status |-> status, next |-> "none"])
  /\ UNCHANGED <<plan, manifest, checkpoint, lives, done, tested, lost, learned>>
-------------------------------------------------------------------------------
WriteManifest ==
  /\ process.pc = "manifest" /\ manifest' = process.memory /\ process' = [process EXCEPT !.pc = "checkpoint"]
  /\ UNCHANGED <<plan, checkpoint, lives, done, tested, lost, learned>>
SaveCheckpoint ==
  /\ process.pc = "checkpoint" /\ checkpoint' = process.save
  /\ process' = IF process.save.phase = "complete" THEN Exit(IF process.save.status = "completed" THEN 0 ELSE 1)
             ELSE IF process.save.status # "completed" THEN Exit(1)
             ELSE IF process.at < Len(plan) THEN Enter(process.at + 1, process.memory)
             ELSE [process EXCEPT !.pc = "verify"]
  /\ UNCHANGED <<plan, manifest, lives, done, tested, lost, learned>>
ProcessDies ==
  /\ process.pc \notin Stopped /\ process' = [process EXCEPT !.pc = "crashed"]
  /\ lost' = (lost \/ tested # manifest.validation)
  /\ UNCHANGED <<plan, manifest, checkpoint, lives, done, tested, learned>>

PhaseStep == \/ Context \/ Validate \/ ProviderFails \/ ReviewRequiresFix \/ ProviderSucceeds
        \/ Repair \/ LearnPhase \/ Verify \/ WriteManifest \/ SaveCheckpoint
HarnessNext == StartRun \/ Resume \/ PhaseStep \/ ProcessDies
HarnessFairness == WF_harnessVars(PhaseStep)
HarnessSpec == HarnessInit /\ [][HarnessNext]_harnessVars /\ HarnessFairness
-------------------------------------------------------------------------------
(* Types, and the plan: it ends with learn, what is executed is validated    *)
(* afterwards, and no phase is planned twice.                                *)
HarnessTypeOK ==
  /\ process.pc \in Stopped \cup {"phase", "repair", "verify", "manifest", "checkpoint"}
  /\ {manifest.validation, process.memory.validation} \subseteq {"none", "passed", "failed"}
  /\ Last(plan) = "learn" /\ IsInjective(plan)
  /\ \A i \in DOMAIN plan : plan[i] = "execute" => plan[i + 1] = "validate"

(* agent-extensions.md:81, "A run should be resumable after provider         *)
(* failure, timeout, context compaction, or operator interruption": however  *)
(* often the run dies and is resumed, no phase is worked on before all the   *)
(* earlier ones have succeeded, and no process reports success (exit code 0, *)
(* or the status completed) while one of the phases is still to be done or   *)
(* the run was learned from twice by the same process.                       *)
NothingSkipped ==
  /\ HarnessTypeOK
  /\ process.pc \in {"phase", "repair"} => \A i \in 1..(process.at - 1) : plan[i] \in done
  /\ manifest.status = "completed" \/ (process.pc = "exited" /\ process.code = 0)
       => Range(plan) \subseteq done /\ learned \in 1..lives

(* VERIFICATION_POLICY.md:35, "ACCEPTED only when all mandatory checks       *)
(* pass": a run ends as completed only if its last validation passed, and    *)
(* nothing was repaired after it.  (A crash before a repair is on disk,      *)
(* lost, can complete the run on the result of an earlier validation.)       *)
CompletedIsTested ==
  manifest.status = "completed" /\ ~lost =>
    tested \in {"passed"} \cup (IF Contains(plan, "validate") THEN {} ELSE {"none"})

(* The retries of a phase and the repairs are bounded, and calls time out:   *)
(* a process that works on the run ends, unless it crashes.                  *)
RunReturns == (process.pc \notin Stopped) ~> (process.pc \in Stopped)

(* The files of the run directory only move forward: phase by phase, then to *)
(* one verdict that no resumed process changes.                              *)
Recorded ==
  IF checkpoint.phase = "complete" THEN Len(plan)
  ELSE IF Contains(plan, checkpoint.phase)
  THEN (CHOOSE i \in DOMAIN plan : plan[i] = checkpoint.phase)
       - (IF checkpoint.status = "completed" THEN 0 ELSE 1)
  ELSE 0
Phased == INSTANCE PhasedRun WITH length <- Len(plan), passed <- Recorded,
  verdict <- CASE manifest.status = "completed" -> "completed"
               [] manifest.status = "blocked_by_verification" -> "rejected"
               [] OTHER -> "open"
ImplementsPhasedRun == Phased!PhasedSpec

(* .ai-harness/config.toml:9, "require_verification_before_complete": a      *)
(* process that exits with 0, a completed run, leaves a run that the final   *)
(* verification has accepted.                                                *)
ZeroMeansVerified == process.pc = "exited" /\ process.code = 0 => manifest.status = "completed"
===============================================================================
