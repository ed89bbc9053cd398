-------------------------- MODULE SelfModification --------------------------
(***************************************************************************)
(* SelfModificationEngine of portable/orchestration.py: candidate            *)
(* orchestrations go through a regression and a safety gate and replace the  *)
(* active one, file by file; rollback copies the previous one back.  Engines *)
(* on one directory share its temporary files, which are truncated when they *)
(* are opened and written afterwards, and an engine may die between two      *)
(* steps.  What the gates answer is up to the caller.                        *)
(***************************************************************************)
EXTENDS Sequences, Naturals

CONSTANTS Sources,        \* valid candidate sources
          NoFile,
          Damaged,        \* what is not the whole of a source: cut short, or two mixed
          Engines,        \* processes with an engine on the directory
          MaxActivations  \* bound of the promotions and rollbacks begun
ASSUME ActivationAssumption ==
  /\ NoFile # Damaged /\ {NoFile, Damaged} \cap (Sources \cup Engines) = {}
  /\ Sources \cap Engines = {} /\ MaxActivations \in Nat

VARIABLES files,    \* active.py, previous.py and the two temporary files; an engine
                    \* stands for what it has truncated and not yet written
          journal,  \* promotion.jsonl, its promotions and rollbacks (nobody reads it)
          engine,   \* what every engine is doing
          gated,    \* sources that passed both gates
          begun,    \* activations begun
          crossed,  \* two activations have overlapped
          halted    \* an engine has died, or an operation of it failed
activationVars == <<files, journal, engine, gated, begun, crossed, halted>>

(* open: where the file is that the engine has opened and not yet written.   *)
AtRest == [pc |-> "idle", event |-> "none", source |-> NoFile, open |-> "none"]
ActivationInit ==
  /\ files = [f \in {"active", "previous", "temp", "rollbackTemp"} |-> NoFile]
  /\ journal = <<>> /\ engine = [e \in Engines |-> AtRest] /\ gated = {}
  /\ begun = 0 /\ crossed = FALSE /\ halted = FALSE
-------------------------------------------------------------------------------
StartActivation(e, event, source, pc) ==
  /\ engine[e] = AtRest /\ begun < MaxActivations /\ begun' = begun + 1
  /\ engine' = [engine EXCEPT ![e] =
                  [pc |-> pc, event |-> event, source |-> source, open |-> "none"]]
  /\ crossed' = (crossed \/ \E d \in Engines : engine[d] # AtRest)
  /\ UNCHANGED <<files, journal, halted>>

(* evaluate_and_promote: what fails a gate is rejected and changes no file.  *)
BugEvaluate(e, source, regression, safety) ==    \* mutant: one gate is enough
  /\ regression \/ safety
  /\ gated' = IF regression /\ safety THEN gated \cup {source} ELSE gated
  /\ StartActivation(e, "promote", source, "move")
Evaluate(e, source, regression, safety) ==
  /\ regression /\ safety /\ gated' = gated \cup {source}
  /\ StartActivation(e, "promote", source, "move")
(* rollback reads previous.py as it is.                                      *)
BeginRollback(e) ==
  /\ files.previous # NoFile /\ UNCHANGED gated
  /\ StartActivation(e, "rollback",
       IF files.previous \in Sources THEN files.previous ELSE Damaged, "open")

ToStep(e, pc) == engine' = [engine EXCEPT ![e].pc = pc]
Raise(e) == engine' = [engine EXCEPT ![e] = AtRest] /\ UNCHANGED files
(* os.replace(from, to): a file that an engine has open moves with its name, *)
(* and what was under the other name is gone.                                *)
Renamed(open, from, to) == IF open = from THEN to ELSE IF open = to THEN "none" ELSE open
Replace(e, from, to, pc) ==
  /\ files' = [files EXCEPT ![to] = files[from], ![from] = NoFile]
  /\ engine' = [d \in Engines |-> [engine[d] EXCEPT !.open = Renamed(@, from, to),
                                                   !.pc = IF d = e THEN pc ELSE @]]

(* _activate: active.py becomes previous.py, ...                             *)
Move(e) ==
  /\ engine[e].pc = "move"
  /\ IF files.active = NoFile THEN ToStep(e, "open") /\ UNCHANGED files
     ELSE Replace(e, "active", "previous", "open")
(* ... the source is written to a temporary file, whoever else has it open,  *)
Temp(e) == IF engine[e].event = "promote" THEN "temp" ELSE "rollbackTemp"
OpenTemp(e) ==
  /\ engine[e].pc = "open" /\ files' = [files EXCEPT ![Temp(e)] = e]
  /\ engine' = [engine EXCEPT ![e].pc = "write", ![e].open = Temp(e)]
Written(e, file) ==
  IF files[file] = e THEN {engine[e].source} ELSE {engine[e].source, Damaged}
WriteTemp(e) ==
  /\ engine[e].pc = "write"
  /\ engine' = [engine EXCEPT ![e].open = "none",
                  ![e].pc = IF engine[e].event = "promote" THEN "validate" ELSE "replace"]
  /\ IF engine[e].open = "none" THEN UNCHANGED files
     ELSE \E content \in Written(e, engine[e].open) :
            files' = [files EXCEPT ![engine[e].open] = content]
(* ... read back and validated (part of a source may be valid, too), which   *)
(* rollback does not do,                                                     *)
Validate(e) ==
  /\ engine[e].pc = "validate"
  /\ \/ files.temp # NoFile /\ ToStep(e, "replace") /\ UNCHANGED files
     \/ files.temp \notin Sources /\ Raise(e)
(* ... and takes the place of active.py.                                     *)
Swap(e) ==
  /\ engine[e].pc = "replace"
  /\ IF files[Temp(e)] # NoFile THEN Replace(e, Temp(e), "active", "journal") ELSE Raise(e)
Activate(e) ==
  /\ Move(e) \/ OpenTemp(e) \/ WriteTemp(e) \/ Validate(e) \/ Swap(e)
  /\ UNCHANGED <<journal, gated, begun, crossed, halted>>

Journal(e) ==
  /\ engine[e].pc = "journal" /\ engine' = [engine EXCEPT ![e] = AtRest]
  /\ journal' = Append(journal, [event |-> engine[e].event, source |-> engine[e].source])
  /\ UNCHANGED <<files, gated, begun, crossed, halted>>
(* The process dies, or a file operation raises.                             *)
EngineDies(e) ==
  /\ engine[e] # AtRest /\ Raise(e) /\ halted' = TRUE
  /\ UNCHANGED <<journal, gated, begun, crossed>>

ActivationNext == \E e \in Engines :
  \/ \E source \in Sources, regression, safety \in BOOLEAN :
       Evaluate(e, source, regression, safety)
  \/ BeginRollback(e) \/ Activate(e) \/ Journal(e) \/ EngineDies(e)
ActivationSpec == ActivationInit /\ [][ActivationNext]_activationVars
-------------------------------------------------------------------------------
(* What the journal says: the active version and the one before it.          *)
Applied(at, entry) ==
  IF entry.event = "rollback" THEN [active |-> at.previous, previous |-> at.previous]
  ELSE [active |-> entry.source,
        previous |-> IF at.active = NoFile THEN at.previous ELSE at.active]
Replay(entries) ==    \* after each of them
  LET at[n \in 0..Len(entries)] == IF n = 0 THEN [active |-> NoFile, previous |-> NoFile]
                                   ELSE Applied(at[n - 1], entries[n])
  IN at
Replayed == Replay(journal)[Len(journal)]

(* orchestration.py:162, "activation is impossible without both regression   *)
(* and safety evidence", and line 220, "atomically activate": what is the    *)
(* whole of a source, active or kept for a rollback, has passed both gates,  *)
(* whatever interleaves on the shared files, dies or is rolled back.  While  *)
(* activations do not overlap, nothing else is ever found in these files,    *)
(* wherever an engine dies; and when none died, the journal tells which      *)
(* version is active, and which one a rollback will restore.  (Engines that  *)
(* overlap can activate a broken file: one truncates what the other has      *)
(* validated.)                                                               *)
ActivationSound ==
  LET onFile == {files.active, files.previous} IN
  /\ onFile \cap Sources \subseteq gated
  /\ ~crossed => onFile \subseteq gated \cup {NoFile}
  /\ ~crossed /\ ~halted /\ (\A e \in Engines : engine[e] = AtRest) =>
       Replayed = [active |-> files.active, previous |-> files.previous]
===============================================================================
