------------------------------- MODULE SessionRun -------------------------------
(***************************************************************************)
(* AdaptiveRuntime.run and recover (portable/adaptive_runtime.py) on one     *)
(* session: the hooks that may veto, the orchestrator's run, the outcome     *)
(* handed to learning, and the session's checkpoint file                     *)
(* (session_state.py), written to a temporary file that all processes share  *)
(* and put in place by os.replace.  Left out: context, cognition and tuning, *)
(* whose errors are errors of the work or are swallowed.                     *)
(***************************************************************************)
EXTENDS Naturals, FiniteSets

CONSTANTS Hosts,           \* processes that use the session
          MaxSessionCalls  \* bound of the calls of run and recover
ASSUME SessionAssumption == MaxSessionCalls \in Nat

VARIABLES session,   \* the session's file
          draft,     \* the temporary file
          host,      \* the call every process is in
          started,   \* calls so far
          approved,  \* runs whose work was done and passed the hook after it
          taught,    \* outcomes handed to learning: [run, status]
          returned,  \* runs that returned a result
          shared     \* two calls have overlapped
sessionVars == <<session, draft, host, started, approved, taught, returned, shared>>

(* A file: its stage says also that it is absent or not whole.               *)
File(stage, run, attempt, error) == [stage |-> stage, run |-> run, attempt |-> attempt, error |-> error]
Absent == File("absent", 0, 0, FALSE)
Torn == File("torn", 0, 0, FALSE)
Readable(file) == file.stage \in {"execute", "complete"}
Off == [pc |-> "off", checkpoint |-> Absent, open |-> "none", next |-> "off", status |-> "none"]
SessionInit ==
  /\ session = Absent /\ draft = Absent /\ host = [h \in Hosts |-> Off]
  /\ started = 0 /\ approved = {} /\ taught = {} /\ returned = {} /\ shared = FALSE
-------------------------------------------------------------------------------
On(h, pc) == host[h].pc = pc
Proceed(h, state) == host' = [host EXCEPT ![h] = state]
Saving(h, checkpoint, next) ==
  [host[h] EXCEPT !.pc = "open", !.checkpoint = checkpoint, !.next = next]
StartCall(h) ==
  /\ host[h] = Off /\ started < MaxSessionCalls /\ started' = started + 1
  /\ shared' = (shared \/ \E other \in Hosts : host[other] # Off)
  /\ UNCHANGED <<session, draft, approved, taught, returned>>
(* run, when the hook at its start allows it.                                *)
StartSession(h) ==
  StartCall(h) /\ Proceed(h, Saving(h, File("execute", started + 1, 0, FALSE), "before"))
(* recover loads the file and puts it back to "execute".                     *)
RecoverSession(h) ==
  /\ Readable(session) /\ StartCall(h)
  /\ Proceed(h, Saving(h, File("execute", session.run, session.attempt + 1, FALSE), "off"))

(* SessionStore.save: open and truncate, write, replace.  Who holds the      *)
(* temporary file open writes into the session's file once it is replaced.   *)
Keep == UNCHANGED <<started, approved, taught, returned, shared>>
BugOpenDraft(h) ==    \* mutant: writes the file in place
  /\ On(h, "open") /\ session' = Torn /\ UNCHANGED draft
  /\ Proceed(h, [host[h] EXCEPT !.pc = "write", !.open = "session"]) /\ Keep
OpenDraft(h) ==
  /\ On(h, "open") /\ draft' = Torn /\ UNCHANGED session
  /\ Proceed(h, [host[h] EXCEPT !.pc = "write", !.open = "draft"]) /\ Keep
Over(file, new) == IF file = Torn THEN {new} ELSE {new, Torn}
WriteDraft(h) ==
  /\ On(h, "write") /\ Proceed(h, [host[h] EXCEPT !.pc = "replace", !.open = "none"]) /\ Keep
  /\ IF host[h].open = "draft" THEN draft' \in Over(draft, host[h].checkpoint) ELSE UNCHANGED draft
  /\ IF host[h].open = "session" THEN session' \in Over(session, host[h].checkpoint)
     ELSE UNCHANGED session
Moved(open) == IF open = "draft" THEN "session" ELSE IF open = "session" THEN "gone" ELSE open
Resumed(h) == IF host[h].next = "off" THEN Off ELSE [host[h] EXCEPT !.pc = host[h].next]
ReplaceFile(h) ==
  /\ On(h, "replace") /\ draft # Absent /\ session' = draft /\ draft' = Absent
  /\ host' = [other \in Hosts |-> IF other = h THEN Resumed(h)
                                  ELSE [host[other] EXCEPT !.open = Moved(@)]]
  /\ Keep
(* A save may fail (the disk is full, or another process has replaced the    *)
(* temporary file); within run's try block that is an error of the run.      *)
SaveFails(h) ==
  /\ host[h].pc \in {"write", "replace"} /\ UNCHANGED <<session, draft>>
  /\ Proceed(h, IF host[h].next = "learn" THEN [host[h] EXCEPT !.pc = "error", !.open = "none"] ELSE Off) /\ Keep
-------------------------------------------------------------------------------
(* The try block.  A veto or an exception anywhere in it leads to "error".   *)
Disk == UNCHANGED <<session, draft>>
RunFails(h) ==
  /\ host[h].pc \in {"before", "work", "after", "finish"}
  /\ Proceed(h, [host[h] EXCEPT !.pc = "error"]) /\ Disk /\ Keep
BeforeAgent(h) ==
  On(h, "before") /\ Proceed(h, [host[h] EXCEPT !.pc = "work"]) /\ Disk /\ Keep
OrchestratorWorks(h, status) ==
  On(h, "work") /\ Proceed(h, [host[h] EXCEPT !.pc = "after", !.status = status]) /\ Disk /\ Keep
AfterAgent(h) ==
  /\ On(h, "after") /\ approved' = approved \cup {host[h].checkpoint.run}
  /\ Proceed(h, Saving(h, [host[h].checkpoint EXCEPT !.stage = "complete"], "learn"))
  /\ Disk /\ UNCHANGED <<started, taught, returned, shared>>
(* record_outcome; what it raises is swallowed.                              *)
Teach(h, status, succeeds) ==
  taught' = IF succeeds THEN taught \cup {[run |-> host[h].checkpoint.run, status |-> status]}
            ELSE taught
LearnOutcome(h, succeeds) ==
  /\ On(h, "learn") /\ Teach(h, host[h].status, succeeds)
  /\ Proceed(h, [host[h] EXCEPT !.pc = "finish"])
  /\ Disk /\ UNCHANGED <<started, approved, returned, shared>>
ReturnResult(h) ==
  /\ On(h, "finish") /\ returned' = returned \cup {host[h].checkpoint.run} /\ Proceed(h, Off)
  /\ Disk /\ UNCHANGED <<started, approved, taught, shared>>
(* The except block: a failed outcome, then the error is saved and raised.   *)
HandleError(h, succeeds) ==
  /\ On(h, "error") /\ Teach(h, "raised", succeeds)
  /\ Proceed(h, Saving(h, [host[h].checkpoint EXCEPT !.attempt = @ + 1, !.error = TRUE], "off"))
  /\ Disk /\ UNCHANGED <<started, approved, returned, shared>>
HostDies(h) == host[h] # Off /\ Proceed(h, Off) /\ Disk /\ Keep

SessionNext == \E h \in Hosts :
  \/ StartSession(h) \/ RecoverSession(h) \/ OpenDraft(h) \/ WriteDraft(h) \/ ReplaceFile(h)
  \/ SaveFails(h) \/ RunFails(h) \/ BeforeAgent(h) \/ AfterAgent(h) \/ ReturnResult(h) \/ HostDies(h)
  \/ \E status \in {"accepted", "failed"} : OrchestratorWorks(h, status)
  \/ \E succeeds \in BOOLEAN : LearnOutcome(h, succeeds) \/ HandleError(h, succeeds)
SessionSpec == SessionInit /\ [][SessionNext]_sessionVars
-------------------------------------------------------------------------------
(* session_state.py:38, "Atomic JSON checkpoints": unless calls overlap, a    *)
(* crash or a full disk at any point leaves a session that can be read, and  *)
(* what a run has returned is on disk as complete and without error until    *)
(* the session is used again.  Overlapping or not, a session is complete and *)
(* an outcome taught as accepted only for a run whose work was done and      *)
(* allowed by the hook after it, and no run that returned is taught as one   *)
(* that raised.                                                              *)
SessionSound ==
  /\ ~shared => /\ session # Torn
                /\ session.run \in returned /\ session.attempt = 0
                     => session.stage = "complete" /\ ~session.error
  /\ session.stage = "complete" => session.run \in approved
  /\ \A outcome \in taught :
       /\ outcome.status # "raised" => outcome.run \in approved
       /\ outcome.status = "raised" => outcome.run \notin returned
===============================================================================
