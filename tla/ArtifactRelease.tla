---------------------------- MODULE ArtifactRelease ----------------------------
(***************************************************************************)
(* The release channels of portable/agency_release_lifecycle.py behind the   *)
(* gates of context_bound_release.py.  A transition reads the channels, then *)
(* replaces one file after the other and at last appends to the history;     *)
(* nothing locks the directory, so writers interleave and a crash leaves a   *)
(* transition half done.                                                     *)
(***************************************************************************)
EXTENDS Naturals, FiniteSets, Sequences, SequencesExt

CONSTANTS Refs,        \* staged artifacts: records of an id and a digest
          None,        \* an empty channel
          Writers,     \* processes that release
          MaxReleases, \* bound of the promotions and rollbacks on record or under way
          MaxCrashes   \* bound of the crashes
ASSUME ReleaseAssumption ==
  /\ \A r \in Refs : r = [id |-> r.id, digest |-> r.digest]
  /\ None \notin Refs /\ MaxReleases \in Nat /\ MaxCrashes \in Nat

VARIABLES channel,   \* shadow, canary and current
          meta,      \* the id last staged for a digest: artifacts/<digest>.json
          history,   \* release-history.jsonl, its promotions and rollbacks (nobody
                     \* reads the shadow and canary entries)
          writer,    \* local state of the writers
          trialled,  \* digests that have been in canary
          serial,    \* whether no transition has met another one or died half done
          crashes
releaseVars == <<channel, meta, history, writer, trialled, serial, crashes>>

Resting == [pc |-> "idle", action |-> "none", ref |-> None]
Digests == {r.digest : r \in Refs}
ReleaseInit ==
  /\ channel = [shadow |-> None, canary |-> None, current |-> None]
  /\ meta \in {m \in [Digests -> {r.id : r \in Refs}] :
                 \A d \in Digests : [id |-> m[d], digest |-> d] \in Refs}
  /\ history = <<>>
  /\ writer = [w \in Writers |-> Resting]
  /\ trialled = {} /\ serial = TRUE /\ crashes = 0
-------------------------------------------------------------------------------
Holds(name, ref) == channel[name] # None /\ channel[name].digest = ref.digest
Begin(w, action, ref, pc) ==
  /\ writer[w] = Resting
  /\ Len(history) + Cardinality({v \in Writers : writer[v] # Resting}) < MaxReleases
  /\ writer' = [writer EXCEPT ![w] = [pc |-> pc, action |-> action, ref |-> ref]]
  /\ serial' = (serial /\ \A v \in Writers : writer[v] = Resting)
  /\ UNCHANGED <<channel, meta, history, trialled, crashes>>

(* stage writes the id of the reference over the one stored for its digest.  *)
Stage(ref) ==
  /\ meta[ref.digest] # ref.id
  /\ meta' = [meta EXCEPT ![ref.digest] = ref.id]
  /\ UNCHANGED <<channel, history, writer, trialled, serial, crashes>>

(* The gates, read at the start of a transition.                             *)
Shadow(w, ref) == Begin(w, "shadow", ref, "put")
Canary(w, ref) == Holds("shadow", ref) /\ Begin(w, "canary", ref, "put")
Promote(w, ref) == Holds("canary", ref) /\ Begin(w, "promote", ref, "switch")

(* rollback: the last promoted artifact with another id than the current one *)
(* or, when there is none, only a record.                                    *)
BugCandidates == {i \in 1..Len(history) : history[i].action = "promote"}    \* mutant: any id
Candidates ==
  {i \in 1..Len(history) : history[i].action = "promote" /\ history[i].ref.id # channel.current.id}
Target(i) == LET digest == history[i].ref.digest IN [id |-> meta[digest], digest |-> digest]
Rollback(w) ==
  \/ /\ channel.current = None \/ Candidates = {}
     /\ Begin(w, "rollback", channel.current, "record")
  \/ /\ channel.current # None
     /\ \E i \in Candidates :
          (\A j \in Candidates : j <= i) /\ Begin(w, "rollback", Target(i), "switch")
-------------------------------------------------------------------------------
Set(w, name, ref, pc) ==
  /\ channel' = [channel EXCEPT ![name] = ref]
  /\ writer' = [writer EXCEPT ![w].pc = pc]
  /\ UNCHANGED <<meta, history, serial, crashes>>
(* The entries of shadow and canary in the history are left out, as nobody   *)
(* reads them.                                                               *)
Put(w) ==
  /\ writer[w].pc = "put"
  /\ channel' = [channel EXCEPT ![writer[w].action] = writer[w].ref]
  /\ writer' = [writer EXCEPT ![w] = Resting]
  /\ trialled' = trialled \cup
       IF writer[w].action = "canary" THEN {writer[w].ref.digest} ELSE {}
  /\ UNCHANGED <<meta, history, serial, crashes>>
Switch(w) == /\ writer[w].pc = "switch" /\ Set(w, "current", writer[w].ref, "drop canary")
             /\ UNCHANGED trialled
DropCanary(w) == /\ writer[w].pc = "drop canary" /\ Set(w, "canary", None, "drop shadow")
                 /\ UNCHANGED trialled
DropShadow(w) == /\ writer[w].pc = "drop shadow" /\ Set(w, "shadow", None, "record")
                 /\ UNCHANGED trialled
BugRecord(w) ==    \* mutant: only promotions are recorded
  /\ writer[w].pc = "record"
  /\ history' = IF writer[w].action = "promote"
                THEN Append(history, [action |-> "promote", ref |-> writer[w].ref]) ELSE history
  /\ writer' = [writer EXCEPT ![w] = Resting]
  /\ UNCHANGED <<channel, meta, trialled, serial, crashes>>
Record(w) ==
  /\ writer[w].pc = "record"
  /\ history' = Append(history, [action |-> writer[w].action, ref |-> writer[w].ref])
  /\ writer' = [writer EXCEPT ![w] = Resting]
  /\ UNCHANGED <<channel, meta, trialled, serial, crashes>>
Crash(w) ==
  /\ writer[w] # Resting /\ crashes < MaxCrashes
  /\ crashes' = crashes + 1 /\ serial' = FALSE
  /\ writer' = [writer EXCEPT ![w] = Resting]
  /\ UNCHANGED <<channel, meta, history, trialled>>

Gate(w) == Rollback(w) \/ \E ref \in Refs : Shadow(w, ref) \/ Canary(w, ref) \/ Promote(w, ref)
Write(w) == Put(w) \/ Switch(w) \/ DropCanary(w) \/ DropShadow(w) \/ Record(w)
ReleaseNext == (\E ref \in Refs : Stage(ref)) \/ \E w \in Writers : Gate(w) \/ Write(w) \/ Crash(w)
ReleaseSpec == ReleaseInit /\ [][ReleaseNext]_releaseVars
-------------------------------------------------------------------------------
(* agency_release_lifecycle.py:107, "promote requires the same artifact to   *)
(* be in canary": whatever interleaves, crashes or is rolled back, only an   *)
(* artifact that has been in canary is ever current.                         *)
CurrentWasTrialled == channel.current # None => channel.current.digest \in trialled

(* docs/CONTEXT_EVIDENCE_LIFECYCLE.md:65, "promotion and rollback can be     *)
(* traced": between serial transitions the last release on record is the     *)
(* current one.  (After a crash, or with two writers, it need not be.)       *)
CurrentOnRecord ==
  serial /\ (\A w \in Writers : writer[w] = Resting) /\ channel.current # None =>
    history # <<>> /\ Last(history).ref = channel.current

(* docs/AI_AGENT_BOOK_V2_ALIGNMENT.md:79, "rollback returns to the previous  *)
(* promoted artifact when one exists": after promotions of x and then of y,  *)
(* under another id, one at a time and to their end, a rollback returns to x.*)
(* (A second rollback in a row does not: it may go back to y.  And releases  *)
(* under one id are one to it, whatever their contents.)                     *)
Restores ==
  LET n == Len(history') IN
  (/\ history' # history /\ n >= 3 /\ serial
   /\ history'[n].action = "rollback"
   /\ history'[n - 1].action = "promote" /\ history'[n - 2].action = "promote"
   /\ history'[n - 1].ref.id # history'[n - 2].ref.id)
  => history'[n].ref.digest = history'[n - 2].ref.digest
RollbackRestores == [][Restores]_releaseVars

(* What is current has been tried and is what the record says, and a rollback*)
(* returns to the release before.                                            *)
ReleaseSound == [](CurrentWasTrialled /\ CurrentOnRecord) /\ RollbackRestores
===============================================================================
