------------------------------- MODULE TaskMemory -------------------------------
(***************************************************************************)
(* The shared task memory (.ai-harness/runtime/task_memory.py) and the dream *)
(* cycle that curates it (portable/dream_memory.py): the rows of one         *)
(* learning key.  Recording is one transaction under the ledger's lock; a    *)
(* dream reads its candidates in one and revises in another.                 *)
(* Left out: revision numbers, the audit log and the ranking of relevant.    *)
(***************************************************************************)
EXTENDS Naturals, FiniteSets, Sequences

CONSTANTS Runs,        \* run_id: executions that record what they observed
          Contents,    \* what may be observed: [outcome, note]
          Dreamers,    \* processes that dream
          MinRepeat,   \* min_repeat
          MaxRecorded  \* bound of the observations recorded
ASSUME MemoryAssumption ==
  /\ \A c \in Contents : DOMAIN c = {"outcome", "note"}
  /\ MinRepeat \in Nat \ {0, 1} /\ MaxRecorded \in Nat

VARIABLES ledger,    \* the rows, in the order of insertion
          dreamer,   \* the dream every process is in
          recorded   \* calls of record by runs
memoryVars == <<ledger, dreamer, recorded>>

Awake == [pc |-> "awake", counted |-> {}, disturbed |-> FALSE]
MemoryInit == ledger = <<>> /\ dreamer = [d \in Dreamers |-> Awake] /\ recorded = 0
-------------------------------------------------------------------------------
(* A row counts runs and notes: one of each, unless it consolidates others.  *)
RowOf(run, second, content) ==
  [run |-> run, second |-> second, promotion |-> "candidate", supersedes |-> 0,
   outcome |-> content.outcome, detail |-> [runs |-> 1, note |-> content.note],
   evidence |-> {content.note}, basis |-> {}, disturbed |-> FALSE, contradicted |-> FALSE]
Fingerprint(row) == <<row.outcome, row.detail, row.evidence>>
(* record: an exact duplicate, by whomever, leaves the ledger as it is.      *)
BugRecordRow(row) ==    \* mutant: no fingerprint
  ledger' = [i \in 1..(Len(ledger) + 1) |->
    IF i > Len(ledger) THEN row
    ELSE IF i = row.supersedes THEN [ledger[i] EXCEPT !.promotion = "superseded"] ELSE ledger[i]]
RecordRow(row) ==
  ledger' = IF \E i \in DOMAIN ledger : Fingerprint(ledger[i]) = Fingerprint(row) THEN ledger
            ELSE [i \in 1..(Len(ledger) + 1) |->
              IF i > Len(ledger) THEN row
              ELSE IF i = row.supersedes THEN [ledger[i] EXCEPT !.promotion = "superseded"]
              ELSE ledger[i]]
Now(later) ==    \* recorded_at: in the second of the last row, or later
  (IF ledger = <<>> THEN 1 ELSE ledger[Len(ledger)].second) + (IF later THEN 1 ELSE 0)
Observe(run, content, later) ==
  /\ recorded < MaxRecorded /\ recorded' = recorded + 1
  /\ RecordRow(RowOf(run, Now(later), content))
  /\ dreamer' = [d \in Dreamers |-> IF dreamer[d] = Awake THEN Awake
                                    ELSE [dreamer[d] EXCEPT !.disturbed = TRUE]]

(* The candidates, newest second first; every run counts once, and all must  *)
(* agree.                                                                    *)
CandidateRows == {i \in DOMAIN ledger : ledger[i].promotion = "candidate"}
Newest(rows) == CHOOSE i \in rows : \A j \in rows \ {i} :
  \/ ledger[i].second > ledger[j].second
  \/ ledger[i].second = ledger[j].second /\ i < j
Independent(rows) == {Newest({i \in rows : ledger[i].run = run}) : run \in {ledger[i].run : i \in rows}}
Outcomes(rows) == {ledger[i].outcome : i \in rows}
Agree(rows) == Outcomes(rows) = {"worked"} \/ Outcomes(rows) \subseteq {"failed", "regressed"}
ReadCandidates(d) ==
  /\ dreamer[d] = Awake
  /\ LET counted == Independent(CandidateRows) IN
     /\ Cardinality(counted) >= MinRepeat /\ Agree(counted)
     /\ dreamer' = [dreamer EXCEPT ![d] =
          [pc |-> "revise", counted |-> counted, disturbed |-> FALSE]]
  /\ UNCHANGED <<ledger, recorded>>

(* revise: a verified row that supersedes the newest of those it counts.     *)
Lesson(rows) ==
  IF "worked" \in Outcomes(rows) THEN "worked"
  ELSE IF "regressed" \in Outcomes(rows) THEN "regressed" ELSE "failed"
Contradicted(rows) ==    \* by a candidate of a run that is not among them
  \E i \in CandidateRows : /\ ~Agree(rows \cup {i})
                           /\ ledger[i].run \notin {ledger[j].run : j \in rows}
Revise(d, later) ==
  /\ dreamer[d].pc = "revise"
  /\ LET counted == dreamer[d].counted
         old == Newest(counted)
     IN RecordRow([ledger[old] EXCEPT !.promotion = "verified", !.second = Now(later),
          !.outcome = Lesson(counted), !.supersedes = old,
          !.detail = [runs |-> Cardinality(counted), note |-> ledger[old].detail.note],
          !.evidence = UNION {ledger[i].evidence : i \in counted},
          !.basis = counted, !.disturbed = dreamer[d].disturbed,
          !.contradicted = Contradicted(counted)])
  /\ dreamer' = [dreamer EXCEPT ![d] = Awake] /\ UNCHANGED recorded
DreamerDies(d) ==
  /\ dreamer[d] # Awake /\ dreamer' = [dreamer EXCEPT ![d] = Awake] /\ UNCHANGED <<ledger, recorded>>

MemoryNext ==
  \/ \E run \in Runs, content \in Contents, later \in BOOLEAN : Observe(run, content, later)
  \/ \E d \in Dreamers : \/ ReadCandidates(d) \/ DreamerDies(d)
                         \/ \E later \in BOOLEAN : Revise(d, later)
MemorySpec == MemoryInit /\ [][MemoryNext]_memoryVars
-------------------------------------------------------------------------------
(* dream_memory.py:5, "creates a verified revision only when independent     *)
(* runs agree", and :112, "Conflicting evidence must never be promoted":     *)
(* whatever dreams overlap, a verified row rests on MinRepeat runs with one  *)
(* outcome, and only what a run recorded between the two halves of the dream *)
(* contradicted it then; what is superseded has a verified successor that    *)
(* rests on it; and dreams that saw the same rows leave one successor.       *)
Verified == {i \in DOMAIN ledger : ledger[i].promotion = "verified"}
MemorySound ==
  /\ \A i \in Verified :
       /\ Cardinality({ledger[j].run : j \in ledger[i].basis}) >= MinRepeat /\ Agree(ledger[i].basis)
       /\ ledger[i].contradicted => ledger[i].disturbed
  /\ \A i \in DOMAIN ledger : ledger[i].promotion = "superseded" =>
       \E j \in Verified : ledger[j].supersedes = i /\ i \in ledger[j].basis
  /\ \A i, j \in Verified : ledger[i].basis = ledger[j].basis => i = j
===============================================================================
