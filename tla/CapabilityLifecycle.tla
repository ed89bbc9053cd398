-------------------------- MODULE CapabilityLifecycle --------------------------
(***************************************************************************)
(* CapabilityLifecycle (portable/capability_lifecycle.py): the trial of one  *)
(* capability, kept as rows of the PersistentMemory (agent_capabilities.py), *)
(* which returns the most confident rows first and at most 256 of them.      *)
(* Campaigns read, decide and write in separate transactions.  The words of  *)
(* other capabilities, which the full-text search may match, are left out,   *)
(* and so is the memory's budget of characters.                              *)
(***************************************************************************)
EXTENDS Naturals, FiniteSets, Sequences

CONSTANTS Campaigns,    \* processes that try the capability, against one baseline
          EvidenceIds,  \* ids of the observations
          MinCanaries,  \* min_canaries
          Window,       \* 256 in the code: rows a search returns
          MaxTrials     \* bound: no call begins with that many rows stored
ASSUME LifecycleAssumption ==
  IsFiniteSet(EvidenceIds) /\ MinCanaries \in Nat \ {0} /\ Window \in Nat \ {0}

VARIABLES trials,      \* the rows, in the order of creation
          campaign,    \* the call every campaign is in
          receipt,     \* the last receipt of record_canary, and the failures on record then
          met,         \* two calls have overlapped
          padded       \* the observations whose id came with spaces around it
lifecycleVars == <<trials, campaign, receipt, met, padded>>

(* A row: the observation it is about, under its stripped id (none for       *)
(* begin), and how that went: its score, safety and metadata.  A second      *)
(* score that passes stands for any other text about a safe observation.     *)
CanaryOutcomes == {"passed", "passed higher", "regressed", "unsafe"}
Row(e, result) == [evidence |-> e, result |-> result]
BeginRow == Row("none", "begin")
Quiet == [pc |-> "quiet", row |-> BeginRow]
LifecycleInit ==
  /\ trials = <<>> /\ campaign = [c \in Campaigns |-> Quiet]
  /\ receipt = [state |-> "canary", failures |-> FALSE] /\ met = FALSE
  /\ padded = {}
-------------------------------------------------------------------------------
(* search ranks what was safe before what was not (confidence 1.0 and 0.0),  *)
(* newest first, and cuts the list: the positions of the rows it returns.    *)
Unsafe(i) == trials[i].result = "unsafe"
Ahead(i) == {j \in DOMAIN trials : IF Unsafe(i) = Unsafe(j) THEN j > i ELSE Unsafe(i)}
Rows == {i \in DOMAIN trials : Cardinality(Ahead(i)) < Window}
Begun == \E i \in Rows : trials[i] = BeginRow
Canaries(found) == {i \in found : trials[i] # BeginRow}
FailedRow(row) == row.result \in {"regressed", "unsafe"}
AnyFailed(found) == \E i \in found : FailedRow(trials[i])

(* status: any failure in the rows rolls back.                               *)
Enough == Cardinality(Canaries(Rows)) >= MinCanaries
Status == IF AnyFailed(Rows) THEN "rolled_back"
          ELSE IF Enough THEN "promoted" ELSE "canary"

Call(c, call) ==
  /\ Len(trials) < MaxTrials
  /\ campaign' = [campaign EXCEPT ![c] = call]
  /\ met' = (met \/ \E d \in Campaigns \ {c} : campaign[d] # Quiet)
(* begin *)
BeginTrial(c) ==
  /\ campaign[c] = Quiet /\ ~Begun
  /\ Call(c, [pc |-> "remember", row |-> BeginRow]) /\ UNCHANGED <<trials, receipt, padded>>
(* remember looks for the same row in one statement and inserts it in        *)
(* another, and another process may come in between.                         *)
Remembered(c) == campaign' = [campaign EXCEPT ![c] = IF @.row = BeginRow THEN Quiet
                                                     ELSE [@ EXCEPT !.pc = "answer"]]
SeekDuplicate(c) ==
  /\ campaign[c].pc = "remember"
  /\ IF \E i \in DOMAIN trials : trials[i] = campaign[c].row THEN Remembered(c)
     ELSE campaign' = [campaign EXCEPT ![c].pc = "insert"]
  /\ UNCHANGED <<trials, receipt, met, padded>>
Insert(c) ==
  /\ campaign[c].pc = "insert" /\ trials' = Append(trials, campaign[c].row)
  /\ Remembered(c) /\ UNCHANGED <<receipt, met, padded>>

(* record_canary: refused before begin, and for evidence that is in the rows *)
(* under the very id the call gives.  The row keeps the id stripped, so that *)
(* one given with spaces around it is not found.                             *)
Given(row, spaced) == padded' = IF spaced THEN padded \cup {row.evidence} ELSE padded
BugCheck(c, row, spaced) ==    \* mutant: evidence may be counted twice
  /\ campaign[c] = Quiet /\ Begun /\ Given(row, spaced)
  /\ Call(c, [pc |-> "remember", row |-> row]) /\ UNCHANGED <<trials, receipt>>
Check(c, row, spaced) ==
  /\ campaign[c] = Quiet /\ Begun /\ Given(row, spaced)
  /\ spaced \/ \A i \in Canaries(Rows) : trials[i].evidence # row.evidence
  /\ Call(c, [pc |-> "remember", row |-> row]) /\ UNCHANGED <<trials, receipt>>
(* The receipt looks at this canary alone, and at how many there are.        *)
Answer(c) ==
  /\ campaign[c].pc = "answer"
  /\ receipt' =
       [state |-> IF FailedRow(campaign[c].row) THEN "rolled_back"
                  ELSE IF Enough THEN "promoted" ELSE "canary",
        failures |-> AnyFailed(DOMAIN trials)]
  /\ campaign' = [campaign EXCEPT ![c] = Quiet] /\ UNCHANGED <<trials, met, padded>>
CampaignDies(c) ==
  /\ campaign[c] # Quiet /\ campaign' = [campaign EXCEPT ![c] = Quiet]
  /\ UNCHANGED <<trials, receipt, met, padded>>

LifecycleNext == \E c \in Campaigns :
  \/ BeginTrial(c) \/ SeekDuplicate(c) \/ Insert(c) \/ Answer(c) \/ CampaignDies(c)
  \/ \E e \in EvidenceIds, result \in CanaryOutcomes, spaced \in BOOLEAN : Check(c, Row(e, result), spaced)
LifecycleSpec == LifecycleInit /\ [][LifecycleNext]_lifecycleVars
-------------------------------------------------------------------------------
(* capability_lifecycle.py:5, "promotes only after repeated safe             *)
(* observations": while calls do not overlap, no row is stored twice.  While *)
(* the rows fit into a search, an observation is counted again only if its   *)
(* id came with spaces around it, so that without such an id a promotion     *)
(* rests on as many different safe observations as it claims; and what a     *)
(* receipt has rolled back or, without a failure on record, promoted, the    *)
(* status confirms.                                                          *)
LifecycleSound == ~met =>
  /\ \A i, j \in DOMAIN trials : trials[i] = trials[j] => i = j
  /\ Len(trials) <= Window =>
       LET canaries == Canaries(DOMAIN trials)
           tried == {trials[i].evidence : i \in canaries}
       IN /\ \A i, j \in canaries : trials[i].evidence = trials[j].evidence =>
               i = j \/ trials[i].evidence \in padded
          /\ Status = "promoted" =>
               ~AnyFailed(DOMAIN trials) /\ (padded = {} => Cardinality(tried) >= MinCanaries)
          /\ receipt.state = "rolled_back" => Status = "rolled_back"
          /\ receipt.state = "promoted" /\ ~receipt.failures => Status # "canary"

(* capability_lifecycle.py:6, "Any material regression or safety failure     *)
(* rolls the candidate back": no receipt promotes it afterwards.             *)
RolledBackStays == receipt.state = "promoted" => ~receipt.failures
===============================================================================
