---------------------------- MODULE ExclusiveWork ----------------------------
(***************************************************************************)
(* What the trigger inbox promises, with no clock, no lease and no table:   *)
(* a set of work items, each of which is attempted under numbered grants.   *)
(* A grant may be superseded by a later one (its holder may have died), but *)
(* only the holder of the latest grant can settle the item, an item is      *)
(* granted at most as often as its budget says, and what is settled stays   *)
(* settled.  TriggerInbox implements this specification.                    *)
(***************************************************************************)
EXTENDS Naturals

CONSTANTS Items,      \* identities of the work items
          MaxBudget   \* upper bound of the attempts an item may be given

VARIABLES phase,      \* "none", "open", "held" or the outcome of the item
          grant,      \* number of grants handed out for the item
          budget,     \* grants the item may receive
          settler     \* the grant that last returned or settled the item
workVars == <<phase, grant, budget, settler>>

Outcomes == {"success", "failed", "cancelled"}

Init == /\ phase = [i \in Items |-> "none"]
        /\ grant = [i \in Items |-> 0]
        /\ budget = [i \in Items |-> 0]
        /\ settler = [i \in Items |-> 0]

Submit(i, b) ==
  /\ phase[i] = "none"
  /\ phase' = [phase EXCEPT ![i] = "open"]
  /\ budget' = [budget EXCEPT ![i] = b]
  /\ UNCHANGED <<grant, settler>>

(* An open item, or one whose holder is given up on, goes to a new holder. *)
Grant(i) ==
  /\ phase[i] \in {"open", "held"}
  /\ grant[i] < budget[i]
  /\ phase' = [phase EXCEPT ![i] = "held"]
  /\ grant' = [grant EXCEPT ![i] = @ + 1]
  /\ UNCHANGED <<budget, settler>>

(* The latest holder gives the item back for another attempt ... *)
Return(i) ==
  /\ phase[i] = "held"
  /\ grant[i] < budget[i]
  /\ phase' = [phase EXCEPT ![i] = "open"]
  /\ settler' = [settler EXCEPT ![i] = grant[i]]
  /\ UNCHANGED <<grant, budget>>

(* ... or settles it for good. *)
Settle(i, outcome) ==
  /\ phase[i] = "held"
  /\ phase' = [phase EXCEPT ![i] = outcome]
  /\ settler' = [settler EXCEPT ![i] = grant[i]]
  /\ UNCHANGED <<grant, budget>>

Next == \E i \in Items :
          \/ \E b \in 1..MaxBudget : Submit(i, b)
          \/ Grant(i)
          \/ Return(i)
          \/ \E outcome \in Outcomes : Settle(i, outcome)

Spec == Init /\ [][Next]_workVars
=============================================================================
