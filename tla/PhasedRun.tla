------------------------------- MODULE PhasedRun -------------------------------
(***************************************************************************)
(* What the run directory of a harness run promises: the phases of the plan  *)
(* pass one after the other, none is taken back, and the run gets its one    *)
(* verdict only when the last of them has passed.                            *)
(***************************************************************************)
EXTENDS Naturals
VARIABLES length,   \* number of phases of the plan
          passed,   \* phases that have passed
          verdict   \* "open", "completed" or "rejected"
phasedVars == <<length, passed, verdict>>

PhasedInit == length \in Nat \ {0} /\ passed = 0 /\ verdict = "open"
Pass == /\ verdict = "open" /\ passed < length /\ passed' = passed + 1
        /\ UNCHANGED <<length, verdict>>
Conclude == /\ verdict = "open" /\ passed = length /\ verdict' \in {"completed", "rejected"}
            /\ UNCHANGED <<length, passed>>
PhasedSpec == PhasedInit /\ [][Pass \/ Conclude]_phasedVars
===============================================================================
