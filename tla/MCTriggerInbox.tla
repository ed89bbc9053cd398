---------------------------- MODULE MCTriggerInbox ----------------------------
(* A small inbox for TLC: more event ids than rows, so that the budget bites. *)
EXTENDS TriggerInbox
===============================================================================
