----------------------------- MODULE MCChatTrigger -----------------------------
(* Two callers that share two pool threads.                                  *)
EXTENDS ChatTrigger
===============================================================================
