--------------------------- MODULE MCTriggerDispatch ---------------------------
(* Two contents, one for the chat and one for nobody in particular; a        *)
(* batcher beside a chatter, or two chatters.                                *)
EXTENDS TriggerDispatch
MCKindOf == [c \in Contents |-> IF c = "chat" THEN "adaptive_runtime" ELSE "other"]
MCPriorityOf == [c \in Contents |-> IF c = "chat" THEN 0 ELSE 1]
MCDeployments == {Batchers \cup {w} : w \in {CHOOSE w \in Chatters : TRUE}} \cup {Chatters}
===============================================================================
