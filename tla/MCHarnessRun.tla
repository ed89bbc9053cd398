------------------------------ MODULE MCHarnessRun ------------------------------
(* One route of every mode, and routes with further capabilities.            *)
EXTENDS HarnessRun
Route(mode, caps) == [mode |-> mode, caps |-> caps]
EveryMode ==
  {Route(mode, {}) : mode \in {"implement", "debug", "research", "review", "grill"}}
  \cup {Route("poc", {"research", "poc"}), Route("implement", {"grill"}),
        Route("grill", {"grill"}), Route("review", {"grill"})}
OneImplementation == {Route("implement", {})}
===================================================================================
