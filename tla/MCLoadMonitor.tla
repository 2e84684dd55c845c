--------------------------- MODULE MCLoadMonitor ---------------------------
(* LoadMonitor for TLC: two engines, a task bound on each target's node, and a *)
(* save that turns one target off.                                          *)
EXTENDS LoadMonitor, TLC

CONSTANTS a, b

Node(e, on) == [engine |-> e, enabled |-> on]
MCHome == [i \in Bindings |-> a]
MCCost == [i \in Bindings |-> 1]
Plain == a :> Node("E", TRUE) @@ b :> Node("F", TRUE)
MCConfigs == {Plain, a :> Node("E", TRUE) @@ b :> Node("F", FALSE)}
=============================================================================
