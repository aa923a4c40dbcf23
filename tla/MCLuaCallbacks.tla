--------------------------- MODULE MCLuaCallbacks ---------------------------
(* Small instances of LuaCallbacks: scripts that return, fail, run on, catch      *)
(* errors, hang, or need a library, with and without a timeout.                   *)
EXTENDS LuaCallbacks

Quick ==
    [ top |-> "ok", defined |-> TRUE, slices |-> 1, catches |-> FALSE, native |-> FALSE,
      needs |-> "string", returns |-> "true" ]
FilterScripts ==
    { [Quick EXCEPT !.returns = r] : r \in {"true", "false", "nil", "other", "error"} }
    \cup { [Quick EXCEPT !.slices = Forever], [Quick EXCEPT !.slices = Forever, !.catches = TRUE],
           [Quick EXCEPT !.slices = 3, !.catches = TRUE],
           [Quick EXCEPT !.needs = "os"], [Quick EXCEPT !.needs = "os", !.native = TRUE],
           [Quick EXCEPT !.defined = FALSE], [Quick EXCEPT !.top = "error"],
           [Quick EXCEPT !.top = "loops"] }
EventScripts ==
    { Quick, [Quick EXCEPT !.returns = "error"], [Quick EXCEPT !.defined = FALSE],
      [Quick EXCEPT !.slices = Forever], [Quick EXCEPT !.top = "error"] }

MCSetups ==
    { [filter |-> f, event |-> e, timeout |-> t, mode |-> m] :
        f \in FilterScripts, e \in EventScripts, t \in {0, 2}, m \in {"safe", "all"} }
=============================================================================
