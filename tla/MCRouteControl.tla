--------------------------- MODULE MCRouteControl ---------------------------
(* Small instances of RouteControl for TLC: two goals that setPlan() takes *)
(* for one, and one that it does not.                                      *)
EXTENDS RouteControl

NearAndFar == [g \in {"here", "nearby", "far"} |-> IF g = "far" THEN "b" ELSE "a"]
=============================================================================
