-------------------------- MODULE MCSessionRuntime --------------------------
(***************************************************************************)
(* The graphs SessionRuntime is checked on.                                *)
(***************************************************************************)
EXTENDS SessionRuntime

(* A gate alone on its superstep: a, then g, then d.                        *)
LineNode   == {"a", "g", "d"}
LineEntry  == {{"a"}}
LineRoutes == [n \in LineNode |->
                 CASE n = "a" -> {{"g"}} [] n = "g" -> {{"d"}} [] n = "d" -> {{}}]

(* A loop a conditional edge may leave: a again, or the parallel superstep *)
(* {g, h}; whichever of the two ends, d is scheduled.                       *)
LoopNode   == {"a", "g", "h", "d"}
LoopEntry  == {{"a"}}
LoopRoutes == [n \in LoopNode |->
                 CASE n = "a" -> {{"a"}, {"g", "h"}} [] n = "d" -> {{}} [] OTHER -> {{"d"}}]
=============================================================================
