-------------------------- MODULE MCSensorModules --------------------------
(* Three sub-HALs of different API levels, two of which use the same local handle. *)
EXTENDS SensorModules

CONSTANTS m1, m2, m3

MCPaths == <<m1, m2, m3>>
MCSensors == [m \in {m1, m2, m3} |-> IF m = m1 THEN <<1, 2>> ELSE IF m = m2 THEN <<2>> ELSE <<7>>]
MCVersion == [m \in {m1, m2, m3} |-> IF m = m1 THEN 0 ELSE IF m = m2 THEN 4 ELSE 1]
=============================================================================
