----------------------------- MODULE MCMultiHal -----------------------------
(* Small instances of MultiHal: two sub-HALs with short queues.            *)
EXTENDS MultiHal

\* The sensor of the first sub-HAL is in the table, the sensor of the second is
\* unknown: its events are dropped, except the meta-data ones.
MCFullToGlobal == [f \in {<<0, 1>>} |-> 1]

\* The first sub-HAL goes around its queue, the second one interrupts it once.
MCReports == [q \in Queues |-> IF q = 0 THEN 3 ELSE 1]
=============================================================================
