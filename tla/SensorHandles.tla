--------------------------- MODULE SensorHandles ---------------------------
(***************************************************************************)
(* Events and sensor handles of hal/sensors/multihal.cpp.  A sub-HAL names *)
(* a sensor by a local handle; the framework knows it by a global handle.  *)
(***************************************************************************)
EXTENDS Integers

CONSTANTS queueCount,       \* this->queues.size()
          LocalHandle,      \* handles the sub-HALs put into their events
          full_to_global,   \* <<module index, local handle>> -> global handle
          MaxEvents         \* bound: events one sub-HAL ever reports

ASSUME QueueCountAssumption == queueCount \in Nat \ {0}
ASSUME MaxEventsAssumption == MaxEvents \in Nat
ASSUME HandleAssumption ==
  \A f \in DOMAIN full_to_global : full_to_global[f] \in Nat \ {0}

Queues == 0 .. queueCount - 1

\* An event of a sub-HAL: its number in the sub-HAL's stream, whether it is a
\* SENSOR_TYPE_META_DATA event, and the local handle it names (in its sensor
\* field, or in meta_data.sensor of a meta-data event, whose sensor is 0).
Event == [seq : 1 .. MaxEvents, meta : BOOLEAN, handle : LocalHandle]

\* get_global_handle: -1 for an unknown FullHandle.
get_global_handle(subIndex, localHandle) ==
  IF <<subIndex, localHandle>> \in DOMAIN full_to_global
    THEN full_to_global[<<subIndex, localHandle>>]
    ELSE -1

\* The event as the caller of poll() sees it.
copy_event_remap_handle(src, subIndex) ==
  LET g == get_global_handle(subIndex, src.handle) IN
  [seq |-> src.seq, from |-> subIndex, meta |-> src.meta,
   sensor |-> IF src.meta THEN 0 ELSE g,
   metaSensor |-> IF src.meta THEN g ELSE 0]

\* What poll() adds to its output for one event taken from queue subIndex:
\* nothing when the sensor field became -1.
Delivered(src, subIndex) ==
  LET e == copy_event_remap_handle(src, subIndex) IN
  IF e.sensor = -1 THEN <<>> ELSE <<e>>
=============================================================================
