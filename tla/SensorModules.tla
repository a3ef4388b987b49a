---------------------------- MODULE SensorModules ----------------------------
(***************************************************************************)
(* How hal/sensors/multihal.cpp loads the sub-HALs, numbers their sensors  *)
(* and routes calls and events.  Handles are assigned by a module's place  *)
(* in sub_hw_modules; calls and events use a device's place in             *)
(* sub_hw_devices.  The framework calls one operation at a time, in any    *)
(* order, and may close and open the device again.                         *)
(***************************************************************************)
EXTENDS Integers, Sequences, FiniteSetsExt, Functions

CONSTANTS Paths,     \* the lines of the configuration file: a sequence of modules
          Sensors,   \* Sensors[m]: the local handles m lists, a sequence
          Version,   \* Version[m]: API level of m's device: 0 for 1_0, 1 for 1_1, ...
          MayFail,   \* modules whose open() may fail
          MaxOpens,  \* bound on the calls of open_sensors
          NULL

Modules == Range(Paths)

\* The lists of modules in the order of the configuration file.
Place(m) == CHOOSE n \in DOMAIN Paths : Paths[n] = m
InOrder(s) == \A i, j \in DOMAIN s : i < j => Place(s[i]) < Place(s[j])
Loadable == {s \in UNION {[1 .. n -> Modules] : n \in 0 .. Len(Paths)} : InOrder(s)}

ASSUME PathAssumption == /\ Len(Paths) \in Nat /\ IsInjective(Paths)
                         /\ MayFail \subseteq Modules
ASSUME NullAssumption == /\ NULL \notin Modules
                         /\ \A s \in Loadable : NULL # s
                         /\ \A S \in SUBSET Modules : NULL # S
ASSUME SensorAssumption == \A m \in Modules : Sensors[m] \in Seq(Nat) /\ IsInjective(Sensors[m])
ASSUME VersionAssumption == Version \in [Modules -> Nat] /\ MaxOpens \in Nat

VARIABLES
  sub_hw_modules,   \* the loaded modules, or NULL
  sub_hw_versions,  \* the modules whose version is known, or NULL
  sub_hw_devices,   \* the devices of the open context, by their module, or NULL
  global_to_full,   \* global_to_full[h]: [moduleIndex, localHandle] of global handle h
  listed,           \* global_sensors_list # NULL
  opens,            \* calls of open_sensors so far
  last,             \* what the last call or event was and where it went
  crashed

vars == <<sub_hw_modules, sub_hw_versions, sub_hw_devices, global_to_full, listed, opens,
          last, crashed>>

Nothing == [op |-> "none", handle |-> 0, device |-> NULL, local |-> 0, result |-> "ok"]

Init ==
  /\ sub_hw_modules = NULL
  /\ sub_hw_versions = NULL
  /\ sub_hw_devices = NULL
  /\ global_to_full = <<>>
  /\ listed = FALSE
  /\ opens = 0
  /\ last = Nothing
  /\ crashed = FALSE
-----------------------------------------------------------------------------
(* Loading, opening and listing *)

\* lazy_init_modules: once, the modules whose library and symbol are found.
lazy_init_modules(modules) ==
  /\ modules \in Loadable
  /\ sub_hw_modules # NULL => modules = sub_hw_modules

\* Faulty variant of open_sensors: the versions are not remembered.
open_sensors_NoVersions ==
  /\ ~ crashed
  /\ sub_hw_devices = NULL
  /\ opens < MaxOpens
  /\ opens' = opens + 1
  /\ \E modules, devices \in Loadable, failing \in SUBSET MayFail :
       /\ lazy_init_modules(modules)
       /\ Range(devices) = Range(modules) \ failing
       /\ sub_hw_modules' = modules
       /\ sub_hw_devices' = devices
       /\ sub_hw_versions' = {}
  /\ last' = Nothing
  /\ UNCHANGED <<global_to_full, listed, crashed>>

\* open_sensors: the devices that open, in order; the others are left out.
open_sensors ==
  /\ ~ crashed
  /\ sub_hw_devices = NULL
  /\ opens < MaxOpens
  /\ opens' = opens + 1
  /\ \E modules, devices \in Loadable, failing \in SUBSET MayFail :
       /\ lazy_init_modules(modules)
       /\ Range(devices) = Range(modules) \ failing
       /\ sub_hw_modules' = modules
       /\ sub_hw_devices' = devices
       /\ sub_hw_versions' = Range(devices)
  /\ last' = Nothing
  /\ UNCHANGED <<global_to_full, listed, crashed>>

\* device__close: the sub-devices are closed and the context is deleted.
device__close ==
  /\ ~ crashed
  /\ sub_hw_devices # NULL
  /\ sub_hw_devices' = NULL
  /\ last' = Nothing
  /\ UNCHANGED <<sub_hw_modules, sub_hw_versions, global_to_full, listed, opens, crashed>>

\* The full handles of a module's sensors.
FullHandles(i, m) ==
  [j \in 1 .. Len(Sensors[m]) |-> [moduleIndex |-> i, localHandle |-> Sensors[m][j]]]

\* Faulty variant of NewHandles: every module has index 0.
NewHandles_NoIndex(modules) ==
  LET Assigned[i \in 0 .. Len(modules)] ==
        IF i = 0 THEN << >> ELSE Assigned[i - 1] \o FullHandles(0, modules[i])
  IN  Assigned[Len(modules)]

\* assign_global_handle for all sensors of all modules, in order, from 1.
NewHandles(modules) ==
  LET Assigned[i \in 0 .. Len(modules)] ==
        IF i = 0 THEN << >> ELSE Assigned[i - 1] \o FullHandles(i - 1, modules[i])
  IN  Assigned[Len(modules)]

\* lazy_init_sensors_list: the version of every module with a sensor is looked
\* up, with at() of a map that open_sensors makes and this function deletes.
module__get_sensors_list ==
  /\ ~ crashed
  /\ \E modules \in Loadable :
       /\ lazy_init_modules(modules)
       /\ sub_hw_modules' = modules
       /\ IF listed THEN UNCHANGED <<sub_hw_versions, global_to_full, listed, crashed>>
          ELSE LET asked == {m \in Range(modules) : Sensors[m] # <<>>} IN
               /\ crashed' = (asked # {} /\ (sub_hw_versions = NULL \/ ~ asked \subseteq sub_hw_versions))
               /\ listed' = ~ crashed'
               /\ global_to_full' = IF crashed' THEN global_to_full ELSE NewHandles(modules)
               /\ sub_hw_versions' = IF crashed' THEN sub_hw_versions ELSE NULL
  /\ last' = Nothing
  /\ UNCHANGED <<sub_hw_devices, opens>>
-----------------------------------------------------------------------------
(* Calls and events *)

\* get_local_handle and get_module_index: -1 for an unknown handle.
get_local_handle(h) == IF h \in DOMAIN global_to_full THEN global_to_full[h].localHandle ELSE -1
get_module_index(h) == IF h \in DOMAIN global_to_full THEN global_to_full[h].moduleIndex ELSE -1

\* Faulty variant of get_v0_device_by_handle: index 0 is refused.
get_v0_device_by_handle_Off(h) ==
  LET i == get_module_index(h) IN
  IF i <= 0 \/ i >= Len(sub_hw_devices) THEN NULL ELSE sub_hw_devices[i]

\* get_v0_device_by_handle, get_v1_device_by_handle
get_v0_device_by_handle(h) ==
  LET i == get_module_index(h) IN
  IF i < 0 \/ i >= Len(sub_hw_devices) THEN NULL ELSE sub_hw_devices[i + 1]

halIsAPILevelCompliant(h, level) ==
  LET d == get_v0_device_by_handle(h) IN d # NULL /\ Version[d] >= level

\* Who gets a call: nobody if the handle or the level is not good enough.
Routed(op, h, level) ==
  IF get_local_handle(h) >= 0 /\ halIsAPILevelCompliant(h, level)
    THEN [op |-> op, handle |-> h, device |-> get_v0_device_by_handle(h),
          local |-> get_local_handle(h), result |-> "ok"]
    ELSE [Nothing EXCEPT !.op = op, !.handle = h, !.result = "EINVAL"]

Unchanged == UNCHANGED <<sub_hw_modules, sub_hw_versions, sub_hw_devices, global_to_full,
                         listed, opens, crashed>>

Open == ~ crashed /\ sub_hw_devices # NULL

activate(h) == Open /\ last' = Routed("activate", h, 0) /\ Unchanged

\* device__batch calls setDelay and returns 0 whatever that returned.
device__batch(h) ==
  Open /\ last' = [Routed("setDelay", h, 0) EXCEPT !.result = "ok"] /\ Unchanged

flush(h) == Open /\ last' = Routed("flush", h, 1) /\ Unchanged

\* inject_sensor_data: the event goes on with its global handle.
inject_sensor_data(h) ==
  /\ Open
  /\ last' = LET r == Routed("inject", h, 4)
             IN  IF r.result = "ok" THEN [r EXCEPT !.local = h] ELSE r
  /\ Unchanged

\* get_global_handle: the last handle that was assigned to the full handle.
get_global_handle(i, local) ==
  LET hs == {h \in DOMAIN global_to_full : global_to_full[h] = [moduleIndex |-> i, localHandle |-> local]}
  IN  IF hs = {} THEN -1 ELSE Max(hs)

\* A sub-HAL reports an event; poll() renames its sensor, or drops the event.
\* The queue's place is that of the device.
Report(i, local) ==
  /\ Open
  /\ i <= Len(sub_hw_devices)
  /\ local \in Range(Sensors[sub_hw_devices[i]])
  /\ get_global_handle(i - 1, local) # -1
  /\ last' = [op |-> "event", handle |-> get_global_handle(i - 1, local),
              device |-> sub_hw_devices[i], local |-> local, result |-> "ok"]
  /\ Unchanged

\* The framework uses handles it was given, or others.
Handles == 0 .. Len(global_to_full) + 1

Next ==
  \/ open_sensors \/ device__close \/ module__get_sensors_list
  \/ \E h \in Handles : activate(h) \/ device__batch(h) \/ flush(h) \/ inject_sensor_data(h)
  \/ \E i \in 1 .. Len(Paths) : \E m \in Modules : \E l \in Range(Sensors[m]) : Report(i, l)

Spec == Init /\ [][Next]_vars
-----------------------------------------------------------------------------
\* Types of the variables.
TypeOK ==
  /\ sub_hw_modules \in Loadable \cup {NULL}
  /\ sub_hw_versions \in (SUBSET Modules) \cup {NULL}
  /\ sub_hw_devices \in Loadable \cup {NULL}
  /\ global_to_full \in Seq([moduleIndex : Nat, localHandle : Nat])
  /\ listed \in BOOLEAN
  /\ opens \in 0 .. MaxOpens
  /\ last.device \in Modules \cup {NULL}
  /\ crashed \in BOOLEAN

\* The module that a global handle was made for.
Owner(h) == sub_hw_modules[global_to_full[h].moduleIndex + 1]

\* Every sensor of every loaded module has one global handle, and that handle leads
\* back to it.
EverySensorNumbered ==
  listed => \A i \in 1 .. Len(sub_hw_modules) : \A l \in Range(Sensors[sub_hw_modules[i]]) :
              LET h == get_global_handle(i - 1, l)
              IN  /\ h \in DOMAIN global_to_full
                  /\ Owner(h) = sub_hw_modules[i] /\ get_local_handle(h) = l

\* A call reaches the sub-HAL the sensor belongs to, and an event is reported as
\* a sensor of the sub-HAL it comes from, as long as the modules up to that one
\* have opened: handles follow the order of the modules, routing that of the
\* devices.  Every sensor has a handle that leads back to it.
RoutedToOwner ==
  LET h == last.handle
      i == get_module_index(h) + 1
  IN
  /\ TypeOK /\ EverySensorNumbered
  /\ last.op # "none" /\ i > 0 /\ sub_hw_devices # NULL
        /\ SubSeq(sub_hw_modules, 1, i) = SubSeq(sub_hw_devices, 1, Min({i, Len(sub_hw_devices)}))
      => \/ last.device = Owner(h)
         \/ last.result = "EINVAL" /\ last.op = "flush" /\ Version[Owner(h)] < 1
         \/ last.result = "EINVAL" /\ last.op = "inject" /\ Version[Owner(h)] < 4

\* "Remember their devices in a vector parallel to sub_hw_modules"
\* (multihal.cpp:771): no call goes to a sub-HAL that does not own the sensor.
DevicesParallel ==
  last.device # NULL => last.device = Owner(last.handle)

\* Opening and closing the device again neither changes the meaning of a handle the
\* framework has been given nor, while all the sub-HALs are open, ends the process:
\* the map of versions is deleted by the first listing and made again by every
\* open_sensors.
ReopenSafe ==
  [][/\ listed => listed' /\ global_to_full' = global_to_full /\ sub_hw_modules' = sub_hw_modules
     /\ ~ crashed /\ sub_hw_devices # NULL /\ sub_hw_devices = sub_hw_modules => ~ crashed']_vars
=============================================================================
