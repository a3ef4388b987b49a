------------------------- MODULE SensorModulesProofs -------------------------
(***************************************************************************)
(* Proofs about SensorModules: any configuration file, any sensors and API *)
(* levels of the sub-HALs, and any of them missing or failing to open.     *)
(***************************************************************************)
EXTENDS SensorModules, WellFoundedInduction, TLAPS

\* Once the sensors are listed, every sensor of every loaded module has a handle, and
\* every handle is that of a loaded module; before, there are none.
Numbered ==
  IF listed
  THEN /\ sub_hw_modules # NULL
       /\ \A h \in DOMAIN global_to_full : global_to_full[h].moduleIndex < Len(sub_hw_modules)
       /\ \A i \in 1 .. Len(sub_hw_modules) : \A l \in Range(Sensors[sub_hw_modules[i]]) :
            \E h \in DOMAIN global_to_full :
              global_to_full[h] = [moduleIndex |-> i - 1, localHandle |-> l]
  ELSE global_to_full = << >>

\* Until the sensors are listed, the versions known are those of the open devices.
VersionsKnown ==
  sub_hw_devices # NULL =>
    /\ sub_hw_modules # NULL
    /\ ~ listed => sub_hw_versions = Range(sub_hw_devices)

\* What inject_sensor_data leaves in last.
Injected(h) ==
  LET r == Routed("inject", h, 4) IN IF r.result = "ok" THEN [r EXCEPT !.local = h] ELSE r

\* What an event of the device at i leaves in last.
Reported(i, local) ==
  [op |-> "event", handle |-> get_global_handle(i - 1, local), device |-> sub_hw_devices[i],
   local |-> local, result |-> "ok"]

\* The last call was routed by the handles and the devices there are now: opening,
\* closing and listing forget it.
LastExplained ==
  last.op # "none" =>
    /\ sub_hw_devices # NULL
    /\ \/ last = Routed("activate", last.handle, 0)
       \/ last = [Routed("setDelay", last.handle, 0) EXCEPT !.result = "ok"]
       \/ last = Routed("flush", last.handle, 1)
       \/ last = Injected(last.handle)
       \/ \E i \in 1 .. Len(sub_hw_devices) :
            /\ get_global_handle(i - 1, last.local) # -1
            /\ last = Reported(i, last.local)

\* The inductive invariant.
IInv == TypeOK /\ Numbered /\ VersionsKnown /\ LastExplained
-----------------------------------------------------------------------------
(* Lists of modules, and the numbering *)

\* Every set of natural numbers that is not empty has a least element.
LEMMA LeastNatural ==
  ASSUME NEW T, T \subseteq Nat, T # {}
  PROVE  \E m \in T : \A x \in T : m <= x
<1>1. PICK m \in T : \A y \in T : ~ (<<y, m>> \in OpToRel(<, Nat))
  BY Zenon, NatLessThanWellFounded, WFMin
<1>2. \A y \in T : ~ (y < m)
  BY Zenon, <1>1 DEF OpToRel
<1> QED BY <1>2

\* A list of modules is a sequence of modules.
LEMMA LoadableLists ==
  ASSUME NEW s \in Loadable
  PROVE  /\ s \in Seq(Modules)
         /\ DOMAIN s = 1 .. Len(s)
         /\ Range(s) = {s[i] : i \in 1 .. Len(s)}
         /\ s # NULL
<1>1. PICK n \in 0 .. Len(Paths) : s \in [1 .. n -> Modules]
  BY Zenon DEF Loadable
<1>2. n \in Nat
  BY PathAssumption
<1>3. s \in Seq(Modules) /\ Len(s) = n /\ DOMAIN s = 1 .. Len(s)
  BY <1>1, <1>2
<1>4. Range(s) = {s[i] : i \in 1 .. Len(s)}
  BY Zenon, <1>3 DEF Range
<1> QED BY Zenon, <1>3, <1>4, NullAssumption

\* The set of full handles.
Full == [moduleIndex : Nat, localHandle : Nat]

\* The handles assigned to the first i modules: each is that of one of them, and every
\* sensor of theirs has one.
AssignedUpTo(g, modules, i) ==
  /\ g \in Seq(Full)
  /\ \A h \in 1 .. Len(g) : g[h].moduleIndex < i
  /\ \A k \in 1 .. i : \A l \in Range(Sensors[modules[k]]) :
       \E h \in 1 .. Len(g) : g[h] = [moduleIndex |-> k - 1, localHandle |-> l]

\* The handles of a module's sensors.
LEMMA FullHandlesOf ==
  ASSUME NEW m \in Modules, NEW i \in Nat
  PROVE  /\ FullHandles(i, m) \in Seq(Full)
         /\ \A h \in 1 .. Len(FullHandles(i, m)) : FullHandles(i, m)[h].moduleIndex = i
         /\ \A l \in Range(Sensors[m]) : \E h \in 1 .. Len(FullHandles(i, m)) :
              FullHandles(i, m)[h] = [moduleIndex |-> i, localHandle |-> l]
<1>1. Sensors[m] \in Seq(Nat) /\ Len(Sensors[m]) \in Nat
  BY SensorAssumption
<1>2. \A j \in 1 .. Len(Sensors[m]) : Sensors[m][j] \in Nat
  BY <1>1
<1>3. DOMAIN Sensors[m] = 1 .. Len(Sensors[m])
  BY <1>1
<1>4. /\ FullHandles(i, m) \in [1 .. Len(Sensors[m]) -> Full]
      /\ \A j \in 1 .. Len(Sensors[m]) :
           FullHandles(i, m)[j] = [moduleIndex |-> i, localHandle |-> Sensors[m][j]]
  BY Zenon, <1>2 DEF FullHandles, Full
<1>5. FullHandles(i, m) \in Seq(Full) /\ Len(FullHandles(i, m)) = Len(Sensors[m])
  BY <1>1, <1>4
<1>6. \A l \in Range(Sensors[m]) : \E j \in 1 .. Len(Sensors[m]) : Sensors[m][j] = l
  BY Zenon, <1>3 DEF Range
<1>7. ASSUME NEW l \in Range(Sensors[m])
      PROVE  \E h \in 1 .. Len(FullHandles(i, m)) :
               FullHandles(i, m)[h] = [moduleIndex |-> i, localHandle |-> l]
  BY <1>4, <1>5, <1>6, Zenon
<1>8. ASSUME NEW h \in 1 .. Len(FullHandles(i, m)) PROVE FullHandles(i, m)[h].moduleIndex = i
  <2>1. FullHandles(i, m)[h] = [moduleIndex |-> i, localHandle |-> Sensors[m][h]]
    BY <1>4, <1>5, Zenon
  <2> QED BY <2>1
<1> QED BY <1>5, <1>7, <1>8, Zenon

\* One module more.
LEMMA AssignMore ==
  ASSUME NEW modules \in Seq(Modules), NEW i \in 1 .. Len(modules), NEW g,
         AssignedUpTo(g, modules, i - 1)
  PROVE  AssignedUpTo(g \o FullHandles(i - 1, modules[i]), modules, i)
<1> DEFINE f == FullHandles(i - 1, modules[i])
<1>1. modules[i] \in Modules /\ i - 1 \in Nat
  OBVIOUS
<1>2. /\ f \in Seq(Full)
      /\ \A h \in 1 .. Len(f) : f[h].moduleIndex = i - 1
      /\ \A l \in Range(Sensors[modules[i]]) : \E h \in 1 .. Len(f) :
           f[h] = [moduleIndex |-> i - 1, localHandle |-> l]
  BY <1>1, FullHandlesOf
<1> HIDE DEF f
<1>3. g \in Seq(Full) /\ Len(g) \in Nat /\ Len(f) \in Nat
  BY <1>2 DEF AssignedUpTo
<1>4. /\ g \o f \in Seq(Full) /\ Len(g \o f) = Len(g) + Len(f)
      /\ \A h \in 1 .. Len(g) : (g \o f)[h] = g[h]
      /\ \A h \in 1 .. Len(f) : (g \o f)[Len(g) + h] = f[h]
  BY <1>2, <1>3
<1>5. \A h \in 1 .. Len(g \o f) : (g \o f)[h].moduleIndex < i
  <2> TAKE h \in 1 .. Len(g \o f)
  <2>1. CASE h \in 1 .. Len(g)
    <3>0. g[h] \in Full /\ g[h].moduleIndex < i - 1
      BY <2>1, <1>3 DEF AssignedUpTo
    <3>1. g[h].moduleIndex < i - 1 /\ g[h].moduleIndex \in Nat
      BY Zenon, <3>0 DEF Full
    <3> QED BY <2>1, <3>1, <1>4
  <2>2. CASE h \notin 1 .. Len(g)
    <3>1. h - Len(g) \in 1 .. Len(f) /\ h = Len(g) + (h - Len(g))
      BY <2>2, <1>3, <1>4
    <3>2. (g \o f)[h] = f[h - Len(g)]
      BY Zenon, <3>1, <1>4
    <3> QED BY <3>1, <3>2, <1>2
  <2> QED BY Zenon, <2>1, <2>2
<1>6. ASSUME NEW k \in 1 .. i, NEW l \in Range(Sensors[modules[k]])
      PROVE  \E h \in 1 .. Len(g \o f) : (g \o f)[h] = [moduleIndex |-> k - 1, localHandle |-> l]
  <2>1. CASE k = i
    <3>1. PICK h \in 1 .. Len(f) : f[h] = [moduleIndex |-> i - 1, localHandle |-> l]
      BY Zenon, <2>1, <1>2
    <3>2. Len(g) + h \in 1 .. Len(g \o f)
      BY <1>3, <1>4
    <3> QED BY Zenon, <2>1, <3>1, <3>2, <1>4
  <2>2. CASE k # i
    <3>1. k \in 1 .. i - 1
      BY <2>2
    <3>2. PICK h \in 1 .. Len(g) : g[h] = [moduleIndex |-> k - 1, localHandle |-> l]
      BY Zenon, <3>1 DEF AssignedUpTo
    <3>3. h \in 1 .. Len(g \o f)
      BY <1>3, <1>4
    <3> QED BY Zenon, <3>2, <3>3, <1>4
  <2> QED BY Zenon, <2>1, <2>2
<1>7. AssignedUpTo(g \o f, modules, i)
  BY Zenon, <1>4, <1>5, <1>6 DEF AssignedUpTo
<1> QED BY Zenon, <1>7 DEF f

\* The list with the handles of the module at n behind it.
More(g, modules, n) == g \o FullHandles(n - 1, modules[n])

\* The numbering as a function f: at n, what has been assigned to the first n modules.
AssignedOneByOne(f, modules) ==
  f = [n \in 0 .. Len(modules) |->
         IF n = 0 THEN << >> ELSE More(f[n - 1], modules, n)]

\* NewHandles assigns the handles module by module.
LEMMA AssignedStep ==
  ASSUME NEW modules, Len(modules) \in Nat
  PROVE  \E f : AssignedOneByOne(f, modules) /\ NewHandles(modules) = f[Len(modules)]
<1> DEFINE Step(f, L) ==
             f = [n \in 0 .. L |->
                    IF n = 0 THEN << >> ELSE More(f[n - 1], modules, n)]
           Bad == {n \in 0 .. Len(modules) : ~ \E f : Step(f, n)}
           Assigned[n \in 0 .. Len(modules)] ==
             IF n = 0 THEN << >> ELSE More(Assigned[n - 1], modules, n)
<1>1. Bad = {}
  <2> SUFFICES ASSUME Bad # {} PROVE FALSE
    BY Zenon
  <2>1. PICK m \in Bad : \A k \in Bad : m <= k
    <3> Bad \subseteq Nat
      OBVIOUS
    <3> QED BY Zenon, LeastNatural
  <2>2. m \in 0 .. Len(modules) /\ ~ \E f : Step(f, m)
    BY Zenon, <2>1
  <2>3. CASE m = 0
    <3>1. Step([n \in 0 .. 0 |-> << >>], 0)
      OBVIOUS
    <3> QED BY Zenon, <3>1, <2>2, <2>3
  <2>4. CASE m # 0
    <3>0. m - 1 \in 0 .. Len(modules) /\ ~ (m <= m - 1)
      BY <2>2, <2>4
    <3>1. m - 1 \in 0 .. Len(modules) /\ m - 1 \notin Bad
      BY <2>1, <3>0, Zenon
    <3>2. PICK f : Step(f, m - 1)
      BY Zenon, <3>1
    <3> DEFINE more == More(f[m - 1], modules, m)
               g == [n \in 0 .. m |-> IF n = m THEN more ELSE f[n]]
    <3>3. ASSUME NEW n \in 0 .. m
          PROVE  g[n] = IF n = 0 THEN << >> ELSE More(g[n - 1], modules, n)
      <4>1. CASE n = m
        <5>1. g[m - 1] = f[m - 1] /\ g[m] = more
          BY <2>2, <2>4
        <5> QED BY Zenon, <4>1, <5>1, <2>4
      <4>2. CASE n # m
        <5>1. n \in 0 .. m - 1 /\ g[n] = f[n] /\ (n # 0 => g[n - 1] = f[n - 1])
          BY <2>2, <2>4, <4>2
        <5>2. f[n] = IF n = 0 THEN << >> ELSE More(f[n - 1], modules, n)
          BY Zenon, <3>2, <5>1
        <5> QED BY Zenon, <5>1, <5>2
      <4> QED BY Zenon, <4>1, <4>2
    <3>4. Step(g, m)
      BY Zenon, <3>3
    <3> QED BY Zenon, <3>4, <2>2
  <2> QED BY Zenon, <2>3, <2>4
<1>2. \E f : Step(f, Len(modules))
  BY <1>1
<1>3. Assigned = [n \in 0 .. Len(modules) |->
                    IF n = 0 THEN << >> ELSE More(Assigned[n - 1], modules, n)]
  BY Zenon, <1>2
<1>4. NewHandles(modules) = Assigned[Len(modules)]
  BY Zenon DEF NewHandles, More
<1>5. AssignedOneByOne(Assigned, modules)
  BY Zenon, <1>3 DEF AssignedOneByOne
<1> QED BY Zenon, <1>4, <1>5

\* All modules.
LEMMA AssignAll ==
  ASSUME NEW modules \in Seq(Modules)
  PROVE  AssignedUpTo(NewHandles(modules), modules, Len(modules))
<1>1. Len(modules) \in Nat
  OBVIOUS
<1>2. PICK f : AssignedOneByOne(f, modules) /\ NewHandles(modules) = f[Len(modules)]
  BY Zenon, <1>1, AssignedStep
<1> DEFINE Bad == {n \in 0 .. Len(modules) : ~ AssignedUpTo(f[n], modules, n)}
<1>3. \A n \in 0 .. Len(modules) :
        f[n] = IF n = 0 THEN << >> ELSE More(f[n - 1], modules, n)
  BY Zenon, <1>2 DEF AssignedOneByOne
<1>4. AssignedUpTo(f[0], modules, 0)
  <2>1. f[0] = << >>
    BY <1>1, <1>3
  <2> QED BY <2>1 DEF AssignedUpTo
<1>5. ASSUME NEW n \in 1 .. Len(modules), AssignedUpTo(f[n - 1], modules, n - 1)
      PROVE  AssignedUpTo(f[n], modules, n)
  <2>1. f[n] = More(f[n - 1], modules, n)
    BY <1>3
  <2> QED BY Zenon, <1>5, <2>1, AssignMore DEF More
<1>6. Bad = {}
  <2> SUFFICES ASSUME Bad # {} PROVE FALSE
    BY Zenon
  <2>1. Bad \subseteq Nat
    OBVIOUS
  <2>2. PICK m \in Bad : \A k \in Bad : m <= k
    BY Zenon, <2>1, LeastNatural
  <2>3. m \in 0 .. Len(modules) /\ ~ AssignedUpTo(f[m], modules, m)
    BY Zenon, <2>2
  <2>4. m # 0
    BY Zenon, <2>3, <1>4
  <2>5. m - 1 \in 0 .. Len(modules) /\ m - 1 \notin Bad
    BY <2>2, <2>3, <2>4
  <2>6. m \in 1 .. Len(modules) /\ AssignedUpTo(f[m - 1], modules, m - 1)
    BY <2>3, <2>4, <2>5
  <2> QED BY Zenon, <2>3, <2>6, <1>5
<1> QED BY <1>1, <1>2, <1>6
-----------------------------------------------------------------------------
(* The inductive invariant *)

\* What Routed returns when it refuses a call.
LEMMA RoutedNowhere ==
  ASSUME NEW op, NEW h, NEW level,
         ~ (get_local_handle(h) >= 0 /\ halIsAPILevelCompliant(h, level))
  PROVE  Routed(op, h, level) =
           [op |-> op, handle |-> h, device |-> NULL, local |-> 0, result |-> "EINVAL"]
<1>1. Routed(op, h, level) = [Nothing EXCEPT !.op = op, !.handle = h, !.result = "EINVAL"]
  BY Zenon DEF Routed
<1> QED BY Zenon, <1>1 DEF Nothing

\* The fields of what Routed returns.
LEMMA RoutedFields ==
  ASSUME NEW op, NEW h, NEW level
  PROVE  /\ Routed(op, h, level).op = op /\ Routed(op, h, level).handle = h
         /\ IF get_local_handle(h) >= 0 /\ halIsAPILevelCompliant(h, level)
            THEN /\ Routed(op, h, level).device = get_v0_device_by_handle(h)
                 /\ Routed(op, h, level).result = "ok"
            ELSE /\ Routed(op, h, level).device = NULL
                 /\ Routed(op, h, level).result = "EINVAL"
<1>1. CASE get_local_handle(h) >= 0 /\ halIsAPILevelCompliant(h, level)
  <2>1. Routed(op, h, level) =
          [op |-> op, handle |-> h, device |-> get_v0_device_by_handle(h),
           local |-> get_local_handle(h), result |-> "ok"]
    BY Zenon, <1>1 DEF Routed
  <2> QED BY <1>1, <2>1
<1>2. CASE ~ (get_local_handle(h) >= 0 /\ halIsAPILevelCompliant(h, level))
  <2>1. Routed(op, h, level) =
          [op |-> op, handle |-> h, device |-> NULL, local |-> 0, result |-> "EINVAL"]
    BY Zenon, <1>2, RoutedNowhere
  <2> QED BY <1>2, <2>1
<1> QED BY Zenon, <1>1, <1>2

\* A call goes to a module or to nobody.
LEMMA RoutedType ==
  ASSUME TypeOK, sub_hw_devices # NULL, NEW op, NEW h, NEW level
  PROVE  Routed(op, h, level).device \in Modules \cup {NULL}
<1>1. sub_hw_devices \in Seq(Modules)
  BY Zenon, LoadableLists DEF TypeOK
<1>2. global_to_full \in Seq(Full)
  BY Zenon DEF TypeOK, Full
<1>3. get_module_index(h) \in Int
  <2>1. CASE h \in DOMAIN global_to_full
    <3>1. global_to_full[h] \in Full
      BY <1>2, <2>1
    <3> QED BY <2>1, <3>1 DEF get_module_index, Full
  <2>2. CASE h \notin DOMAIN global_to_full
    BY <2>2 DEF get_module_index
  <2> QED BY Zenon, <2>1, <2>2
<1>4. get_v0_device_by_handle(h) \in Modules \cup {NULL}
  BY <1>1, <1>3 DEF get_v0_device_by_handle
<1> QED BY <1>4, RoutedFields

\* The initial states satisfy the invariant.
LEMMA InitIInv == Init => IInv
<1> SUFFICES ASSUME Init PROVE IInv
  BY Zenon
<1>1. TypeOK
  <2>1. global_to_full \in Seq([moduleIndex : Nat, localHandle : Nat]) /\ opens \in 0 .. MaxOpens
    BY VersionAssumption DEF Init
  <2> QED BY Zenon, <2>1 DEF Init, TypeOK, Nothing
<1> QED BY Zenon, <1>1 DEF Init, IInv, Numbered, VersionsKnown, LastExplained, Nothing

\* Opening the device.
LEMMA OpenStep ==
  ASSUME IInv, open_sensors
  PROVE  IInv'
<1>1. PICK modules \in Loadable, devices \in Loadable :
        /\ lazy_init_modules(modules)
        /\ sub_hw_modules' = modules /\ sub_hw_devices' = devices
        /\ sub_hw_versions' = Range(devices)
  BY Zenon DEF open_sensors
<1>2. Range(devices) \subseteq Modules /\ modules # NULL
  BY LoadableLists
<1>3. TypeOK'
  <2>1. opens' \in 0 .. MaxOpens
    BY VersionAssumption DEF IInv, TypeOK, open_sensors
  <2>2. last' = Nothing /\ UNCHANGED <<global_to_full, listed, crashed>>
    BY Zenon DEF open_sensors
  <2>3. last'.device = NULL
    BY Zenon, <2>2 DEF Nothing
  <2> QED BY Zenon, <1>1, <1>2, <2>1, <2>2, <2>3 DEF IInv, TypeOK
<1>4. LastExplained'
  BY Zenon DEF open_sensors, LastExplained, Nothing
<1>5. Numbered'
  <2>1. UNCHANGED <<global_to_full, listed>> /\ (listed => sub_hw_modules' = sub_hw_modules)
    BY Zenon, <1>1 DEF open_sensors, lazy_init_modules, IInv, Numbered
  <2> QED BY Zenon, <2>1 DEF IInv, Numbered
<1>6. VersionsKnown'
  BY Zenon, <1>1, <1>2 DEF VersionsKnown
<1> QED BY Zenon, <1>3, <1>4, <1>5, <1>6 DEF IInv

\* Closing it.
LEMMA CloseStep ==
  ASSUME IInv, device__close
  PROVE  IInv'
<1>1. /\ sub_hw_devices' = NULL /\ last' = Nothing
      /\ UNCHANGED <<sub_hw_modules, sub_hw_versions, global_to_full, listed, opens, crashed>>
  BY Zenon DEF device__close
<1>2. last'.op = "none" /\ last'.device = NULL
  BY Zenon, <1>1 DEF Nothing
<1>3. TypeOK'
  BY Zenon, <1>1, <1>2 DEF IInv, TypeOK
<1> QED BY Zenon, <1>1, <1>2, <1>3 DEF IInv, Numbered, VersionsKnown, LastExplained

\* Listing the sensors.
LEMMA ListStep ==
  ASSUME IInv, module__get_sensors_list
  PROVE  IInv'
<1>1. PICK modules \in Loadable :
        /\ lazy_init_modules(modules)
        /\ sub_hw_modules' = modules
        /\ IF listed THEN UNCHANGED <<sub_hw_versions, global_to_full, listed, crashed>>
           ELSE /\ crashed' \in BOOLEAN
                /\ listed' = ~ crashed'
                /\ global_to_full' = IF crashed' THEN global_to_full ELSE NewHandles(modules)
                /\ sub_hw_versions' = IF crashed' THEN sub_hw_versions ELSE NULL
  BY Zenon DEF module__get_sensors_list
<1>2. last' = Nothing /\ UNCHANGED <<sub_hw_devices, opens>>
  BY Zenon DEF module__get_sensors_list
<1>3. last'.op = "none" /\ last'.device = NULL
  BY Zenon, <1>2 DEF Nothing
<1>4. modules \in Seq(Modules) /\ modules # NULL
  BY Zenon, LoadableLists
<1>5. AssignedUpTo(NewHandles(modules), modules, Len(modules))
  BY Zenon, <1>4, AssignAll
<1>6. NewHandles(modules) \in Seq(Full)
  BY Zenon, <1>5 DEF AssignedUpTo
<1>7. TypeOK'
  <2>1. global_to_full' \in Seq([moduleIndex : Nat, localHandle : Nat])
    BY Zenon, <1>1, <1>6 DEF IInv, TypeOK, Full
  <2>2. listed' \in BOOLEAN /\ crashed' \in BOOLEAN
    BY Zenon, <1>1 DEF IInv, TypeOK
  <2>3. sub_hw_versions' \in (SUBSET Modules) \cup {NULL}
    BY Zenon, <1>1 DEF IInv, TypeOK
  <2> QED BY Zenon, <1>1, <1>2, <1>3, <2>1, <2>2, <2>3 DEF IInv, TypeOK
<1>8. Numbered'
  <2>1. CASE listed
    <3>1. UNCHANGED <<global_to_full, listed, sub_hw_modules>>
      BY Zenon, <2>1, <1>1 DEF lazy_init_modules, IInv, Numbered
    <3> QED BY Zenon, <3>1 DEF IInv, Numbered
  <2>2. CASE ~ listed /\ crashed'
    BY Zenon, <2>2, <1>1 DEF IInv, Numbered
  <2>3. CASE ~ listed /\ ~ crashed'
    <3>1. listed' /\ global_to_full' = NewHandles(modules) /\ sub_hw_modules' = modules
      BY Zenon, <2>3, <1>1
    <3>2. DOMAIN NewHandles(modules) = 1 .. Len(NewHandles(modules))
      BY <1>6
    <3> QED BY Zenon, <3>1, <3>2, <1>4, <1>5 DEF AssignedUpTo, Numbered
  <2> QED BY Zenon, <2>1, <2>2, <2>3
<1>9. VersionsKnown'
  <2>1. ~ listed' => ~ listed /\ UNCHANGED sub_hw_versions
    BY Zenon, <1>1
  <2> QED BY Zenon, <2>1, <1>1, <1>2, <1>4 DEF IInv, VersionsKnown
<1> QED BY Zenon, <1>3, <1>7, <1>8, <1>9 DEF IInv, LastExplained

\* Calls and events change nothing but last.
LEMMA RoutingKept ==
  ASSUME IInv, Unchanged, last'.device \in Modules \cup {NULL}
  PROVE  /\ TypeOK' /\ Numbered' /\ VersionsKnown'
         /\ \A op, h, level : Routed(op, h, level)' = Routed(op, h, level)
         /\ \A h : Injected(h)' = Injected(h)
         /\ \A i, l : get_global_handle(i, l)' = get_global_handle(i, l)
<1>1. UNCHANGED <<sub_hw_modules, sub_hw_versions, sub_hw_devices, global_to_full, listed, opens, crashed>>
  BY Zenon DEF Unchanged
<1>2. TypeOK'
  BY Zenon, <1>1 DEF IInv, TypeOK
<1>3. Numbered' /\ VersionsKnown'
  BY Zenon, <1>1 DEF IInv, Numbered, VersionsKnown
<1>4. \A h : /\ get_local_handle(h)' = get_local_handle(h)
             /\ get_module_index(h)' = get_module_index(h)
  BY Zenon, <1>1 DEF get_local_handle, get_module_index
<1>5. \A h : get_v0_device_by_handle(h)' = get_v0_device_by_handle(h)
  BY Zenon, <1>1, <1>4 DEF get_v0_device_by_handle
<1>6. \A h, level : halIsAPILevelCompliant(h, level)' = halIsAPILevelCompliant(h, level)
  BY <1>5, Zenon DEF halIsAPILevelCompliant
<1>7. \A op, h, level : Routed(op, h, level)' = Routed(op, h, level)
  BY <1>4, <1>5, <1>6, Zenon DEF Routed, Nothing
<1>8. \A h : Injected(h)' = Injected(h)
  BY <1>7, Zenon DEF Injected
<1>9. \A i, l : get_global_handle(i, l)' = get_global_handle(i, l)
  BY <1>1, Zenon DEF get_global_handle
<1> QED BY Zenon, <1>2, <1>3, <1>7, <1>8, <1>9

\* Calls.
LEMMA CallStep ==
  ASSUME IInv, NEW h,
         activate(h) \/ device__batch(h) \/ flush(h) \/ inject_sensor_data(h)
  PROVE  IInv'
<1>1. Open /\ Unchanged /\ UNCHANGED sub_hw_devices
  BY Zenon DEF activate, device__batch, flush, inject_sensor_data, Unchanged
<1>2. sub_hw_devices # NULL /\ sub_hw_devices' # NULL
  BY Zenon, <1>1 DEF Open
<1>3. \A op, level : /\ Routed(op, h, level).device \in Modules \cup {NULL}
                     /\ Routed(op, h, level).handle = h
  BY <1>2, RoutedType, RoutedFields DEF IInv
<1>4. \/ last' = Routed("activate", h, 0)
      \/ last' = [Routed("setDelay", h, 0) EXCEPT !.result = "ok"]
      \/ last' = Routed("flush", h, 1)
      \/ last' = Injected(h)
  BY Zenon DEF activate, device__batch, flush, inject_sensor_data, Injected
<1>5. \A op, level : LET r == Routed(op, h, level) IN
        /\ [r EXCEPT !.result = "ok"].device = r.device
        /\ [r EXCEPT !.result = "ok"].handle = r.handle
        /\ [r EXCEPT !.local = h].device = r.device
        /\ [r EXCEPT !.local = h].handle = r.handle
  <2> TAKE op, level
  <2>1. CASE get_local_handle(h) >= 0 /\ halIsAPILevelCompliant(h, level)
    <3>1. Routed(op, h, level) =
            [op |-> op, handle |-> h, device |-> get_v0_device_by_handle(h),
             local |-> get_local_handle(h), result |-> "ok"]
      BY Zenon, <2>1 DEF Routed
    <3> QED BY Zenon, <3>1
  <2>2. CASE ~ (get_local_handle(h) >= 0 /\ halIsAPILevelCompliant(h, level))
    <3>1. Routed(op, h, level) =
            [op |-> op, handle |-> h, device |-> NULL, local |-> 0, result |-> "EINVAL"]
      BY Zenon, <2>2, RoutedNowhere
    <3> QED BY Zenon, <3>1
  <2> QED BY Zenon, <2>1, <2>2
<1>6. last'.handle = h /\ last'.device \in Modules \cup {NULL}
  <2>1. CASE last' = Routed("activate", h, 0) \/ last' = Routed("flush", h, 1)
    BY Zenon, <2>1, <1>3
  <2>2. CASE last' = [Routed("setDelay", h, 0) EXCEPT !.result = "ok"]
    <3>1. last'.handle = Routed("setDelay", h, 0).handle /\ last'.device = Routed("setDelay", h, 0).device
      BY Zenon, <2>2, <1>5
    <3> QED BY Zenon, <3>1, <1>3
  <2>3. CASE last' = Injected(h)
    <3>1. last'.handle = Routed("inject", h, 4).handle /\ last'.device = Routed("inject", h, 4).device
      BY Zenon, <2>3, <1>5 DEF Injected
    <3> QED BY Zenon, <3>1, <1>3
  <2> QED BY Zenon, <1>4, <2>1, <2>2, <2>3
<1>7. /\ TypeOK' /\ Numbered' /\ VersionsKnown'
      /\ \A op, g, level : Routed(op, g, level)' = Routed(op, g, level)
      /\ \A g : Injected(g)' = Injected(g)
  BY Zenon, <1>1, <1>6, RoutingKept
<1>8. LastExplained'
  <2>1. Routed("activate", last.handle, 0)' = Routed("activate", h, 0)
    BY Zenon, <1>6, <1>7
  <2>2. Routed("setDelay", last.handle, 0)' = Routed("setDelay", h, 0)
    BY Zenon, <1>6, <1>7
  <2>3. Routed("flush", last.handle, 1)' = Routed("flush", h, 1)
    BY Zenon, <1>6, <1>7
  <2>4. Injected(last.handle)' = Injected(h)
    BY Zenon, <1>6, <1>7
  <2> QED BY Zenon, <1>2, <1>4, <2>1, <2>2, <2>3, <2>4 DEF LastExplained
<1> QED BY Zenon, <1>7, <1>8 DEF IInv

\* Events.
LEMMA ReportStep ==
  ASSUME IInv, NEW i \in 1 .. Len(Paths), NEW l, Report(i, l)
  PROVE  IInv'
<1>1. /\ Open /\ Unchanged /\ UNCHANGED sub_hw_devices
      /\ i <= Len(sub_hw_devices) /\ get_global_handle(i - 1, l) # -1
      /\ last' = Reported(i, l)
  BY Zenon DEF Report, Reported, Unchanged
<1>2. sub_hw_devices # NULL /\ sub_hw_devices' # NULL
  BY Zenon, <1>1 DEF Open
<1>3. sub_hw_devices \in Seq(Modules) /\ i \in 1 .. Len(sub_hw_devices)
  BY <1>1, <1>2, LoadableLists, PathAssumption DEF IInv, TypeOK
<1>4. last'.device = sub_hw_devices[i] /\ last'.local = l
  BY Zenon, <1>1 DEF Reported
<1>5. sub_hw_devices[i] \in Modules
  BY <1>3
<1>6. /\ TypeOK' /\ Numbered' /\ VersionsKnown'
      /\ \A k, g : get_global_handle(k, g)' = get_global_handle(k, g)
  BY Zenon, <1>1, <1>4, <1>5, RoutingKept
<1>7. LastExplained'
  <2>1. i \in 1 .. Len(sub_hw_devices')
    BY Zenon, <1>1, <1>3
  <2>2. get_global_handle(i - 1, last.local)' = get_global_handle(i - 1, l)
    BY Zenon, <1>4, <1>6
  <2>3. Reported(i, last.local)' = Reported(i, l)
    BY Zenon, <2>2, <1>1, <1>4 DEF Reported
  <2> QED BY Zenon, <1>1, <1>2, <2>1, <2>2, <2>3 DEF LastExplained
<1> QED BY Zenon, <1>6, <1>7 DEF IInv

\* A step that changes nothing.
LEMMA Stuttering ==
  ASSUME IInv, UNCHANGED vars
  PROVE  IInv'
<1>1. Unchanged /\ UNCHANGED <<last, sub_hw_devices>>
  BY Zenon DEF vars, Unchanged
<1>2. last'.device \in Modules \cup {NULL}
  BY Zenon, <1>1 DEF IInv, TypeOK
<1>3. /\ TypeOK' /\ Numbered' /\ VersionsKnown'
      /\ \A op, g, level : Routed(op, g, level)' = Routed(op, g, level)
      /\ \A g : Injected(g)' = Injected(g)
      /\ \A k, g : get_global_handle(k, g)' = get_global_handle(k, g)
  BY Zenon, <1>1, <1>2, RoutingKept
<1>4. \A i : /\ get_global_handle(i - 1, last.local)' = get_global_handle(i - 1, last.local)
             /\ Reported(i, last.local)' = Reported(i, last.local)
  BY Zenon, <1>1, <1>3 DEF Reported
<1>5. LastExplained'
  <2>1. Routed("activate", last.handle, 0)' = Routed("activate", last.handle, 0)
    BY Zenon, <1>1, <1>3
  <2>2. Routed("setDelay", last.handle, 0)' = Routed("setDelay", last.handle, 0)
    BY Zenon, <1>1, <1>3
  <2>3. Routed("flush", last.handle, 1)' = Routed("flush", last.handle, 1)
    BY Zenon, <1>1, <1>3
  <2>4. Injected(last.handle)' = Injected(last.handle)
    BY Zenon, <1>1, <1>3
  <2> QED BY Zenon, <1>1, <1>4, <2>1, <2>2, <2>3, <2>4 DEF LastExplained, IInv
<1> QED BY Zenon, <1>3, <1>5 DEF IInv

\* Every step keeps the invariant.
LEMMA NextIInv == IInv /\ [Next]_vars => IInv'
<1> SUFFICES ASSUME IInv, [Next]_vars PROVE IInv'
  BY Zenon
<1>1. CASE open_sensors
  BY Zenon, <1>1, OpenStep
<1>2. CASE device__close
  BY Zenon, <1>2, CloseStep
<1>3. CASE module__get_sensors_list
  BY <1>3, ListStep
<1>4. CASE \E h \in Handles : activate(h) \/ device__batch(h) \/ flush(h) \/ inject_sensor_data(h)
  BY Zenon, <1>4, CallStep
<1>5. CASE \E i \in 1 .. Len(Paths) : \E m \in Modules : \E l \in Range(Sensors[m]) : Report(i, l)
  BY Zenon, <1>5, ReportStep
<1>6. CASE UNCHANGED vars
  BY Zenon, <1>6, Stuttering
<1> QED BY Zenon, <1>1, <1>2, <1>3, <1>4, <1>5, <1>6 DEF Next
-----------------------------------------------------------------------------
(* The theorems *)

\* A set of numbers up to N that is not empty has a largest one.
LEMMA MaxIn ==
  ASSUME NEW N \in Nat, NEW T, T \subseteq 1 .. N, T # {}
  PROVE  Max(T) \in T
<1> DEFINE D == {n \in Nat : N - n \in T}
<1>1. D \subseteq Nat /\ D # {}
  <2>1. PICK x : x \in T
    BY Zenon
  <2>2. N - x \in Nat /\ N - (N - x) = x
    BY <2>1
  <2>3. N - x \in D
    BY Zenon, <2>1, <2>2
  <2> QED BY Zenon, <2>3
<1>2. PICK m \in D : \A x \in D : m <= x
  BY Zenon, <1>1, LeastNatural
<1>3. N - m \in T
  BY Zenon
<1>4. \A y \in T : N - m >= y
  <2> TAKE y \in T
  <2>1. N - y \in Nat /\ N - (N - y) = y
    OBVIOUS
  <2>2. N - y \in D
    BY Zenon, <2>1
  <2>3. m <= N - y /\ m \in Nat
    BY Zenon, <1>2, <2>2
  <2> QED BY <2>3
<1> HIDE DEF D
<1>5. \E x \in T : \A y \in T : x >= y
  <2> WITNESS N - m \in T
  <2> QED BY Zenon, <1>4
<1> QED BY Zenon, <1>5 DEF Max

\* A global handle that is found is one of the full handle.
LEMMA GlobalHandleOf ==
  ASSUME TypeOK, NEW i, NEW l,
         \E h \in DOMAIN global_to_full :
           global_to_full[h] = [moduleIndex |-> i, localHandle |-> l]
  PROVE  /\ get_global_handle(i, l) \in DOMAIN global_to_full
         /\ global_to_full[get_global_handle(i, l)] = [moduleIndex |-> i, localHandle |-> l]
<1> DEFINE hs == {h \in DOMAIN global_to_full :
                    global_to_full[h] = [moduleIndex |-> i, localHandle |-> l]}
<1>1. hs # {}
  BY Zenon
<1>2. Len(global_to_full) \in Nat /\ DOMAIN global_to_full = 1 .. Len(global_to_full)
  BY DEF TypeOK
<1>3. Max(hs) \in hs
  BY Zenon, <1>1, <1>2, MaxIn
<1>4. get_global_handle(i, l) = Max(hs)
  BY Zenon, <1>1 DEF get_global_handle
<1> QED BY Zenon, <1>3, <1>4

\* The other way round: -1 means that there is none.
LEMMA NoGlobalHandle ==
  ASSUME NEW i, NEW l, get_global_handle(i, l) # -1
  PROVE  \E h \in DOMAIN global_to_full :
           global_to_full[h] = [moduleIndex |-> i, localHandle |-> l]
BY Zenon DEF get_global_handle

\* Two lists that agree up to i have the same element there.
LEMMA SamePrefix ==
  ASSUME NEW S, NEW a \in Seq(S), NEW b \in Seq(S), NEW i \in 1 .. Len(a),
         SubSeq(a, 1, i) = SubSeq(b, 1, Min({i, Len(b)}))
  PROVE  i <= Len(b) /\ b[i] = a[i]
<1>1. Len(a) \in Nat /\ Len(b) \in Nat /\ i \in Nat
  OBVIOUS
<1>2. Min({i, Len(b)}) = IF i <= Len(b) THEN i ELSE Len(b)
  <2> DEFINE IsMin(x) == \A y \in {i, Len(b)} : x <= y
  <2>1. PICK x \in {i, Len(b)} : IsMin(x)
    BY <1>1
  <2>2. Min({i, Len(b)}) \in {i, Len(b)} /\ IsMin(Min({i, Len(b)}))
    BY Zenon, <2>1 DEF Min
  <2> QED BY <2>2, <1>1
<1>3. Min({i, Len(b)}) \in 0 .. Len(b)
  BY <1>1, <1>2
<1>4. Len(SubSeq(a, 1, i)) = i /\ SubSeq(a, 1, i)[i] = a[i]
  BY <1>1
<1>5. Len(SubSeq(b, 1, Min({i, Len(b)}))) = Min({i, Len(b)})
  BY <1>1, <1>3
<1>6. Min({i, Len(b)}) = i /\ i <= Len(b)
  BY <1>1, <1>2, <1>4, <1>5
<1>7. SubSeq(b, 1, i)[i] = b[i]
  BY <1>1, <1>6
<1>8. SubSeq(b, 1, i) = SubSeq(a, 1, i)
  BY Zenon, <1>6
<1> QED BY Zenon, <1>4, <1>6, <1>7, <1>8

\* Every handle is that of a loaded module, and every sensor has its handle.
LEMMA AllNumbered == IInv => EverySensorNumbered
<1> SUFFICES ASSUME IInv, listed,
                    NEW i \in 1 .. Len(sub_hw_modules),
                    NEW l \in Range(Sensors[sub_hw_modules[i]])
             PROVE  LET h == get_global_handle(i - 1, l)
                    IN  /\ h \in DOMAIN global_to_full
                        /\ Owner(h) = sub_hw_modules[i] /\ get_local_handle(h) = l
  BY Zenon DEF EverySensorNumbered
<1>1. TypeOK /\ i \in Int
  BY DEF IInv
<1>2. \E h \in DOMAIN global_to_full : global_to_full[h] = [moduleIndex |-> i - 1, localHandle |-> l]
  BY Zenon DEF IInv, Numbered
<1> DEFINE h == get_global_handle(i - 1, l)
<1>3. /\ h \in DOMAIN global_to_full
      /\ global_to_full[h] = [moduleIndex |-> i - 1, localHandle |-> l]
  BY Zenon, <1>1, <1>2, GlobalHandleOf
<1> HIDE DEF h
<1>4. global_to_full[h].moduleIndex + 1 = i /\ global_to_full[h].localHandle = l
  BY <1>1, <1>3
<1>5. Owner(h) = sub_hw_modules[i] /\ get_local_handle(h) = l
  BY Zenon, <1>3, <1>4 DEF Owner, get_local_handle
<1> QED BY Zenon, <1>3, <1>5 DEF h

\* The device at a handle's module index is the handle's owner as long as the lists of
\* modules and of devices agree that far.
LEMMA OwnerAtHandle ==
  ASSUME IInv, sub_hw_devices # NULL, NEW h, get_module_index(h) + 1 > 0,
         SubSeq(sub_hw_modules, 1, get_module_index(h) + 1) =
           SubSeq(sub_hw_devices, 1, Min({get_module_index(h) + 1, Len(sub_hw_devices)}))
  PROVE  /\ h \in DOMAIN global_to_full
         /\ get_local_handle(h) >= 0
         /\ Owner(h) \in Modules
         /\ get_v0_device_by_handle(h) = Owner(h)
         /\ sub_hw_devices[get_module_index(h) + 1] = Owner(h)
<1>1. h \in DOMAIN global_to_full
  BY DEF get_module_index
<1>2. global_to_full[h] \in [moduleIndex : Nat, localHandle : Nat]
  <2>1. global_to_full \in Seq(Full)
    BY Zenon DEF IInv, TypeOK, Full
  <2>2. global_to_full[h] \in Full
    BY <1>1, <2>1
  <2> QED BY Zenon, <2>2 DEF Full
<1>3. /\ get_module_index(h) = global_to_full[h].moduleIndex /\ get_module_index(h) \in Nat
      /\ get_local_handle(h) \in Nat
  BY Zenon, <1>1, <1>2 DEF get_module_index, get_local_handle
<1>4. listed
  BY <1>1 DEF IInv, Numbered
<1>5. sub_hw_modules # NULL /\ get_module_index(h) < Len(sub_hw_modules)
  BY Zenon, <1>1, <1>3, <1>4 DEF IInv, Numbered
<1>6. sub_hw_modules \in Seq(Modules) /\ sub_hw_devices \in Seq(Modules)
  BY Zenon, <1>5, LoadableLists DEF IInv, TypeOK
<1> DEFINE i == get_module_index(h) + 1
<1>7. i \in 1 .. Len(sub_hw_modules)
  BY <1>3, <1>5, <1>6
<1>8. i <= Len(sub_hw_devices) /\ sub_hw_devices[i] = sub_hw_modules[i]
  <2> HIDE DEF i
  <2>1. SubSeq(sub_hw_modules, 1, i) = SubSeq(sub_hw_devices, 1, Min({i, Len(sub_hw_devices)}))
    BY Zenon DEF i
  <2> QED BY Zenon, <1>6, <1>7, <2>1, SamePrefix
<1>9. Owner(h) = sub_hw_modules[i]
  BY Zenon, <1>3 DEF Owner
<1>10. sub_hw_modules[i] \in Modules
  BY <1>6, <1>7
<1>11. get_v0_device_by_handle(h) = sub_hw_devices[i]
  <2>1. ~ (get_module_index(h) < 0 \/ get_module_index(h) >= Len(sub_hw_devices))
    BY <1>3, <1>6, <1>8
  <2> QED BY Zenon, <2>1 DEF get_v0_device_by_handle
<1> QED BY <1>1, <1>3, <1>8, <1>9, <1>10, <1>11

\* The invariant implies that calls and events are routed to the owner of the sensor.
LEMMA InvRouted == IInv => RoutedToOwner
<1> DEFINE h == last.handle
           i == get_module_index(h) + 1
<1> SUFFICES ASSUME IInv, last.op # "none", i > 0, sub_hw_devices # NULL,
                    SubSeq(sub_hw_modules, 1, i) =
                      SubSeq(sub_hw_devices, 1, Min({i, Len(sub_hw_devices)}))
             PROVE  \/ last.device = Owner(h)
                    \/ last.result = "EINVAL" /\ last.op = "flush" /\ Version[Owner(h)] < 1
                    \/ last.result = "EINVAL" /\ last.op = "inject" /\ Version[Owner(h)] < 4
  BY Zenon, AllNumbered DEF RoutedToOwner, IInv
<1>1. /\ h \in DOMAIN global_to_full
      /\ get_local_handle(h) >= 0
      /\ Owner(h) \in Modules
      /\ get_v0_device_by_handle(h) = Owner(h)
      /\ sub_hw_devices[i] = Owner(h)
  BY Zenon, OwnerAtHandle
<1>2. Owner(h) # NULL /\ Version[Owner(h)] \in Nat
  BY Zenon, <1>1, NullAssumption, VersionAssumption
<1>3. \A level : halIsAPILevelCompliant(h, level) <=> Version[Owner(h)] >= level
  BY Zenon, <1>1, <1>2 DEF halIsAPILevelCompliant
<1>4. halIsAPILevelCompliant(h, 0)
  BY <1>2, <1>3
<1>5. \A op, level : halIsAPILevelCompliant(h, level) =>
        Routed(op, h, level) = [op |-> op, handle |-> h, device |-> Owner(h),
                                local |-> get_local_handle(h), result |-> "ok"]
  BY Zenon, <1>1 DEF Routed
<1> HIDE DEF h
<1>6. CASE last = Routed("activate", h, 0)
  BY <1>6, <1>4, <1>5
<1>7. CASE last = [Routed("setDelay", h, 0) EXCEPT !.result = "ok"]
  <2>1. last = [[op |-> "setDelay", handle |-> h, device |-> Owner(h),
                 local |-> get_local_handle(h), result |-> "ok"] EXCEPT !.result = "ok"]
    BY Zenon, <1>7, <1>4, <1>5
  <2> QED BY Zenon, <2>1
<1>8. CASE last = Routed("flush", h, 1)
  <2>1. CASE halIsAPILevelCompliant(h, 1)
    BY <2>1, <1>8, <1>5
  <2>2. CASE ~ halIsAPILevelCompliant(h, 1)
    <3>1. last = [op |-> "flush", handle |-> h, device |-> NULL, local |-> 0, result |-> "EINVAL"]
      BY Zenon, <2>2, <1>8, RoutedNowhere
    <3> QED BY <3>1, <2>2, <1>2, <1>3
  <2> QED BY Zenon, <2>1, <2>2
<1>9. CASE last = Injected(h)
  <2>1. CASE halIsAPILevelCompliant(h, 4)
    <3>1. last = [[op |-> "inject", handle |-> h, device |-> Owner(h),
                   local |-> get_local_handle(h), result |-> "ok"] EXCEPT !.local = h]
      BY <2>1, <1>9, <1>5 DEF Injected
    <3> QED BY Zenon, <3>1
  <2>2. CASE ~ halIsAPILevelCompliant(h, 4)
    <3>1. Routed("inject", h, 4) =
            [op |-> "inject", handle |-> h, device |-> NULL, local |-> 0, result |-> "EINVAL"]
      BY Zenon, <2>2, RoutedNowhere
    <3>2. last = [op |-> "inject", handle |-> h, device |-> NULL, local |-> 0, result |-> "EINVAL"]
      BY <3>1, <1>9 DEF Injected
    <3> QED BY <3>2, <2>2, <1>2, <1>3
  <2> QED BY Zenon, <2>1, <2>2
<1>10. CASE \E k \in 1 .. Len(sub_hw_devices) :
              /\ get_global_handle(k - 1, last.local) # -1
              /\ last = Reported(k, last.local)
  <2>1. PICK k \in 1 .. Len(sub_hw_devices) :
          /\ get_global_handle(k - 1, last.local) # -1
          /\ last = Reported(k, last.local)
    BY Zenon, <1>10
  <2>2. global_to_full[get_global_handle(k - 1, last.local)] =
          [moduleIndex |-> k - 1, localHandle |-> last.local]
    BY Zenon, <2>1, NoGlobalHandle, GlobalHandleOf DEF IInv
  <2>3. h = get_global_handle(k - 1, last.local) /\ last.device = sub_hw_devices[k]
    BY <2>1 DEF Reported, h
  <2>4. global_to_full[h].moduleIndex = k - 1
    BY <2>2, <2>3
  <2>5. get_module_index(h) = k - 1
    BY Zenon, <1>1, <2>4 DEF get_module_index
  <2>6. i = k
    BY <2>1, <2>5
  <2> QED BY Zenon, <1>1, <2>3, <2>6
<1> QED BY Zenon, <1>6, <1>7, <1>8, <1>9, <1>10 DEF IInv, LastExplained, h

\* Whatever the configuration file lists and whichever sub-HALs are missing or fail to
\* open: a call of the framework goes to the sub-HAL that owns the sensor, and an event
\* is reported as a sensor of the sub-HAL it comes from, as long as the modules up to
\* that one are open; and every sensor has a handle that leads back to it.
THEOREM CallsReachTheOwner == Spec => []RoutedToOwner
<1>1. Spec => []IInv
  BY InitIInv, NextIInv, PTL DEF Spec
<1> QED BY <1>1, InvRouted, PTL

\* A step keeps the handles that were given out, and listing does not end the process
\* while all loaded sub-HALs are open.
LEMMA ReopenStep ==
  ASSUME IInv, [Next]_vars
  PROVE  /\ listed => listed' /\ global_to_full' = global_to_full /\ sub_hw_modules' = sub_hw_modules
         /\ ~ crashed /\ sub_hw_devices # NULL /\ sub_hw_devices = sub_hw_modules => ~ crashed'
<1>1. CASE open_sensors
  <2>1. UNCHANGED <<global_to_full, listed, crashed>>
    BY Zenon, <1>1 DEF open_sensors
  <2>2. listed => sub_hw_modules' = sub_hw_modules
    BY Zenon, <1>1 DEF open_sensors, lazy_init_modules, IInv, Numbered
  <2> QED BY Zenon, <2>1, <2>2
<1>2. CASE module__get_sensors_list
  <2>1. listed => UNCHANGED <<global_to_full, listed, sub_hw_modules>>
    BY Zenon, <1>2 DEF module__get_sensors_list, lazy_init_modules, IInv, Numbered
  <2>2. ASSUME sub_hw_devices # NULL, sub_hw_devices = sub_hw_modules PROVE ~ crashed'
    <3>1. CASE listed
      BY Zenon, <1>2, <3>1 DEF module__get_sensors_list
    <3>2. CASE ~ listed
      <4>1. sub_hw_versions = Range(sub_hw_devices)
        BY Zenon, <3>2, <2>2 DEF IInv, VersionsKnown
      <4>2. sub_hw_versions # NULL
        <5>1. sub_hw_devices \in Loadable
          BY Zenon, <2>2 DEF IInv, TypeOK
        <5>2. Range(sub_hw_devices) \subseteq Modules
          BY <5>1, LoadableLists
        <5> QED BY Zenon, <4>1, <5>2, NullAssumption
      <4>3. PICK modules \in Loadable :
              /\ modules = sub_hw_modules
              /\ LET asked == {m \in Range(modules) : Sensors[m] # <<>>} IN
                 crashed' = (asked # {} /\ (sub_hw_versions = NULL \/ ~ asked \subseteq sub_hw_versions))
        BY Zenon, <1>2, <3>2, <2>2 DEF module__get_sensors_list, lazy_init_modules
      <4>4. {m \in Range(modules) : Sensors[m] # <<>>} \subseteq sub_hw_versions
        BY Zenon, <4>1, <4>3, <2>2
      <4> QED BY Zenon, <4>2, <4>3, <4>4
    <3> QED BY Zenon, <3>1, <3>2
  <2> QED BY <1>2, <2>1, <2>2
<1>3. CASE Unchanged \/ UNCHANGED vars \/ device__close
  BY <1>3 DEF Unchanged, vars, device__close
<1>4. CASE \E h \in Handles : activate(h) \/ device__batch(h) \/ flush(h) \/ inject_sensor_data(h)
  BY Zenon, <1>3, <1>4 DEF activate, device__batch, flush, inject_sensor_data
<1>5. CASE \E i \in 1 .. Len(Paths) : \E m \in Modules : \E l \in Range(Sensors[m]) : Report(i, l)
  BY Zenon, <1>3, <1>5 DEF Report
<1> QED BY Zenon, <1>1, <1>2, <1>3, <1>4, <1>5 DEF Next

\* Closing and opening the device again, any number of times and whichever sub-HALs open
\* each time, leaves the handles as they are; listing does not end the process while all
\* loaded sub-HALs are open.
THEOREM HandlesSurviveReopening == Spec => ReopenSafe
<1>1. Spec => []IInv
  BY InitIInv, NextIInv, PTL DEF Spec
<1>2. IInv /\ [Next]_vars =>
        [/\ listed => listed' /\ global_to_full' = global_to_full /\ sub_hw_modules' = sub_hw_modules
         /\ ~ crashed /\ sub_hw_devices # NULL /\ sub_hw_devices = sub_hw_modules => ~ crashed']_vars
  BY Zenon, ReopenStep
<1> QED BY <1>1, <1>2, PTL DEF Spec, ReopenSafe
=============================================================================
