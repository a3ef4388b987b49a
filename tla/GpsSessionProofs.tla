-------------------------- MODULE GpsSessionProofs --------------------------
(***************************************************************************)
(* Proof that the parties of the GPS HAL agree on the session, for any     *)
(* number of calls and messages, as long as nothing has failed that a call *)
(* waits for.                                                              *)
(***************************************************************************)
EXTENDS GpsHalProofs

-----------------------------------------------------------------------------
(* The inductive invariant of the session *)

SessionCommand == {"CMD_START", "CMD_STOP"}

\* The commands and the ends of the engine that are under way.
Starts == {i \in 1 .. Len(hal2mnld) : hal2mnld[i].cmd = "START"}
Stops == {i \in 1 .. Len(hal2mnld) : hal2mnld[i].cmd = "STOP"}
Cleanups == {i \in 1 .. Len(hal2mnld) : hal2mnld[i].cmd = "CLEANUP"}
Deaths == {i \in 1 .. Len(mnld2hal) : mnld2hal[i].to = "die"}
Quits == {i \in 1 .. Len(control) : control[i] = "CMD_QUIT"}
Dying == hal.pc \in {"dieStop", "dieFlag"}

Single(S) == \A i, j \in S : i = j

\* MNLD has been asked for a session that it has not ended.
Up == engine.on \/ Starts # {}

\* There is one START and one STOP at most on their way, and the engine does not run
\* when MNLD comes to a CLEANUP.
Commanded ==
  /\ Single(Starts) /\ Single(Stops)
  /\ engine.on => Starts = {}
  /\ \A i \in Stops : engine.on \/ \E j \in Starts : j < i
  /\ \A i \in Cleanups : (engine.on \/ \E j \in Starts : j < i) => \E k \in Stops : k < i

\* One end of a session at most is on its way to start_flag.
Ending ==
  /\ Single(Deaths)
  /\ Stops # {} => Deaths = {} /\ ~Dying
  /\ Deaths # {} => ~Dying

\* From MNL_CMD_START to MNL_CMD_STOP.
InSession == fw.pc \in StartCall \/ (fw.user = "running" /\ fw.pc # "cmdStop")

Flags ==
  /\ InSession => /\ Up /\ Stops = {} /\ Deaths = {} /\ ~Dying
                  /\ state.start_flag <=> fw.user = "running"
                  /\ view.wakelock <=> fw.user = "running" \/ fw.pc = "startFlag"
  /\ ~InSession => /\ Up <=> Stops # {}
                   /\ state.start_flag <=> Stops # {} \/ Deaths # {} \/ Dying
                   /\ view.wakelock <=> state.start_flag

\* After the wait for the end of the session only the last step of it may be missing.
Over == fw.pc \in {"quit", "waitCleanup", "waitExit"} \/ fw.user = "none"
Waited ==
  /\ cond["M_STOP"] /\ state.start_flag => hal.pc = "dieFlag"
  /\ Over => Stops = {} /\ Deaths = {} /\ hal.pc # "dieStop"

\* The HAL thread runs from gps_state_init to CMD_QUIT.
NoThread == (fw.user = "none" /\ fw.pc \in {"idle", "init"}) \/ fw.pc = "waitExit"
Thread ==
  /\ fw.pc # "initFailed"
  /\ NoThread => hal.pc = "none" /\ control = << >>
  /\ hal.pc = "none" => NoThread \/ (fw.pc = "waitCleanup" /\ cond["M_CLEANUP"])
  /\ hal.pc = "setup" => fw.pc = "waitInit"
  /\ cond["M_INIT"] => fw.pc = "waitInit" /\ hal.pc # "setup"
  /\ cond["M_CLEANUP"] => fw.pc = "waitCleanup" /\ hal.pc = "none" /\ control = << >>
  /\ \A i \in Quits : i = Len(control) /\ fw.pc = "waitCleanup"

\* What started will be when the HAL thread has taken its commands.
Wanted == fw.user = "running" \/ fw.pc \in {"announce", "startFlag"}
NoOrderAfter(i) == \A j \in i + 1 .. Len(control) : control[j] \notin SessionCommand
Orders ==
  /\ NoOrderAfter(0) => (started <=> Wanted)
  /\ \A i \in 1 .. Len(control) :
       control[i] \in SessionCommand /\ NoOrderAfter(i) => (control[i] = "CMD_START" <=> Wanted)

Session == Commanded /\ Ending /\ Flags /\ Waited /\ Thread /\ Orders

SInv == ~trouble => Session

\* The HAL before the first call.
LEMMA InitSession ==
  ASSUME Init
  PROVE  Session
<1>1. Starts = {} /\ Stops = {} /\ Cleanups = {} /\ Deaths = {} /\ Quits = {}
  BY DEF Init, Starts, Stops, Cleanups, Deaths, Quits
<1>2. /\ fw.pc = "idle" /\ fw.user = "none" /\ hal.pc = "none" /\ \A l \in Locks : ~cond[l]
      /\ ~state.start_flag /\ ~view.wakelock /\ ~engine.on /\ control = << >> /\ ~started
  BY Zenon DEF Init
<1>3. Commanded /\ Ending
  BY Zenon, <1>1, <1>2 DEF Commanded, Ending, Single
<1>4. Flags
  BY Zenon, <1>1, <1>2 DEF Flags, InSession, StartCall, Up, Dying
<1>5. Waited
  BY Zenon, <1>1, <1>2 DEF Waited
<1>6. Thread
  BY Zenon, <1>1, <1>2 DEF Thread, NoThread, Locks
<1>7. Orders
  <2>1. \A i \in 1 .. Len(control) : FALSE
    BY <1>2
  <2>2. ~Wanted
    BY Zenon, <1>2 DEF Wanted
  <2> QED BY Zenon, <1>2, <2>1, <2>2 DEF Orders
<1> QED BY Zenon, <1>3, <1>4, <1>5, <1>6, <1>7 DEF Session

-----------------------------------------------------------------------------
(* The session *)

\* A step after which the call of the framework is at a place that means the same.
SamePlace ==
  /\ InSession' <=> InSession
  /\ fw'.user = "running" <=> fw.user = "running"
  /\ fw'.pc = "startFlag" <=> fw.pc = "startFlag"
  /\ Over' => Over
  /\ NoThread' <=> NoThread
  /\ fw'.pc # "initFailed"
  /\ fw'.pc = "waitInit" <=> fw.pc = "waitInit"
  /\ fw'.pc = "waitCleanup" <=> fw.pc = "waitCleanup"
  /\ Wanted' <=> Wanted

\* A step that no other party has to know of.
InLoop == {"loop", "measurement", "navigation", "crashed"}
Unnoticed ==
  /\ control' = control /\ (started' <=> started)
  /\ Starts' = Starts /\ Stops' = Stops /\ Cleanups' = Cleanups
  /\ Deaths' = {} <=> Deaths = {}
  /\ Single(Deaths) => Single(Deaths)'
  /\ engine'.on <=> engine.on
  /\ state'.start_flag <=> state.start_flag
  /\ view'.wakelock <=> view.wakelock
  /\ cond'["M_STOP"] <=> cond["M_STOP"]
  /\ cond'["M_INIT"] <=> cond["M_INIT"]
  /\ cond'["M_CLEANUP"] <=> cond["M_CLEANUP"]
  /\ hal'.pc = hal.pc \/ (hal.pc \in InLoop /\ hal'.pc \in InLoop)

\* Such a step keeps the session as it is.
LEMMA UnnoticedSession ==
  ASSUME Session, SamePlace, Unnoticed
  PROVE  Session'
<1>1. Up' <=> Up
  BY Zenon DEF Unnoticed, Up
<1>2. Dying' <=> Dying
  BY Zenon DEF Unnoticed, Dying, InLoop
<1>3. Commanded' /\ Ending'
  BY Zenon, <1>2 DEF Session, Unnoticed, Commanded, Ending
<1>4. Flags'
  BY Zenon, <1>1, <1>2 DEF Session, Unnoticed, SamePlace, Flags
<1>5. Waited'
  BY Zenon, <1>2 DEF Session, Unnoticed, SamePlace, Waited, InLoop
<1>6. Thread'
  <2>1. Quits' = Quits
    BY Zenon DEF Quits, Unnoticed
  <2> QED BY Zenon, <2>1 DEF Session, Unnoticed, SamePlace, Thread, InLoop
<1>7. Orders'
  <2>1. \A i \in Int : NoOrderAfter(i)' <=> NoOrderAfter(i)
    BY Zenon DEF NoOrderAfter, Unnoticed
  <2> QED BY <2>1 DEF Session, Unnoticed, SamePlace, Orders
<1> QED BY <1>3, <1>4, <1>5, <1>6, <1>7 DEF Session

\* Taking the first message moves the places of the others by one.
LEMMA ShiftSingle ==
  ASSUME NEW S, NEW T, Single(S), T \subseteq Int, \A i \in Int : i \in T <=> i >= 1 /\ i + 1 \in S
  PROVE  Single(T)
<1> SUFFICES ASSUME NEW i \in T, NEW j \in T PROVE i = j
  BY Zenon DEF Single
<1>1. i \in Int /\ j \in Int /\ i + 1 \in S /\ j + 1 \in S
  BY Zenon
<1>2. i + 1 = j + 1
  BY Zenon, <1>1 DEF Single
<1> QED BY <1>1, <1>2

\* The queues of a step that leaves them alone.
LEMMA SameQueues ==
  /\ UNCHANGED hal2mnld => Starts' = Starts /\ Stops' = Stops /\ Cleanups' = Cleanups
  /\ UNCHANGED mnld2hal => Deaths' = Deaths
BY Zenon DEF Starts, Stops, Cleanups, Deaths

\* A message to MNLD is behind all others.
LEMMA SendOne ==
  ASSUME QueueType, NEW m \in HalMessage, hal2mnld' = Append(hal2mnld, m)
  PROVE  /\ Starts' = IF m.cmd = "START" THEN Starts \union {Len(hal2mnld) + 1} ELSE Starts
         /\ Stops' = IF m.cmd = "STOP" THEN Stops \union {Len(hal2mnld) + 1} ELSE Stops
         /\ Cleanups' = IF m.cmd = "CLEANUP" THEN Cleanups \union {Len(hal2mnld) + 1} ELSE Cleanups
<1>1. hal2mnld \in Seq(HalMessage)
  BY Zenon DEF QueueType
<1>2. /\ Len(hal2mnld') = Len(hal2mnld) + 1 /\ Len(hal2mnld) \in Nat
      /\ hal2mnld'[Len(hal2mnld) + 1] = m
      /\ \A i \in 1 .. Len(hal2mnld) : hal2mnld'[i] = hal2mnld[i]
  BY <1>1
<1>3. 1 .. Len(hal2mnld') = (1 .. Len(hal2mnld)) \union {Len(hal2mnld) + 1}
  BY <1>2
<1> QED BY Zenon, <1>2, <1>3 DEF Starts, Stops, Cleanups

\* The messages of a new state of the network.
LEMMA SendNetwork ==
  ASSUME QueueType, NEW old, NEW new, hal2mnld' = hal2mnld \o agps_ril_update_network_state(old, new)
  PROVE  Starts' = Starts /\ Stops' = Stops /\ Cleanups' = Cleanups
<1> DEFINE s == agps_ril_update_network_state(old, new)
<1>1. s \in Seq(HalMessage) /\ \A i \in 1 .. Len(s) : s[i].cmd \notin {"START", "STOP", "CLEANUP"}
  BY Zenon, NetworkMessages
<1>2. hal2mnld \in Seq(HalMessage) /\ hal2mnld' = hal2mnld \o s
  BY Zenon DEF QueueType
<1> HIDE DEF s
<1>3. /\ Len(hal2mnld') = Len(hal2mnld) + Len(s) /\ Len(hal2mnld) \in Nat /\ Len(s) \in Nat
      /\ \A i \in 1 .. Len(hal2mnld) + Len(s) :
           hal2mnld'[i] = IF i <= Len(hal2mnld) THEN hal2mnld[i] ELSE s[i - Len(hal2mnld)]
  BY <1>1, <1>2
<1>4. \A i \in 1 .. Len(hal2mnld') :
        \/ i \in 1 .. Len(hal2mnld) /\ hal2mnld'[i] = hal2mnld[i]
        \/ i \notin 1 .. Len(hal2mnld) /\ hal2mnld'[i].cmd \notin {"START", "STOP", "CLEANUP"}
  <2> SUFFICES ASSUME NEW i \in 1 .. Len(hal2mnld')
               PROVE  \/ i \in 1 .. Len(hal2mnld) /\ hal2mnld'[i] = hal2mnld[i]
                      \/ i \notin 1 .. Len(hal2mnld) /\ hal2mnld'[i].cmd \notin {"START", "STOP", "CLEANUP"}
    BY Zenon
  <2>1. CASE i <= Len(hal2mnld)
    BY <1>3, <2>1
  <2>2. CASE ~ (i <= Len(hal2mnld))
    <3>1. i - Len(hal2mnld) \in 1 .. Len(s) /\ hal2mnld'[i] = s[i - Len(hal2mnld)] /\ i \notin 1 .. Len(hal2mnld)
      BY <1>3, <2>2
    <3> QED BY Zenon, <1>1, <3>1
  <2> QED BY Zenon, <2>1, <2>2
<1>5. 1 .. Len(hal2mnld) \subseteq 1 .. Len(hal2mnld')
  BY <1>3
<1> QED BY Zenon, <1>4, <1>5 DEF Starts, Stops, Cleanups

\* Deaths under way: an append, and the handler taking the first message.
LEMMA OneDeath ==
  ASSUME QueueType
  PROVE  /\ \A m \in MnldMessage : mnld2hal' = Append(mnld2hal, m) =>
              Deaths' = IF m.to = "die" THEN Deaths \union {Len(mnld2hal) + 1} ELSE Deaths
         /\ mnld2hal # << >> /\ mnld2hal' = Tail(mnld2hal) =>
              \A i \in Int : i \in Deaths' <=> i >= 1 /\ i + 1 \in Deaths
<1>1. mnld2hal \in Seq(MnldMessage)
  BY Zenon DEF QueueType
<1>2. ASSUME NEW m \in MnldMessage, mnld2hal' = Append(mnld2hal, m)
      PROVE  Deaths' = IF m.to = "die" THEN Deaths \union {Len(mnld2hal) + 1} ELSE Deaths
  <2>1. /\ Len(mnld2hal') = Len(mnld2hal) + 1 /\ Len(mnld2hal) \in Nat
        /\ mnld2hal'[Len(mnld2hal) + 1] = m
        /\ \A i \in 1 .. Len(mnld2hal) : mnld2hal'[i] = mnld2hal[i]
    BY <1>1, <1>2
  <2>2. 1 .. Len(mnld2hal') = (1 .. Len(mnld2hal)) \union {Len(mnld2hal) + 1}
    BY <2>1
  <2> QED BY Zenon, <2>1, <2>2 DEF Deaths
<1>3. ASSUME mnld2hal # << >>, mnld2hal' = Tail(mnld2hal)
      PROVE  \A i \in Int : i \in Deaths' <=> i >= 1 /\ i + 1 \in Deaths
  <2>1. /\ Len(mnld2hal') = Len(mnld2hal) - 1 /\ Len(mnld2hal) \in Nat
        /\ \A i \in 1 .. Len(mnld2hal) - 1 : mnld2hal'[i] = mnld2hal[i + 1]
    BY <1>1, <1>3
  <2> QED BY <2>1 DEF Deaths
<1> QED BY Zenon, <1>2, <1>3

\* The steps of the calls that nobody else has to know of.
LEMMA CallStepsUnnoticed ==
  ASSUME Types, Session, ~trouble', UNCHANGED <<started, engine>>,
         \/ CallInit \/ CreateEpoThread \/ mtk_gps_epo_interface_init \/ InitExtension
         \/ CallStart \/ StartEpo \/ WaitStart \/ CallStop \/ CallCleanup \/ mtk_gps_cleanup
  PROVE  Session'
<1> USE DEF At, Goto, Return, NoFault, Fault, get_condition
<1>1. CASE CallInit
  <2>1. SamePlace
    BY Zenon, <1>1 DEF CallInit, Types, FwType, SamePlace, InSession, Over, NoThread, Wanted, InitCall, StartCall, CleanupCall, RunningCall
  <2>2. Unnoticed
    BY <1>1, SameQueues DEF CallInit, Unnoticed, Types, HalType, Locks
  <2> QED BY Zenon, <2>1, <2>2, UnnoticedSession
<1>2. CASE CreateEpoThread
  <2>1. SamePlace
    BY Zenon, <1>2 DEF CreateEpoThread, Types, FwType, SamePlace, InSession, Over, NoThread, Wanted, InitCall, StartCall, CleanupCall, RunningCall
  <2>2. Unnoticed
    BY <1>2, SameQueues DEF CreateEpoThread, Unnoticed, Types, HalType, Locks
  <2> QED BY <2>1, <2>2, UnnoticedSession
<1>3. CASE mtk_gps_epo_interface_init
  <2>1. SamePlace
    BY Zenon, <1>3 DEF mtk_gps_epo_interface_init, Types, FwType, SamePlace, InSession, Over, NoThread, Wanted, InitCall, StartCall, CleanupCall, RunningCall
  <2>2. Unnoticed
    BY Zenon, <1>3, SameQueues DEF mtk_gps_epo_interface_init, Unnoticed, Types, HalType, Locks
  <2> QED BY <2>1, <2>2, UnnoticedSession
<1>4. CASE InitExtension
  <2>1. SamePlace
    BY Zenon, <1>4 DEF InitExtension, Types, FwType, SamePlace, InSession, Over, NoThread, Wanted, InitCall, StartCall, CleanupCall, RunningCall
  <2>2. Unnoticed
    BY <1>4, SameQueues DEF InitExtension, Unnoticed, Types, HalType, Locks
  <2> QED BY <2>1, <2>2, UnnoticedSession
<1>5. CASE CallStart
  <2>1. SamePlace
    BY Zenon, <1>5 DEF CallStart, Types, FwType, SamePlace, InSession, Over, NoThread, Wanted, InitCall, StartCall, CleanupCall, RunningCall
  <2>2. Unnoticed
    BY <1>5, SameQueues DEF CallStart, Unnoticed, Types, HalType, Locks
  <2> QED BY <2>1, <2>2, UnnoticedSession
<1>6. CASE StartEpo
  <2>1. SamePlace
    BY Zenon, <1>6 DEF StartEpo, Types, FwType, SamePlace, InSession, Over, NoThread, Wanted, InitCall, StartCall, CleanupCall, RunningCall
  <2>2. Unnoticed
    BY Zenon, <1>6, SameQueues DEF StartEpo, Unnoticed, Types, HalType, Locks
  <2> QED BY <2>1, <2>2, UnnoticedSession
<1>7. CASE WaitStart
  <2>1. SamePlace
    BY Zenon, <1>7 DEF WaitStart, Types, FwType, SamePlace, InSession, Over, NoThread, Wanted, InitCall, StartCall, CleanupCall, RunningCall
  <2>2. Unnoticed
    BY Zenon, <1>7, SameQueues DEF WaitStart, Unnoticed, Types, HalType, Locks
  <2> QED BY Zenon, <2>1, <2>2, UnnoticedSession
<1>8. CASE CallStop
  <2>1. SamePlace
    BY Zenon, <1>8 DEF CallStop, Types, FwType, SamePlace, InSession, Over, NoThread, Wanted, InitCall, StartCall, CleanupCall, RunningCall
  <2>2. Unnoticed
    BY Zenon, <1>8, SameQueues DEF CallStop, Unnoticed, Types, HalType, Locks
  <2> QED BY <2>1, <2>2, UnnoticedSession
<1>9. CASE CallCleanup
  <2>1. SamePlace
    BY Zenon, <1>9 DEF CallCleanup, Types, FwType, SamePlace, InSession, Over, NoThread, Wanted, InitCall, StartCall, CleanupCall, RunningCall
  <2>2. Unnoticed
    BY <1>9, SameQueues DEF CallCleanup, Unnoticed, Types, HalType, Locks
  <2> QED BY Zenon, <2>1, <2>2, UnnoticedSession
<1>10. CASE mtk_gps_cleanup
  <2>1. SamePlace
    BY Zenon, <1>10 DEF mtk_gps_cleanup, Types, FwType, SamePlace, InSession, Over, NoThread, Wanted, InitCall, StartCall, CleanupCall, RunningCall
  <2>2. Unnoticed
    BY Zenon, <1>10, SameQueues DEF mtk_gps_cleanup, Unnoticed, Types, HalType, Locks
  <2> QED BY <2>1, <2>2, UnnoticedSession
<1> QED BY Zenon, <1>1, <1>2, <1>3, <1>4, <1>5, <1>6, <1>7, <1>8, <1>9, <1>10

\* The extensions, which send MNLD no command of a session.
LEMMA ExtensionsUnnoticed ==
  ASSUME Types, Session, UNCHANGED <<started, engine>>,
         \/ AgpsCall \/ mtk_gps_inject_location \/ UpdateNetworkState \/ OpenRaw \/ InitRaw \/ CloseRaw
         \/ mtk_gps_set_position_mode
  PROVE  Session'
<1> USE DEF At, Goto, Return, mtk_daemon_send
<1>1. QueueType /\ fw.pc # "initFailed"
  BY Zenon DEF Types, Session, Thread
<1>2. SamePlace
  <2>1. CASE UNCHANGED fw
    BY Zenon, <1>1, <2>1 DEF SamePlace, InSession, Over, NoThread, Wanted
  <2>2. CASE OpenRaw
    <3>1. DOMAIN RawFlag = {"measurement", "navigation"}
      BY Zenon DEF RawFlag
    <3> QED BY Zenon, <2>2, <3>1 DEF OpenRaw, Idle, Types, FwType, SamePlace, InSession, Over, NoThread, Wanted, InitCall, StartCall, CleanupCall, RunningCall
  <2>3. CASE InitRaw
    BY Zenon, <2>3 DEF InitRaw, Types, FwType, SamePlace, InSession, Over, NoThread, Wanted, InitCall, StartCall, CleanupCall, RunningCall
  <2> QED BY Zenon, <2>1, <2>2, <2>3 DEF AgpsCall, mtk_gps_inject_location, UpdateNetworkState, CloseRaw,
             mtk_gps_set_position_mode
<1>3. Starts' = Starts /\ Stops' = Stops /\ Cleanups' = Cleanups
  <2>1. ASSUME NEW m \in HalMessage, m.cmd \notin {"START", "STOP", "CLEANUP"}, hal2mnld' = Append(hal2mnld, m)
        PROVE  Starts' = Starts /\ Stops' = Stops /\ Cleanups' = Cleanups
    BY Zenon, <1>1, <2>1, SendOne
  <2>2. \/ UNCHANGED hal2mnld
        \/ \E m \in HalMessage : m.cmd \notin {"START", "STOP", "CLEANUP"} /\ hal2mnld' = Append(hal2mnld, m)
        \/ UpdateNetworkState
    <3>1. CASE AgpsCall
      BY Zenon, <3>1, MessagesToMnld DEF AgpsCall
    <3>2. CASE mtk_gps_inject_location
      BY Zenon, <3>2, MessagesToMnld DEF mtk_gps_inject_location
    <3>3. CASE OpenRaw
      <4>1. PICK x \in DOMAIN RawFlag : hal2mnld' = Append(hal2mnld, Command(x))
        BY Zenon, <3>3 DEF OpenRaw
      <4>2. Command(x) \in HalMessage /\ Command(x).cmd \notin {"START", "STOP", "CLEANUP"}
        BY Zenon, MessagesToMnld DEF RawFlag
      <4> QED BY Zenon, <4>1, <4>2
    <3>4. CASE CloseRaw
      <4>1. hal2mnld' = Append(hal2mnld, Command("close"))
        BY Zenon, <3>4 DEF CloseRaw
      <4>2. Command("close") \in HalMessage /\ Command("close").cmd \notin {"START", "STOP", "CLEANUP"}
        BY Zenon, MessagesToMnld
      <4> QED BY Zenon, <4>1, <4>2
    <3>5. CASE InitRaw \/ mtk_gps_set_position_mode
      BY Zenon, <3>5 DEF InitRaw, mtk_gps_set_position_mode
    <3> QED BY <3>1, <3>2, <3>3, <3>4, <3>5
  <2>3. CASE UpdateNetworkState
    <3>1. PICK new : hal2mnld' = hal2mnld \o agps_ril_update_network_state(nw, new)
      BY Zenon, <2>3 DEF UpdateNetworkState
    <3> QED BY Zenon, <1>1, <3>1, SendNetwork
  <2> QED BY Zenon, <2>1, <2>2, <2>3, SameQueues
<1>4. UNCHANGED <<hal, cond, state, control, view, mnld2hal>>
  BY Zenon DEF AgpsCall, mtk_gps_inject_location, UpdateNetworkState, OpenRaw, InitRaw, CloseRaw,
     mtk_gps_set_position_mode
<1>5. Unnoticed
  BY Zenon, <1>3, <1>4, SameQueues DEF Unnoticed
<1> QED BY Zenon, <1>2, <1>5, UnnoticedSession

\* The steps of the HAL thread in its loop that concern no session.
LEMMA LoopUnnoticed ==
  ASSUME Types, Session, UNCHANGED fw,
         CallBack \/ CheckRaw \/ CallRaw \/ mtk_gps_send_location_to_mnl \/ HAL_CMD_GPS_ICON \/ ReadNmea
  PROVE  Session'
<1>1. QueueType /\ fw.pc # "initFailed"
  BY Zenon DEF Types, Session, Thread
<1>2. SamePlace
  BY Zenon, <1>1 DEF SamePlace, InSession, Over, NoThread, Wanted
<1>3. control' = control /\ started' = started
  BY Zenon DEF CallBack, CheckRaw, CallRaw, mtk_gps_send_location_to_mnl, HAL_CMD_GPS_ICON, ReadNmea
<1>4. Starts' = Starts /\ Stops' = Stops /\ Cleanups' = Cleanups
  <2>1. \/ UNCHANGED hal2mnld
        \/ \E m \in HalMessage : m.cmd \notin {"START", "STOP", "CLEANUP"} /\ hal2mnld' = Append(hal2mnld, m)
    <3>1. CASE ReadNmea
      <4>1. hal2mnld' \in {hal2mnld, Append(hal2mnld, Message("LOG_WRITE", <<"string">>))}
        BY Zenon, <3>1 DEF ReadNmea, mtk_daemon_send
      <4> QED BY Zenon, <4>1, MessagesToMnld
    <3>2. CASE mtk_gps_send_location_to_mnl
      BY Zenon, <3>2, MessagesToMnld DEF mtk_gps_send_location_to_mnl, mtk_daemon_send
    <3>3. CASE CallBack \/ CheckRaw \/ CallRaw \/ HAL_CMD_GPS_ICON
      BY Zenon, <3>3 DEF CallBack, CheckRaw, CallRaw, HAL_CMD_GPS_ICON
    <3> QED BY Zenon, <3>1, <3>2, <3>3
  <2> QED BY Zenon, <1>1, <2>1, SendOne, SameQueues
<1>5. (Deaths' = {} <=> Deaths = {}) /\ (Single(Deaths) => Single(Deaths)')
  <2>1. CASE UNCHANGED mnld2hal
    BY Zenon, <2>1, SameQueues DEF Single
  <2>2. CASE mnld2hal # << >> /\ mnld2hal' = Tail(mnld2hal) /\ Head(mnld2hal).to # "die"
    <3>1. \A i \in Int : i \in Deaths' <=> i >= 1 /\ i + 1 \in Deaths
      BY Zenon, <1>1, <2>2, OneDeath
    <3>2. Deaths \subseteq Int /\ Deaths' \subseteq Int /\ \A i \in Deaths : i >= 2
      BY <1>1, <2>2 DEF Deaths, QueueType
    <3>3. \A i \in Deaths : i - 1 \in Deaths'
      BY <3>1, <3>2
    <3>4. \A i \in Deaths' : i + 1 \in Deaths
      BY Zenon, <3>1, <3>2
    <3>5. Single(Deaths) => Single(Deaths')
      BY Zenon, <3>1, <3>2, ShiftSingle
    <3> QED BY Zenon, <3>3, <3>4, <3>5
  <2>3. UNCHANGED mnld2hal \/ (mnld2hal # << >> /\ mnld2hal' = Tail(mnld2hal) /\ Head(mnld2hal).to # "die")
    BY Zenon DEF CallBack, CheckRaw, CallRaw, mtk_gps_send_location_to_mnl, HAL_CMD_GPS_ICON, ReadNmea, HeadIs, Taken,
       Extensions
  <2> QED BY Zenon, <2>1, <2>2, <2>3
<1>6. /\ engine'.on <=> engine.on
      /\ state'.start_flag <=> state.start_flag
      /\ view'.wakelock <=> view.wakelock
      /\ cond'["M_STOP"] <=> cond["M_STOP"]
      /\ cond'["M_INIT"] <=> cond["M_INIT"]
      /\ cond'["M_CLEANUP"] <=> cond["M_CLEANUP"]
  <2>1. CASE ReadNmea
    <3>1. /\ engine' = [engine EXCEPT !.nmea = FALSE] /\ UNCHANGED view
          /\ \/ UNCHANGED <<cond, state>>
             \/ /\ cond' = [cond EXCEPT !["M_START"] = TRUE]
                /\ state' = [state EXCEPT !.flag_unlock = TRUE]
      BY Zenon, <2>1 DEF ReadNmea, release_condition
    <3> QED BY <3>1 DEF Types, HalType, Locks
  <2>2. CASE HAL_CMD_GPS_ICON
    <3>1. UNCHANGED <<engine, state, cond>> /\ \E x : view' \in {view, [view EXCEPT !.status = x]}
      BY Zenon, <2>2 DEF HAL_CMD_GPS_ICON
    <3> QED BY Zenon, <3>1 DEF Types, HalType
  <2>3. CASE CallBack \/ CheckRaw \/ CallRaw \/ mtk_gps_send_location_to_mnl
    BY Zenon, <2>3 DEF CallBack, CheckRaw, CallRaw, mtk_gps_send_location_to_mnl
  <2> QED BY Zenon, <2>1, <2>2, <2>3
<1>7. hal'.pc = hal.pc \/ (hal.pc \in InLoop /\ hal'.pc \in InLoop)
  <2>1. CASE CallBack
    BY <2>1 DEF CallBack, InLoop, HeadIs
  <2>2. CASE CheckRaw
    <3>1. hal.pc = "loop" /\ Head(mnld2hal).to \in {"measurement", "navigation", "nobody"}
      BY Zenon, <2>2 DEF CheckRaw, HeadIs
    <3>2. hal' = hal \/ (Head(mnld2hal).to # "nobody" /\ hal' = [pc |-> Head(mnld2hal).to])
      BY Zenon, <2>2 DEF CheckRaw
    <3> QED BY <3>1, <3>2 DEF InLoop
  <2>3. CASE CallRaw
    BY Zenon, <2>3 DEF CallRaw, InLoop
  <2>4. CASE mtk_gps_send_location_to_mnl \/ HAL_CMD_GPS_ICON \/ ReadNmea
    BY Zenon, <2>4 DEF mtk_gps_send_location_to_mnl, HAL_CMD_GPS_ICON, ReadNmea
  <2> QED BY Zenon, <2>1, <2>2, <2>3, <2>4
<1>8. Unnoticed
  BY Zenon, <1>3, <1>4, <1>5, <1>6, <1>7 DEF Unnoticed
<1> QED BY Zenon, <1>2, <1>8, UnnoticedSession

\* The EPO thread, the engine delivering data, and the messages MNLD sends of its own accord.
LEMMA OthersUnnoticed ==
  ASSUME Types, Session, UNCHANGED <<started, fw, hal, state, control, view>>,
         \/ UNCHANGED <<engine, hal2mnld, mnld2hal>>
            /\ (cond' = cond \/ cond' = [cond EXCEPT !["M_THREAD_EXIT"] = TRUE])
         \/ (Engine \/ MnldSends) /\ UNCHANGED cond
  PROVE  Session'
<1>1. QueueType /\ fw.pc # "initFailed"
  BY Zenon DEF Types, Session, Thread
<1>2. SamePlace
  BY Zenon, <1>1 DEF SamePlace, InSession, Over, NoThread, Wanted
<1>3. Deaths' = Deaths /\ UNCHANGED hal2mnld
  <2>1. CASE MnldSends
    <3>1. PICK m \in Messages : mnld2hal' = mnld2hal \/ mnld2hal' = Append(mnld2hal, m)
      BY Zenon, <2>1 DEF MnldSends, ToHal
    <3>2. m \in MnldMessage /\ m.to # "die"
      BY Zenon, MessagesFromMnld
    <3> QED BY Zenon, <1>1, <2>1, <3>1, <3>2, OneDeath, SameQueues DEF MnldSends
  <2>2. CASE UNCHANGED <<hal2mnld, mnld2hal>>
    BY Zenon, <2>2, SameQueues
  <2> QED BY Zenon, <2>1, <2>2 DEF Engine
<1>4. engine'.on <=> engine.on
  BY Zenon DEF Engine, MnldSends, Types, HalType
<1>5. /\ cond'["M_STOP"] <=> cond["M_STOP"]
      /\ cond'["M_INIT"] <=> cond["M_INIT"]
      /\ cond'["M_CLEANUP"] <=> cond["M_CLEANUP"]
  BY DEF Types, HalType, Locks
<1>6. Unnoticed
  BY Zenon, <1>3, <1>4, <1>5, SameQueues DEF Unnoticed
<1> QED BY Zenon, <1>2, <1>6, UnnoticedSession

\* A control command is behind all others: the last order is still what the framework
\* wants, whether it is this one or an earlier one.
LEMMA NewOrder ==
  ASSUME QueueType, Orders, NEW c \in ControlCmd, control' = Append(control, c), started' <=> started,
         IF c \in SessionCommand THEN c = "CMD_START" <=> Wanted' ELSE Wanted <=> Wanted'
  PROVE  /\ Orders'
         /\ Quits' = IF c = "CMD_QUIT" THEN Quits \union {Len(control) + 1} ELSE Quits
         /\ Len(control') = Len(control) + 1
<1>1. control \in Seq(ControlCmd)
  BY Zenon DEF QueueType
<1>2. /\ Len(control') = Len(control) + 1 /\ Len(control) \in Nat
      /\ control'[Len(control) + 1] = c
      /\ \A i \in 1 .. Len(control) : control'[i] = control[i]
  BY <1>1
<1>3. 1 .. Len(control') = (1 .. Len(control)) \union {Len(control) + 1}
  BY <1>2
<1>4. Quits' = IF c = "CMD_QUIT" THEN Quits \union {Len(control) + 1} ELSE Quits
  BY Zenon, <1>2, <1>3 DEF Quits
<1>5. \A i \in 0 .. Len(control) : NoOrderAfter(i)' <=> NoOrderAfter(i) /\ c \notin SessionCommand
  BY <1>2 DEF NoOrderAfter
<1>6. CASE c \in SessionCommand
  <2>1. \A i \in 0 .. Len(control) : ~ NoOrderAfter(i)'
    BY Zenon, <1>5, <1>6
  <2>2. c = "CMD_START" <=> Wanted'
    BY Zenon, <1>6
  <2>3. Orders'
    BY <1>2, <1>3, <2>1, <2>2 DEF Orders
  <2> QED BY Zenon, <1>2, <1>4, <2>3
<1>7. CASE c \notin SessionCommand
  <2>1. Wanted <=> Wanted'
    BY Zenon, <1>7
  <2>2. \A i \in 0 .. Len(control) : NoOrderAfter(i)' <=> NoOrderAfter(i)
    BY Zenon, <1>5, <1>7
  <2>3. Orders'
    BY <1>2, <1>3, <1>7, <2>1, <2>2 DEF Orders
  <2> QED BY <1>2, <1>4, <2>3
<1> QED BY Zenon, <1>6, <1>7

\* The HAL thread takes the first command.
LEMMA NextOrder ==
  ASSUME QueueType, Orders, control # << >>, control' = Tail(control), Wanted <=> Wanted',
         IF Head(control) \in SessionCommand THEN started' <=> Head(control) = "CMD_START" ELSE started' <=> started
  PROVE  /\ Orders'
         /\ \A i \in Int : i \in Quits' <=> i >= 1 /\ i + 1 \in Quits
         /\ Len(control') = Len(control) - 1 /\ Len(control) >= 1
<1>1. control \in Seq(ControlCmd)
  BY Zenon DEF QueueType
<1>2. /\ Len(control') = Len(control) - 1 /\ Len(control) \in Nat \ {0} /\ Head(control) = control[1]
      /\ \A i \in 1 .. Len(control) - 1 : control'[i] = control[i + 1]
  BY <1>1
<1>3. \A i \in Int : i \in Quits' <=> i >= 1 /\ i + 1 \in Quits
  BY <1>2 DEF Quits
<1>4. \A i \in 0 .. Len(control') : NoOrderAfter(i)' <=> NoOrderAfter(i + 1)
  <2> SUFFICES ASSUME NEW i \in 0 .. Len(control') PROVE NoOrderAfter(i)' <=> NoOrderAfter(i + 1)
    BY Zenon
  <2>1. ASSUME NoOrderAfter(i)', NEW j \in i + 2 .. Len(control) PROVE control[j] \notin SessionCommand
    <3>1. j - 1 \in i + 1 .. Len(control') /\ j - 1 \in 1 .. Len(control) - 1 /\ (j - 1) + 1 = j
      BY <1>2
    <3>2. control'[j - 1] = control[j]
      BY Zenon, <1>2, <3>1
    <3>3. control'[j - 1] \notin SessionCommand
      BY Zenon, <2>1, <3>1 DEF NoOrderAfter
    <3> QED BY Zenon, <3>2, <3>3
  <2>2. ASSUME NoOrderAfter(i + 1), NEW j \in i + 1 .. Len(control') PROVE control'[j] \notin SessionCommand
    <3>1. j + 1 \in (i + 1) + 1 .. Len(control) /\ j \in 1 .. Len(control) - 1
      BY <1>2
    <3> QED BY Zenon, <1>2, <2>2, <3>1 DEF NoOrderAfter
  <2>3. (i + 1) + 1 = i + 2
    BY <1>2
  <2> QED BY Zenon, <2>1, <2>2, <2>3 DEF NoOrderAfter
<1>5. NoOrderAfter(0)' => (started' <=> Wanted')
  <2>1. NoOrderAfter(0)' <=> NoOrderAfter(1)
    <3>1. 0 \in 0 .. Len(control') /\ 0 + 1 = 1
      BY <1>2
    <3> QED BY Zenon, <1>4, <3>1
  <2>2. CASE Head(control) \in SessionCommand
    <3>1. NoOrderAfter(1) => (control[1] = "CMD_START" <=> Wanted)
      BY <1>2, <2>2 DEF Orders
    <3> QED BY Zenon, <1>2, <2>1, <2>2, <3>1
  <2>3. CASE Head(control) \notin SessionCommand
    <3>1. NoOrderAfter(1) => NoOrderAfter(0)
      BY <1>2, <2>3 DEF NoOrderAfter
    <3> QED BY Zenon, <2>1, <2>3, <3>1 DEF Orders
  <2> QED BY Zenon, <2>2, <2>3
<1>6. ASSUME NEW i \in 1 .. Len(control'), control'[i] \in SessionCommand, NoOrderAfter(i)'
      PROVE  control'[i] = "CMD_START" <=> Wanted'
  <2>1. i + 1 \in 1 .. Len(control) /\ control'[i] = control[i + 1] /\ i \in 0 .. Len(control')
    BY <1>2
  <2>2. NoOrderAfter(i + 1)
    BY Zenon, <1>4, <1>6, <2>1
  <2> QED BY Zenon, <1>6, <2>1, <2>2 DEF Orders
<1> QED BY <1>2, <1>3, <1>5, <1>6 DEF Orders

\* gps_state_init: a new thread, before which nothing of a session is left.
LEMMA gps_state_initSession ==
  ASSUME Types, Session, ~trouble', UNCHANGED <<started, engine>>, gps_state_init
  PROVE  Session'
<1>1. /\ fw.pc = "init" /\ fw' = [fw EXCEPT !.pc = "waitInit"] /\ hal' = [pc |-> "setup"]
      /\ control' = << >> /\ mnld2hal' = << >> /\ hal2mnld' = Append(hal2mnld, Command("INIT"))
      /\ UNCHANGED <<cond, state, view>>
  BY Zenon DEF gps_state_init, At, Goto, Fault, mtk_daemon_send
<1>2. fw.user = "none" /\ fw'.user = "none" /\ fw'.pc = "waitInit" /\ hal'.pc = "setup"
  BY Zenon, <1>1 DEF Types, FwType, StartCall, CleanupCall, RunningCall
<1>3. Starts' = Starts /\ Stops' = Stops /\ Cleanups' = Cleanups
  <2>1. Command("INIT") \in HalMessage /\ Command("INIT").cmd = "INIT"
    BY Zenon, MessagesToMnld
  <2> QED BY Zenon, <1>1, <2>1, SendOne DEF Types
<1>4. Deaths' = {} /\ Quits' = {} /\ Deaths = {} /\ Stops = {} /\ hal.pc = "none" /\ control = << >>
  BY <1>1, <1>2 DEF Deaths, Quits, Session, Waited, Thread, Over, NoThread
<1>5. Commanded'
  BY Zenon, <1>3 DEF Session, Commanded
<1>6. Ending'
  BY Zenon, <1>2, <1>4 DEF Ending, Single, Dying
<1>7. Flags'
  BY Zenon, <1>1, <1>2, <1>3, <1>4 DEF Session, Flags, InSession, StartCall, Up, Dying
<1>8. Waited'
  BY Zenon, <1>1, <1>2, <1>3, <1>4 DEF Session, Waited, Over
<1>9. Thread'
  BY Zenon, <1>1, <1>2, <1>4 DEF Session, Thread, NoThread
<1>10. Orders'
  BY Zenon, <1>1, <1>2, <1>4 DEF Session, Orders, Wanted, NoOrderAfter
<1> QED BY Zenon, <1>5, <1>6, <1>7, <1>8, <1>9, <1>10 DEF Session

\* mtk_gps_init goes on when the thread has released M_INIT.
LEMMA mtk_gps_initSession ==
  ASSUME Types, Session, UNCHANGED <<started, engine>>, mtk_gps_init
  PROVE  Session'
<1>1. /\ fw.pc = "waitInit" /\ fw' = [fw EXCEPT !.pc = "epoCreate"] /\ cond["M_INIT"]
      /\ cond' = [cond EXCEPT !["M_INIT"] = FALSE] /\ state' = [state EXCEPT !.init = TRUE]
      /\ UNCHANGED <<hal, control, view, hal2mnld, mnld2hal>>
  BY Zenon DEF mtk_gps_init, At, Goto, get_condition
<1>2. fw.user = "none" /\ fw'.user = "none" /\ fw'.pc = "epoCreate"
  BY Zenon, <1>1 DEF Types, FwType, StartCall, CleanupCall, RunningCall
<1>3. /\ state'.start_flag = state.start_flag /\ cond'["M_STOP"] = cond["M_STOP"]
      /\ cond'["M_CLEANUP"] = cond["M_CLEANUP"] /\ ~cond'["M_INIT"]
  BY Zenon, <1>1 DEF Types, HalType, Locks
<1>4. Starts' = Starts /\ Stops' = Stops /\ Cleanups' = Cleanups /\ Deaths' = Deaths /\ Quits' = Quits
  BY Zenon, <1>1, SameQueues DEF Quits
<1>5. Commanded' /\ Ending'
  BY Zenon, <1>1, <1>4 DEF Session, Commanded, Ending, Dying, Single
<1>6. Flags'
  BY Zenon, <1>1, <1>2, <1>3, <1>4 DEF Session, Flags, InSession, StartCall, Up, Dying
<1>7. Waited'
  BY Zenon, <1>1, <1>2, <1>3, <1>4 DEF Session, Waited, Over
<1>8. Thread'
  BY Zenon, <1>1, <1>2, <1>3, <1>4 DEF Session, Thread, NoThread
<1>9. Orders'
  BY Zenon, <1>1, <1>2 DEF Session, Orders, Wanted, NoOrderAfter
<1> QED BY <1>5, <1>6, <1>7, <1>8, <1>9 DEF Session

\* mtk_gps_start begins when the last session is over: MNL_CMD_START follows no other.
LEMMA mtk_startSession ==
  ASSUME Types, Session, UNCHANGED <<started, engine>>, mtk_start
  PROVE  Session'
<1>1. fw.pc = "start" /\ ~state.start_flag /\ UNCHANGED <<hal, cond, state, control, view, mnld2hal>>
  BY Zenon DEF mtk_start, At
<1>2. fw.user = "ready"
  BY Zenon, <1>1 DEF Types, FwType, InitCall, RunningCall
<1>3. CASE fw' = [fw EXCEPT !.pc = "idle", !.user = "ready"] /\ UNCHANGED hal2mnld
  <2>1. fw'.user = "ready" /\ fw'.pc = "idle"
    BY Zenon, <1>3 DEF Types, FwType
  <2>2. SamePlace
    BY Zenon, <1>1, <1>2, <2>1 DEF SamePlace, InSession, Over, NoThread, Wanted, StartCall
  <2>3. Unnoticed
    BY Zenon, <1>1, <1>3, SameQueues DEF Unnoticed
  <2> QED BY Zenon, <2>2, <2>3, UnnoticedSession
<1>4. CASE fw' = [fw EXCEPT !.pc = "startEpo"] /\ hal2mnld' = Append(hal2mnld, Command("START"))
  <2>1. fw'.user = "ready" /\ fw'.pc = "startEpo"
    BY Zenon, <1>2, <1>4 DEF Types, FwType
  <2>2. Stops = {} /\ Starts = {} /\ ~engine.on /\ Deaths = {} /\ ~Dying /\ ~view.wakelock
    BY Zenon, <1>1, <1>2 DEF Session, Flags, InSession, StartCall, Up
  <2>3. /\ Starts' = {Len(hal2mnld) + 1} /\ Stops' = Stops /\ Cleanups' = Cleanups /\ Deaths' = Deaths
        /\ Quits' = Quits
    <3>1. Command("START") \in HalMessage /\ Command("START").cmd = "START"
      BY Zenon, MessagesToMnld
    <3> QED BY <1>1, <1>4, <2>2, <3>1, SendOne, SameQueues DEF Types, Quits
  <2>4. Commanded'
    <3>1. \A i \in Cleanups : i <= Len(hal2mnld) /\ i \in Int
      BY DEF Cleanups, Types, QueueType
    <3>2. Len(hal2mnld) \in Nat
      BY DEF Types, QueueType
    <3> QED BY <2>2, <2>3, <3>1, <3>2 DEF Commanded, Single
  <2>5. Ending'
    BY Zenon, <1>1, <2>2, <2>3 DEF Ending, Single, Dying
  <2>6. Flags'
    BY Zenon, <1>1, <2>1, <2>2, <2>3 DEF Flags, InSession, StartCall, Up, Dying
  <2>7. Waited'
    BY Zenon, <1>1, <2>1, <2>3 DEF Session, Waited, Over
  <2>8. Thread'
    BY Zenon, <1>1, <1>2, <2>1, <2>3 DEF Session, Thread, NoThread
  <2>9. Orders'
    BY Zenon, <1>1, <1>2, <2>1 DEF Session, Orders, Wanted, NoOrderAfter
  <2> QED BY Zenon, <2>4, <2>5, <2>6, <2>7, <2>8, <2>9 DEF Session
<1> QED BY Zenon, <1>3, <1>4 DEF mtk_start, Goto, Return, mtk_daemon_send

\* CMD_START, which the thread will follow.
LEMMA gps_state_startSession ==
  ASSUME Types, Session, UNCHANGED <<started, engine>>, gps_state_start
  PROVE  Session'
<1>1. /\ fw.pc = "cmdStart" /\ fw' = [fw EXCEPT !.pc = "announce"] /\ control' = Append(control, "CMD_START")
      /\ UNCHANGED <<hal, cond, state, view, hal2mnld, mnld2hal>>
  BY Zenon DEF gps_state_start, At, Goto
<1>2. fw.user = "ready" /\ fw'.user = "ready" /\ fw'.pc = "announce"
  BY Zenon, <1>1 DEF Types, FwType, InitCall, RunningCall
<1>3. Starts' = Starts /\ Stops' = Stops /\ Cleanups' = Cleanups /\ Deaths' = Deaths
  BY Zenon, <1>1, SameQueues
<1>4. Orders' /\ Quits' = Quits
  <2>1. Wanted'
    BY Zenon, <1>2 DEF Wanted
  <2>2. "CMD_START" \in ControlCmd /\ "CMD_START" \in SessionCommand
    BY Zenon DEF ControlCmd, SessionCommand
  <2> QED BY Zenon, <1>1, <2>1, <2>2, NewOrder DEF Types, Session
<1>5. Commanded' /\ Ending'
  BY Zenon, <1>1, <1>3 DEF Session, Commanded, Ending, Dying, Single
<1>6. Flags'
  BY Zenon, <1>1, <1>2, <1>3 DEF Session, Flags, InSession, StartCall, Up, Dying
<1>7. Waited'
  BY Zenon, <1>1, <1>2, <1>3 DEF Session, Waited, Over
<1>8. Thread'
  BY Zenon, <1>1, <1>2, <1>4 DEF Session, Thread, NoThread
<1> QED BY Zenon, <1>4, <1>5, <1>6, <1>7, <1>8 DEF Session

\* The wake lock, taken with the news that a session begins.
LEMMA AnnounceStartSession ==
  ASSUME Types, Session, UNCHANGED <<started, engine>>, AnnounceStart
  PROVE  Session'
<1>1. /\ fw.pc = "announce" /\ fw' = [fw EXCEPT !.pc = "startFlag"] /\ view'.wakelock
      /\ UNCHANGED <<hal, cond, state, control, hal2mnld, mnld2hal>>
  BY Zenon DEF AnnounceStart, At, Goto
<1>2. fw.user = "ready" /\ fw'.user = "ready" /\ fw'.pc = "startFlag"
  BY Zenon, <1>1 DEF Types, FwType, InitCall, RunningCall
<1>3. Starts' = Starts /\ Stops' = Stops /\ Cleanups' = Cleanups /\ Deaths' = Deaths /\ Quits' = Quits
  BY Zenon, <1>1, SameQueues DEF Quits
<1>4. Commanded' /\ Ending'
  BY Zenon, <1>1, <1>3 DEF Session, Commanded, Ending, Dying, Single
<1>5. Flags'
  BY Zenon, <1>1, <1>2, <1>3 DEF Session, Flags, InSession, StartCall, Up, Dying
<1>6. Waited'
  BY Zenon, <1>1, <1>2, <1>3 DEF Session, Waited, Over
<1>7. Thread'
  BY Zenon, <1>1, <1>2, <1>3 DEF Session, Thread, NoThread
<1>8. Orders'
  BY Zenon, <1>1, <1>2 DEF Session, Orders, Wanted, NoOrderAfter
<1> QED BY <1>4, <1>5, <1>6, <1>7, <1>8 DEF Session

\* start_flag is set last; M_STOP of an earlier session is taken back.
LEMMA mtk_gps_startSession ==
  ASSUME Types, Session, UNCHANGED <<started, engine>>, mtk_gps_start
  PROVE  Session'
<1>1. /\ fw.pc = "startFlag" /\ fw' = [fw EXCEPT !.pc = "idle", !.user = "running"]
      /\ cond' = [cond EXCEPT !["M_STOP"] = FALSE] /\ state' = [state EXCEPT !.start_flag = TRUE]
      /\ UNCHANGED <<hal, control, view, hal2mnld, mnld2hal>>
  BY Zenon DEF mtk_gps_start, At, Return, ClearStop
<1>2. fw.user = "ready" /\ fw'.user = "running" /\ fw'.pc = "idle"
  BY Zenon, <1>1 DEF Types, FwType, InitCall, RunningCall
<1>3. /\ state'.start_flag /\ ~cond'["M_STOP"] /\ cond'["M_INIT"] = cond["M_INIT"]
      /\ cond'["M_CLEANUP"] = cond["M_CLEANUP"]
  BY Zenon, <1>1 DEF Types, HalType, Locks
<1>4. Starts' = Starts /\ Stops' = Stops /\ Cleanups' = Cleanups /\ Deaths' = Deaths /\ Quits' = Quits
  BY Zenon, <1>1, SameQueues DEF Quits
<1>5. Commanded' /\ Ending'
  BY Zenon, <1>1, <1>4 DEF Session, Commanded, Ending, Dying, Single
<1>6. Flags'
  BY Zenon, <1>1, <1>2, <1>3, <1>4 DEF Session, Flags, InSession, StartCall, Up, Dying
<1>7. Waited'
  BY Zenon, <1>2, <1>3 DEF Waited, Over
<1>8. Thread'
  BY Zenon, <1>1, <1>2, <1>3, <1>4 DEF Session, Thread, NoThread
<1>9. Orders'
  BY <1>1, <1>2 DEF Session, Orders, Wanted, NoOrderAfter
<1> QED BY <1>5, <1>6, <1>7, <1>8, <1>9 DEF Session

\* MNL_CMD_STOP, for a session that runs or was asked for.
LEMMA mtk_stopSession ==
  ASSUME Types, Session, ~trouble', UNCHANGED <<started, engine>>, mtk_stop
  PROVE  Session'
<1>1. /\ fw.pc = "stop" /\ fw' = [fw EXCEPT !.pc = "cmdStop"] /\ state.start_flag
      /\ hal2mnld' = Append(hal2mnld, Command("STOP"))
      /\ UNCHANGED <<hal, cond, state, control, view, mnld2hal>>
  BY Zenon DEF mtk_stop, At, Goto, Fault, mtk_daemon_send
<1>2. fw.user = "running" /\ fw'.user = "running" /\ fw'.pc = "cmdStop"
  BY Zenon, <1>1 DEF Types, FwType, InitCall, StartCall, CleanupCall
<1>3. Up /\ Stops = {} /\ Deaths = {} /\ ~Dying /\ view.wakelock
  BY Zenon, <1>1, <1>2 DEF Session, Flags, InSession
<1>4. /\ Starts' = Starts /\ Stops' = {Len(hal2mnld) + 1} /\ Cleanups' = Cleanups /\ Deaths' = Deaths
      /\ Quits' = Quits
  <2>1. Command("STOP") \in HalMessage /\ Command("STOP").cmd = "STOP"
    BY Zenon, MessagesToMnld
  <2> QED BY Zenon, <1>1, <1>3, <2>1, SendOne, SameQueues DEF Types, Quits
<1>5. Commanded'
  <2>1. (\A i \in Starts : i < Len(hal2mnld) + 1) /\ Len(hal2mnld) \in Nat
    BY DEF Starts, Types, QueueType
  <2> QED BY Zenon, <1>1, <1>3, <1>4, <2>1 DEF Session, Commanded, Single, Up
<1>6. Ending'
  BY Zenon, <1>1, <1>3, <1>4 DEF Ending, Single, Dying
<1>7. Flags'
  BY Zenon, <1>1, <1>2, <1>3, <1>4 DEF Flags, InSession, StartCall, Up, Dying
<1>8. Waited'
  BY Zenon, <1>1, <1>2, <1>4 DEF Session, Waited, Over
<1>9. Thread'
  BY Zenon, <1>1, <1>2, <1>4 DEF Session, Thread, NoThread
<1>10. Orders'
  BY Zenon, <1>1, <1>2 DEF Session, Orders, Wanted, NoOrderAfter
<1> QED BY Zenon, <1>5, <1>6, <1>7, <1>8, <1>9, <1>10 DEF Session

\* CMD_STOP, which the thread will follow.
LEMMA gps_state_stopSession ==
  ASSUME Types, Session, UNCHANGED <<started, engine>>, gps_state_stop
  PROVE  Session'
<1>1. /\ fw.pc = "cmdStop" /\ fw' = [fw EXCEPT !.pc = "idle", !.user = "ready"]
      /\ control' = Append(control, "CMD_STOP")
      /\ UNCHANGED <<hal, cond, state, view, hal2mnld, mnld2hal>>
  BY Zenon DEF gps_state_stop, At, Return
<1>2. fw.user = "running" /\ fw'.user = "ready" /\ fw'.pc = "idle"
  BY Zenon, <1>1 DEF Types, FwType, InitCall, StartCall, CleanupCall
<1>3. Starts' = Starts /\ Stops' = Stops /\ Cleanups' = Cleanups /\ Deaths' = Deaths
  BY Zenon, <1>1, SameQueues
<1>4. Orders' /\ Quits' = Quits
  <2>1. ~Wanted'
    BY Zenon, <1>2 DEF Wanted
  <2>2. "CMD_STOP" \in ControlCmd /\ "CMD_STOP" \in SessionCommand
    BY Zenon DEF ControlCmd, SessionCommand
  <2> QED BY Zenon, <1>1, <2>1, <2>2, NewOrder DEF Types, Session
<1>5. Commanded' /\ Ending'
  BY Zenon, <1>1, <1>3 DEF Session, Commanded, Ending, Dying, Single
<1>6. Flags'
  BY Zenon, <1>1, <1>2, <1>3 DEF Session, Flags, InSession, StartCall, Up, Dying
<1>7. Waited'
  BY Zenon, <1>1, <1>2, <1>3 DEF Session, Waited, Over
<1>8. Thread'
  BY Zenon, <1>1, <1>2, <1>4 DEF Session, Thread, NoThread
<1> QED BY Zenon, <1>4, <1>5, <1>6, <1>7, <1>8 DEF Session

\* MNL_CMD_CLEANUP, behind the STOP of a session that has not ended.
LEMMA mtk_cleanupSession ==
  ASSUME Types, Session, ~trouble', UNCHANGED <<started, engine>>, mtk_cleanup
  PROVE  Session'
<1>1. /\ fw.pc = "cleanup" /\ fw' = [fw EXCEPT !.pc = "checkStop"]
      /\ hal2mnld' = Append(hal2mnld, Command("CLEANUP"))
      /\ UNCHANGED <<hal, cond, state, control, view, mnld2hal>>
  BY Zenon DEF mtk_cleanup, At, Goto, Fault, mtk_daemon_send
<1>2. fw.user = "ready" /\ fw'.user = "ready" /\ fw'.pc = "checkStop"
  BY Zenon, <1>1 DEF Types, FwType, InitCall, RunningCall
<1>3. Up <=> Stops # {}
  BY Zenon, <1>1, <1>2 DEF Session, Flags, InSession, StartCall
<1>4. /\ Starts' = Starts /\ Stops' = Stops /\ Cleanups' = Cleanups \union {Len(hal2mnld) + 1}
      /\ Deaths' = Deaths /\ Quits' = Quits
  <2>1. Command("CLEANUP") \in HalMessage /\ Command("CLEANUP").cmd = "CLEANUP"
    BY Zenon, MessagesToMnld
  <2> QED BY Zenon, <1>1, <2>1, SendOne, SameQueues DEF Types, Quits
<1>5. Commanded'
  <2>1. (\A i \in Stops : i < Len(hal2mnld) + 1) /\ Len(hal2mnld) \in Nat
    BY DEF Stops, Types, QueueType
  <2>2. (engine.on \/ Starts # {}) => \E k \in Stops : k < Len(hal2mnld) + 1
    BY Zenon, <1>3, <2>1 DEF Up
  <2> QED BY Zenon, <1>4, <2>2 DEF Session, Commanded
<1>6. Ending'
  BY Zenon, <1>1, <1>4 DEF Session, Ending, Single, Dying
<1>7. Flags'
  BY Zenon, <1>1, <1>2, <1>4 DEF Session, Flags, InSession, StartCall, Up, Dying
<1>8. Waited'
  BY Zenon, <1>1, <1>2, <1>4 DEF Session, Waited, Over
<1>9. Thread'
  BY <1>1, <1>2, <1>4 DEF Session, Thread, NoThread
<1>10. Orders'
  BY Zenon, <1>1, <1>2 DEF Session, Orders, Wanted, NoOrderAfter
<1> QED BY Zenon, <1>5, <1>6, <1>7, <1>8, <1>9, <1>10 DEF Session

\* A cleanup goes on when start_flag is taken back, or when M_STOP says that it will be.
LEMMA CheckStopSession ==
  ASSUME Types, Session, UNCHANGED <<started, engine>>, CheckStop \/ WaitStop
  PROVE  Session'
<1>1. /\ fw.pc \in {"checkStop", "waitStop"} /\ fw'.pc \in {"waitStop", "quit"} /\ fw'.user = fw.user
      /\ UNCHANGED <<hal, state, control, view, hal2mnld, mnld2hal>>
  BY Zenon DEF CheckStop, WaitStop, At, Goto, Types, FwType
<1>2. fw.user = "ready"
  BY Zenon, <1>1 DEF Types, FwType, InitCall, RunningCall
<1>3. /\ cond'["M_STOP"] => cond["M_STOP"]
      /\ cond'["M_INIT"] = cond["M_INIT"] /\ cond'["M_CLEANUP"] = cond["M_CLEANUP"]
  BY DEF CheckStop, WaitStop, get_condition, Types, HalType, Locks
<1>4. Starts' = Starts /\ Stops' = Stops /\ Cleanups' = Cleanups /\ Deaths' = Deaths /\ Quits' = Quits
  BY Zenon, <1>1, SameQueues DEF Quits
<1>5. fw'.pc = "quit" => Stops = {} /\ Deaths = {} /\ hal.pc # "dieStop"
  <2>1. fw'.pc = "quit" => ~state.start_flag \/ cond["M_STOP"]
    BY Zenon DEF CheckStop, WaitStop, Goto, get_condition, Types, FwType
  <2>2. CASE ~state.start_flag
    BY Zenon, <1>1, <1>2, <2>2 DEF Session, Flags, InSession, StartCall, Dying
  <2>3. CASE state.start_flag /\ cond["M_STOP"]
    BY Zenon, <2>3 DEF Session, Waited, Ending, Dying
  <2> QED BY Zenon, <2>1, <2>2, <2>3
<1>6. Commanded' /\ Ending'
  BY Zenon, <1>1, <1>4 DEF Session, Commanded, Ending, Dying, Single
<1>7. Flags'
  BY Zenon, <1>1, <1>2, <1>4 DEF Session, Flags, InSession, StartCall, Up, Dying
<1>8. Waited'
  BY Zenon, <1>1, <1>2, <1>3, <1>4, <1>5 DEF Session, Waited, Over
<1>9. Thread'
  BY Zenon, <1>1, <1>2, <1>3, <1>4 DEF Session, Thread, NoThread
<1>10. Orders'
  BY Zenon, <1>1, <1>2 DEF Session, Orders, Wanted, NoOrderAfter
<1> QED BY <1>6, <1>7, <1>8, <1>9, <1>10 DEF Session

\* CMD_QUIT is the last command.
LEMMA QuitSession ==
  ASSUME Types, Session, UNCHANGED <<started, engine>>, Quit
  PROVE  Session'
<1>1. /\ fw.pc = "quit" /\ fw' = [fw EXCEPT !.pc = "waitCleanup"] /\ control' = Append(control, "CMD_QUIT")
      /\ cond' = [cond EXCEPT !["M_STOP"] = FALSE]
      /\ UNCHANGED <<hal, state, view, hal2mnld, mnld2hal>>
  BY Zenon DEF Quit, At, Goto, ClearStop
<1>2. fw.user = "ready" /\ fw'.user = "ready" /\ fw'.pc = "waitCleanup"
  BY Zenon, <1>1 DEF Types, FwType, InitCall, RunningCall
<1>3. ~cond'["M_STOP"] /\ cond'["M_INIT"] = cond["M_INIT"] /\ cond'["M_CLEANUP"] = cond["M_CLEANUP"]
  BY Zenon, <1>1 DEF Types, HalType, Locks
<1>4. Starts' = Starts /\ Stops' = Stops /\ Cleanups' = Cleanups /\ Deaths' = Deaths
  BY Zenon, <1>1, SameQueues
<1>5. Orders' /\ Quits' = Quits \union {Len(control) + 1} /\ Len(control') = Len(control) + 1
  <2>1. Wanted' <=> Wanted
    BY Zenon, <1>1, <1>2 DEF Wanted
  <2>2. "CMD_QUIT" \in ControlCmd /\ "CMD_QUIT" \notin SessionCommand
    BY Zenon DEF ControlCmd, SessionCommand
  <2> QED BY Zenon, <1>1, <2>1, <2>2, NewOrder DEF Types, Session
<1>6. Quits = {} /\ ~cond["M_CLEANUP"] /\ hal.pc # "none"
  BY Zenon, <1>1, <1>2 DEF Session, Thread, NoThread
<1>7. Commanded' /\ Ending'
  BY Zenon, <1>1, <1>4 DEF Session, Commanded, Ending, Dying, Single
<1>8. Flags'
  BY Zenon, <1>1, <1>2, <1>4 DEF Session, Flags, InSession, StartCall, Up, Dying
<1>9. Waited'
  BY Zenon, <1>1, <1>2, <1>3, <1>4 DEF Session, Waited, Over
<1>10. Thread'
  BY <1>1, <1>2, <1>3, <1>5, <1>6 DEF Session, Thread, NoThread
<1> QED BY <1>5, <1>7, <1>8, <1>9, <1>10 DEF Session

\* The thread has left its loop.
LEMMA gps_state_doneSession ==
  ASSUME Types, Session, UNCHANGED <<started, engine>>, gps_state_done
  PROVE  Session'
<1>1. /\ fw.pc = "waitCleanup" /\ fw' = [fw EXCEPT !.pc = "waitExit"] /\ cond["M_CLEANUP"]
      /\ cond' = [cond EXCEPT !["M_CLEANUP"] = FALSE] /\ control' = << >>
      /\ state' = [state EXCEPT !.init = FALSE, !.exit = TRUE]
      /\ UNCHANGED <<hal, view, hal2mnld, mnld2hal>>
  BY Zenon DEF gps_state_done, At, Goto, get_condition
<1>2. fw.user = "ready" /\ fw'.user = "ready" /\ fw'.pc = "waitExit"
  BY Zenon, <1>1 DEF Types, FwType, InitCall, RunningCall
<1>3. /\ state'.start_flag = state.start_flag /\ cond'["M_STOP"] = cond["M_STOP"]
      /\ cond'["M_INIT"] = cond["M_INIT"] /\ ~cond'["M_CLEANUP"]
  BY Zenon, <1>1 DEF Types, HalType, Locks
<1>4. control = << >> /\ hal.pc = "none" /\ Quits' = {}
  BY <1>1 DEF Session, Thread, Quits
<1>5. Starts' = Starts /\ Stops' = Stops /\ Cleanups' = Cleanups /\ Deaths' = Deaths
  BY Zenon, <1>1, SameQueues
<1>6. Commanded' /\ Ending'
  BY Zenon, <1>1, <1>5 DEF Session, Commanded, Ending, Dying, Single
<1>7. Flags'
  BY Zenon, <1>1, <1>2, <1>3, <1>5 DEF Session, Flags, InSession, StartCall, Up, Dying
<1>8. Waited'
  BY Zenon, <1>1, <1>2, <1>3, <1>5 DEF Session, Waited, Over
<1>9. Thread'
  BY Zenon, <1>1, <1>2, <1>3, <1>4 DEF Session, Thread, NoThread
<1>10. Orders'
  BY <1>1, <1>2, <1>4 DEF Session, Orders, Wanted, NoOrderAfter
<1> QED BY <1>6, <1>7, <1>8, <1>9, <1>10 DEF Session

\* CMD_RESTART is no order of a session.
LEMMA DeleteAidingDataSession ==
  ASSUME Types, Session, UNCHANGED <<started, engine>>, mtk_gps_delete_aiding_data
  PROVE  Session'
<1>1. /\ fw.pc = "idle" /\ fw.user = "running" /\ control' = Append(control, "CMD_RESTART")
      /\ hal2mnld' \in {hal2mnld, Append(hal2mnld, Command("RESTART"))}
      /\ UNCHANGED <<fw, hal, cond, state, view, mnld2hal>>
  BY Zenon DEF mtk_gps_delete_aiding_data, At, mtk_daemon_send
<1>2. Starts' = Starts /\ Stops' = Stops /\ Cleanups' = Cleanups /\ Deaths' = Deaths
  <2>1. Command("RESTART") \in HalMessage /\ Command("RESTART").cmd = "RESTART"
    BY Zenon, MessagesToMnld
  <2> QED BY Zenon, <1>1, <2>1, SendOne, SameQueues DEF Types
<1>3. Orders' /\ Quits' = Quits
  <2>1. Wanted' <=> Wanted
    BY Zenon, <1>1 DEF Wanted
  <2>2. "CMD_RESTART" \in ControlCmd /\ "CMD_RESTART" \notin SessionCommand
    BY Zenon DEF ControlCmd, SessionCommand
  <2> QED BY Zenon, <1>1, <2>1, <2>2, NewOrder DEF Types, Session
<1>4. Commanded' /\ Ending'
  BY Zenon, <1>1, <1>2 DEF Session, Commanded, Ending, Dying, Single
<1>5. Flags'
  BY Zenon, <1>1, <1>2 DEF Session, Flags, InSession, StartCall, Up, Dying
<1>6. Waited'
  BY Zenon, <1>1, <1>2 DEF Session, Waited, Over
<1>7. Thread'
  BY Zenon, <1>1, <1>3 DEF Session, Thread, NoThread
<1> QED BY <1>3, <1>4, <1>5, <1>6, <1>7 DEF Session

\* The thread reaches its loop, and the call of mtk_gps_init waits for that.
LEMMA ThreadSetupSession ==
  ASSUME Types, Session, ~trouble', UNCHANGED fw, ThreadSetup
  PROVE  Session'
<1>1. /\ hal.pc = "setup" /\ hal' = [pc |-> "loop"] /\ cond' = [cond EXCEPT !["M_INIT"] = TRUE]
      /\ UNCHANGED <<fw, state, control, view, engine, hal2mnld, mnld2hal, started>>
  BY Zenon DEF ThreadSetup, Fault, release_condition
<1>2. fw.pc = "waitInit" /\ hal'.pc = "loop"
  BY Zenon, <1>1 DEF Session, Thread
<1>3. cond'["M_STOP"] = cond["M_STOP"] /\ cond'["M_INIT"] /\ cond'["M_CLEANUP"] = cond["M_CLEANUP"]
  BY Zenon, <1>1 DEF Types, HalType, Locks
<1>4. Starts' = Starts /\ Stops' = Stops /\ Cleanups' = Cleanups /\ Deaths' = Deaths /\ Quits' = Quits
  BY Zenon, <1>1, SameQueues DEF Quits
<1>5. ~Dying /\ ~Dying'
  BY Zenon, <1>1, <1>2 DEF Dying
<1>6. Commanded' /\ Ending'
  BY Zenon, <1>1, <1>4, <1>5 DEF Session, Commanded, Ending, Single
<1>7. Flags'
  BY Zenon, <1>1, <1>4, <1>5 DEF Session, Flags, InSession, Up
<1>8. Waited'
  BY Zenon, <1>1, <1>2, <1>3, <1>4 DEF Session, Waited, Over
<1>9. Thread'
  BY Zenon, <1>1, <1>2, <1>3, <1>4 DEF Session, Thread, NoThread
<1>10. Orders'
  BY Zenon, <1>1 DEF Session, Orders, Wanted, NoOrderAfter
<1> QED BY <1>6, <1>7, <1>8, <1>9, <1>10 DEF Session

\* The thread follows a command of the control socket; CMD_QUIT is the last.
LEMMA ControlCommandSession ==
  ASSUME Types, Session, UNCHANGED fw, ControlCommand
  PROVE  Session'
<1>1. /\ hal.pc = "loop" /\ control # << >> /\ control' = Tail(control)
      /\ UNCHANGED <<fw, state, view, engine, hal2mnld>>
      /\ Head(control) = "CMD_QUIT" => /\ hal' = [pc |-> "none"] /\ mnld2hal' = << >>
                                       /\ cond' = [cond EXCEPT !["M_CLEANUP"] = TRUE]
      /\ Head(control) # "CMD_QUIT" => UNCHANGED <<hal, mnld2hal, cond>>
  BY Zenon DEF ControlCommand, release_condition
<1>2. IF Head(control) \in SessionCommand THEN started' <=> Head(control) = "CMD_START" ELSE started' <=> started
  BY Zenon DEF ControlCommand, SessionCommand, Types, HalType
<1>3. /\ Orders' /\ \A i \in Int : i \in Quits' <=> i >= 1 /\ i + 1 \in Quits
      /\ Len(control') = Len(control) - 1 /\ Len(control) >= 1
  <2>1. Wanted <=> Wanted'
    BY Zenon, <1>1 DEF Wanted
  <2>2. QueueType /\ Orders
    BY Zenon DEF Types, Session
  <2> QED BY Zenon, <1>1, <1>2, <2>1, <2>2, NextOrder
<1>4. Starts' = Starts /\ Stops' = Stops /\ Cleanups' = Cleanups
  BY Zenon, <1>1, SameQueues
<1>5. control \in Seq(ControlCmd) /\ Head(control) = control[1] /\ Len(control) \in Nat
  BY <1>1 DEF Types, QueueType
<1>6. ASSUME Head(control) = "CMD_QUIT"
      PROVE  /\ fw.pc = "waitCleanup" /\ Deaths = {} /\ Deaths' = {} /\ control' = << >> /\ Quits' = {} /\ hal'.pc = "none"
             /\ cond'["M_STOP"] = cond["M_STOP"] /\ cond'["M_INIT"] = cond["M_INIT"] /\ cond'["M_CLEANUP"]
  <2>1. 1 \in Quits
    BY <1>3, <1>5, <1>6 DEF Quits
  <2>2. 1 = Len(control) /\ fw.pc = "waitCleanup"
    BY Zenon, <2>1 DEF Session, Thread
  <2>3. control' = << >>
    BY <1>1, <1>5, <2>2
  <2>4. Deaths = {}
    BY Zenon, <2>2 DEF Session, Waited, Over
  <2>5. Deaths' = {} /\ Quits' = {}
    BY <1>1, <1>6, <2>3 DEF Deaths, Quits
  <2>6. cond'["M_STOP"] = cond["M_STOP"] /\ cond'["M_INIT"] = cond["M_INIT"] /\ cond'["M_CLEANUP"] = TRUE
    BY Zenon, <1>1, <1>6 DEF Types, HalType, Locks
  <2> QED BY <1>1, <1>6, <2>2, <2>3, <2>4, <2>5, <2>6
<1>7. Deaths' = Deaths
  BY <1>1, <1>6, SameQueues, Zenon
<1>8. ~Dying /\ ~Dying'
  BY Zenon, <1>1, <1>6 DEF Dying
<1>9. Commanded' /\ Ending'
  BY Zenon, <1>1, <1>4, <1>7, <1>8 DEF Session, Commanded, Ending, Single
<1>10. Flags'
  BY Zenon, <1>1, <1>4, <1>7, <1>8 DEF Session, Flags, InSession, Up
<1>11. Waited'
  BY Zenon, <1>1, <1>4, <1>6, <1>7 DEF Session, Waited, Over
<1>12. Thread'
  <2>1. CASE Head(control) = "CMD_QUIT"
    BY Zenon, <1>1, <1>6, <2>1 DEF Session, Thread, NoThread
  <2>2. CASE Head(control) # "CMD_QUIT"
    <3>1. \A i \in Quits' : i = Len(control') /\ fw'.pc = "waitCleanup"
      <4> SUFFICES ASSUME NEW i \in Quits' PROVE i = Len(control') /\ fw'.pc = "waitCleanup"
        BY Zenon
      <4>1. i \in Int
        BY DEF Quits
      <4>2. i + 1 = Len(control) /\ fw.pc = "waitCleanup"
        BY Zenon, <1>3, <4>1 DEF Session, Thread
      <4>3. Len(control') = Len(control) - 1 /\ fw' = fw
        BY Zenon, <1>1, <1>3
      <4>4. i = Len(control')
        BY <1>5, <4>1, <4>2, <4>3
      <4> QED BY Zenon, <4>2, <4>3, <4>4
    <3>2. UNCHANGED <<hal, cond>>
      BY Zenon, <1>1, <2>2
    <3> QED BY Zenon, <1>1, <3>1, <3>2 DEF Session, Thread, NoThread
  <2> QED BY Zenon, <2>1, <2>2
<1> QED BY Zenon, <1>3, <1>9, <1>10, <1>11, <1>12 DEF Session

\* HAL_CMD_MNL_DIE: the end of the session, on its way from the socket to start_flag.
LEMMA MnlDieSession ==
  ASSUME Types, Session, UNCHANGED fw, HAL_CMD_MNL_DIE
  PROVE  Session'
<1>1. /\ hal.pc = "loop" /\ mnld2hal # << >> /\ mnld2hal' = Tail(mnld2hal) /\ Head(mnld2hal).to = "die"
      /\ hal' = [pc |-> "dieStop"] /\ state' = [state EXCEPT !.flag_unlock = FALSE]
      /\ view' = [view EXCEPT !.status = "ENGINE_OFF"]
      /\ UNCHANGED <<fw, cond, control, engine, hal2mnld, started>>
  BY Zenon DEF HAL_CMD_MNL_DIE, HeadIs, Taken
<1>2. state'.start_flag = state.start_flag /\ view'.wakelock = view.wakelock /\ hal'.pc = "dieStop"
  BY Zenon, <1>1 DEF Types, HalType
<1>3. Starts' = Starts /\ Stops' = Stops /\ Cleanups' = Cleanups /\ Quits' = Quits
  BY Zenon, <1>1, SameQueues DEF Quits
<1>4. 1 \in Deaths
  <2>1. mnld2hal \in Seq(MnldMessage)
    BY Zenon DEF Types, QueueType
  <2>2. Head(mnld2hal) = mnld2hal[1] /\ 1 \in 1 .. Len(mnld2hal)
    BY <1>1, <2>1
  <2> QED BY Zenon, <1>1, <2>2 DEF Deaths
<1>5. Deaths' = {}
  <2>1. \A i \in Deaths : i = 1
    BY Zenon, <1>4 DEF Session, Ending, Single
  <2>2. \A i \in Int : i \in Deaths' <=> i >= 1 /\ i + 1 \in Deaths
    BY Zenon, <1>1, OneDeath DEF Types
  <2>3. \A i \in Deaths' : i \in Int
    BY DEF Deaths
  <2> QED BY <2>1, <2>2, <2>3
<1>6. ~InSession /\ Stops = {} /\ ~Over /\ state.start_flag /\ ~cond["M_STOP"]
  BY Zenon, <1>1, <1>4 DEF Session, Flags, Ending, Waited
<1>7. Dying'
  BY Zenon, <1>2 DEF Dying
<1>8. Commanded' /\ Ending'
  BY Zenon, <1>1, <1>3, <1>5, <1>6 DEF Session, Commanded, Ending, Single
<1>9. Flags'
  BY <1>1, <1>2, <1>3, <1>4, <1>6, <1>7 DEF Session, Flags, InSession, Up
<1>10. Waited'
  BY Zenon, <1>1, <1>6 DEF Waited, Over
<1>11. Thread'
  BY Zenon, <1>1, <1>2, <1>3 DEF Session, Thread, NoThread
<1>12. Orders'
  BY Zenon, <1>1 DEF Session, Orders, Wanted, NoOrderAfter
<1> QED BY <1>8, <1>9, <1>10, <1>11, <1>12 DEF Session

\* M_STOP is released and then start_flag taken back.
LEMMA DieStopSession ==
  ASSUME Types, Session, UNCHANGED fw, DieStop \/ DieFlag
  PROVE  Session'
<1>1. /\ UNCHANGED <<fw, control, engine, hal2mnld, mnld2hal, started>>
      /\ \/ /\ hal.pc = "dieStop" /\ hal' = [pc |-> "dieFlag"]
            /\ cond' = [cond EXCEPT !["M_STOP"] = TRUE] /\ UNCHANGED <<state, view>>
         \/ /\ hal.pc = "dieFlag" /\ hal' = [pc |-> "loop"] /\ UNCHANGED cond
            /\ view' = [view EXCEPT !.wakelock = FALSE] /\ state' = [state EXCEPT !.start_flag = FALSE]
  BY Zenon DEF DieStop, DieFlag, release_condition
<1>2. Starts' = Starts /\ Stops' = Stops /\ Cleanups' = Cleanups /\ Deaths' = Deaths /\ Quits' = Quits
  BY Zenon, <1>1, SameQueues DEF Quits
<1>3. Dying /\ ~InSession /\ Stops = {} /\ Deaths = {}
  BY Zenon, <1>1 DEF Session, Flags, Ending, Dying
<1>4. cond'["M_INIT"] = cond["M_INIT"] /\ cond'["M_CLEANUP"] = cond["M_CLEANUP"]
  BY Zenon, <1>1 DEF Types, HalType, Locks
<1>5. /\ hal'.pc \in {"dieFlag", "loop"}
      /\ hal'.pc = "dieFlag" => UNCHANGED <<state, view>>
      /\ hal'.pc = "loop" => ~state'.start_flag /\ ~view'.wakelock
  BY <1>1 DEF Types, HalType
<1>6. Commanded' /\ Ending'
  BY Zenon, <1>1, <1>2, <1>3 DEF Session, Commanded, Ending, Single
<1>7. Flags'
  BY Zenon, <1>1, <1>2, <1>3, <1>5 DEF Session, Flags, InSession, Up, Dying
<1>8. Waited'
  BY Zenon, <1>1, <1>2, <1>3, <1>5 DEF Session, Waited, Over
<1>9. Thread'
  BY Zenon, <1>1, <1>2, <1>4, <1>5 DEF Session, Thread, NoThread
<1>10. Orders'
  BY Zenon, <1>1 DEF Session, Orders, Wanted, NoOrderAfter
<1> QED BY <1>6, <1>7, <1>8, <1>9, <1>10 DEF Session

\* MNLD takes the first message: the others move up.
LEMMA NextMessage ==
  ASSUME QueueType, hal2mnld # << >>, hal2mnld' = Tail(hal2mnld)
  PROVE  /\ \A i \in Int : i \in Starts' <=> i >= 1 /\ i + 1 \in Starts
         /\ \A i \in Int : i \in Stops' <=> i >= 1 /\ i + 1 \in Stops
         /\ \A i \in Int : i \in Cleanups' <=> i >= 1 /\ i + 1 \in Cleanups
         /\ 1 \in Starts <=> Head(hal2mnld).cmd = "START"
         /\ 1 \in Stops <=> Head(hal2mnld).cmd = "STOP"
         /\ 1 \in Cleanups <=> Head(hal2mnld).cmd = "CLEANUP"
<1>1. hal2mnld \in Seq(HalMessage)
  BY Zenon DEF QueueType
<1>2. /\ Len(hal2mnld') = Len(hal2mnld) - 1 /\ Len(hal2mnld) \in Nat \ {0} /\ Head(hal2mnld) = hal2mnld[1]
      /\ \A i \in 1 .. Len(hal2mnld) - 1 : hal2mnld'[i] = hal2mnld[i + 1]
  BY <1>1
<1>3. \A i \in Int : i \in Starts' <=> i >= 1 /\ i + 1 \in Starts
  BY <1>2 DEF Starts
<1>4. \A i \in Int : i \in Stops' <=> i >= 1 /\ i + 1 \in Stops
  BY <1>2 DEF Stops
<1>5. \A i \in Int : i \in Cleanups' <=> i >= 1 /\ i + 1 \in Cleanups
  BY <1>2 DEF Cleanups
<1>6. /\ 1 \in Starts <=> Head(hal2mnld).cmd = "START"
      /\ 1 \in Stops <=> Head(hal2mnld).cmd = "STOP"
      /\ 1 \in Cleanups <=> Head(hal2mnld).cmd = "CLEANUP"
  BY <1>2 DEF Starts, Stops, Cleanups
<1> QED BY Zenon, <1>3, <1>4, <1>5, <1>6

\* MNLD takes a START: the engine runs.
LEMMA MnldStarts ==
  ASSUME Types, Session, UNCHANGED <<fw, hal, cond, state, control, view, started, mnld2hal>>,
         hal2mnld # << >>, hal2mnld' = Tail(hal2mnld), Head(hal2mnld).cmd = "START", engine'.on
  PROVE  Session'
<1>1. /\ \A i \in Int : i \in Starts' <=> i >= 1 /\ i + 1 \in Starts
      /\ \A i \in Int : i \in Stops' <=> i >= 1 /\ i + 1 \in Stops
      /\ \A i \in Int : i \in Cleanups' <=> i >= 1 /\ i + 1 \in Cleanups
      /\ 1 \in Starts /\ 1 \notin Stops
  BY Zenon, NextMessage DEF Types
<1>2. /\ \A i \in Starts \union Stops \union Cleanups : i \in Int /\ i >= 1
      /\ \A i \in Starts' \union Stops' \union Cleanups' : i \in Int /\ i >= 1
  BY DEF Starts, Stops, Cleanups
<1>3. Starts' = {} /\ ~engine.on
  BY <1>1, <1>2 DEF Session, Commanded, Single
<1>4. Stops' = {} <=> Stops = {}
  <2>1. ASSUME NEW i \in Stops PROVE i - 1 \in Stops'
    <3>1. i \in Int /\ i > 1
      BY <1>1, <1>2
    <3>2. i - 1 \in Int /\ i - 1 >= 1 /\ (i - 1) + 1 = i
      BY <3>1
    <3> QED BY Zenon, <1>1, <3>2
  <2> QED BY Zenon, <1>1, <1>2, <2>1
<1>5. Single(Stops')
  <2>1. Single(Stops) /\ Stops' \subseteq Int
    BY Zenon, <1>2 DEF Session, Commanded
  <2> QED BY Zenon, <1>1, <2>1, ShiftSingle
<1>6. \A i \in Cleanups' : \E k \in Stops' : k < i
  <2> SUFFICES ASSUME NEW i \in Cleanups' PROVE \E k \in Stops' : k < i
    BY Zenon
  <2>1. i \in Int /\ i >= 1 /\ i + 1 \in Cleanups /\ 1 < i + 1
    BY <1>1, <1>2
  <2>2. PICK k \in Stops : k < i + 1
    BY Zenon, <1>1, <2>1 DEF Session, Commanded
  <2>3. k \in Int /\ k > 1
    BY <1>1, <1>2
  <2>4. k - 1 \in Int /\ k - 1 >= 1 /\ (k - 1) + 1 = k /\ k - 1 < i
    BY <2>1, <2>2, <2>3
  <2>5. k - 1 \in Stops'
    BY Zenon, <1>1, <2>4
  <2> QED BY Zenon, <2>4, <2>5
<1>7. Commanded'
  BY Zenon, <1>3, <1>5, <1>6 DEF Commanded, Single
<1>8. Deaths' = Deaths /\ Quits' = Quits
  BY Zenon DEF Deaths, Quits
<1>9. Ending'
  BY Zenon, <1>4, <1>8 DEF Session, Ending, Single, Dying
<1>10. Flags'
  <2>1. Up /\ Up'
    BY Zenon, <1>1 DEF Up
  <2> QED BY Zenon, <1>4, <1>8, <2>1 DEF Session, Flags, InSession, Dying
<1>11. Waited' /\ Thread' /\ Orders'
  BY Zenon, <1>4, <1>8 DEF Session, Waited, Over, Thread, NoThread, Orders, Wanted, NoOrderAfter
<1> QED BY Zenon, <1>7, <1>9, <1>10, <1>11 DEF Session

\* MNLD takes a STOP: the engine runs then, and its end is reported.
LEMMA MnldStops ==
  ASSUME Types, Session, UNCHANGED <<fw, hal, cond, state, control, view, started>>,
         hal2mnld # << >>, hal2mnld' = Tail(hal2mnld), Head(hal2mnld).cmd = "STOP", ~engine'.on,
         IF engine.on THEN ToHal(Died) ELSE UNCHANGED mnld2hal
  PROVE  Session'
<1>1. /\ \A i \in Int : i \in Starts' <=> i >= 1 /\ i + 1 \in Starts
      /\ \A i \in Int : i \in Stops' <=> i >= 1 /\ i + 1 \in Stops
      /\ 1 \in Stops
  BY Zenon, NextMessage DEF Types
<1>2. /\ \A i \in Starts \union Stops : i \in Int /\ i >= 1
      /\ \A i \in Starts' \union Stops' \union Cleanups' : i \in Int /\ i >= 1
  BY DEF Starts, Stops, Cleanups
<1>3. engine.on /\ Starts = {} /\ Starts' = {}
  <2>1. engine.on
    BY <1>1, <1>2 DEF Session, Commanded
  <2>2. Starts = {}
    BY Zenon, <2>1 DEF Session, Commanded
  <2> QED BY Zenon, <1>1, <1>2, <2>1, <2>2
<1>4. Stops' = {}
  BY <1>1, <1>2 DEF Session, Commanded, Single
<1>5. ~InSession /\ ~Over /\ Deaths = {} /\ ~Dying /\ state.start_flag
  BY Zenon, <1>1 DEF Session, Flags, Waited, Ending
<1>6. hal.pc # "none"
  BY Zenon, <1>5 DEF Session, Thread, NoThread, Over
<1>7. Deaths' = {Len(mnld2hal) + 1}
  <2>1. mnld2hal' = Append(mnld2hal, Died)
    BY Zenon, <1>3, <1>6 DEF ToHal
  <2>2. Died \in MnldMessage /\ Died.to = "die"
    BY Zenon DEF MnldMessage, Died
  <2> QED BY Zenon, <1>5, <2>1, <2>2, OneDeath DEF Types
<1>8. Commanded'
  BY Zenon, <1>3, <1>4 DEF Commanded, Single
<1>9. Ending'
  BY Zenon, <1>4, <1>5, <1>7 DEF Ending, Single, Dying
<1>10. Flags'
  <2>1. ~Up'
    BY Zenon, <1>3 DEF Up
  <2> QED BY Zenon, <1>4, <1>5, <1>7, <2>1 DEF Session, Flags, InSession
<1>11. Waited'
  BY Zenon, <1>5 DEF Session, Waited, Over
<1>12. Thread' /\ Orders'
  BY DEF Session, Thread, NoThread, Quits, Orders, Wanted, NoOrderAfter
<1> QED BY Zenon, <1>8, <1>9, <1>10, <1>11, <1>12 DEF Session

\* MNLD takes a message that does not change its engine.
LEMMA MnldGoesOn ==
  ASSUME Types, Session, UNCHANGED <<fw, hal, cond, state, control, view, started, mnld2hal>>,
         hal2mnld # << >>, hal2mnld' = Tail(hal2mnld), Head(hal2mnld).cmd \notin {"START", "STOP"},
         engine'.on <=> engine.on
  PROVE  Session'
<1>1. /\ \A i \in Int : i \in Starts' <=> i >= 1 /\ i + 1 \in Starts
      /\ \A i \in Int : i \in Stops' <=> i >= 1 /\ i + 1 \in Stops
      /\ \A i \in Int : i \in Cleanups' <=> i >= 1 /\ i + 1 \in Cleanups
      /\ 1 \notin Starts /\ 1 \notin Stops
  BY Zenon, NextMessage DEF Types
<1>2. /\ \A i \in Starts \union Stops \union Cleanups : i \in Int /\ i >= 1
      /\ \A i \in Starts' \union Stops' \union Cleanups' : i \in Int /\ i >= 1
  BY DEF Starts, Stops, Cleanups
<1>3. /\ \A i \in Starts : i - 1 \in Starts'
      /\ \A i \in Stops : i - 1 \in Stops'
  <2>1. \A i \in Starts \union Stops : i - 1 \in Int /\ i - 1 >= 1 /\ (i - 1) + 1 = i
    <3>1. \A i \in Starts \union Stops : i \in Int /\ i > 1
      BY <1>1, <1>2
    <3> QED BY <3>1
  <2> QED BY Zenon, <1>1, <2>1
<1>4. (Starts' = {} <=> Starts = {}) /\ (Stops' = {} <=> Stops = {})
  BY Zenon, <1>1, <1>2, <1>3
<1>5. Single(Starts') /\ Single(Stops')
  <2>1. Single(Starts) /\ Single(Stops)
    BY Zenon DEF Session, Commanded
  <2>2. Starts' \subseteq Int /\ Stops' \subseteq Int
    BY Zenon, <1>2
  <2>3. Single(Starts')
    BY Zenon, <1>1, <2>1, <2>2, ShiftSingle
  <2>4. Single(Stops')
    BY Zenon, <1>1, <2>1, <2>2, ShiftSingle
  <2> QED BY Zenon, <2>3, <2>4
<1>6. ASSUME NEW i \in Stops', ~engine'.on PROVE \E j \in Starts' : j < i
  <2>1. i \in Int /\ i + 1 \in Stops
    BY Zenon, <1>1, <1>2
  <2>2. PICK j \in Starts : j < i + 1
    BY Zenon, <1>6, <2>1 DEF Session, Commanded
  <2>3. j - 1 \in Starts' /\ j \in Int
    BY Zenon, <1>2, <1>3
  <2>4. j - 1 < i
    BY <2>1, <2>2, <2>3
  <2> QED BY Zenon, <2>3, <2>4
<1>7. ASSUME NEW i \in Cleanups', engine'.on \/ \E j \in Starts' : j < i PROVE \E k \in Stops' : k < i
  <2>1. i \in Int /\ i + 1 \in Cleanups
    BY Zenon, <1>1, <1>2
  <2>2. engine.on \/ \E j \in Starts : j < i + 1
    <3>1. ASSUME NEW j \in Starts', j < i PROVE j + 1 \in Starts /\ j + 1 < i + 1
      <4>1. j \in Int
        BY Zenon, <1>2
      <4> QED BY <1>1, <2>1, <3>1, <4>1
    <3> QED BY Zenon, <1>7, <3>1
  <2>3. PICK k \in Stops : k < i + 1
    BY Zenon, <2>1, <2>2 DEF Session, Commanded
  <2>4. k - 1 \in Stops' /\ k \in Int
    BY <1>2, <1>3
  <2>5. k - 1 < i
    BY <2>1, <2>3, <2>4
  <2> QED BY <2>4, <2>5
<1>8. Commanded'
  <2>1. engine'.on => Starts' = {}
    BY Zenon, <1>4 DEF Session, Commanded
  <2> QED BY Zenon, <1>5, <1>6, <1>7, <2>1 DEF Commanded, Single
<1>9. Deaths' = Deaths /\ Quits' = Quits
  BY Zenon DEF Deaths, Quits
<1>10. Ending'
  BY Zenon, <1>4, <1>9 DEF Session, Ending, Single, Dying
<1>11. Flags'
  <2>1. Up' <=> Up
    BY Zenon, <1>4 DEF Up
  <2> QED BY Zenon, <1>4, <1>9, <2>1 DEF Session, Flags, InSession, Dying
<1>12. Waited' /\ Thread' /\ Orders'
  BY Zenon, <1>4, <1>9 DEF Session, Waited, Over, Thread, NoThread, Orders, Wanted, NoOrderAfter
<1> QED BY Zenon, <1>8, <1>10, <1>11, <1>12 DEF Session

\* Whatever MNLD takes, the session stays consistent: the engine does not run when MNLD
\* comes to a CLEANUP.
LEMMA MnldSession ==
  ASSUME Types, Session, UNCHANGED <<fw, hal, cond, state, control, view, started>>, Mnld
  PROVE  Session'
<1> DEFINE cmd == Head(hal2mnld).cmd
<1>1. /\ hal2mnld # << >> /\ hal2mnld' = Tail(hal2mnld)
      /\ engine' = [engine EXCEPT !.on = IF cmd = "START" THEN TRUE
                                         ELSE IF cmd \in {"STOP", "CLEANUP"} THEN FALSE ELSE @]
      /\ IF cmd \in {"STOP", "CLEANUP"} /\ engine.on THEN ToHal(Died) ELSE UNCHANGED mnld2hal
  BY Zenon DEF Mnld
<1>2. engine'.on <=> (cmd = "START" \/ (cmd \notin {"STOP", "CLEANUP"} /\ engine.on))
  BY Zenon, <1>1 DEF Types, HalType
<1>3. ASSUME cmd = "CLEANUP" PROVE ~engine.on
  <2>1. 1 \in Cleanups
    BY Zenon, <1>1, <1>3, NextMessage DEF Types
  <2>2. \A i \in Stops : i \in Int /\ i >= 1
    BY DEF Stops
  <2> QED BY <2>1, <2>2 DEF Session, Commanded
<1> HIDE DEF cmd
<1>4. CASE cmd = "START"
  BY Zenon, <1>1, <1>2, <1>4, MnldStarts DEF cmd
<1>5. CASE cmd = "STOP"
  BY Zenon, <1>1, <1>2, <1>5, MnldStops DEF cmd
<1>6. CASE cmd \notin {"START", "STOP"}
  <2>1. UNCHANGED mnld2hal /\ (engine'.on <=> engine.on)
    BY Zenon, <1>1, <1>2, <1>3, <1>6
  <2> QED BY Zenon, <1>1, <1>6, <2>1, MnldGoesOn DEF cmd
<1> QED BY Zenon, <1>4, <1>5, <1>6

\* A step of a call of the framework.
LEMMA FrameworkSession ==
  ASSUME Types, Session, ~trouble', Framework
  PROVE  Session'
<1>1. UNCHANGED <<started, engine>>
  BY Zenon DEF Framework
<1>2. CASE InitSteps
  <2>1. ~InitFailed
    BY Zenon DEF InitFailed, At, Session, Thread
  <2> QED BY <1>1, <1>2, <2>1, CallStepsUnnoticed, gps_state_initSession, mtk_gps_initSession DEF InitSteps
<1>3. CASE SessionSteps
  BY <1>1, <1>3, CallStepsUnnoticed, mtk_startSession, gps_state_startSession, AnnounceStartSession,
     mtk_gps_startSession, mtk_stopSession, gps_state_stopSession DEF SessionSteps
<1>4. CASE CleanupSteps
  BY <1>1, <1>4, CallStepsUnnoticed, mtk_cleanupSession, CheckStopSession, QuitSession,
     gps_state_doneSession DEF CleanupSteps
<1>5. CASE ExtensionSteps
  BY Zenon, <1>1, <1>5, ExtensionsUnnoticed, DeleteAidingDataSession DEF ExtensionSteps
<1> QED BY Zenon, <1>2, <1>3, <1>4, <1>5 DEF Framework

\* Trouble is not forgotten.
LEMMA TroubleStays ==
  ASSUME Next, ~trouble'
  PROVE  ~trouble
<1> USE DEF NoFault, Fault, Taken
<1>1. CASE Framework
  <2>1. CASE InitSteps
    BY Zenon, <2>1 DEF InitSteps, CallInit, gps_state_init, InitFailed, mtk_gps_init, CreateEpoThread,
       mtk_gps_epo_interface_init, InitExtension
  <2>2. CASE SessionSteps
    BY Zenon, <2>2 DEF SessionSteps, CallStart, mtk_start, StartEpo, WaitStart, gps_state_start, AnnounceStart,
       mtk_gps_start, CallStop, mtk_stop, gps_state_stop
  <2>3. CASE CleanupSteps
    BY <2>3, Zenon DEF CleanupSteps, CallCleanup, mtk_cleanup, CheckStop, WaitStop, Quit, gps_state_done, mtk_gps_cleanup
  <2>4. CASE ExtensionSteps
    BY Zenon, <2>4 DEF ExtensionSteps, AgpsCall, mtk_gps_inject_location, UpdateNetworkState, OpenRaw, InitRaw, CloseRaw,
       mtk_gps_delete_aiding_data, mtk_gps_set_position_mode
  <2> QED BY <1>1, <2>1, <2>2, <2>3, <2>4 DEF Framework
<1>2. CASE EpoThread
  BY Zenon, <1>2 DEF EpoThread
<1>3. CASE HalThread(ThreadSetup \/ MessageSteps) \/ HalThread(Hangup) \/ HalThread(ControlCommand) \/ HalThread(ReadNmea)
  BY Zenon, <1>3 DEF HalThread, ThreadSetup, Hangup, ControlCommand, ReadNmea, MessageSteps, CallBack, CheckRaw, CallRaw,
     mtk_gps_send_location_to_mnl, HAL_CMD_GPS_ICON, HAL_CMD_MNL_DIE, DieStop, DieFlag
<1>4. CASE Daemon(Mnld) \/ Daemon(Engine) \/ Daemon(EngineCrash) \/ Daemon(MnldSends)
  BY Zenon, <1>4 DEF Daemon, Mnld, Engine, EngineCrash, MnldSends
<1> QED BY Zenon, <1>1, <1>2, <1>3, <1>4 DEF Next

-----------------------------------------------------------------------------
(* Theorems *)

\* Every step that meets no trouble keeps the session consistent.
LEMMA NextSession ==
  ASSUME Types, Session, ~trouble', Next
  PROVE  Session'
<1>1. CASE Framework
  BY Zenon, <1>1, FrameworkSession
<1>2. CASE EpoThread
  <2>1. /\ UNCHANGED <<started, fw, hal, state, control, view>> /\ UNCHANGED <<engine, hal2mnld, mnld2hal>>
        /\ (cond' = cond \/ cond' = [cond EXCEPT !["M_THREAD_EXIT"] = TRUE])
    BY Zenon, <1>2 DEF EpoThread, EpoExit, release_condition
  <2> QED BY Zenon, <2>1, OthersUnnoticed
<1>3. CASE HalThread(ThreadSetup \/ MessageSteps)
  <2>1. UNCHANGED fw /\ (ThreadSetup \/ MessageSteps)
    BY Zenon, <1>3 DEF HalThread
  <2> QED BY Zenon, <2>1, ThreadSetupSession, LoopUnnoticed, MnlDieSession, DieStopSession DEF MessageSteps
<1>4. CASE HalThread(Hangup)
  BY <1>4, Zenon DEF HalThread, Hangup, Fault
<1>5. CASE HalThread(ControlCommand) \/ HalThread(ReadNmea)
  <2>1. UNCHANGED fw /\ (ControlCommand \/ ReadNmea)
    BY Zenon, <1>5 DEF HalThread
  <2> QED BY Zenon, <2>1, ControlCommandSession, LoopUnnoticed
<1>6. CASE Daemon(Mnld) \/ Daemon(Engine) \/ Daemon(EngineCrash) \/ Daemon(MnldSends)
  <2>1. UNCHANGED <<started, fw, hal, state, control, view>> /\ UNCHANGED cond
    BY Zenon, <1>6 DEF Daemon
  <2>2. Mnld \/ Engine \/ MnldSends
    BY Zenon, <1>6 DEF Daemon, EngineCrash, Fault
  <2> QED BY Zenon, <2>1, <2>2, MnldSession, OthersUnnoticed
<1> QED BY <1>1, <1>2, <1>3, <1>4, <1>5, <1>6 DEF Next

\* A step that changes nothing keeps it, too.
LEMMA StutterSession ==
  ASSUME Session, UNCHANGED vars
  PROVE  Session'
<1>1. UNCHANGED <<started, fw, hal, cond, state, control, view, engine, hal2mnld, mnld2hal>>
  BY Zenon DEF vars
<1>2. SamePlace
  BY Zenon, <1>1 DEF SamePlace, InSession, Over, NoThread, Wanted, Session, Thread
<1>3. Starts' = Starts /\ Stops' = Stops /\ Cleanups' = Cleanups /\ Deaths' = Deaths
  BY Zenon, <1>1, SameQueues
<1>4. Unnoticed
  BY Zenon, <1>1, <1>3 DEF Unnoticed, Single
<1> QED BY Zenon, <1>2, <1>4, UnnoticedSession

\* The session is consistent in every state that no trouble preceded.
THEOREM SessionInvariance == Spec => []SInv
<1>1. Init => SInv
  BY Zenon, InitSession DEF SInv
<1>2. IInv /\ SInv /\ [Next]_vars => SInv'
  <2> SUFFICES ASSUME IInv, SInv, [Next]_vars, ~trouble' PROVE Session'
    BY Zenon DEF SInv
  <2>1. Types
    BY Zenon DEF IInv
  <2>2. CASE Next
    BY Zenon, <2>1, <2>2, TroubleStays, NextSession DEF SInv
  <2>3. CASE UNCHANGED vars
    <3>1. ~trouble
      BY Zenon, <2>3 DEF vars
    <3> QED BY Zenon, <2>3, <3>1, StutterSession DEF SInv
  <2> QED BY Zenon, <2>2, <2>3
<1> QED BY <1>1, <1>2, Invariance, PTL DEF Spec

\* When nothing is under way the framework, start_flag, the wake lock, the HAL thread
\* and the engine agree on whether there is a session, unless a fault was met that a
\* call waits for.
THEOREM PartiesAgree == Spec => []SessionAgreed
<1>1. IInv /\ SInv => SessionAgreed
  <2> SUFFICES ASSUME IInv, SInv, Quiet, ~trouble
               PROVE  LET running == fw.user = "running"
                      IN  /\ state.start_flag = running /\ view.wakelock = running
                          /\ started = running /\ engine.on = running
    BY Zenon DEF SessionAgreed
  <2>1. Session /\ Types
    BY Zenon DEF IInv, SInv
  <2>2. /\ fw.pc = "idle" /\ hal.pc = "loop" /\ Starts = {} /\ Stops = {} /\ Deaths = {} /\ ~Dying
        /\ NoOrderAfter(0)
    BY DEF Quiet, At, Starts, Stops, Deaths, Dying, NoOrderAfter
  <2>3. InSession <=> fw.user = "running"
    BY Zenon, <2>2 DEF InSession, StartCall
  <2>4. /\ state.start_flag <=> fw.user = "running"
        /\ view.wakelock <=> fw.user = "running"
        /\ engine.on <=> fw.user = "running"
    BY Zenon, <2>1, <2>2, <2>3 DEF Session, Flags, Up
  <2>5. started <=> fw.user = "running"
    BY Zenon, <2>1, <2>2 DEF Session, Orders, Wanted
  <2>6. state.start_flag \in BOOLEAN /\ view.wakelock \in BOOLEAN /\ engine.on \in BOOLEAN /\ started \in BOOLEAN
    BY Zenon, <2>1 DEF Types, HalType
  <2> QED BY Zenon, <2>4, <2>5, <2>6
<1> QED BY <1>1, Invariance, SessionInvariance, PTL
=============================================================================
