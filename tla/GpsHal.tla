------------------------------- MODULE GpsHal --------------------------------
(***************************************************************************)
(* The GPS HAL (gps_mtk_aosp.c) and the threads that meet in it.            *)
(*                                                                         *)
(*   framework  calls init, start, stop, cleanup and the extensions;       *)
(*   HAL thread gps_state_thread: reads control commands, NMEA from        *)
(*              /dev/gps and messages of MNLD, and calls back;             *)
(*   EPO thread (module GpsEpo);                                           *)
(*   MNLD       the daemon that runs the GPS engine, external.             *)
(*                                                                         *)
(* Calls wait for the other threads with the flags of lock_for_sync, which *)
(* get_condition waits for and resets, and by polling start_flag.          *)
(*                                                                         *)
(* The calls follow the framework: init, the extensions, start and stop in *)
(* turn, cleanup while stopped.  Each behaviour explores one use of the    *)
(* HAL: "calls" (with faults), "fix" and "svs" (NMEA), "agps" (messages).  *)
(***************************************************************************)
EXTENDS GpsEpo, GpsNmea, GpsAgps

CONSTANTS FixLines,     \* the lines about a fix that /dev/gps may deliver
          SvLines,      \* the lines about satellites
          MaxInits,     \* bound: calls of mtk_gps_init
          MaxFaults,    \* bound: faults in a behaviour
          MaxMessages   \* bound: messages waiting in a socket

ASSUME HalAssumption == MaxInits \in Nat /\ MaxFaults \in Nat /\ MaxMessages \in Nat
ASSUME LineAssumption == FixLines \union SvLines \subseteq NmeaLine

VARIABLES use,       \* "calls", "fix", "svs" or "agps"
          fw,        \* the framework: pc of its call, what it believes, number of inits
          hal,       \* pc of the HAL thread, and the message type it is at
          cond,      \* lock_for_sync: which conditions are released
          state,     \* init, start_flag, flag_unlock, thread_epo_exit_flag
          control,   \* commands in the control socket
          view,      \* what the framework was told: wakelock and status
          engine,    \* MNLD: the engine runs, NMEA waits in /dev/gps
          hal2mnld,  \* messages to MNLD
          mnld2hal,  \* messages from MNLD
          nmea,      \* gps_mode, reader, and the counter of skipped reads
          ready,     \* callback tables copied or stored; measurement and navigation flags
          out,       \* what the last step reported
          faults,    \* faults so far
          trouble    \* a fault after which a call may wait for ever

vars == <<conf, epo, epoThread, files, alarm, today, started, nw, update, disturbed,
          use, fw, hal, cond, state, control, view, engine, hal2mnld, mnld2hal, nmea, ready,
          out, faults, trouble>>

Locks == {"M_START", "M_STOP", "M_CLEANUP", "M_INIT", "M_THREAD_EXIT"}
NoOut == [fix |-> Nothing, svs |-> Nothing, cb |-> "base"]
Extensions == {"agps", "ni", "ril"}
\* gpsmeasurement_init_flag and gpsnavigation_init_flag, as members of ready
RawFlag == [measurement |-> "measurement_flag", navigation |-> "navigation_flag"]

\* What a step of the calls, of the threads and of MNLD leaves alone.
epoRest == <<conf, epo, epoThread, files, alarm, today, nw, update, disturbed>>
-----------------------------------------------------------------------------
(* Conditions, and messages to MNLD. *)

release_condition(l) == cond' = [cond EXCEPT ![l] = TRUE]
get_condition(l) == cond[l] /\ cond' = [cond EXCEPT ![l] = FALSE]
ClearStop == cond' = [cond EXCEPT !["M_STOP"] = FALSE]

mtk_daemon_send(m) == hal2mnld' = Append(hal2mnld, m)

\* A fault, and whether a call may hang after it.
Fault(hangs) == /\ use = "calls" /\ faults < MaxFaults
                /\ faults' = faults + 1
                /\ trouble' = (trouble \/ hangs)
NoFault == UNCHANGED <<faults, trouble>>

\* bound: a behaviour uses either the network, a location, or one kind of raw data
NoNetwork == nw = [connected |-> FALSE, type |-> "data"]
NoRaw(kinds) == ready \intersect kinds = {}

At(pc) == fw.pc = pc
Goto(pc) == fw' = [fw EXCEPT !.pc = pc]
Return(user) == fw' = [fw EXCEPT !.pc = "idle", !.user = user]
-----------------------------------------------------------------------------
(* mtk_gps_init and the extensions. *)

CallInit ==
  /\ At("idle") /\ fw.user = "none" /\ fw.inits < (IF use = "calls" THEN MaxInits ELSE 1)
  /\ fw' = [fw EXCEPT !.pc = "init", !.inits = @ + 1]
  /\ NoFault
  /\ UNCHANGED <<hal, cond, state, control, view, hal2mnld, mnld2hal, ready, epoThread>>

\* gps_state_init: /dev/gps, MNL_CMD_INIT, the control sockets and the thread.
gps_state_init ==
  /\ At("init")
  /\ \/ /\ mtk_daemon_send(Command("INIT"))
        /\ hal' = [pc |-> "setup"]
        /\ control' = << >> /\ mnld2hal' = << >>
        /\ Goto("waitInit") /\ NoFault
     \/ \* /dev/gps cannot be opened: no thread, and nobody will release M_INIT
        /\ Fault(TRUE) /\ Goto("waitInit")
        /\ UNCHANGED <<hal, control, hal2mnld, mnld2hal>>
     \/ \* a later step fails: gps_state_done waits for a thread that is not there
        /\ Fault(TRUE) /\ Goto("initFailed")
        /\ UNCHANGED <<hal, control, hal2mnld, mnld2hal>>
  /\ UNCHANGED <<cond, state, view, ready, epoThread>>

InitFailed ==
  /\ At("initFailed")
  /\ get_condition("M_CLEANUP")
  /\ Goto("waitInit") /\ NoFault
  /\ UNCHANGED <<hal, state, control, view, hal2mnld, mnld2hal, ready, epoThread>>

mtk_gps_init ==
  /\ At("waitInit")
  /\ get_condition("M_INIT")
  /\ state' = [state EXCEPT !.init = TRUE]
  /\ Goto("epoCreate") /\ NoFault
  /\ UNCHANGED <<hal, control, view, hal2mnld, mnld2hal, ready, epoThread>>

\* mtk_gps_epo_interface_init creates the thread and then takes back the order
\* to exit that an earlier cleanup left.
CreateEpoThread ==
  /\ At("epoCreate")
  /\ \/ /\ epoThread' = [epoThread EXCEPT !.pc = "sleep"]
        /\ Goto("epoFlag") /\ NoFault
     \/ /\ Fault(TRUE) /\ Goto("extensions")
        /\ UNCHANGED epoThread
  /\ UNCHANGED <<hal, cond, state, control, view, hal2mnld, mnld2hal, ready>>

mtk_gps_epo_interface_init ==
  /\ At("epoFlag")
  /\ state' = [state EXCEPT !.exit = FALSE]
  /\ Goto("extensions") /\ NoFault
  /\ UNCHANGED <<hal, cond, control, view, hal2mnld, mnld2hal, ready, epoThread>>

\* agps_init, gps_ni_init and agps_ril_init keep the tables of the framework.
InitExtension ==
  /\ At("extensions")
  /\ IF Extensions \subseteq ready
     THEN Return("ready") /\ UNCHANGED ready
     ELSE /\ ready' \in {ready \union {e} : e \in Extensions \ ready}
          /\ UNCHANGED fw
  /\ NoFault
  /\ UNCHANGED <<hal, cond, state, control, view, hal2mnld, mnld2hal, epoThread>>

InitSteps == \/ CallInit \/ gps_state_init \/ InitFailed \/ mtk_gps_init
             \/ CreateEpoThread \/ mtk_gps_epo_interface_init \/ InitExtension
-----------------------------------------------------------------------------
(* mtk_gps_start and mtk_gps_stop *)

CallStart ==
  /\ At("idle") /\ fw.user = "ready"
  /\ Len(control) <= MaxMessages /\ Len(hal2mnld) <= MaxMessages
  /\ use = "agps" => NoNetwork /\ ~nmea.located /\ NoRaw(DOMAIN RawFlag)
  /\ Goto("start") /\ NoFault
  /\ UNCHANGED <<hal, cond, state, control, view, hal2mnld, mnld2hal, ready, epoThread>>

\* Polls until the last session is over, then sends MNL_CMD_START.
mtk_start ==
  /\ At("start") /\ ~state.start_flag
  /\ \/ mtk_daemon_send(Command("START")) /\ Goto("startEpo") /\ NoFault
     \/ Fault(FALSE) /\ Return("ready") /\ UNCHANGED hal2mnld
  /\ UNCHANGED <<hal, cond, state, control, view, mnld2hal, ready, epoThread>>

StartEpo ==
  /\ At("startEpo")
  /\ mtk_gps_start_epo
  /\ Goto("waitStart") /\ NoFault
  /\ UNCHANGED <<hal, cond, state, control, view, hal2mnld, mnld2hal, ready, epoThread>>

\* The first NMEA sentence of the session releases M_START.
WaitStart ==
  /\ At("waitStart")
  /\ get_condition("M_START")
  /\ Goto("cmdStart") /\ NoFault
  /\ UNCHANGED <<hal, state, control, view, hal2mnld, mnld2hal, ready, epoThread>>

gps_state_start ==
  /\ At("cmdStart")
  /\ control' = Append(control, "CMD_START")
  /\ Goto("announce") /\ NoFault
  /\ UNCHANGED <<hal, cond, state, view, hal2mnld, mnld2hal, ready, epoThread>>

AnnounceStart ==
  /\ At("announce")
  /\ view' = [wakelock |-> TRUE, status |-> "SESSION_BEGIN"]
  /\ Goto("startFlag") /\ NoFault
  /\ UNCHANGED <<hal, cond, state, control, hal2mnld, mnld2hal, ready, epoThread>>

mtk_gps_start ==
  /\ At("startFlag")
  /\ ClearStop
  /\ state' = [state EXCEPT !.start_flag = TRUE]
  /\ Return("running") /\ NoFault
  /\ UNCHANGED <<hal, control, view, hal2mnld, mnld2hal, ready, epoThread>>

CallStop ==
  /\ At("idle") /\ fw.user = "running"
  /\ Goto("stop") /\ NoFault
  /\ UNCHANGED <<hal, cond, state, control, view, hal2mnld, mnld2hal, ready, epoThread>>

\* Polls until a session runs, then sends MNL_CMD_STOP.  The framework takes the
\* GPS for stopped in any case.
mtk_stop ==
  /\ At("stop") /\ state.start_flag
  /\ \/ mtk_daemon_send(Command("STOP")) /\ Goto("cmdStop") /\ NoFault
     \/ Fault(TRUE) /\ Return("ready") /\ UNCHANGED hal2mnld
  /\ UNCHANGED <<hal, cond, state, control, view, mnld2hal, ready, epoThread>>

gps_state_stop ==
  /\ At("cmdStop")
  /\ control' = Append(control, "CMD_STOP")
  /\ Return("ready") /\ NoFault
  /\ UNCHANGED <<hal, cond, state, view, hal2mnld, mnld2hal, ready, epoThread>>

SessionSteps == \/ CallStart \/ mtk_start \/ StartEpo \/ WaitStart \/ gps_state_start \/ AnnounceStart
                \/ mtk_gps_start \/ CallStop \/ mtk_stop \/ gps_state_stop
-----------------------------------------------------------------------------
(* mtk_gps_cleanup *)

CallCleanup ==
  /\ At("idle") /\ fw.user = "ready"
  /\ Goto("cleanup") /\ NoFault
  /\ UNCHANGED <<hal, cond, state, control, view, hal2mnld, mnld2hal, ready, epoThread>>

mtk_cleanup ==
  /\ At("cleanup")
  /\ Goto("checkStop")
  /\ \/ mtk_daemon_send(Command("CLEANUP")) /\ NoFault
     \/ Fault(TRUE) /\ UNCHANGED hal2mnld
  /\ UNCHANGED <<hal, cond, state, control, view, mnld2hal, ready, epoThread>>

\* A session that is still running must have ended first.
CheckStop ==
  /\ At("checkStop")
  /\ Goto(IF state.start_flag THEN "waitStop" ELSE "quit") /\ NoFault
  /\ UNCHANGED <<hal, cond, state, control, view, hal2mnld, mnld2hal, ready, epoThread>>

WaitStop ==
  /\ At("waitStop")
  /\ get_condition("M_STOP")
  /\ Goto("quit") /\ NoFault
  /\ UNCHANGED <<hal, state, control, view, hal2mnld, mnld2hal, ready, epoThread>>

\* gps_state_done: CMD_QUIT, and wait for the thread to leave its loop.
Quit ==
  /\ At("quit")
  /\ ClearStop
  /\ control' = Append(control, "CMD_QUIT")
  /\ Goto("waitCleanup") /\ NoFault
  /\ UNCHANGED <<hal, state, view, hal2mnld, mnld2hal, ready, epoThread>>

gps_state_done ==
  /\ At("waitCleanup")
  /\ get_condition("M_CLEANUP")
  /\ control' = << >>
  /\ state' = [state EXCEPT !.init = FALSE, !.exit = TRUE]
  /\ Goto("waitExit") /\ NoFault
  /\ UNCHANGED <<hal, view, hal2mnld, mnld2hal, ready, epoThread>>

mtk_gps_cleanup ==
  /\ At("waitExit")
  /\ get_condition("M_THREAD_EXIT")
  /\ Return("none") /\ NoFault
  /\ UNCHANGED <<hal, state, control, view, hal2mnld, mnld2hal, ready, epoThread>>

CleanupSteps == \/ CallCleanup \/ mtk_cleanup \/ CheckStop \/ WaitStop
                \/ Quit \/ gps_state_done \/ mtk_gps_cleanup
-----------------------------------------------------------------------------
(* Extensions used while the GPS is initialised. *)

Room == Len(hal2mnld) < MaxMessages /\ mnld2hal = << >> /\ control = << >>
Data == use \in {"fix", "svs"}
Idle == At("idle") /\ fw.user # "none" /\ use = "agps"

\* A call that only sends; a failing send is not noticed.
AgpsCall ==
  /\ Idle /\ Room /\ NoNetwork /\ ~nmea.located /\ NoRaw(DOMAIN RawFlag)
  /\ \E m \in AgpsCalls : mtk_daemon_send(m)
  /\ NoFault
  /\ UNCHANGED <<fw, hal, cond, state, control, view, mnld2hal, ready, epoThread, nmea, nw>>

\* mtk_gps_inject_location writes LOCATION.DAT, too.
mtk_gps_inject_location ==
  /\ Idle /\ Room /\ NoNetwork /\ NoRaw(DOMAIN RawFlag)
  /\ mtk_daemon_send(InjectLocation)
  /\ nmea' = [nmea EXCEPT !.located = TRUE]
  /\ NoFault
  /\ UNCHANGED <<fw, hal, cond, state, control, view, mnld2hal, ready, epoThread, nw>>

UpdateNetworkState ==
  /\ Idle /\ Room /\ ~nmea.located /\ NoRaw(DOMAIN RawFlag)
  /\ \E connected \in BOOLEAN, type \in {"data", "wifi"} :
       LET new == [connected |-> connected, type |-> type]
       IN  /\ nw' = new
           /\ hal2mnld' = hal2mnld \o agps_ril_update_network_state(nw, new)
  /\ NoFault
  /\ UNCHANGED <<fw, hal, cond, state, control, view, mnld2hal, ready, epoThread, nmea>>

\* mtk_gps_measurement_init and mtk_gps_navigation_init: tell MNLD, ...
OpenRaw ==
  /\ Idle /\ Room /\ fw.user = "running" /\ NoNetwork /\ ~nmea.located
  /\ \E x \in DOMAIN RawFlag :
       NoRaw(DOMAIN RawFlag \ {x}) /\ mtk_daemon_send(Command(x)) /\ Goto(x)
  /\ NoFault
  /\ UNCHANGED <<hal, cond, state, control, view, mnld2hal, ready, epoThread, nmea, nw>>

\* Faulty variant of InitRaw: the flag is set before the callbacks are copied.
InitRaw_FlagFirst ==
  /\ fw.pc \in {"measurement", "navigation"}
  /\ IF RawFlag[fw.pc] \notin ready
     THEN ready' = ready \union {RawFlag[fw.pc]} /\ UNCHANGED fw
     ELSE /\ ready' = ready \union {fw.pc}
          /\ Return(fw.user)
  /\ NoFault
  /\ UNCHANGED <<hal, cond, state, control, view, hal2mnld, mnld2hal, epoThread, nmea, nw>>

\* ... copy the callbacks, then set the flag.
InitRaw ==
  /\ fw.pc \in {"measurement", "navigation"}
  /\ IF fw.pc \notin ready
     THEN ready' = ready \union {fw.pc} /\ UNCHANGED fw
     ELSE /\ ready' = ready \union {RawFlag[fw.pc]}
          /\ Return(fw.user)
  /\ NoFault
  /\ UNCHANGED <<hal, cond, state, control, view, hal2mnld, mnld2hal, epoThread, nmea, nw>>

\* mtk_gps_measurement_close and mtk_gps_navigation_close
CloseRaw ==
  /\ Idle /\ Room
  /\ \E x \in {"measurement", "navigation"} :
       /\ mtk_daemon_send(Command("close"))
       /\ ready' = ready \ {RawFlag[x]}
  /\ NoFault
  /\ UNCHANGED <<fw, hal, cond, state, control, view, mnld2hal, epoThread, nmea, nw>>

\* mtk_gps_delete_aiding_data: CMD_RESTART, and a restart command unless the
\* flags are none of the five combinations it knows.
mtk_gps_delete_aiding_data ==
  /\ At("idle") /\ fw.user = "running" /\ use = "fix" /\ nmea.gps_mode = 0 /\ Room
  /\ control' = Append(control, "CMD_RESTART")
  /\ mtk_daemon_send(Command("RESTART")) \/ UNCHANGED hal2mnld
  /\ NoFault
  /\ UNCHANGED <<fw, hal, cond, state, view, mnld2hal, ready, epoThread, nmea, nw>>

\* min_interval, in seconds, is the number of reads of which one is used.
mtk_gps_set_position_mode ==
  /\ At("idle") /\ use = "svs" /\ nmea.gps_mode = 1
  /\ nmea' \in {[nmea EXCEPT !.interval = i] : i \in {1, 2}}
  /\ NoFault
  /\ UNCHANGED <<fw, hal, cond, state, control, view, hal2mnld, mnld2hal, ready, epoThread, nw>>

ExtensionSteps ==
  \/ AgpsCall \/ mtk_gps_inject_location \/ UpdateNetworkState \/ OpenRaw \/ InitRaw \/ CloseRaw
  \/ mtk_gps_delete_aiding_data \/ mtk_gps_set_position_mode
-----------------------------------------------------------------------------
(* gps_state_thread *)

\* Sockets are set up, and M_INIT released; a codec socket that cannot be made
\* ends the thread before that.
ThreadSetup ==
  /\ hal.pc = "setup"
  /\ nmea' = [nmea EXCEPT !.reader = nmea_reader_init]
  /\ \/ hal' = [pc |-> "loop"] /\ release_condition("M_INIT") /\ NoFault
     \/ Fault(TRUE) /\ hal' = [pc |-> "none"] /\ UNCHANGED cond
  /\ out' = NoOut
  /\ UNCHANGED <<state, control, view, engine, hal2mnld, mnld2hal, ready, started>>

\* EPOLLERR or EPOLLHUP ends the thread, as CMD_QUIT does.
Hangup ==
  /\ hal.pc = "loop" /\ Fault(TRUE)
  /\ hal' = [pc |-> "none"] /\ mnld2hal' = << >>
  /\ release_condition("M_CLEANUP")
  /\ out' = NoOut
  /\ UNCHANGED <<state, control, view, engine, hal2mnld, ready, started, nmea>>

ControlCommand ==
  /\ hal.pc = "loop" /\ control # << >>
  /\ LET cmd == Head(control)
     IN  /\ started' = IF cmd = "CMD_START" THEN TRUE ELSE IF cmd = "CMD_STOP" THEN FALSE ELSE started
         /\ nmea' = [nmea EXCEPT !.reader =
              IF cmd = "CMD_START" /\ ~started THEN nmea_reader_set_callback(@)
              ELSE IF cmd = "CMD_RESTART" THEN [@ EXCEPT !.fix_mode = 0] ELSE @]
         /\ IF cmd = "CMD_QUIT"
            THEN hal' = [pc |-> "none"] /\ mnld2hal' = << >> /\ release_condition("M_CLEANUP")
            ELSE UNCHANGED <<hal, mnld2hal, cond>>
  /\ control' = Tail(control)
  /\ out' = NoOut /\ NoFault
  /\ UNCHANGED <<state, view, engine, hal2mnld, ready>>

\* What a read may bring in this use of the HAL.  The line after a full one is lost,
\* which is explored while no satellite is listed: later it only leaves lines out.
Blank == [size |-> "short"]
Content == IF use = "fix" THEN FixLines ELSE SvLines
Readings ==
  IF Data /\ At("idle") /\ hal2mnld = << >> /\ mnld2hal = << >>
  THEN {l \in Content : l.size = "full" => nmea.reader.sv_count = 0 /\ nmea.reader.num_svs = 0}
  ELSE {Blank}

\* Whether a line is the last of its read, which brings a bounded number of them.
Ends == IF nmea.reader.num_svs <= GNSS_MAX_SVS THEN BOOLEAN ELSE {TRUE}

(* /dev/gps has data.  The first data of a session releases M_START.  Of
   report_time_interval reads all but one are thrown away. *)
ReadNmea ==
  /\ hal.pc = "loop" /\ engine.nmea
  /\ engine' = [engine EXCEPT !.nmea = FALSE]
  /\ IF state.flag_unlock THEN UNCHANGED <<cond, state>>
     ELSE release_condition("M_START") /\ state' = [state EXCEPT !.flag_unlock = TRUE]
  /\ IF nmea.interval > nmea.count + 1
     THEN nmea' = [nmea EXCEPT !.count = @ + 1] /\ out' = NoOut /\ UNCHANGED hal2mnld
     ELSE \E line \in Readings, end \in Ends :
            LET a == nmea_reader_addc(nmea.reader, nmea.gps_mode, line, end)
            IN  /\ nmea' = [nmea EXCEPT !.count = 0, !.reader = a.reader,
                                        !.located = @ \/ a.fix # Nothing]
                /\ out' = [fix |-> a.fix, svs |-> a.svs, cb |-> "base"]
                \* with logging on, MNLD is sent the position as well
                /\ \/ UNCHANGED hal2mnld
                   \/ a.fix # Nothing /\ Room /\ mtk_daemon_send(Message("LOG_WRITE", <<"string">>))
  /\ NoFault
  /\ UNCHANGED <<hal, control, view, mnld2hal, ready, started>>
-----------------------------------------------------------------------------
(* mnld_to_gps_handler *)

\* The messages MNLD may send of its own accord.
Messages ==
  {MNL_AGPS_CMD_NOTIFICATION("NOTIFY_ONLY", 3), MNL_AGPS_CMD_NOTIFICATION_2("PRIVACY", 3),
   MNL_AGPS_CMD_DATA_CONN_REQ, MNL_AGPS_CMD_DATA_CONN_REQ2, MNL_AGPS_CMD_DATA_CONN_RELEASE,
   MNL_AGPS_CMD_REQUEST_SET_ID, MNL_AGPS_CMD_REQUEST_REFLOC, MNL_AGPS_CMD_AGPS_LOC({"ACCURACY"}),
   HAL_CMD_MEASUREMENT(7), HAL_CMD_MEASUREMENT(0), HAL_CMD_NAVIGATION, MNL_CMD_GPS_INJECT_TIME_REQ,
   [to |-> "location"], [to |-> "icon", on |-> TRUE], [to |-> "icon", on |-> FALSE]}

Died == [to |-> "die"]

HeadIs(to) == hal.pc = "loop" /\ mnld2hal # << >> /\ Head(mnld2hal).to \in to
Taken == mnld2hal' = Tail(mnld2hal) /\ NoFault

\* A callback through a table; one that was never stored is a null pointer, and
\* the process ends.
CallBack ==
  /\ HeadIs({"base"} \union Extensions) /\ Taken
  /\ LET to == Head(mnld2hal).to
     IN  IF to \in ready THEN out' = [NoOut EXCEPT !.cb = to] /\ UNCHANGED hal
         ELSE hal' = [pc |-> "crashed"] /\ out' = NoOut
  /\ UNCHANGED <<cond, state, control, view, engine, hal2mnld, ready, started, nmea>>

\* Measurements and navigation messages are dropped unless the flag is set ...
CheckRaw ==
  /\ HeadIs({"measurement", "navigation", "nobody"}) /\ Taken
  /\ LET to == Head(mnld2hal).to
     IN  hal' = IF to # "nobody" /\ RawFlag[to] \in ready THEN [pc |-> to] ELSE hal
  /\ out' = NoOut
  /\ UNCHANGED <<cond, state, control, view, engine, hal2mnld, ready, started, nmea>>

\* ... and converted before the callback is made.
CallRaw ==
  /\ hal.pc \in {"measurement", "navigation"}
  /\ out' = [NoOut EXCEPT !.cb = hal.pc]
  /\ hal' = [pc |-> "loop"] /\ NoFault
  /\ UNCHANGED <<cond, state, control, view, engine, hal2mnld, mnld2hal, ready, started, nmea>>

\* MNL_CMD_GPS_INJECT_LOCATION_REQ: the last location known, if there is one.
mtk_gps_send_location_to_mnl ==
  /\ HeadIs({"location"}) /\ Taken
  /\ IF nmea.located THEN mtk_daemon_send(InjectLocation) ELSE UNCHANGED hal2mnld
  /\ out' = NoOut
  /\ UNCHANGED <<hal, cond, state, control, view, engine, ready, started, nmea>>

\* HAL_CMD_GPS_ICON: a session that the framework did not start.
HAL_CMD_GPS_ICON ==
  /\ HeadIs({"icon"}) /\ Taken
  /\ view' = IF started THEN view
             ELSE [view EXCEPT !.status = IF Head(mnld2hal).on THEN "SESSION_BEGIN" ELSE "SESSION_END"]
  /\ out' = NoOut
  /\ UNCHANGED <<hal, cond, state, control, engine, hal2mnld, ready, started, nmea>>

\* Faulty variant of HAL_CMD_MNL_DIE: flag_unlock is not taken back.
HAL_CMD_MNL_DIE_Unlocked ==
  /\ HeadIs({"die"}) /\ Taken
  /\ view' = [view EXCEPT !.status = "ENGINE_OFF"]
  /\ hal' = [pc |-> "dieStop"]
  /\ out' = NoOut
  /\ UNCHANGED <<cond, state, control, engine, hal2mnld, ready, started, nmea>>

\* HAL_CMD_MNL_DIE: the engine ended.  The next data will be the first again, ...
HAL_CMD_MNL_DIE ==
  /\ HeadIs({"die"}) /\ Taken
  /\ state' = [state EXCEPT !.flag_unlock = FALSE]
  /\ view' = [view EXCEPT !.status = "ENGINE_OFF"]
  /\ hal' = [pc |-> "dieStop"]
  /\ out' = NoOut
  /\ UNCHANGED <<cond, control, engine, hal2mnld, ready, started, nmea>>

\* Faulty variant of DieStop: a cleanup that waits is not woken.
DieStop_Silent ==
  /\ hal.pc = "dieStop" /\ hal' = [pc |-> "dieFlag"]
  /\ out' = NoOut /\ NoFault
  /\ UNCHANGED <<cond, state, control, view, engine, hal2mnld, mnld2hal, ready, started, nmea>>

\* ... a cleanup may go on, ...
DieStop ==
  /\ hal.pc = "dieStop" /\ hal' = [pc |-> "dieFlag"]
  /\ release_condition("M_STOP")
  /\ out' = NoOut /\ NoFault
  /\ UNCHANGED <<state, control, view, engine, hal2mnld, mnld2hal, ready, started, nmea>>

\* Faulty variant of DieFlag: the wake lock stays.
DieFlag_Awake ==
  /\ hal.pc = "dieFlag" /\ hal' = [pc |-> "loop"]
  /\ state' = [state EXCEPT !.start_flag = FALSE]
  /\ out' = NoOut /\ NoFault
  /\ UNCHANGED <<cond, control, view, engine, hal2mnld, mnld2hal, ready, started, nmea>>

\* ... and then a start.
DieFlag ==
  /\ hal.pc = "dieFlag" /\ hal' = [pc |-> "loop"]
  /\ view' = [view EXCEPT !.wakelock = FALSE]
  /\ state' = [state EXCEPT !.start_flag = FALSE]
  /\ out' = NoOut /\ NoFault
  /\ UNCHANGED <<cond, control, engine, hal2mnld, mnld2hal, ready, started, nmea>>

MessageSteps == \/ CallBack \/ CheckRaw \/ CallRaw \/ mtk_gps_send_location_to_mnl
                \/ HAL_CMD_GPS_ICON \/ HAL_CMD_MNL_DIE \/ DieStop \/ DieFlag
-----------------------------------------------------------------------------
(* MNLD and the engine, external. *)

\* A message reaches the HAL while its socket is bound.
ToHal(m) == mnld2hal' = IF hal.pc = "none" THEN mnld2hal ELSE Append(mnld2hal, m)

Mnld ==
  /\ hal2mnld # << >> /\ hal2mnld' = Tail(hal2mnld)
  /\ LET cmd == Head(hal2mnld).cmd
     IN  /\ engine' = [engine EXCEPT !.on = IF cmd = "START" THEN TRUE
                                            ELSE IF cmd \in {"STOP", "CLEANUP"} THEN FALSE ELSE @]
         /\ IF cmd \in {"STOP", "CLEANUP"} /\ engine.on THEN ToHal(Died) ELSE UNCHANGED mnld2hal
  /\ NoFault

Engine ==
  /\ engine.on /\ ~engine.nmea
  /\ engine' = [engine EXCEPT !.nmea = TRUE]
  /\ NoFault /\ UNCHANGED <<hal2mnld, mnld2hal>>

EngineCrash ==
  /\ engine.on /\ Fault(TRUE)
  /\ engine' = [engine EXCEPT !.on = FALSE]
  /\ ToHal(Died)
  /\ UNCHANGED hal2mnld

\* bound: not while a session starts or stops
MnldSends ==
  /\ use = "agps" /\ fw.pc \in {"idle", "extensions"} \union DOMAIN RawFlag
  /\ hal.pc # "none" /\ Len(mnld2hal) < MaxMessages /\ hal2mnld = << >>
  /\ \E m \in Messages : ToHal(m)
  /\ NoFault /\ UNCHANGED <<engine, hal2mnld>>
-----------------------------------------------------------------------------
Init ==
  /\ EpoInit /\ files.dat = << >>
  /\ started = FALSE /\ nw = [connected |-> FALSE, type |-> "data"]
  /\ use \in {"calls", "fix", "svs", "agps"}
  /\ fw = [pc |-> "idle", user |-> "none", inits |-> 0]
  /\ hal = [pc |-> "none"]
  /\ cond = [l \in Locks |-> FALSE]
  /\ state = [init |-> FALSE, start_flag |-> FALSE, flag_unlock |-> FALSE, exit |-> FALSE]
  /\ control = << >> /\ hal2mnld = << >> /\ mnld2hal = << >>
  /\ view = [wakelock |-> FALSE, status |-> "ENGINE_OFF"]
  /\ engine = [on |-> FALSE, nmea |-> FALSE]
  /\ \E mode \in {0, 1} :
       nmea = [gps_mode |-> mode, reader |-> nmea_reader_init, interval |-> 0, count |-> 0, located |-> FALSE]
  /\ nmea.gps_mode = 1 => use = "svs"
  /\ ready = {"base"} /\ out = NoOut /\ faults = 0 /\ trouble = FALSE

Alive == hal.pc # "crashed"

\* A step of the framework, of the HAL thread, of the EPO thread and of MNLD,
\* with what it leaves alone.
Framework ==
  /\ Alive
  /\ \/ (InitSteps \/ SessionSteps \/ CleanupSteps) /\ UNCHANGED <<nmea, nw>>
     \/ ExtensionSteps
  /\ At("startEpo") \/ UNCHANGED <<epo, files, update, disturbed>>
  /\ out' = NoOut
  /\ UNCHANGED <<use, conf, alarm, today, started, engine>>

HalThread(A) == Alive /\ A /\ UNCHANGED <<epoRest, use, fw>>

\* The EPO thread leaves when it finds the order to exit after its sleep.
EpoExit ==
  /\ epoThread.pc = "sleep" /\ state.exit
  /\ epoThread' = [epoThread EXCEPT !.pc = "none"]
  /\ release_condition("M_THREAD_EXIT")
  /\ UNCHANGED <<conf, epo, files, alarm, today, update, disturbed>>

EpoThread ==
  /\ Alive
  /\ \/ EpoExit
     \/ use = "calls" /\ ~(epoThread.pc = "sleep" /\ state.exit) /\ thread_epo_file_update /\ UNCHANGED cond
  /\ out' = NoOut
  /\ UNCHANGED <<started, nw, use, fw, hal, state, control, view, engine, hal2mnld, mnld2hal, nmea,
                 ready, faults, trouble>>

Daemon(A) ==
  /\ Alive /\ A
  /\ out' = NoOut
  /\ UNCHANGED <<epoRest, started, use, fw, hal, cond, state, control, view, nmea, ready>>

Next == \/ Framework \/ EpoThread
        \/ HalThread(ThreadSetup \/ MessageSteps) \/ HalThread(Hangup)
        \/ HalThread(ControlCommand) \/ HalThread(ReadNmea)
        \/ Daemon(Mnld) \/ Daemon(Engine) \/ Daemon(EngineCrash) \/ Daemon(MnldSends)

\* A call goes on once made; epoll serves every descriptor that is ready; MNLD
\* takes its messages and an engine that runs delivers data.
Fairness ==
  /\ WF_vars(~At("idle") /\ Framework) /\ WF_vars(EpoThread)
  /\ WF_vars(HalThread(ControlCommand)) /\ WF_vars(HalThread(ReadNmea))
  /\ WF_vars(HalThread(ThreadSetup \/ MessageSteps))
  /\ WF_vars(Daemon(Mnld)) /\ WF_vars(Daemon(Engine))

Spec == Init /\ [][Next]_vars

FairSpec == Spec /\ Fairness
-----------------------------------------------------------------------------
(* Properties *)

Starting == fw.pc \in {"start", "startEpo", "waitStart", "cmdStart", "announce", "startFlag"}

(* Between sessions the next start cannot be left waiting: either the next data
   from /dev/gps releases M_START, or it has been released.  flag_unlock, which
   suppresses the release, is set by gps_state_thread and taken back when MNLD
   reports that the engine ended. *)
StartHandshake ==
  ~Starting /\ ~state.start_flag /\ hal.pc = "loop" => ~state.flag_unlock \/ cond["M_START"]

Quiet == /\ At("idle") /\ hal.pc = "loop"
         /\ control = << >> /\ hal2mnld = << >> /\ mnld2hal = << >>

(* With no command and no message under way the four parties agree on whether
   there is a session: the framework (user and wake lock), start_flag that
   start and stop poll, started of the HAL thread, and the engine. *)
SessionAgreed ==
  Quiet /\ ~trouble =>
    LET running == fw.user = "running"
    IN  state.start_flag = running /\ view.wakelock = running /\ started = running /\ engine.on = running

(* Every call of the framework returns, whatever the order of NMEA data, the
   end of the engine, control commands and the threads' steps, and when sending
   a start fails: mtk_gps_init, mtk_gps_start, mtk_gps_stop and mtk_gps_cleanup
   wait for nothing that does not come.  Not after the faults that trouble
   records, nor when a callback was never stored. *)
CallsReturn == [](~At("idle") => <>(At("idle") \/ trouble \/ ~Alive))

(* A measurement or navigation callback is made only through a table that was
   copied, although the init runs against the thread that tests its flag. *)
CallbacksReady == out.cb \in ready

(* A list of satellites handed to the framework fits its array, and every entry
   up to its count was written by the sentences of this list; unless the list
   has a sentence whose predecessors were lost. *)
SvListSound ==
  out.svs # Nothing /\ ~out.svs.orphan =>
    /\ out.svs.num <= out.svs.size
    /\ 0 .. out.svs.num - 1 \subseteq out.svs.written

(* A fix carries only values received since the session began. *)
FixOfThisSession == out.fix # Nothing => out.fix.flags \subseteq out.fix.current
=============================================================================
