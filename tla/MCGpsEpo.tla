------------------------------ MODULE MCGpsEpo -------------------------------
(***************************************************************************)
(* The EPO download in its surroundings: the framework starts and stops     *)
(* the GPS and reports the network, MNLD answers, days pass.  A start is   *)
(* its EPO part together with the CMD_START that follows, in one step: the *)
(* thread takes none between its look at the files and what it does about  *)
(* them.  GpsHal has the steps of a start, and the threads that take part. *)
(***************************************************************************)
EXTENDS GpsEpo

vars == <<conf, epo, epoThread, files, alarm, today, started, nw, update, disturbed>>

\* gps.conf files: two pieces, renewed on Wi-Fi; and one that ends its lines in
\* LF only, so that its values are one digit short: a single piece.
SmallConfs ==
  {[present |-> TRUE, crlf |-> TRUE, EPO_ENABLE |-> 1, DW_DAYS |-> 6, GPS_EPO_PERIOD |-> 3,
    WIFI_EPO_PERIOD |-> 1, EPO_WIFI_TRIGGER |-> 1],
   [present |-> TRUE, crlf |-> FALSE, EPO_ENABLE |-> 70, DW_DAYS |-> 30, GPS_EPO_PERIOD |-> 150,
    WIFI_EPO_PERIOD |-> 30, EPO_WIFI_TRIGGER |-> 0]}

Networks == {[connected |-> FALSE, type |-> "data"], [connected |-> TRUE, type |-> "data"],
             [connected |-> TRUE, type |-> "wifi"]}

Init ==
  /\ EpoInit
  /\ started = FALSE /\ nw = [connected |-> FALSE, type |-> "data"]

Thread == thread_epo_file_update /\ UNCHANGED <<started, nw>>

\* mtk_gps_epo_interface_init: the thread begins with its sleep.
InterfaceInit ==
  /\ epoThread.pc = "none"
  /\ epoThread' = [epoThread EXCEPT !.pc = "sleep"]
  /\ UNCHANGED <<conf, epo, files, alarm, today, started, nw, update, disturbed>>

Start ==
  /\ ~started /\ epoThread.pc # "none"
  /\ mtk_gps_start_epo
  /\ started' = TRUE
  /\ UNCHANGED <<conf, epoThread, alarm, today, nw>>

Stop ==
  /\ started
  /\ started' = FALSE
  /\ UNCHANGED <<epoVars, nw>>

Network ==
  /\ nw' \in Networks \ {nw}
  /\ UNCHANGED <<epoVars, started>>

Alarm == retry_alarm_handler /\ UNCHANGED <<started, nw>>
Mnld == MnldUpdate /\ UNCHANGED <<started, nw>>
Answer == UpdateDone /\ UNCHANGED <<started, nw>>
Day == Midnight /\ UNCHANGED <<started, nw>>

Next == \/ Thread \/ InterfaceInit \/ Start \/ Stop
        \/ Network \/ Alarm \/ Mnld \/ Answer \/ Day

\* The thread only sleeps for a time, and the timer goes off.
Spec == Init /\ [][Next]_vars /\ WF_vars(Thread) /\ WF_vars(Alarm)
-----------------------------------------------------------------------------
\* All pieces of one day's prediction, in order, each once.
Whole(f) == /\ Len(f) = PieceCount
            /\ \A n \in DOMAIN f : f[n].whole /\ f[n].k = n - 1 /\ f[n].day = f[1].day

(* When mtk_gps_epo_file_update finds that the last piece is there, EPOHAL.DAT
   holds every piece of a single prediction, in order and once, whatever
   failures, retries, restarts after a day and changes on the server came
   before; unless another thread reset the download while a piece was being
   fetched or a piece without a record was appended. *)
EpoWhole == [][Complete => disturbed \/ Whole(files.hal)]_vars

\* From 31 December 2015 to 1 March 2020: two years with a 29 February, two without.
CalendarDays == 13143 .. 14665

\* GpsToUtcTime and mktime give every day its own number back.
CalendarRight == \A d \in CalendarDays : mktime(GpsToUtcTime(d)) = d

(* mtk_gps_epo_file_time_hal reads from EPOHAL.DAT the days on which its
   prediction really begins and ends, through GpsToUtcTime, which is right on
   every day of the calendar. *)
EpoTimesRight ==
  /\ CalendarRight
  /\ files.hal # << >> /\ (\A n \in DOMAIN files.hal : files.hal[n].whole) =>
       mtk_gps_epo_file_time_hal = <<TrueStart(files.hal[1]), TrueEnd(files.hal[Len(files.hal)])>>

(* A failed download is not retried for ever and not left alone: while the
   network stays up (Wi-Fi, or a running GPS), it completes, begins anew or is
   given up after RetryLimit attempts. *)
RetryEnds ==
  <>[](nw.connected /\ (started \/ nw.type = "wifi")) => (epo.failed ~> ~epo.failed)
=============================================================================
