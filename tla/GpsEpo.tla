------------------------------- MODULE GpsEpo --------------------------------
(***************************************************************************)
(* The EPO download of the GPS HAL (gps_mtk_aosp.c): a thread fetches       *)
(* predicted satellite orbits from a server in pieces of three days,       *)
(* appends them to EPOHAL.DAT and, when all are there, tells the daemon    *)
(* MNLD to take the file over as EPO.DAT.  A start of the GPS, an answer   *)
(* of MNLD and a retry alarm touch the same files and counters from other  *)
(* threads, without a lock.                                                *)
(*                                                                         *)
(* The server renews its prediction every day: piece k of day d covers     *)
(* days d+3k to d+3k+3.  A piece is "whole" unless the download ended      *)
(* before its first record.  EPOHAL.DAT is the sequence of its pieces, of  *)
(* EPO.DAT only the times are kept; the empty sequence is a file that does *)
(* not exist.  Local file operations and timer_create succeed.             *)
(***************************************************************************)
EXTENDS GpsTime, FiniteSets

CONSTANTS ConfFiles,     \* the contents gps.conf may have
          MaxPieces,     \* names of pieces (10 in gps_download_epo_file_name)
          RetryLimit,    \* attempts for one piece before giving up (10)
          DayZero,       \* the GPS day on which a behaviour begins
          MaxDay         \* bound: days that pass in a behaviour

ASSUME EpoAssumption == /\ MaxPieces \in Nat \ {0} /\ RetryLimit \in Nat \ {0}
                        /\ DayZero \in Nat /\ MaxDay \in Nat

VARIABLES conf,       \* the settings read from gps.conf
          epo,        \* epo_data_updated, epo_download_failed, epo_download_retry, gps_epo_file_count
          epoThread,  \* thread_epo_file_update: where it is, and its local and static variables
          files,      \* EPOHAL.DAT, EPO.DAT and the piece files
          alarm,      \* the retry timer is armed
          today,      \* days since DayZero
          started,    \* the HAL thread handled CMD_START
          nw,         \* nw_connected and nw_type
          update,     \* UPDATE_EPO_FILE requests and answers under way
          disturbed   \* the file being built was disturbed (see Disturb)

epoVars == <<conf, epo, epoThread, files, alarm, today, update, disturbed>>
-----------------------------------------------------------------------------
(* gps.conf *)

\* str2int is given all but the last character of a value: right for a line that
\* ends in CR LF, one digit short for one that ends in LF.
ConfValue(file, key) == IF file.crlf THEN file[key] ELSE file[key] \div 10

Within(v, allowed, otherwise) == IF v \in allowed THEN v ELSE otherwise

gps_download_epo_enable(file) ==
  IF ~file.present
  THEN [enable |-> 1, days |-> 30, period |-> 3, wifiPeriod |-> 1, trigger |-> 0]
  ELSE [enable |-> Within(ConfValue(file, "EPO_ENABLE"), {0, 1}, 1),
        days |-> Within(ConfValue(file, "DW_DAYS"), 0 .. 30, 30),
        period |-> Within(ConfValue(file, "GPS_EPO_PERIOD"), {3, 15, 30}, 3),
        wifiPeriod |-> Within(ConfValue(file, "WIFI_EPO_PERIOD"), {3, 15, 30}, 1),
        trigger |-> Within(ConfValue(file, "EPO_WIFI_TRIGGER"), {0, 1}, 1)]

\* The pieces that make a file: the first one always, and no more than have names.
count_temp == (conf.days + 2) \div 3
PieceCount == IF count_temp = 0 THEN 1 ELSE IF count_temp > MaxPieces THEN MaxPieces ELSE count_temp
-----------------------------------------------------------------------------
(* Pieces and files. *)

NoPiece == [day |-> -1, k |-> -1, whole |-> FALSE]
Piece(d, k) == [day |-> d, k |-> k, whole |-> TRUE]
ShortPiece(k) == [day |-> -1, k |-> k, whole |-> FALSE]
NoPieces == [k \in 0 .. MaxPieces - 1 |-> NoPiece]

TrueStart(p) == p.day + 3 * p.k
TrueEnd(p) == TrueStart(p) + 3

\* What GpsToUtcTime and mktime make of a day, computed once for all days.
UtcDays == [d \in 0 .. MaxDay + 3 * MaxPieces |-> mktime(GpsToUtcTime(DayZero + d)) - DayZero]

mtk_gps_epo_piece_data_start(p) == UtcDays[TrueStart(p)]
mtk_gps_epo_piece_data_end(p) == UtcDays[TrueEnd(p)]

Readable(f) == f # << >> /\ f[1].whole
mtk_gps_sys_epo_period_start(f) == mtk_gps_epo_piece_data_start(f[1])
mtk_gps_sys_epo_period_end(f) ==
  LET n == CHOOSE n \in DOMAIN f : f[n].whole /\ \A m \in DOMAIN f : m > n => ~f[m].whole
  IN  mtk_gps_epo_piece_data_end(f[n])

\* Without a readable file the times stay 0, which is long ago.
LongAgo == <<-DayZero, -DayZero>>
Times(f) == IF Readable(f) THEN <<mtk_gps_sys_epo_period_start(f), mtk_gps_sys_epo_period_end(f)>> ELSE LongAgo

\* Of EPOHAL.DAT, or else of EPO.DAT.
mtk_gps_epo_file_time_hal ==
  IF files.hal # << >> THEN Times(files.hal) ELSE IF files.dat # << >> THEN files.dat ELSE LongAgo

\* How many days after its start a file of some length is used.
expired_set(wifi_tragger, days) ==
  IF wifi_tragger THEN conf.wifiPeriod
  ELSE IF days >= conf.period THEN conf.period
  ELSE IF days < 3 THEN 0 ELSE IF days < 6 THEN 2 ELSE IF days < 9 THEN 5 ELSE 7

mtk_epo_is_expired(wifi_tragger) ==
  LET uTime == mtk_gps_epo_file_time_hal
  IN  today >= expired_set(wifi_tragger, uTime[2] - uTime[1]) + uTime[1]
-----------------------------------------------------------------------------
(* What other threads do to a download. *)

\* The thread is between choosing the name of a piece and counting it.
Downloading == epoThread.pc \in {"curl", "append", "changed"}

\* MNL_CMD_UPDATE_EPO_FILE; a failing send is only logged.
AskMnld == update' \in {update, [update EXCEPT !.asked = TRUE]}

\* A request: epo_data_updated = 1 and back to the first piece.
gps_download_epo(e) == [e EXCEPT !.updated = TRUE, !.count = 0]

\* mtk_gps_start asks for a download, or offers the file that is there to MNLD.
mtk_gps_start_epo ==
  LET Request(hal) == /\ epo' = gps_download_epo(epo)
                      /\ files' = [files EXCEPT !.hal = hal]
                      /\ disturbed' = (disturbed \/ Downloading)
                      /\ UNCHANGED update
      Nop == UNCHANGED <<epo, files, update, disturbed>>
  IN
  IF conf.enable = 0 THEN Nop
  ELSE IF files.hal = << >>
  THEN IF files.dat = << >> \/ mtk_epo_is_expired(FALSE) THEN Request(<< >>) ELSE Nop
  ELSE IF epo.failed /\ nw.connected /\ nw.type = "wifi" THEN Nop
  ELSE IF mtk_epo_is_expired(FALSE) THEN Request(<< >>)
  ELSE /\ files' = [files EXCEPT !.dat = << >>]
       /\ AskMnld
       /\ UNCHANGED <<epo, disturbed>>

\* HAL_CMD_UPDATE_EPO_FILE_DONE: EPOHAL.DAT was taken over and is removed.
UpdateDone ==
  /\ update.done
  /\ update' = [update EXCEPT !.done = FALSE]
  /\ IF ~epo.failed /\ epo.count = 0
     THEN /\ files' = [files EXCEPT !.hal = << >>]
          /\ disturbed' = (disturbed \/ Downloading)
     ELSE UNCHANGED <<files, disturbed>>
  /\ UNCHANGED <<conf, epo, epoThread, alarm, today>>

\* MNLD, external: it takes EPOHAL.DAT over as EPO.DAT, or it reports
\* a failure, which the HAL only logs.
MnldUpdate ==
  /\ update.asked
  /\ \/ /\ files.hal # << >>
        /\ files' = [files EXCEPT !.dat = Times(files.hal)]
        /\ update' = [update EXCEPT !.asked = FALSE, !.done = TRUE]
     \/ /\ update' = [update EXCEPT !.asked = FALSE]
        /\ UNCHANGED files
  /\ UNCHANGED <<conf, epo, epoThread, alarm, today, disturbed>>

retry_alarm_handler ==
  /\ alarm
  /\ alarm' = FALSE
  /\ epo' = [epo EXCEPT !.retry = TRUE]
  /\ UNCHANGED <<conf, epoThread, files, today, update, disturbed>>
-----------------------------------------------------------------------------
(* One download: mtk_gps_epo_file_update, for the piece epoThread.name. *)

\* curl_easy_download_epo: the piece is fetched, as the server has it today.
Fetch ==
  /\ epoThread.pc = "curl"
  /\ \E whole \in BOOLEAN :
       files' = [files EXCEPT !.piece[epoThread.name] =
                   IF whole THEN Piece(today, epoThread.name) ELSE ShortPiece(epoThread.name)]
  /\ epoThread' = [epoThread EXCEPT !.pc = "append"]
  /\ UNCHANGED <<conf, epo, alarm, today, update, disturbed>>

\* Back in the loop, after the first or after a resumed download.
Back(t) == [t EXCEPT !.pc = IF t.resumed THEN "tally" ELSE "resume"]

\* epo_data_updated is dropped when the first attempt failed.
Returned(e) == IF ~epoThread.resumed /\ e.failed THEN [e EXCEPT !.updated = FALSE] ELSE e

\* The download fails: the piece is removed, unless no URL was made at all.
FetchFails ==
  /\ epoThread.pc = "curl"
  /\ files' \in {files, [files EXCEPT !.piece[epoThread.name] = NoPiece]}
  /\ epo' = Returned([epo EXCEPT !.failed = TRUE])
  /\ epoThread' = Back(epoThread)
  /\ UNCHANGED <<conf, alarm, today, update, disturbed>>

(* The piece is appended to EPOHAL.DAT, the first one to a new file.  A piece
   without a record stays in the file although it will be fetched again; that
   counts as a disturbance, and a new file ends all of them. *)
Merge ==
  /\ epoThread.pc = "append"
  /\ LET p == files.piece[epoThread.name]
     IN  /\ files' = [files EXCEPT !.hal = IF epo.count = 0 THEN <<p>> ELSE Append(files.hal, p)]
         /\ disturbed' = ((disturbed /\ ~(epo.count = 0 /\ epoThread.name = 0)) \/ (epo.count # 0 /\ ~p.whole))
  /\ epoThread' = [epoThread EXCEPT !.pc = "changed"]
  /\ UNCHANGED <<conf, epo, alarm, today, update>>

\* Faulty variant of mtk_gps_epo_server_data_is_changed: a gap of one day is
\* still taken as the same data.
mtk_gps_epo_server_data_is_changed_OffByOne(new, prev) ==
  new.whole /\ (prev.whole => mtk_gps_epo_piece_data_start(new) - mtk_gps_epo_piece_data_end(prev) > 1)

\* The new piece begins a day or more after the end of the one before it; the
\* end of a piece that is missing or without a record is long ago.
mtk_gps_epo_server_data_is_changed(new, prev) ==
  new.whole /\ (prev.whole => mtk_gps_epo_piece_data_start(new) - mtk_gps_epo_piece_data_end(prev) >= 1)

\* The piece whose name gps_download_epo_file_name made.
NewPiece == files.piece[epoThread.name]
Unreadable(p) == p # NoPiece /\ ~p.whole

\* The server has new data: everything fetched so far is dropped.
ServerChanged ==
  /\ epoThread.pc = "changed" /\ epo.count > 0
  /\ mtk_gps_epo_server_data_is_changed(NewPiece, files.piece[epo.count - 1])
  /\ files' = [files EXCEPT !.hal = << >>,
                            !.piece = [k \in DOMAIN @ |-> IF k <= epo.count THEN NoPiece ELSE @[k]]]
  /\ epo' = Returned([epo EXCEPT !.count = 0, !.failed = @ \/ Unreadable(files.piece[epo.count - 1])])
  /\ epoThread' = Back(epoThread)
  /\ UNCHANGED <<conf, alarm, today, update, disturbed>>

\* A piece without a record fails the download.
PieceUnreadable ==
  /\ epoThread.pc = "changed"
  /\ Unreadable(NewPiece)
  /\ epo' = Returned([epo EXCEPT !.failed = TRUE])
  /\ epoThread' = Back(epoThread)
  /\ UNCHANGED <<conf, files, alarm, today, update, disturbed>>

PieceGood ==
  /\ epoThread.pc = "changed"
  /\ ~Unreadable(NewPiece)
  /\ epo.count > 0 => ~mtk_gps_epo_server_data_is_changed(NewPiece, files.piece[epo.count - 1])

\* The piece counts and more are to come.
NextPiece ==
  /\ PieceGood /\ epo.count + 1 < PieceCount
  /\ epo' = Returned([epo EXCEPT !.count = @ + 1])
  /\ epoThread' = Back(epoThread)
  /\ UNCHANGED <<conf, files, alarm, today, update, disturbed>>

\* The file is complete.  While the GPS runs MNLD is asked to take it over.
Complete ==
  /\ PieceGood /\ epo.count + 1 >= PieceCount
  /\ epo' = [epo EXCEPT !.updated = FALSE, !.count = 0, !.failed = FALSE]
  /\ files' = [files EXCEPT !.piece = [k \in DOMAIN @ |-> IF k < count_temp THEN NoPiece ELSE @[k]],
                            !.dat = IF started THEN << >> ELSE @]
  /\ IF started THEN AskMnld ELSE UNCHANGED update
  /\ epoThread' = Back(epoThread)
  /\ UNCHANGED <<conf, alarm, today, disturbed>>

mtk_gps_epo_file_update ==
  Fetch \/ FetchFails \/ Merge \/ ServerChanged \/ PieceUnreadable \/ NextPiece \/ Complete
-----------------------------------------------------------------------------
(* The loop of thread_epo_file_update. *)

\* After the sleep: a requested download begins, and forgets an earlier failure.
Wake ==
  /\ epoThread.pc = "sleep"
  /\ IF epo.updated
     THEN /\ epo' = [epo EXCEPT !.failed = FALSE]
          /\ epoThread' = [epoThread EXCEPT !.pc = "curl", !.name = epo.count, !.resumed = FALSE]
     ELSE /\ epoThread' = [epoThread EXCEPT !.pc = "resume"]
          /\ UNCHANGED epo
  /\ UNCHANGED <<conf, files, alarm, today, update, disturbed>>

MayResume == (started \/ nw.type = "wifi") /\ nw.connected /\ epo.failed /\ epo.retry

\* A failed download goes on where it stopped, or begins again after a day.
Resume ==
  /\ epoThread.pc = "resume" /\ MayResume
  /\ LET t == [epoThread EXCEPT !.temp = epo.count, !.resumed = TRUE,
                                !.file_retrying = IF @ = 50 THEN epo.count ELSE @]
     IN  IF today >= mtk_gps_epo_file_time_hal[1] + 1
         THEN /\ epo' = [epo EXCEPT !.failed = FALSE, !.count = 0, !.updated = TRUE]
              /\ files' = [files EXCEPT !.hal = << >>]
              /\ epoThread' = [t EXCEPT !.pc = "tally"]
         ELSE /\ epoThread' = [t EXCEPT !.pc = "curl", !.name = epo.count]
              /\ UNCHANGED <<epo, files>>
  /\ UNCHANGED <<conf, alarm, today, update, disturbed>>

NoResume ==
  /\ epoThread.pc = "resume" /\ ~MayResume
  /\ epoThread' = [epoThread EXCEPT !.pc = "trigger"]
  /\ UNCHANGED <<conf, epo, files, alarm, today, update, disturbed>>

\* Faulty variant of Tally: no attempt that got nowhere is the last.
Tally_NeverGivesUp ==
  /\ epoThread.pc = "tally"
  /\ IF epoThread.temp # epo.count
     THEN /\ epoThread' = [epoThread EXCEPT !.pc = "trigger"]
          /\ UNCHANGED <<epo, alarm>>
     ELSE /\ epo' = [epo EXCEPT !.retry = FALSE]
          /\ alarm' = TRUE
          /\ epoThread' = [epoThread EXCEPT !.pc = "trigger"]
  /\ UNCHANGED <<conf, files, today, update, disturbed>>

\* An attempt that got nowhere waits for the alarm, the last one gives up.
Tally ==
  /\ epoThread.pc = "tally"
  /\ IF epoThread.temp # epo.count
     THEN /\ epoThread' = [epoThread EXCEPT !.pc = "trigger"]
          /\ UNCHANGED <<epo, alarm>>
     ELSE LET n == IF epoThread.file_retrying = epo.count THEN epoThread.retry_time + 1 ELSE 0
          IN  IF n < RetryLimit
              THEN /\ epo' = [epo EXCEPT !.retry = FALSE]
                   /\ alarm' = TRUE
                   /\ epoThread' = [epoThread EXCEPT !.pc = "trigger", !.retry_time = n, !.file_retrying = epo.count]
              ELSE /\ epo' = [epo EXCEPT !.failed = FALSE]
                   /\ epoThread' = [epoThread EXCEPT !.pc = "trigger", !.retry_time = 0, !.file_retrying = 50]
                   /\ UNCHANGED alarm
  /\ UNCHANGED <<conf, files, today, update, disturbed>>

\* On Wi-Fi an expired file is renewed without a start.
WifiTrigger ==
  /\ epoThread.pc = "trigger"
  /\ epoThread' = [epoThread EXCEPT !.pc = "sleep", !.name = 0, !.temp = 0, !.resumed = FALSE]
  /\ IF /\ ~epo.updated /\ conf.trigger = 1 /\ conf.enable = 1
        /\ ~epo.failed /\ nw.connected /\ nw.type = "wifi"
        /\ mtk_epo_is_expired(TRUE)
     THEN /\ epo' = gps_download_epo(epo)
          /\ files' = [files EXCEPT !.hal = << >>]
     ELSE UNCHANGED <<epo, files>>
  /\ UNCHANGED <<conf, alarm, today, update, disturbed>>

thread_epo_file_update ==
  Wake \/ mtk_gps_epo_file_update \/ Resume \/ NoResume \/ Tally \/ WifiTrigger

\* A day passes.
Midnight ==
  /\ today < MaxDay
  /\ today' = today + 1
  /\ UNCHANGED <<conf, epo, epoThread, files, alarm, update, disturbed>>

\* EPO.DAT may be left from the day before.
EpoInit ==
  /\ conf \in {gps_download_epo_enable(f) : f \in ConfFiles}
  /\ epo = [updated |-> FALSE, failed |-> FALSE, retry |-> TRUE, count |-> 0]
  /\ epoThread = [pc |-> "none", name |-> 0, temp |-> 0, resumed |-> FALSE,
                  file_retrying |-> 50, retry_time |-> 0]
  /\ files \in {[hal |-> << >>, dat |-> old, piece |-> NoPieces] : old \in {<< >>, <<-1, 2>>}}
  /\ alarm = FALSE /\ today = 0 /\ disturbed = FALSE
  /\ update = [asked |-> FALSE, done |-> FALSE]
=============================================================================
