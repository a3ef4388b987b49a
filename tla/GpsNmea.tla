------------------------------- MODULE GpsNmea -------------------------------
(***************************************************************************)
(* The NMEA reader of the GPS HAL (nmea_reader_* of gps_mtk_aosp.c).  The  *)
(* thread of the HAL feeds it what it reads from /dev/gps; each complete   *)
(* line updates the reader and the line that ends a chunk (gps_nmea_end_tag)*)
(* reports a location and the satellites in view.                          *)
(*                                                                         *)
(* A line is given by its length class and its fields; the numbers of a    *)
(* location are left out, its flags are kept.  Satellites keep their       *)
(* numbers, which the code filters.  The reader is a record and each       *)
(* function of the code an operator that returns the reader after it.      *)
(***************************************************************************)
EXTENDS Integers, Sequences, FiniteSets

CONSTANTS GPS_MAX_SVS,        \* entries of GpsSvStatus.sv_list (32 in gps.h)
          GNSS_MAX_SVS,       \* entries of GnssSvStatus.gnss_sv_list (64)
          NMEA_MAX_SV_INFO    \* satellites in one GSV sentence (4)

ASSUME SvAssumption == /\ GPS_MAX_SVS \in Nat \ {0} /\ GNSS_MAX_SVS \in Nat \ {0}
                       /\ NMEA_MAX_SV_INFO \in Nat \ {0}

LocationFlags == {"LAT_LONG", "ALTITUDE", "SPEED", "BEARING", "ACCURACY"}

(* A sentence: which fields are present (time, position, ...), and the numbers
   that the code looks at. *)
Sentence ==
  [id : {"GGA"}, talker : STRING, time : BOOLEAN, position : BOOLEAN, altitude : BOOLEAN]
  \union [id : {"RMC"}, talker : STRING, status : STRING, date : BOOLEAN, position : BOOLEAN, moving : BOOLEAN]
  \union [id : {"ACCURACY"}, talker : STRING, accuracy : BOOLEAN]
  \union [id : {"GSA"}, talker : STRING, mode : Int, ids : Seq(Int)]
  \union [id : {"GSV"}, talker : STRING, num : Int, seq : Int, cnt : Int, ids : Seq(Int)]

\* A line by its length class, see nmea_reader_addc.
NmeaLine == [size : {"short", "full", "long"}] \union [size : {"fits"}, sentence : Sentence]

\* gps_mode: 0 reports GnssSvStatus, 1 reports GpsSvStatus.
ListSize(mode) == IF mode = 0 THEN GNSS_MAX_SVS ELSE GPS_MAX_SVS

(* Besides the fields of NmeaReader a reader keeps three facts about them:
   current, the flags whose value was parsed since flags was last cleared by a
   start; written, the list entries filled since the last report; and whether
   the group of GSV sentences that sv_count belongs to is already counted, or
   was continued after it had been (orphan). *)
nmea_reader_init ==
  [overflow |-> FALSE, date |-> "unset", flags |-> {}, current |-> {}, fix_mode |-> 0,
   sv_count |-> 0, num_svs |-> 0, used |-> {}, written |-> {}, counted |-> FALSE, orphan |-> FALSE]

\* sv_count and num_svs start again from nothing.
NoSvs(r) == [r EXCEPT !.sv_count = 0, !.num_svs = 0, !.written = {}, !.counted = FALSE, !.orphan = FALSE]

\* Faulty variant of nmea_reader_set_callback: the flags of the last fix stay.
nmea_reader_set_callback_Keeps(r) == [NoSvs(r) EXCEPT !.current = {}]

\* Registering callbacks (CMD_START); with NULL (CMD_STOP) nothing changes.
nmea_reader_set_callback(r) == [NoSvs(r) EXCEPT !.flags = {}, !.current = {}]
-----------------------------------------------------------------------------
(* Time and position. *)

Has(r, f) == [r EXCEPT !.flags = @ \union {f}, !.current = @ \union {f}]

\* An empty field leaves the reader alone.
UpdateIf(r, given, f) == IF given THEN Has(r, f) ELSE r

\* Without a date from a sentence the date of the system is taken, and kept.
nmea_reader_update_time(r, given) ==
  IF given /\ r.date = "unset" THEN [r EXCEPT !.date = "system"] ELSE r

nmea_reader_update_date(r, given) ==
  IF given THEN [r EXCEPT !.date = "sentence"] ELSE r

nmea_reader_update_latlong(r, given) == UpdateIf(r, given, "LAT_LONG")
nmea_reader_update_altitude(r, given) == UpdateIf(r, given, "ALTITUDE")
nmea_reader_update_bearing(r, given) == UpdateIf(r, given, "BEARING")
nmea_reader_update_speed(r, given) == UpdateIf(r, given, "SPEED")
nmea_reader_update_accuracy(r, given) == UpdateIf(r, given, "ACCURACY")

LOC_FIXED(r) == r.fix_mode \in {2, 3}

GGA(r, s) ==
  nmea_reader_update_altitude(
    nmea_reader_update_latlong(nmea_reader_update_time(r, s.time), s.position), s.altitude)

RMC(r, s) ==
  IF s.status # "A" THEN r
  ELSE nmea_reader_update_speed(
         nmea_reader_update_bearing(
           nmea_reader_update_latlong(nmea_reader_update_date(r, s.date), s.position), s.moving), s.moving)

ACCURACY(r, s) == IF LOC_FIXED(r) THEN nmea_reader_update_accuracy(r, s.accuracy) ELSE r
-----------------------------------------------------------------------------
(* Satellites used in the fix. *)

SvId(s, id) == IF s.talker = "BD" THEN id + 200 ELSE id

GpsIds == 1 .. 32
QzssIds == 193 .. 197
GlonassIds == 65 .. 96
BeidouIds == 201 .. 232

\* The position of the first id of a list that ends the loop over it.
EndsLoop(ids, good, n) ==
  /\ n = Len(ids) + 1 \/ ids[n] \notin good
  /\ \A m \in 1 .. n - 1 : ids[m] \in good

FirstBad(ids, good) == CHOOSE n \in 1 .. Len(ids) + 1 : EndsLoop(ids, good, n)

\* The loop adds to sv_used_in_fix until an id that is of no system.
GsaGnss(r, s) ==
  LET q == [r EXCEPT !.fix_mode = s.mode]
      ids == [n \in 1 .. Len(s.ids) |-> SvId(s, s.ids[n])]
      bad == FirstBad(ids, GpsIds \union QzssIds \union GlonassIds \union BeidouIds)
  IN  IF LOC_FIXED(q)
      THEN [q EXCEPT !.used = (@ \union {ids[n] : n \in 1 .. bad - 1}) \ QzssIds]
      ELSE q

\* The mask starts empty, and an id that is neither GPS nor QZSS empties it.
GsaGps(r, s) ==
  LET q == [r EXCEPT !.fix_mode = s.mode, !.used = {}]
  IN  IF LOC_FIXED(q) /\ FirstBad(s.ids, GpsIds \union QzssIds) = Len(s.ids) + 1
      THEN [q EXCEPT !.used = {s.ids[m] : m \in 1 .. Len(s.ids)} \ QzssIds]
      ELSE q
-----------------------------------------------------------------------------
(* Satellites in view. *)

\* The ids that the list of the mode takes.
nmea_reader_update_sv_status_gps(id) ==
  id > 0 /\ ~(id < 65 /\ id > GPS_MAX_SVS) /\ id <= 96

nmea_reader_update_sv_status_gnss(id) ==
  id > 0 /\ ~(id < 65 /\ id > GPS_MAX_SVS) /\ ~(id > 96 /\ id < 200) /\ id <= 232

Listed(mode, id) ==
  IF mode = 0 THEN nmea_reader_update_sv_status_gnss(id) ELSE nmea_reader_update_sv_status_gps(id)

\* Faulty variant of AddSv: only the satellites of this group are compared with
\* the size of the list.
AddSv_GroupOnly(r, mode, id) ==
  IF Listed(mode, id) /\ r.sv_count < ListSize(mode)
  THEN [r EXCEPT !.sv_count = @ + 1, !.written = @ \union {r.sv_count + r.num_svs}]
  ELSE r

\* One satellite goes behind those of earlier groups and of this group.
AddSv(r, mode, id) ==
  LET sv_index == r.sv_count + r.num_svs
  IN  IF Listed(mode, id) /\ sv_index < ListSize(mode)
      THEN [r EXCEPT !.sv_count = @ + 1, !.written = @ \union {sv_index}]
      ELSE r

AddSvs(r, mode, ids) ==
  LET Added[n \in 0 .. Len(ids)] == IF n = 0 THEN r ELSE AddSv(Added[n - 1], mode, ids[n])
  IN  Added[Len(ids)]

\* The satellites of one sentence; an absent field reads as number 0.
GsvIds(s) ==
  LET base == (s.seq - 1) * NMEA_MAX_SV_INFO
      left == s.cnt - base
      sv_num == IF left > NMEA_MAX_SV_INFO THEN NMEA_MAX_SV_INFO ELSE left
  IN  [n \in 1 .. sv_num |-> SvId(s, IF n <= Len(s.ids) THEN s.ids[n] ELSE 0)]

\* The first sentence of a group starts its count.
GsvGroup(r, s) ==
  IF s.seq = 1
  THEN [r EXCEPT !.sv_count = 0, !.counted = FALSE, !.written = {i \in @ : i < r.num_svs}]
  ELSE [r EXCEPT !.orphan = @ \/ r.counted]

\* The last one counts the group, or discards the whole list.
GSV(r, mode, s) ==
  LET q == AddSvs(GsvGroup(r, s), mode, GsvIds(s))
  IN  IF s.seq # s.num THEN q
      ELSE IF q.sv_count <= s.cnt
           THEN [q EXCEPT !.num_svs = @ + q.sv_count, !.counted = TRUE]
           ELSE NoSvs(q)
-----------------------------------------------------------------------------
(* A sentence, and what it reports. *)

Parsed(r, mode, s) ==
  CASE s.id = "GGA" -> GGA(r, s)
    [] s.id = "GSA" /\ mode = 0 /\ s.talker \in {"GP", "BD", "GL"} -> GsaGnss(r, s)
    [] s.id = "GSA" /\ mode = 1 /\ s.talker = "GP" -> GsaGps(r, s)
    [] s.id = "RMC" -> RMC(r, s)
    [] s.id = "GSV" /\ (mode = 0 \/ s.talker \in {"GP", "GL"}) -> GSV(r, mode, s)
    [] s.id = "ACCURACY" -> ACCURACY(r, s)
    [] OTHER -> r

Nothing == [kind |-> "none"]

\* location_cb at the end of a chunk, while there is a fix and something new.
FixReport(r, end) ==
  IF end /\ LOC_FIXED(r) /\ r.flags # {}
  THEN [kind |-> "location", flags |-> r.flags, current |-> r.current]
  ELSE Nothing

\* sv_status_cb or gnss_sv_status_cb at the end of a chunk.
SvReport(r, mode, end) ==
  IF end /\ r.num_svs # 0
  THEN [kind |-> "svs", num |-> r.num_svs, size |-> ListSize(mode), written |-> r.written, orphan |-> r.orphan]
  ELSE Nothing

AfterReports(r, mode, end) ==
  LET q == IF FixReport(r, end) = Nothing THEN r ELSE [r EXCEPT !.flags = {}]
  IN  IF SvReport(r, mode, end) = Nothing THEN q ELSE [NoSvs(q) EXCEPT !.used = {}]

(* The characters of one line.  "long" is longer than the buffer: the overflow
   ends at its own newline.  "full" fills the buffer exactly: its newline is the
   character that overflows, so the overflow lasts through the next line.
   "short" is not parsed at all. *)
nmea_reader_addc(r, mode, line, end) ==
  LET Silent(q) == [reader |-> q, fix |-> Nothing, svs |-> Nothing]
  IN
  CASE r.overflow -> Silent([r EXCEPT !.overflow = FALSE])
    [] line.size = "long" -> Silent(r)
    [] line.size = "full" -> Silent([r EXCEPT !.overflow = TRUE])
    [] line.size = "short" -> Silent(r)
    [] OTHER ->
         LET q == Parsed(r, mode, line.sentence)
         IN  [reader |-> AfterReports(q, mode, end), fix |-> FixReport(q, end),
              svs |-> SvReport(q, mode, end)]
=============================================================================
