------------------------------ MODULE MCGpsHal -------------------------------
(***************************************************************************)
(* A small instance of GpsHal: lists of 3 and 4 satellites, 2 of them in a  *)
(* GSV sentence, and lines that contain every kind of sentence, the groups *)
(* of two systems that together exceed a list, an empty field and lines of *)
(* every length class.                                                     *)
(***************************************************************************)
EXTENDS GpsHal

Line(s) == [size |-> "fits", sentence |-> s]
Gsv(talker, num, seq, cnt, ids) ==
  Line([id |-> "GSV", talker |-> talker, num |-> num, seq |-> seq, cnt |-> cnt, ids |-> ids])

SmallFixLines ==
  {[size |-> "short"],
   Line([id |-> "GGA", talker |-> "GP", time |-> TRUE, position |-> TRUE, altitude |-> FALSE]),
   Line([id |-> "RMC", talker |-> "GP", status |-> "A", date |-> TRUE, position |-> TRUE, moving |-> TRUE]),
   Line([id |-> "ACCURACY", talker |-> "GP", accuracy |-> TRUE]),
   Line([id |-> "GSA", talker |-> "GP", mode |-> 3, ids |-> <<1, 2>>]),
   Line([id |-> "GSA", talker |-> "GP", mode |-> 1, ids |-> << >>])}

SmallSvLines ==
  {[size |-> "full"], [size |-> "long"],
   Gsv("GP", 2, 1, 3, <<1, 2>>), Gsv("GP", 2, 2, 3, <<3>>),
   Gsv("GL", 1, 1, 2, <<65, 66>>), Gsv("BD", 1, 1, 1, <<1>>)}

\* gps.conf switches EPO off; MCGpsEpo has the download.
EpoOff == {[present |-> TRUE, crlf |-> TRUE, EPO_ENABLE |-> 0, DW_DAYS |-> 3, GPS_EPO_PERIOD |-> 3,
            WIFI_EPO_PERIOD |-> 3, EPO_WIFI_TRIGGER |-> 0]}
=============================================================================
