---------------------------- MODULE GpsHalProofs ----------------------------
(***************************************************************************)
(* Proofs of the safety properties of GpsHal that hold with any faults,    *)
(* for any lines from /dev/gps, any sizes of the lists of satellites and   *)
(* any number of calls, faults and messages.  GpsSessionProofs adds the    *)
(* agreement of the parties on the session.                                *)
(***************************************************************************)
EXTENDS GpsHal, WellFoundedInduction, TLAPS

-----------------------------------------------------------------------------
(* The NMEA reader *)

Reader ==
  [overflow : BOOLEAN, date : {"unset", "system", "sentence"}, flags : SUBSET LocationFlags, current : SUBSET LocationFlags,
   fix_mode : Int, sv_count : Nat, num_svs : Nat, used : SUBSET Int, written : SUBSET Nat,
   counted : BOOLEAN, orphan : BOOLEAN]

\* What the list has is counted and was written: the groups that are complete, and the
\* group that is not counted yet.
ListFilled(r, mode) ==
  \/ r.orphan
  \/ /\ r.num_svs <= ListSize(mode)
     /\ 0 .. r.num_svs - 1 \subseteq r.written
     /\ ~r.counted => /\ r.num_svs + r.sv_count <= ListSize(mode)
                      /\ 0 .. r.num_svs + r.sv_count - 1 \subseteq r.written

ReaderSound(r, mode) == r \in Reader /\ r.flags \subseteq r.current /\ ListFilled(r, mode)
-----------------------------------------------------------------------------
(* Lemmas about the reader *)

\* Every set of natural numbers that is not empty has a least element.
LEMMA LeastNatural ==
  ASSUME NEW T, T \subseteq Nat, T # {}
  PROVE  \E m \in T : \A x \in T : m <= x
<1>1. PICK m \in T : \A y \in T : ~ (<<y, m>> \in OpToRel(<, Nat))
  BY Zenon, NatLessThanWellFounded, WFMin
<1>2. \A y \in T : ~ (y < m)
  BY Zenon, <1>1 DEF OpToRel
<1> QED BY <1>2

\* The loop over the ids of a GSA sentence ends.
LEMMA LoopEnds ==
  ASSUME NEW ids, Len(ids) \in Nat, NEW good
  PROVE  FirstBad(ids, good) \in 1 .. Len(ids) + 1
<1> DEFINE Out == {n \in 1 .. Len(ids) : ids[n] \notin good}
<1>1. \E n \in 1 .. Len(ids) + 1 : EndsLoop(ids, good, n)
  <2>1. CASE Out = {}
    <3>1. EndsLoop(ids, good, Len(ids) + 1)
      BY <2>1 DEF EndsLoop
    <3> QED BY <3>1
  <2>2. CASE Out # {}
    <3>1. Out \subseteq Nat
      OBVIOUS
    <3>2. PICK n \in Out : \A k \in Out : n <= k
      BY Zenon, <2>2, <3>1, LeastNatural
    <3>3. \A m \in 1 .. n - 1 : m \in 1 .. Len(ids) /\ m \notin Out
      BY <3>2, <3>1
    <3>4. EndsLoop(ids, good, n)
      BY Zenon, <3>2, <3>3 DEF EndsLoop
    <3> QED BY <3>2, <3>4
  <2> QED BY Zenon, <2>1, <2>2
<1> QED BY Zenon, <1>1 DEF FirstBad

\* nmea_reader_init.
LEMMA InitReader ==
  ASSUME NEW mode \in {0, 1}
  PROVE  ReaderSound(nmea_reader_init, mode)
<1>1. nmea_reader_init \in Reader
  BY DEF nmea_reader_init, Reader
<1>2. ListSize(mode) \in Nat
  BY Zenon, SvAssumption DEF ListSize
<1> QED BY <1>1, <1>2 DEF nmea_reader_init, ReaderSound, ListFilled

\* Starting the list again, and a start of the GPS.
LEMMA ResetReader ==
  ASSUME NEW mode \in {0, 1}, NEW r, ReaderSound(r, mode)
  PROVE  /\ ReaderSound(NoSvs(r), mode)
         /\ ReaderSound(nmea_reader_set_callback(r), mode)
         /\ ReaderSound([r EXCEPT !.fix_mode = 0], mode)
<1>1. r \in Reader
  BY Zenon DEF ReaderSound
<1>2. ListSize(mode) \in Nat
  BY Zenon, SvAssumption DEF ListSize
<1>3. ReaderSound(NoSvs(r), mode)
  <2>1. NoSvs(r) \in Reader
    BY Zenon, <1>1 DEF NoSvs, Reader
  <2>2. NoSvs(r).num_svs = 0 /\ NoSvs(r).sv_count = 0 /\ NoSvs(r).written = {}
        /\ NoSvs(r).flags = r.flags /\ NoSvs(r).current = r.current
    BY Zenon, <1>1 DEF NoSvs, Reader
  <2> QED BY <2>1, <2>2, <1>2 DEF ReaderSound, ListFilled
<1>4. ReaderSound(nmea_reader_set_callback(r), mode)
  BY Zenon, <1>3 DEF ReaderSound, ListFilled, nmea_reader_set_callback, Reader
<1>5. ReaderSound([r EXCEPT !.fix_mode = 0], mode)
  BY <1>1 DEF ReaderSound, ListFilled, Reader
<1> QED BY Zenon, <1>3, <1>4, <1>5

\* A value of a location is marked as current when it is marked as new.
LEMMA HasFlag ==
  ASSUME NEW mode \in {0, 1}, NEW r, ReaderSound(r, mode), NEW given, NEW f \in LocationFlags
  PROVE  ReaderSound(UpdateIf(r, given, f), mode)
<1>1. r \in Reader
  BY Zenon DEF ReaderSound
<1>2. ReaderSound(Has(r, f), mode)
  BY Zenon, <1>1 DEF ReaderSound, ListFilled, Has, Reader
<1> QED BY Zenon, <1>2 DEF UpdateIf

\* The sentences about time and position.
LEMMA PositionSentence ==
  ASSUME NEW mode \in {0, 1}, NEW r, ReaderSound(r, mode), NEW s
  PROVE  ReaderSound(GGA(r, s), mode) /\ ReaderSound(RMC(r, s), mode) /\ ReaderSound(ACCURACY(r, s), mode)
<1>1. r \in Reader
  BY DEF ReaderSound
<1>2. ReaderSound(nmea_reader_update_time(r, s.time), mode)
  BY Zenon, <1>1 DEF ReaderSound, ListFilled, nmea_reader_update_time, Reader
<1>3. ReaderSound(nmea_reader_update_date(r, s.date), mode)
  BY Zenon, <1>1 DEF ReaderSound, ListFilled, nmea_reader_update_date, Reader
<1>4. ReaderSound(GGA(r, s), mode)
  BY Zenon, <1>2, HasFlag DEF GGA, nmea_reader_update_altitude, nmea_reader_update_latlong, LocationFlags
<1>5. ReaderSound(RMC(r, s), mode)
  BY Zenon, <1>3, HasFlag DEF RMC, nmea_reader_update_speed, nmea_reader_update_bearing,
     nmea_reader_update_latlong, LocationFlags
<1>6. ReaderSound(ACCURACY(r, s), mode)
  BY Zenon, HasFlag DEF ACCURACY, nmea_reader_update_accuracy, LocationFlags
<1> QED BY Zenon, <1>4, <1>5, <1>6

\* The GSA sentences, which name the satellites of the fix.
LEMMA UsedSentence ==
  ASSUME NEW mode \in {0, 1}, NEW r, ReaderSound(r, mode), NEW s, s.mode \in Int, s.ids \in Seq(Int)
  PROVE  ReaderSound(GsaGnss(r, s), mode) /\ ReaderSound(GsaGps(r, s), mode)
<1>1. r \in Reader
  BY Zenon DEF ReaderSound
<1>2. Len(s.ids) \in Nat /\ \A n \in 1 .. Len(s.ids) : s.ids[n] \in Int
  OBVIOUS
<1>3. ASSUME NEW used \in SUBSET Int
      PROVE  ReaderSound([r EXCEPT !.fix_mode = s.mode, !.used = used], mode)
  BY Zenon, <1>1 DEF ReaderSound, ListFilled, Reader
<1>4. ReaderSound(GsaGnss(r, s), mode)
  <2> DEFINE q == [r EXCEPT !.fix_mode = s.mode]
             ids == [n \in 1 .. Len(s.ids) |-> SvId(s, s.ids[n])]
             bad == FirstBad(ids, GpsIds \union QzssIds \union GlonassIds \union BeidouIds)
             used == (r.used \union {ids[n] : n \in 1 .. bad - 1}) \ QzssIds
  <2>1. Len(ids) = Len(s.ids)
    BY <1>2
  <2>2. bad \in 1 .. Len(s.ids) + 1
    BY Zenon, <2>1, <1>2, LoopEnds
  <2>3. \A n \in 1 .. Len(s.ids) : ids[n] \in Int
    BY <1>2 DEF SvId
  <2> HIDE DEF ids, bad
  <2>4. r.used \subseteq Int
    BY Zenon, <1>1 DEF Reader
  <2>5. used \in SUBSET Int
    BY <2>2, <2>3, <2>4, <1>2
  <2>6. q = [r EXCEPT !.fix_mode = s.mode, !.used = r.used]
    BY Zenon, <1>1 DEF Reader
  <2>7. GsaGnss(r, s) = IF LOC_FIXED(q) THEN [q EXCEPT !.used = (@ \union {ids[n] : n \in 1 .. bad - 1}) \ QzssIds] ELSE q
    BY Zenon DEF GsaGnss, ids, bad
  <2>8. [q EXCEPT !.used = (@ \union {ids[n] : n \in 1 .. bad - 1}) \ QzssIds]
          = [r EXCEPT !.fix_mode = s.mode, !.used = used]
    BY Zenon, <1>1 DEF Reader
  <2> QED BY <2>4, <2>5, <2>6, <2>7, <2>8, <1>3, Zenon
<1>5. ReaderSound(GsaGps(r, s), mode)
  <2> DEFINE q == [r EXCEPT !.fix_mode = s.mode, !.used = {}]
             used == {s.ids[m] : m \in 1 .. Len(s.ids)} \ QzssIds
  <2>1. used \in SUBSET Int
    BY Zenon, <1>2
  <2>2. [q EXCEPT !.used = used] = [r EXCEPT !.fix_mode = s.mode, !.used = used]
    BY Zenon, <1>1 DEF Reader
  <2>3. GsaGps(r, s) \in {q, [q EXCEPT !.used = used]}
    BY Zenon DEF GsaGps
  <2> HIDE DEF used
  <2> QED BY Zenon, <2>1, <2>2, <2>3, <1>3
<1> QED BY Zenon, <1>4, <1>5

\* The loop over the satellites of a GSV sentence: AddSvs is the last of a sequence of
\* readers, each the one before it with one satellite more.
AddedOneByOne(f, r, mode, ids) ==
  f = [n \in 0 .. Len(ids) |-> IF n = 0 THEN r ELSE AddSv(f[n - 1], mode, ids[n])]

\* The satellites are added one by one, in their order.
LEMMA AddedStep ==
  ASSUME NEW r, NEW mode, NEW ids, Len(ids) \in Nat
  PROVE  \E f : AddedOneByOne(f, r, mode, ids) /\ AddSvs(r, mode, ids) = f[Len(ids)]
<1> DEFINE Step(f, L) == f = [n \in 0 .. L |-> IF n = 0 THEN r ELSE AddSv(f[n - 1], mode, ids[n])]
           Bad == {n \in 0 .. Len(ids) : ~ \E f : Step(f, n)}
           Added[n \in 0 .. Len(ids)] == IF n = 0 THEN r ELSE AddSv(Added[n - 1], mode, ids[n])
<1>1. Bad = {}
  <2> SUFFICES ASSUME Bad # {} PROVE FALSE
    BY Zenon
  <2>1. PICK m \in Bad : \A k \in Bad : m <= k
    <3> Bad \subseteq Nat
      OBVIOUS
    <3> QED BY Zenon, LeastNatural
  <2>2. m \in 0 .. Len(ids) /\ ~ \E f : Step(f, m)
    BY Zenon, <2>1
  <2>3. CASE m = 0
    <3>1. Step([n \in 0 .. 0 |-> r], 0)
      OBVIOUS
    <3> QED BY Zenon, <3>1, <2>2, <2>3
  <2>4. CASE m # 0
    <3>1. m - 1 \in 0 .. Len(ids) /\ m - 1 \notin Bad
      BY <2>1, <2>2, <2>4
    <3>2. PICK f : Step(f, m - 1)
      BY Zenon, <3>1
    <3> DEFINE g == [n \in 0 .. m |-> IF n = m THEN AddSv(f[m - 1], mode, ids[m]) ELSE f[n]]
    <3>3. \A n \in 0 .. m : g[n] = IF n = 0 THEN r ELSE AddSv(g[n - 1], mode, ids[n])
      <4> SUFFICES ASSUME NEW n \in 0 .. m PROVE g[n] = IF n = 0 THEN r ELSE AddSv(g[n - 1], mode, ids[n])
        BY Zenon
      <4>1. CASE n = m
        <5>1. g[m - 1] = f[m - 1] /\ g[m] = AddSv(f[m - 1], mode, ids[m])
          BY <2>2, <2>4
        <5> QED BY Zenon, <4>1, <5>1, <2>4
      <4>2. CASE n # m
        <5>1. n \in 0 .. m - 1 /\ g[n] = f[n] /\ (n # 0 => g[n - 1] = f[n - 1])
          BY <2>2, <2>4, <4>2
        <5>2. f[n] = IF n = 0 THEN r ELSE AddSv(f[n - 1], mode, ids[n])
          BY Zenon, <3>2, <5>1
        <5> QED BY Zenon, <5>1, <5>2
      <4> QED BY Zenon, <4>1, <4>2
    <3>4. Step(g, m)
      BY Zenon, <3>3
    <3> QED BY Zenon, <3>4, <2>2
  <2> QED BY Zenon, <2>3, <2>4
<1>2. \E f : Step(f, Len(ids))
  BY <1>1
<1>3. Added = [n \in 0 .. Len(ids) |-> IF n = 0 THEN r ELSE AddSv(Added[n - 1], mode, ids[n])]
  BY Zenon, <1>2
<1>4. AddSvs(r, mode, ids) = Added[Len(ids)]
  BY Zenon DEF AddSvs
<1>5. AddedOneByOne(Added, r, mode, ids)
  BY Zenon, <1>3 DEF AddedOneByOne
<1> QED BY Zenon, <1>4, <1>5

\* One satellite more leaves a sound list sound: it is written behind those that are
\* there, and only while there is room.
LEMMA OneSv ==
  ASSUME NEW mode \in {0, 1}, NEW r, ReaderSound(r, mode), NEW id
  PROVE  /\ ReaderSound(AddSv(r, mode, id), mode)
         /\ AddSv(r, mode, id).counted = r.counted /\ AddSv(r, mode, id).orphan = r.orphan
<1>1. r \in Reader
  BY Zenon DEF ReaderSound
<1>2. ListSize(mode) \in Nat
  BY Zenon, SvAssumption DEF ListSize
<1> DEFINE sv_index == r.sv_count + r.num_svs
           q == [r EXCEPT !.sv_count = @ + 1, !.written = @ \union {sv_index}]
<1>3. ASSUME sv_index < ListSize(mode)
      PROVE  ReaderSound(q, mode) /\ q.counted = r.counted /\ q.orphan = r.orphan
  <2>1. r.sv_count \in Nat /\ r.num_svs \in Nat /\ r.written \subseteq Nat
    BY Zenon, <1>1 DEF Reader
  <2>2. q \in Reader
    <3>1. r.sv_count + 1 \in Nat /\ r.written \union {sv_index} \in SUBSET Nat
      BY <2>1
    <3> HIDE DEF sv_index
    <3> QED BY Zenon, <1>1, <3>1 DEF Reader
  <2>3. /\ q.counted = r.counted /\ q.orphan = r.orphan /\ q.num_svs = r.num_svs
        /\ q.sv_count = r.sv_count + 1 /\ q.written = r.written \union {sv_index}
        /\ q.flags = r.flags /\ q.current = r.current
    BY Zenon, <1>1 DEF Reader
  <2> HIDE DEF q
  <2>4. ListFilled(q, mode)
    <3>1. CASE r.orphan
      BY Zenon, <3>1, <2>3 DEF ListFilled
    <3>2. CASE ~ r.orphan /\ r.counted
      BY Zenon, <3>2, <2>1, <2>3 DEF ListFilled, ReaderSound
    <3>3. CASE ~ r.orphan /\ ~ r.counted
      <4>1. /\ r.num_svs <= ListSize(mode)
            /\ 0 .. r.num_svs - 1 \subseteq r.written
            /\ 0 .. r.num_svs + r.sv_count - 1 \subseteq r.written
        BY Zenon, <3>3 DEF ListFilled, ReaderSound
      <4>2. q.num_svs + q.sv_count <= ListSize(mode)
        BY <1>2, <1>3, <2>1, <2>3
      <4>3. 0 .. q.num_svs + q.sv_count - 1 \subseteq q.written
        BY <4>1, <2>1, <2>3
      <4> QED BY Zenon, <4>1, <4>2, <4>3, <2>3 DEF ListFilled
    <3> QED BY Zenon, <3>1, <3>2, <3>3, <1>1 DEF Reader
  <2> QED BY Zenon, <2>2, <2>3, <2>4 DEF ReaderSound
<1>4. AddSv(r, mode, id) = r \/ (sv_index < ListSize(mode) /\ AddSv(r, mode, id) = q)
  BY Zenon DEF AddSv
<1> HIDE DEF q, sv_index
<1> QED BY Zenon, <1>3, <1>4

\* So do the satellites of a sentence.
LEMMA ManySvs ==
  ASSUME NEW mode \in {0, 1}, NEW r, ReaderSound(r, mode), NEW ids, Len(ids) \in Nat
  PROVE  /\ ReaderSound(AddSvs(r, mode, ids), mode)
         /\ AddSvs(r, mode, ids).counted = r.counted /\ AddSvs(r, mode, ids).orphan = r.orphan
<1>1. PICK f : AddedOneByOne(f, r, mode, ids) /\ AddSvs(r, mode, ids) = f[Len(ids)]
  BY Zenon, AddedStep
<1> DEFINE Good(q) == ReaderSound(q, mode) /\ q.counted = r.counted /\ q.orphan = r.orphan
           Bad == {n \in 0 .. Len(ids) : ~ Good(f[n])}
<1>2. \A n \in 0 .. Len(ids) : f[n] = IF n = 0 THEN r ELSE AddSv(f[n - 1], mode, ids[n])
  BY Zenon, <1>1 DEF AddedOneByOne
<1>3. \A n \in 1 .. Len(ids) : Good(f[n - 1]) => Good(f[n])
  BY <1>2, OneSv
<1>4. Good(f[0])
  BY <1>2
<1> HIDE DEF Good
<1>5. Bad = {}
  <2> SUFFICES ASSUME Bad # {} PROVE FALSE
    BY Zenon
  <2>1. Bad \subseteq Nat
    OBVIOUS
  <2>2. PICK m \in Bad : \A k \in Bad : m <= k
    BY Zenon, <2>1, LeastNatural
  <2>3. m \in 0 .. Len(ids) /\ ~ Good(f[m])
    BY Zenon, <2>2
  <2>4. m - 1 \in 0 .. Len(ids) /\ m - 1 \notin Bad
    BY <2>2, <2>3, <1>4
  <2> QED BY <2>3, <2>4, <1>3
<1>6. Good(f[Len(ids)])
  BY <1>5
<1> QED BY Zenon, <1>1, <1>6 DEF Good

\* The satellites of a GSV sentence are a sequence, which is empty when the sentence
\* says that there are none left.
LEMMA GsvLength ==
  ASSUME NEW s, s.seq \in Int, s.cnt \in Int
  PROVE  Len(GsvIds(s)) \in Nat
<1> DEFINE base == (s.seq - 1) * NMEA_MAX_SV_INFO
           left == s.cnt - base
           sv_num == IF left > NMEA_MAX_SV_INFO THEN NMEA_MAX_SV_INFO ELSE left
           Id(n) == SvId(s, IF n <= Len(s.ids) THEN s.ids[n] ELSE 0)
<1>1. NMEA_MAX_SV_INFO \in Nat
  BY Zenon, SvAssumption
<1>2. base \in Int
  BY <1>1
<1> HIDE DEF base
<1>3. sv_num \in Int
  BY <1>1, <1>2
<1>4. GsvIds(s) = [n \in 1 .. sv_num |-> Id(n)]
  BY Zenon DEF GsvIds, base
<1> HIDE DEF sv_num, Id
<1>5. CASE sv_num \in Nat
  BY <1>4, <1>5
<1>6. CASE sv_num < 0
  <2>1. 1 .. sv_num = 1 .. 0
    BY <1>3, <1>6
  <2>2. GsvIds(s) = [n \in 1 .. 0 |-> Id(n)]
    BY Zenon, <2>1, <1>4
  <2> QED BY <2>2
<1> QED BY <1>3, <1>5, <1>6

\* The first sentence of a group makes room for it; a later one that follows a group
\* already counted is remembered.
LEMMA GroupBegins ==
  ASSUME NEW mode \in {0, 1}, NEW r, ReaderSound(r, mode), NEW s
  PROVE  LET q == GsvGroup(r, s) IN ReaderSound(q, mode) /\ (q.orphan \/ ~ q.counted)
<1>1. r \in Reader
  BY DEF ReaderSound
<1>2. r.sv_count \in Nat /\ r.num_svs \in Nat /\ r.written \subseteq Nat /\ ListSize(mode) \in Nat
      /\ r.orphan \in BOOLEAN /\ r.counted \in BOOLEAN
  BY Zenon, <1>1, SvAssumption DEF Reader, ListSize
<1> DEFINE a == [r EXCEPT !.sv_count = 0, !.counted = FALSE, !.written = {i \in @ : i < r.num_svs}]
           b == [r EXCEPT !.orphan = @ \/ r.counted]
<1>3. ReaderSound(a, mode) /\ ~ a.counted
  <2> DEFINE w == {i \in r.written : i < r.num_svs}
  <2>1. w \in SUBSET Nat
    BY Zenon, <1>2
  <2>2. a = [r EXCEPT !.sv_count = 0, !.counted = FALSE, !.written = w]
    BY Zenon, <1>1 DEF Reader
  <2>3. /\ a.sv_count = 0 /\ ~ a.counted /\ a.written = w /\ a.num_svs = r.num_svs
        /\ a.orphan = r.orphan /\ a.flags = r.flags /\ a.current = r.current
    BY Zenon, <1>1, <2>2 DEF Reader
  <2>4. r.orphan \/ (r.num_svs <= ListSize(mode) /\ 0 .. r.num_svs - 1 \subseteq w)
    BY <1>2 DEF ReaderSound, ListFilled
  <2> HIDE DEF w
  <2>5. a \in Reader
    BY Zenon, <1>1, <2>1, <2>2 DEF Reader
  <2> HIDE DEF a
  <2>6. ListFilled(a, mode)
    BY <1>2, <2>3, <2>4 DEF ListFilled
  <2> QED BY Zenon, <2>3, <2>5, <2>6 DEF ReaderSound
<1>4. ReaderSound(b, mode) /\ (b.orphan \/ ~ b.counted)
  <2>1. /\ b.sv_count = r.sv_count /\ b.counted = r.counted /\ b.written = r.written
        /\ b.num_svs = r.num_svs /\ b.orphan = (r.orphan \/ r.counted)
        /\ b.flags = r.flags /\ b.current = r.current
    BY Zenon, <1>1 DEF Reader
  <2>2. b \in Reader
    BY Zenon, <1>1, <1>2 DEF Reader
  <2> HIDE DEF b
  <2> QED BY Zenon, <1>2, <2>1, <2>2 DEF ReaderSound, ListFilled
<1>5. GsvGroup(r, s) \in {a, b}
  BY Zenon DEF GsvGroup
<1> HIDE DEF a, b
<1> QED BY Zenon, <1>3, <1>4, <1>5

\* A GSV sentence, and the last of a group, which counts it.
LEMMA InViewSentence ==
  ASSUME NEW mode \in {0, 1}, NEW r, ReaderSound(r, mode), NEW s, s.seq \in Int, s.cnt \in Int
  PROVE  ReaderSound(GSV(r, mode, s), mode)
<1> DEFINE q == AddSvs(GsvGroup(r, s), mode, GsvIds(s))
           c == [q EXCEPT !.num_svs = @ + q.sv_count, !.counted = TRUE]
<1>1. ReaderSound(q, mode) /\ (q.orphan \/ ~ q.counted)
  <2> DEFINE g == GsvGroup(r, s)
             ids == GsvIds(s)
  <2>1. ReaderSound(g, mode) /\ (g.orphan \/ ~ g.counted)
    BY Zenon, GroupBegins
  <2>2. Len(ids) \in Nat
    BY Zenon, GsvLength
  <2> HIDE DEF g, ids
  <2>3. /\ ReaderSound(AddSvs(g, mode, ids), mode)
        /\ AddSvs(g, mode, ids).counted = g.counted /\ AddSvs(g, mode, ids).orphan = g.orphan
    BY Zenon, <2>1, <2>2, ManySvs
  <2> QED BY Zenon, <2>1, <2>3 DEF g, ids
<1>2. GSV(r, mode, s) \in {q, c, NoSvs(q)}
  BY Zenon DEF GSV
<1> HIDE DEF q
<1>3. ReaderSound(NoSvs(q), mode)
  BY Zenon, <1>1, ResetReader
<1>4. ReaderSound(c, mode)
  <2>1. q \in Reader
    BY Zenon, <1>1 DEF ReaderSound
  <2>2. q.sv_count \in Nat /\ q.num_svs \in Nat /\ q.written \subseteq Nat /\ ListSize(mode) \in Nat
        /\ q.orphan \in BOOLEAN /\ q.counted \in BOOLEAN
    BY Zenon, <2>1, SvAssumption DEF Reader, ListSize
  <2>3. q.num_svs + q.sv_count \in Nat
    BY <2>2
  <2>4. /\ c.num_svs = q.num_svs + q.sv_count /\ c.counted /\ c.written = q.written
        /\ c.orphan = q.orphan /\ c.flags = q.flags /\ c.current = q.current
    BY Zenon, <2>1 DEF Reader
  <2>5. c \in Reader
    BY Zenon, <2>1, <2>3 DEF Reader
  <2> HIDE DEF c
  <2>6. ListFilled(c, mode)
    BY <1>1, <2>2, <2>4 DEF ListFilled, ReaderSound
  <2> QED BY Zenon, <1>1, <2>4, <2>5, <2>6 DEF ReaderSound
<1> HIDE DEF c
<1> QED BY Zenon, <1>1, <1>2, <1>3, <1>4

\* Any sentence.
LEMMA AnySentence ==
  ASSUME NEW mode \in {0, 1}, NEW r, ReaderSound(r, mode), NEW s \in Sentence
  PROVE  ReaderSound(Parsed(r, mode, s), mode)
<1>1. s.id = "GSA" => s.mode \in Int /\ s.ids \in Seq(Int)
  BY Zenon DEF Sentence
<1>2. s.id = "GSV" => s.seq \in Int /\ s.cnt \in Int
  BY Zenon DEF Sentence
<1>3. \/ Parsed(r, mode, s) \in {GGA(r, s), RMC(r, s), ACCURACY(r, s), r}
      \/ (s.id = "GSA" /\ Parsed(r, mode, s) \in {GsaGnss(r, s), GsaGps(r, s)})
      \/ (s.id = "GSV" /\ Parsed(r, mode, s) = GSV(r, mode, s))
  BY Zenon DEF Parsed
<1> QED BY Zenon, <1>1, <1>2, <1>3, PositionSentence, UsedSentence, InViewSentence

\* What a report says, by SvListSound and FixOfThisSession.
ReportsSound(fix, svs) ==
  /\ svs # Nothing /\ ~svs.orphan =>
       svs.num <= svs.size /\ 0 .. svs.num - 1 \subseteq svs.written
  /\ fix # Nothing => fix.flags \subseteq fix.current

\* The reports at the end of a chunk, and the reader after them.
LEMMA ChunkEnds ==
  ASSUME NEW mode \in {0, 1}, NEW r, ReaderSound(r, mode), NEW end
  PROVE  /\ ReaderSound(AfterReports(r, mode, end), mode)
         /\ ReportsSound(FixReport(r, end), SvReport(r, mode, end))
<1>1. r \in Reader
  BY DEF ReaderSound
<1>2. ReportsSound(FixReport(r, end), SvReport(r, mode, end))
  <2>1. FixReport(r, end) # Nothing => FixReport(r, end).flags = r.flags /\ FixReport(r, end).current = r.current
    BY Zenon DEF FixReport
  <2>2. SvReport(r, mode, end) # Nothing =>
          /\ SvReport(r, mode, end).orphan = r.orphan /\ SvReport(r, mode, end).num = r.num_svs
          /\ SvReport(r, mode, end).size = ListSize(mode) /\ SvReport(r, mode, end).written = r.written
    BY Zenon DEF SvReport
  <2> QED BY Zenon, <2>1, <2>2 DEF ReportsSound, ReaderSound, ListFilled
<1>3. ASSUME NEW q, ReaderSound(q, mode)
      PROVE  ReaderSound([NoSvs(q) EXCEPT !.used = {}], mode)
  <2>1. ReaderSound(NoSvs(q), mode)
    BY Zenon, <1>3, ResetReader
  <2>2. ASSUME NEW p, ReaderSound(p, mode)
        PROVE  ReaderSound([p EXCEPT !.used = {}], mode)
    BY Zenon, <2>2 DEF ReaderSound, ListFilled, Reader
  <2> QED BY Zenon, <2>1, <2>2
<1>4. ReaderSound([r EXCEPT !.flags = {}], mode)
  BY Zenon, <1>1 DEF ReaderSound, ListFilled, Reader
<1>5. ReaderSound(AfterReports(r, mode, end), mode)
  <2> DEFINE q == IF FixReport(r, end) = Nothing THEN r ELSE [r EXCEPT !.flags = {}]
  <2>1. ReaderSound(q, mode)
    BY Zenon, <1>4
  <2>2. AfterReports(r, mode, end) \in {q, [NoSvs(q) EXCEPT !.used = {}]}
    BY Zenon DEF AfterReports
  <2> HIDE DEF q
  <2> QED BY Zenon, <2>1, <2>2, <1>3
<1> QED BY Zenon, <1>2, <1>5

\* The characters of a line.
LEMMA LineRead ==
  ASSUME NEW mode \in {0, 1}, NEW r, ReaderSound(r, mode), NEW line \in NmeaLine, NEW end
  PROVE  LET a == nmea_reader_addc(r, mode, line, end)
         IN  ReaderSound(a.reader, mode) /\ ReportsSound(a.fix, a.svs)
<1>1. r \in Reader
  BY DEF ReaderSound
<1> DEFINE a == nmea_reader_addc(r, mode, line, end)
           Silent(q) == [reader |-> q, fix |-> Nothing, svs |-> Nothing]
           q == Parsed(r, mode, line.sentence)
<1>2. \/ \E p \in {r, [r EXCEPT !.overflow = FALSE], [r EXCEPT !.overflow = TRUE]} : a = Silent(p)
      \/ (line.size = "fits" /\ a = [reader |-> AfterReports(q, mode, end), fix |-> FixReport(q, end),
                                     svs |-> SvReport(q, mode, end)])
  BY DEF nmea_reader_addc, NmeaLine
<1>3. ReaderSound([r EXCEPT !.overflow = FALSE], mode) /\ ReaderSound([r EXCEPT !.overflow = TRUE], mode)
  BY Zenon, <1>1 DEF ReaderSound, ListFilled, Reader
<1>4. line.size = "fits" => line.sentence \in Sentence
  BY Zenon DEF NmeaLine
<1>5. line.size = "fits" => ReaderSound(q, mode)
  BY Zenon, <1>4, AnySentence
<1> HIDE DEF q
<1>6. line.size = "fits" => /\ ReaderSound(AfterReports(q, mode, end), mode)
                            /\ ReportsSound(FixReport(q, end), SvReport(q, mode, end))
  BY Zenon, <1>5, ChunkEnds
<1>7. ReportsSound(Nothing, Nothing)
  BY Zenon DEF ReportsSound
<1>8. ASSUME NEW p, ReaderSound(p, mode), a = Silent(p)
      PROVE  ReaderSound(a.reader, mode) /\ ReportsSound(a.fix, a.svs)
  <2> HIDE DEF a
  <2>1. a.reader = p /\ a.fix = Nothing /\ a.svs = Nothing
    BY Zenon, <1>8
  <2> QED BY Zenon, <2>1, <1>7, <1>8
<1>9. ASSUME line.size = "fits", a = [reader |-> AfterReports(q, mode, end), fix |-> FixReport(q, end),
                                       svs |-> SvReport(q, mode, end)]
      PROVE  ReaderSound(a.reader, mode) /\ ReportsSound(a.fix, a.svs)
  <2> HIDE DEF a
  <2>1. a.reader = AfterReports(q, mode, end) /\ a.fix = FixReport(q, end) /\ a.svs = SvReport(q, mode, end)
    BY Zenon, <1>9
  <2> QED BY Zenon, <2>1, <1>6, <1>9
<1>10. ASSUME NEW p \in {r, [r EXCEPT !.overflow = FALSE], [r EXCEPT !.overflow = TRUE]}, a = Silent(p)
       PROVE  ReaderSound(a.reader, mode) /\ ReportsSound(a.fix, a.svs)
  <2>1. ReaderSound(p, mode)
    BY Zenon, <1>3
  <2> HIDE DEF a, Silent
  <2> QED BY Zenon, <1>8, <1>10, <2>1
<1>11. ReaderSound(a.reader, mode) /\ ReportsSound(a.fix, a.svs)
  <2> HIDE DEF a, Silent
  <2> QED BY Zenon, <1>2, <1>9, <1>10
<1> QED BY Zenon, <1>11
-----------------------------------------------------------------------------
(* The inductive invariant *)

StartCall == {"startEpo", "waitStart", "cmdStart", "announce", "startFlag"}
CleanupCall == {"cleanup", "checkStop", "waitStop", "quit", "waitCleanup", "waitExit"}
InitCall == {"init", "initFailed", "waitInit", "epoCreate", "epoFlag", "extensions"}
RunningCall == {"stop", "cmdStop", "measurement", "navigation"}

ControlCmd == {"CMD_START", "CMD_STOP", "CMD_QUIT", "CMD_RESTART"}

\* What the HAL sends to MNLD, and MNLD to the HAL.
HalMessage ==
  AgpsCalls \union {InjectLocation, Message("LOG_WRITE", <<"string">>)}
  \union {Message("NLP_LOCATION_REQ", << >>), Message("UPDATE_NETWORK_STATE", <<"int", "int", "int", "string">>)}
  \union {Command(c) : c \in {"INIT", "START", "STOP", "CLEANUP", "RESTART", "measurement", "navigation", "close"}}
MnldMessage == Messages \union {Died}

FwType ==
  /\ fw \in [pc : {"idle", "start"} \union InitCall \union StartCall \union CleanupCall \union RunningCall,
             user : {"none", "ready", "running"}, inits : Nat]
  /\ fw.user = "none" => fw.pc \in {"idle"} \union InitCall
  /\ fw.user = "ready" => fw.pc \in {"idle", "start"} \union StartCall \union CleanupCall
  /\ fw.user = "running" => fw.pc \in {"idle"} \union RunningCall

HalType ==
  /\ hal \in [pc : {"none", "setup", "loop", "measurement", "navigation", "dieStop", "dieFlag", "crashed"}]
  /\ cond \in [Locks -> BOOLEAN]
  /\ state \in [init : BOOLEAN, start_flag : BOOLEAN, flag_unlock : BOOLEAN, exit : BOOLEAN]
  /\ view \in [wakelock : BOOLEAN, status : {"ENGINE_OFF", "SESSION_BEGIN", "SESSION_END"}]
  /\ engine \in [on : BOOLEAN, nmea : BOOLEAN]
  /\ nmea \in [gps_mode : {0, 1}, reader : Reader, interval : Nat, count : Nat, located : BOOLEAN]
  /\ started \in BOOLEAN

QueueType == control \in Seq(ControlCmd) /\ hal2mnld \in Seq(HalMessage) /\ mnld2hal \in Seq(MnldMessage)

Types == FwType /\ HalType /\ QueueType

\* M_START is released with flag_unlock and consumed by a start that goes on to set
\* start_flag; flag_unlock is taken back before start_flag is.
Handshake ==
  /\ state.flag_unlock /\ ~cond["M_START"] =>
       state.start_flag \/ fw.pc \in {"cmdStart", "announce", "startFlag"}
  /\ hal.pc \in {"dieStop", "dieFlag"} => ~state.flag_unlock

\* A flag stands for a table, and so does the thread that has seen it.
Tables ==
  /\ "base" \in ready
  /\ "measurement_flag" \in ready => "measurement" \in ready
  /\ "navigation_flag" \in ready => "navigation" \in ready
  /\ hal.pc \in {"measurement", "navigation"} => hal.pc \in ready
  /\ out.cb \in ready

\* What was reported came from a sound reader.
Reports == ReaderSound(nmea.reader, nmea.gps_mode) /\ ReportsSound(out.fix, out.svs)

\* No conjunct needs more than the types and itself.
IInv == Types /\ Handshake /\ Tables /\ Reports
-----------------------------------------------------------------------------
(* Types, the start handshake, the tables and the reports *)

\* The HAL before the first call.
LEMMA InitIInv == Init => IInv
<1> SUFFICES ASSUME Init PROVE IInv
  BY Zenon
<1>1. PICK mode \in {0, 1} :
        nmea = [gps_mode |-> mode, reader |-> nmea_reader_init, interval |-> 0, count |-> 0, located |-> FALSE]
  BY Zenon DEF Init
<1>2. ReaderSound(nmea.reader, nmea.gps_mode)
  BY Zenon, <1>1, InitReader
<1>3. nmea \in [gps_mode : {0, 1}, reader : Reader, interval : Nat, count : Nat, located : BOOLEAN]
  BY Zenon, <1>1, <1>2 DEF ReaderSound
<1>4. Types
  <2>1. /\ fw.pc = "idle" /\ fw.user = "none"
        /\ fw \in [pc : {"idle", "start"} \union InitCall \union StartCall \union CleanupCall \union RunningCall,
                   user : {"none", "ready", "running"}, inits : Nat]
    BY Zenon DEF Init
  <2>2. /\ hal \in [pc : {"none", "setup", "loop", "measurement", "navigation", "dieStop", "dieFlag", "crashed"}]
        /\ cond \in [Locks -> BOOLEAN]
        /\ state \in [init : BOOLEAN, start_flag : BOOLEAN, flag_unlock : BOOLEAN, exit : BOOLEAN]
        /\ view \in [wakelock : BOOLEAN, status : {"ENGINE_OFF", "SESSION_BEGIN", "SESSION_END"}]
        /\ engine \in [on : BOOLEAN, nmea : BOOLEAN]
        /\ started \in BOOLEAN
    BY Zenon DEF Init
  <2>3. control \in Seq(ControlCmd) /\ hal2mnld \in Seq(HalMessage) /\ mnld2hal \in Seq(MnldMessage)
    BY DEF Init
  <2> QED BY Zenon, <1>3, <2>1, <2>2, <2>3 DEF Types, FwType, HalType, QueueType
<1>5. Handshake /\ Tables
  BY Zenon DEF Init, Handshake, Tables, NoOut, Locks
<1>6. Reports
  BY Zenon, <1>2 DEF Init, Reports, ReportsSound, NoOut
<1> QED BY Zenon, <1>4, <1>5, <1>6 DEF IInv

\* The messages of the calls that only send are messages, and none is a command of a session.
LEMMA MessagesToMnld ==
  /\ \A m \in AgpsCalls : m \in HalMessage /\ m.cmd \notin {"START", "STOP", "CLEANUP"}
  /\ InjectLocation \in HalMessage /\ InjectLocation.cmd \notin {"START", "STOP", "CLEANUP"}
  /\ Message("LOG_WRITE", <<"string">>) \in HalMessage
  /\ Message("LOG_WRITE", <<"string">>).cmd \notin {"START", "STOP", "CLEANUP"}
  /\ \A c \in {"INIT", "START", "STOP", "CLEANUP", "RESTART", "measurement", "navigation", "close"} :
       Command(c) \in HalMessage /\ Command(c).cmd = c
<1>1. \A m \in AgpsCalls : m.cmd \notin {"START", "STOP", "CLEANUP"}
  BY DEF AgpsCalls, Message, agps_data_conn_open, agps_data_conn_open_with_apn_ip_type, agps_data_conn_closed,
     agps_data_conn_failed, agps_set_server, agps_install_certificates, agps_revoke_certificates,
     gps_ni_respond, agps_ril_set_ref_location, agps_ril_set_set_id, agps_ril_ni_message,
     agps_ril_update_network_availability, mtk_gps_inject_time
<1>2. \A m \in AgpsCalls : m \in HalMessage
  BY Zenon DEF HalMessage
<1>3. /\ InjectLocation \in HalMessage /\ Message("LOG_WRITE", <<"string">>) \in HalMessage
      /\ \A c \in {"INIT", "START", "STOP", "CLEANUP", "RESTART", "measurement", "navigation", "close"} :
           Command(c) \in HalMessage
  BY Zenon DEF HalMessage
<1>4. /\ InjectLocation.cmd = "INJECT_LOCATION" /\ Message("LOG_WRITE", <<"string">>).cmd = "LOG_WRITE"
      /\ \A c : Command(c).cmd = c
  BY Zenon DEF InjectLocation, Message, Command
<1> QED BY Zenon, <1>1, <1>2, <1>3, <1>4

\* A new state of the network sends one message or two, neither a command of a session.
LEMMA NetworkMessages ==
  ASSUME NEW old, NEW new
  PROVE  LET s == agps_ril_update_network_state(old, new)
         IN  s \in Seq(HalMessage) /\ \A i \in 1 .. Len(s) : s[i].cmd \notin {"START", "STOP", "CLEANUP"}
<1> DEFINE nlp == Message("NLP_LOCATION_REQ", << >>)
           upd == Message("UPDATE_NETWORK_STATE", <<"int", "int", "int", "string">>)
           s == agps_ril_update_network_state(old, new)
<1>1. nlp \in HalMessage /\ upd \in HalMessage
  BY Zenon DEF HalMessage
<1>2. nlp.cmd = "NLP_LOCATION_REQ" /\ upd.cmd = "UPDATE_NETWORK_STATE"
  BY Zenon DEF Message
<1>3. s \in {<<nlp, upd>>, <<upd>>}
  BY Zenon DEF agps_ril_update_network_state
<1> HIDE DEF nlp, upd, s
<1>4. s \in Seq(HalMessage) /\ \A i \in 1 .. Len(s) : s[i].cmd \notin {"START", "STOP", "CLEANUP"}
  <2>1. CASE s = <<nlp, upd>>
    BY <1>1, <1>2, <2>1
  <2>2. CASE s = <<upd>>
    BY <1>1, <1>2, <2>2
  <2> QED BY Zenon, <1>3, <2>1, <2>2
<1> QED BY Zenon, <1>4 DEF s

\* MNLD does not report its end of its own accord.
LEMMA MessagesFromMnld ==
  /\ \A m \in Messages : m \in MnldMessage /\ m.to # "die"
  /\ Died \in MnldMessage /\ Died.to = "die"
<1>1. \A m \in Messages : m.to # "die"
  BY DEF Messages, MNL_AGPS_CMD_NOTIFICATION, MNL_AGPS_CMD_NOTIFICATION_2, MNL_AGPS_CMD_DATA_CONN_REQ,
     MNL_AGPS_CMD_DATA_CONN_REQ2, MNL_AGPS_CMD_DATA_CONN_RELEASE, MNL_AGPS_CMD_REQUEST_SET_ID,
     MNL_AGPS_CMD_REQUEST_REFLOC, MNL_AGPS_CMD_AGPS_LOC, HAL_CMD_MEASUREMENT, HAL_CMD_NAVIGATION,
     MNL_CMD_GPS_INJECT_TIME_REQ
<1> QED BY Zenon, <1>1 DEF MnldMessage, Died

\* mtk_gps_init and the extensions: no step of a call changes the reader or reports.
LEMMA InitStepsBasics ==
  ASSUME Types, Handshake, Tables, Alive, InitSteps, out' = NoOut, UNCHANGED <<nmea, started, engine>>
  PROVE  Types' /\ Handshake' /\ Tables'
<1> USE DEF At, Goto, Return, NoFault, Fault, release_condition, get_condition, ClearStop, mtk_daemon_send
<1>1. CASE CallInit
  <2>1. FwType'
    <3>1. fw.inits + 1 \in Nat
      BY DEF Types, FwType
    <3> QED BY Zenon, <1>1, <3>1 DEF CallInit, Types, FwType, InitCall
  <2>2. HalType'
    BY <1>1 DEF CallInit, Types, HalType, Locks
  <2>3. QueueType'
    BY Zenon, <1>1 DEF CallInit, Types, QueueType, ControlCmd
  <2>4. Handshake'
    BY Zenon, <1>1 DEF CallInit, Handshake, Types, HalType, Locks
  <2>5. Tables'
    BY Zenon, <1>1 DEF CallInit, Tables, NoOut, Extensions
  <2> QED BY Zenon, <2>1, <2>2, <2>3, <2>4, <2>5 DEF Types
<1>2. CASE gps_state_init
  <2>1. FwType'
    BY Zenon, <1>2 DEF gps_state_init, Types, FwType, InitCall, StartCall, CleanupCall, RunningCall
  <2>2. HalType'
    BY <1>2 DEF gps_state_init, Types, HalType, Locks
  <2>3. QueueType'
    <3>1. Command("INIT") \in HalMessage
      BY Zenon, MessagesToMnld
    <3>2. << >> \in Seq(ControlCmd) /\ << >> \in Seq(MnldMessage)
      OBVIOUS
    <3>3. /\ control' \in {control, << >>} /\ mnld2hal' \in {mnld2hal, << >>}
          /\ hal2mnld' \in {hal2mnld, Append(hal2mnld, Command("INIT"))}
      BY Zenon, <1>2 DEF gps_state_init
    <3>4. hal2mnld' \in Seq(HalMessage)
      BY <3>1, <3>3 DEF Types, QueueType
    <3>5. control' \in Seq(ControlCmd) /\ mnld2hal' \in Seq(MnldMessage)
      BY Zenon, <3>2, <3>3 DEF Types, QueueType
    <3> QED BY Zenon, <3>4, <3>5 DEF QueueType
  <2>4. Handshake'
    BY <1>2 DEF gps_state_init, Handshake, Types, HalType, Locks
  <2>5. Tables'
    BY <1>2 DEF gps_state_init, Tables, NoOut, Extensions
  <2> QED BY <2>1, <2>2, <2>3, <2>4, <2>5 DEF Types
<1>3. CASE InitFailed
  <2>1. FwType'
    BY Zenon, <1>3 DEF InitFailed, Types, FwType, InitCall, StartCall, CleanupCall, RunningCall
  <2>2. HalType'
    BY <1>3 DEF InitFailed, Types, HalType, Locks
  <2>3. QueueType'
    BY Zenon, <1>3 DEF InitFailed, Types, QueueType, ControlCmd
  <2>4. Handshake'
    BY Zenon, <1>3 DEF InitFailed, Handshake, Types, HalType, Locks
  <2>5. Tables'
    BY Zenon, <1>3 DEF InitFailed, Tables, NoOut, Extensions
  <2> QED BY <2>1, <2>2, <2>3, <2>4, <2>5 DEF Types
<1>4. CASE mtk_gps_init
  <2>1. FwType'
    BY Zenon, <1>4 DEF mtk_gps_init, Types, FwType, InitCall, StartCall, CleanupCall, RunningCall
  <2>2. HalType'
    <3>1. state' \in [init : BOOLEAN, start_flag : BOOLEAN, flag_unlock : BOOLEAN, exit : BOOLEAN]
      BY Zenon, <1>4 DEF mtk_gps_init, Types, HalType
    <3>2. cond' \in [Locks -> BOOLEAN]
      BY Zenon, <1>4 DEF mtk_gps_init, Types, HalType, Locks
    <3>3. UNCHANGED <<hal, view, engine, nmea, started>>
      BY Zenon, <1>4 DEF mtk_gps_init
    <3> QED BY Zenon, <3>1, <3>2, <3>3 DEF Types, HalType
  <2>3. QueueType'
    BY Zenon, <1>4 DEF mtk_gps_init, Types, QueueType, ControlCmd
  <2>4. Handshake'
    BY Zenon, <1>4 DEF mtk_gps_init, Handshake, Types, HalType, Locks
  <2>5. Tables'
    BY Zenon, <1>4 DEF mtk_gps_init, Tables, NoOut, Extensions
  <2> QED BY <2>1, <2>2, <2>3, <2>4, <2>5 DEF Types
<1>5. CASE CreateEpoThread
  <2>1. FwType'
    BY Zenon, <1>5 DEF CreateEpoThread, Types, FwType, InitCall, StartCall, CleanupCall, RunningCall
  <2>2. HalType'
    BY <1>5 DEF CreateEpoThread, Types, HalType, Locks
  <2>3. QueueType'
    BY Zenon, <1>5 DEF CreateEpoThread, Types, QueueType, ControlCmd
  <2>4. Handshake'
    BY Zenon, <1>5 DEF CreateEpoThread, Handshake, Types, HalType, Locks
  <2>5. Tables'
    BY Zenon, <1>5 DEF CreateEpoThread, Tables, NoOut, Extensions
  <2> QED BY <2>1, <2>2, <2>3, <2>4, <2>5 DEF Types
<1>6. CASE mtk_gps_epo_interface_init
  <2>1. FwType'
    BY Zenon, <1>6 DEF mtk_gps_epo_interface_init, Types, FwType, InitCall, StartCall, CleanupCall, RunningCall
  <2>2. HalType'
    <3>1. state' \in [init : BOOLEAN, start_flag : BOOLEAN, flag_unlock : BOOLEAN, exit : BOOLEAN]
      BY Zenon, <1>6 DEF mtk_gps_epo_interface_init, Types, HalType
    <3>2. cond' \in [Locks -> BOOLEAN]
      BY Zenon, <1>6 DEF mtk_gps_epo_interface_init, Types, HalType, Locks
    <3>3. UNCHANGED <<hal, view, engine, nmea, started>>
      BY Zenon, <1>6 DEF mtk_gps_epo_interface_init
    <3> QED BY Zenon, <3>1, <3>2, <3>3 DEF Types, HalType
  <2>3. QueueType'
    BY Zenon, <1>6 DEF mtk_gps_epo_interface_init, Types, QueueType, ControlCmd
  <2>4. Handshake'
    BY Zenon, <1>6 DEF mtk_gps_epo_interface_init, Handshake, Types, HalType, Locks
  <2>5. Tables'
    BY Zenon, <1>6 DEF mtk_gps_epo_interface_init, Tables, NoOut, Extensions
  <2> QED BY <2>1, <2>2, <2>3, <2>4, <2>5 DEF Types
<1>7. CASE InitExtension
  <2>1. FwType'
    BY Zenon, <1>7 DEF InitExtension, Types, FwType, InitCall, StartCall, CleanupCall, RunningCall
  <2>2. HalType'
    BY <1>7 DEF InitExtension, Types, HalType, Locks
  <2>3. QueueType'
    BY Zenon, <1>7 DEF InitExtension, Types, QueueType, ControlCmd
  <2>4. Handshake'
    BY Zenon, <1>7 DEF InitExtension, Handshake, Types, HalType, Locks
  <2>5. Tables'
    BY <1>7 DEF InitExtension, Tables, NoOut, Extensions
  <2> QED BY <2>1, <2>2, <2>3, <2>4, <2>5 DEF Types
<1> QED BY Zenon, <1>1, <1>2, <1>3, <1>4, <1>5, <1>6, <1>7 DEF InitSteps

\* mtk_gps_start and mtk_gps_stop.
LEMMA SessionStepsBasics ==
  ASSUME Types, Handshake, Tables, Alive, SessionSteps, out' = NoOut, UNCHANGED <<nmea, started, engine>>
  PROVE  Types' /\ Handshake' /\ Tables'
<1> USE DEF At, Goto, Return, NoFault, Fault, release_condition, get_condition, ClearStop, mtk_daemon_send
<1>1. CASE CallStart
  <2>1. FwType'
    BY Zenon, <1>1 DEF CallStart, Types, FwType, InitCall, StartCall, CleanupCall, RunningCall
  <2>2. HalType'
    BY <1>1 DEF CallStart, Types, HalType, Locks
  <2>3. QueueType'
    BY Zenon, <1>1 DEF CallStart, Types, QueueType, ControlCmd
  <2>4. Handshake'
    BY Zenon, <1>1 DEF CallStart, Handshake, Types, HalType, Locks
  <2>5. Tables'
    BY Zenon, <1>1 DEF CallStart, Tables, NoOut, Extensions
  <2> QED BY <2>1, <2>2, <2>3, <2>4, <2>5 DEF Types
<1>2. CASE mtk_start
  <2>1. FwType'
    BY Zenon, <1>2 DEF mtk_start, Types, FwType, InitCall, StartCall, CleanupCall, RunningCall
  <2>2. HalType'
    BY <1>2 DEF mtk_start, Types, HalType, Locks
  <2>3. QueueType'
    <3>1. Command("START") \in HalMessage
      BY Zenon, MessagesToMnld
    <3> QED BY <1>2, <3>1 DEF mtk_start, Types, QueueType
  <2>4. Handshake'
    BY Zenon, <1>2 DEF mtk_start, Handshake, Types, HalType, Locks
  <2>5. Tables'
    BY <1>2 DEF mtk_start, Tables, NoOut, Extensions
  <2> QED BY <2>1, <2>2, <2>3, <2>4, <2>5 DEF Types
<1>3. CASE StartEpo
  <2>1. FwType'
    BY Zenon, <1>3 DEF StartEpo, Types, FwType, InitCall, StartCall, CleanupCall, RunningCall
  <2>2. HalType'
    BY <1>3 DEF StartEpo, Types, HalType, Locks
  <2>3. QueueType'
    BY Zenon, <1>3 DEF StartEpo, Types, QueueType, ControlCmd
  <2>4. Handshake'
    BY Zenon, <1>3 DEF StartEpo, Handshake, Types, HalType, Locks
  <2>5. Tables'
    BY Zenon, <1>3 DEF StartEpo, Tables, NoOut, Extensions
  <2> QED BY <2>1, <2>2, <2>3, <2>4, <2>5 DEF Types
<1>4. CASE WaitStart
  <2>1. FwType'
    BY Zenon, <1>4 DEF WaitStart, Types, FwType, InitCall, StartCall, CleanupCall, RunningCall
  <2>2. HalType'
    BY <1>4 DEF WaitStart, Types, HalType, Locks
  <2>3. QueueType'
    BY Zenon, <1>4 DEF WaitStart, Types, QueueType, ControlCmd
  <2>4. Handshake'
    BY <1>4 DEF WaitStart, Handshake, Types, HalType, Locks
  <2>5. Tables'
    BY Zenon, <1>4 DEF WaitStart, Tables, NoOut, Extensions
  <2> QED BY <2>1, <2>2, <2>3, <2>4, <2>5 DEF Types
<1>5. CASE gps_state_start
  <2>1. FwType'
    BY Zenon, <1>5 DEF gps_state_start, Types, FwType, InitCall, StartCall, CleanupCall, RunningCall
  <2>2. HalType'
    BY <1>5 DEF gps_state_start, Types, HalType, Locks
  <2>3. QueueType'
    BY <1>5 DEF gps_state_start, Types, QueueType, ControlCmd
  <2>4. Handshake'
    BY <1>5 DEF gps_state_start, Handshake, Types, HalType, Locks
  <2>5. Tables'
    BY Zenon, <1>5 DEF gps_state_start, Tables, NoOut, Extensions
  <2> QED BY <2>1, <2>2, <2>3, <2>4, <2>5 DEF Types
<1>6. CASE AnnounceStart
  <2>1. FwType'
    BY Zenon, <1>6 DEF AnnounceStart, Types, FwType, InitCall, StartCall, CleanupCall, RunningCall
  <2>2. HalType'
    BY <1>6 DEF AnnounceStart, Types, HalType, Locks
  <2>3. QueueType'
    BY Zenon, <1>6 DEF AnnounceStart, Types, QueueType, ControlCmd
  <2>4. Handshake'
    BY <1>6 DEF AnnounceStart, Handshake, Types, HalType, Locks
  <2>5. Tables'
    BY Zenon, <1>6 DEF AnnounceStart, Tables, NoOut, Extensions
  <2> QED BY <2>1, <2>2, <2>3, <2>4, <2>5 DEF Types
<1>7. CASE mtk_gps_start
  <2>1. FwType'
    BY Zenon, <1>7 DEF mtk_gps_start, Types, FwType, InitCall, StartCall, CleanupCall, RunningCall
  <2>2. HalType'
    <3>1. state' \in [init : BOOLEAN, start_flag : BOOLEAN, flag_unlock : BOOLEAN, exit : BOOLEAN]
      BY Zenon, <1>7 DEF mtk_gps_start, Types, HalType
    <3>2. cond' \in [Locks -> BOOLEAN]
      BY Zenon, <1>7 DEF mtk_gps_start, Types, HalType, Locks
    <3>3. UNCHANGED <<hal, view, engine, nmea, started>>
      BY Zenon, <1>7 DEF mtk_gps_start
    <3> QED BY Zenon, <3>1, <3>2, <3>3 DEF Types, HalType
  <2>3. QueueType'
    BY Zenon, <1>7 DEF mtk_gps_start, Types, QueueType, ControlCmd
  <2>4. Handshake'
    BY Zenon, <1>7 DEF mtk_gps_start, Handshake, Types, HalType, Locks
  <2>5. Tables'
    BY Zenon, <1>7 DEF mtk_gps_start, Tables, NoOut, Extensions
  <2> QED BY <2>1, <2>2, <2>3, <2>4, <2>5 DEF Types
<1>8. CASE CallStop
  <2>1. FwType'
    BY Zenon, <1>8 DEF CallStop, Types, FwType, InitCall, StartCall, CleanupCall, RunningCall
  <2>2. HalType'
    BY <1>8 DEF CallStop, Types, HalType, Locks
  <2>3. QueueType'
    BY Zenon, <1>8 DEF CallStop, Types, QueueType, ControlCmd
  <2>4. Handshake'
    BY Zenon, <1>8 DEF CallStop, Handshake, Types, HalType, Locks
  <2>5. Tables'
    BY Zenon, <1>8 DEF CallStop, Tables, NoOut, Extensions
  <2> QED BY <2>1, <2>2, <2>3, <2>4, <2>5 DEF Types
<1>9. CASE mtk_stop
  <2>1. FwType'
    BY Zenon, <1>9 DEF mtk_stop, Types, FwType, InitCall, StartCall, CleanupCall, RunningCall
  <2>2. HalType'
    BY <1>9 DEF mtk_stop, Types, HalType, Locks
  <2>3. QueueType'
    <3>1. Command("STOP") \in HalMessage
      BY Zenon, MessagesToMnld
    <3> QED BY <1>9, <3>1 DEF mtk_stop, Types, QueueType
  <2>4. Handshake'
    BY Zenon, <1>9 DEF mtk_stop, Handshake, Types, HalType, Locks
  <2>5. Tables'
    BY Zenon, <1>9 DEF mtk_stop, Tables, NoOut, Extensions
  <2> QED BY <2>1, <2>2, <2>3, <2>4, <2>5 DEF Types
<1>10. CASE gps_state_stop
  <2>1. FwType'
    BY Zenon, <1>10 DEF gps_state_stop, Types, FwType, InitCall, StartCall, CleanupCall, RunningCall
  <2>2. HalType'
    BY <1>10 DEF gps_state_stop, Types, HalType, Locks
  <2>3. QueueType'
    BY <1>10 DEF gps_state_stop, Types, QueueType, ControlCmd
  <2>4. Handshake'
    BY Zenon, <1>10 DEF gps_state_stop, Handshake, Types, HalType, Locks
  <2>5. Tables'
    BY Zenon, <1>10 DEF gps_state_stop, Tables, NoOut, Extensions
  <2> QED BY <2>1, <2>2, <2>3, <2>4, <2>5 DEF Types
<1> QED BY Zenon, <1>1, <1>2, <1>3, <1>4, <1>5, <1>6, <1>7, <1>8, <1>9, <1>10 DEF SessionSteps

\* mtk_gps_cleanup.
LEMMA CleanupStepsBasics ==
  ASSUME Types, Handshake, Tables, Alive, CleanupSteps, out' = NoOut, UNCHANGED <<nmea, started, engine>>
  PROVE  Types' /\ Handshake' /\ Tables'
<1> USE DEF At, Goto, Return, NoFault, Fault, release_condition, get_condition, ClearStop, mtk_daemon_send
<1>1. CASE CallCleanup
  <2>1. FwType'
    BY Zenon, <1>1 DEF CallCleanup, Types, FwType, InitCall, StartCall, CleanupCall, RunningCall
  <2>2. HalType'
    BY <1>1 DEF CallCleanup, Types, HalType, Locks
  <2>3. QueueType'
    BY Zenon, <1>1 DEF CallCleanup, Types, QueueType, ControlCmd
  <2>4. Handshake'
    BY Zenon, <1>1 DEF CallCleanup, Handshake, Types, HalType, Locks
  <2>5. Tables'
    BY Zenon, <1>1 DEF CallCleanup, Tables, NoOut, Extensions
  <2> QED BY <2>1, <2>2, <2>3, <2>4, <2>5 DEF Types
<1>2. CASE mtk_cleanup
  <2>1. FwType'
    BY Zenon, <1>2 DEF mtk_cleanup, Types, FwType, InitCall, StartCall, CleanupCall, RunningCall
  <2>2. HalType'
    BY <1>2 DEF mtk_cleanup, Types, HalType, Locks
  <2>3. QueueType'
    <3>1. Command("CLEANUP") \in HalMessage
      BY Zenon, MessagesToMnld
    <3> QED BY <1>2, <3>1 DEF mtk_cleanup, Types, QueueType
  <2>4. Handshake'
    BY Zenon, <1>2 DEF mtk_cleanup, Handshake, Types, HalType, Locks
  <2>5. Tables'
    BY Zenon, <1>2 DEF mtk_cleanup, Tables, NoOut, Extensions
  <2> QED BY <2>1, <2>2, <2>3, <2>4, <2>5 DEF Types
<1>3. CASE CheckStop
  <2>1. FwType'
    BY Zenon, <1>3 DEF CheckStop, Types, FwType, InitCall, StartCall, CleanupCall, RunningCall
  <2>2. HalType'
    BY <1>3 DEF CheckStop, Types, HalType, Locks
  <2>3. QueueType'
    BY Zenon, <1>3 DEF CheckStop, Types, QueueType, ControlCmd
  <2>4. Handshake'
    BY Zenon, <1>3 DEF CheckStop, Handshake, Types, HalType, Locks
  <2>5. Tables'
    BY Zenon, <1>3 DEF CheckStop, Tables, NoOut, Extensions
  <2> QED BY <2>1, <2>2, <2>3, <2>4, <2>5 DEF Types
<1>4. CASE WaitStop
  <2>1. FwType'
    BY Zenon, <1>4 DEF WaitStop, Types, FwType, InitCall, StartCall, CleanupCall, RunningCall
  <2>2. HalType'
    BY <1>4 DEF WaitStop, Types, HalType, Locks
  <2>3. QueueType'
    BY Zenon, <1>4 DEF WaitStop, Types, QueueType, ControlCmd
  <2>4. Handshake'
    BY Zenon, <1>4 DEF WaitStop, Handshake, Types, HalType, Locks
  <2>5. Tables'
    BY Zenon, <1>4 DEF WaitStop, Tables, NoOut, Extensions
  <2> QED BY <2>1, <2>2, <2>3, <2>4, <2>5 DEF Types
<1>5. CASE Quit
  <2>1. FwType'
    BY Zenon, <1>5 DEF Quit, Types, FwType, InitCall, StartCall, CleanupCall, RunningCall
  <2>2. HalType'
    BY <1>5 DEF Quit, Types, HalType, Locks
  <2>3. QueueType'
    BY <1>5 DEF Quit, Types, QueueType, ControlCmd
  <2>4. Handshake'
    BY Zenon, <1>5 DEF Quit, Handshake, Types, HalType, Locks
  <2>5. Tables'
    BY Zenon, <1>5 DEF Quit, Tables, NoOut, Extensions
  <2> QED BY <2>1, <2>2, <2>3, <2>4, <2>5 DEF Types
<1>6. CASE gps_state_done
  <2>1. FwType'
    BY Zenon, <1>6 DEF gps_state_done, Types, FwType, InitCall, StartCall, CleanupCall, RunningCall
  <2>2. HalType'
    <3>1. state' \in [init : BOOLEAN, start_flag : BOOLEAN, flag_unlock : BOOLEAN, exit : BOOLEAN]
      BY Zenon, <1>6 DEF gps_state_done, Types, HalType
    <3>2. cond' \in [Locks -> BOOLEAN]
      BY Zenon, <1>6 DEF gps_state_done, Types, HalType, Locks
    <3>3. UNCHANGED <<hal, view, engine, nmea, started>>
      BY Zenon, <1>6 DEF gps_state_done
    <3> QED BY Zenon, <3>1, <3>2, <3>3 DEF Types, HalType
  <2>3. QueueType'
    BY <1>6 DEF gps_state_done, Types, QueueType, ControlCmd
  <2>4. Handshake'
    BY Zenon, <1>6 DEF gps_state_done, Handshake, Types, HalType, Locks
  <2>5. Tables'
    BY Zenon, <1>6 DEF gps_state_done, Tables, NoOut, Extensions
  <2> QED BY <2>1, <2>2, <2>3, <2>4, <2>5 DEF Types
<1>7. CASE mtk_gps_cleanup
  <2>1. FwType'
    BY Zenon, <1>7 DEF mtk_gps_cleanup, Types, FwType, InitCall, StartCall, CleanupCall, RunningCall
  <2>2. HalType'
    BY <1>7 DEF mtk_gps_cleanup, Types, HalType, Locks
  <2>3. QueueType'
    BY Zenon, <1>7 DEF mtk_gps_cleanup, Types, QueueType, ControlCmd
  <2>4. Handshake'
    BY Zenon, <1>7 DEF mtk_gps_cleanup, Handshake, Types, HalType, Locks
  <2>5. Tables'
    BY Zenon, <1>7 DEF mtk_gps_cleanup, Tables, NoOut, Extensions
  <2> QED BY <2>1, <2>2, <2>3, <2>4, <2>5 DEF Types
<1> QED BY <1>1, <1>2, <1>3, <1>4, <1>5, <1>6, <1>7 DEF CleanupSteps

\* The extensions: the reader stays as it is, and a flag is set when its table is there.
LEMMA ExtensionStepsBasics ==
  ASSUME Types, Handshake, Tables, Alive, ExtensionSteps, out' = NoOut, UNCHANGED <<started, engine>>
  PROVE  /\ Types' /\ Handshake' /\ Tables'
         /\ nmea'.reader = nmea.reader /\ nmea'.gps_mode = nmea.gps_mode
<1> USE DEF At, Goto, Return, NoFault, mtk_daemon_send
<1>0. DOMAIN RawFlag = {"measurement", "navigation"} /\ RawFlag["measurement"] = "measurement_flag"
      /\ RawFlag["navigation"] = "navigation_flag"
  BY Zenon DEF RawFlag
<1>1. CASE AgpsCall
  <2>1. UNCHANGED <<fw, hal, cond, state, control, view, mnld2hal, ready, nmea>>
    BY Zenon, <1>1 DEF AgpsCall
  <2>2. hal2mnld' \in Seq(HalMessage)
    <3>1. PICK m \in AgpsCalls : hal2mnld' = Append(hal2mnld, m)
      BY Zenon, <1>1 DEF AgpsCall
    <3>2. m \in HalMessage
      BY Zenon, MessagesToMnld
    <3> QED BY <3>1, <3>2 DEF Types, QueueType
  <2> QED BY <2>1, <2>2 DEF Types, FwType, HalType, QueueType, Handshake, Tables, NoOut
<1>2. CASE mtk_gps_inject_location
  <2>1. UNCHANGED <<fw, hal, cond, state, control, view, mnld2hal, ready>>
    BY Zenon, <1>2 DEF mtk_gps_inject_location
  <2>2. hal2mnld' \in Seq(HalMessage)
    <3>1. InjectLocation \in HalMessage
      BY Zenon, MessagesToMnld
    <3> QED BY <1>2, <3>1 DEF mtk_gps_inject_location, Types, QueueType
  <2>3. /\ nmea' \in [gps_mode : {0, 1}, reader : Reader, interval : Nat, count : Nat, located : BOOLEAN]
        /\ nmea'.reader = nmea.reader /\ nmea'.gps_mode = nmea.gps_mode
    BY Zenon, <1>2 DEF mtk_gps_inject_location, Types, HalType
  <2> QED BY <2>1, <2>2, <2>3 DEF Types, FwType, HalType, QueueType, Handshake, Tables, NoOut
<1>3. CASE UpdateNetworkState
  <2>1. UNCHANGED <<fw, hal, cond, state, control, view, mnld2hal, ready, nmea>>
    BY Zenon, <1>3 DEF UpdateNetworkState
  <2>2. hal2mnld' \in Seq(HalMessage)
    <3>1. PICK new : hal2mnld' = hal2mnld \o agps_ril_update_network_state(nw, new)
      BY Zenon, <1>3 DEF UpdateNetworkState
    <3>2. agps_ril_update_network_state(nw, new) \in Seq(HalMessage)
      BY Zenon, NetworkMessages
    <3> QED BY <3>1, <3>2 DEF Types, QueueType
  <2> QED BY <2>1, <2>2 DEF Types, FwType, HalType, QueueType, Handshake, Tables, NoOut
<1>4. CASE OpenRaw
  <2>1. UNCHANGED <<hal, cond, state, control, view, mnld2hal, ready, nmea>>
    BY Zenon, <1>4 DEF OpenRaw
  <2>2. PICK x \in {"measurement", "navigation"} :
          hal2mnld' = Append(hal2mnld, Command(x)) /\ fw' = [fw EXCEPT !.pc = x]
    BY Zenon, <1>0, <1>4 DEF OpenRaw
  <2>3. hal2mnld' \in Seq(HalMessage)
    <3>1. Command(x) \in HalMessage
      BY Zenon, MessagesToMnld
    <3> QED BY <2>2, <3>1 DEF Types, QueueType
  <2>4. FwType' /\ fw'.pc = x
    BY Zenon, <1>4, <2>2 DEF OpenRaw, Idle, Types, FwType, RunningCall
  <2>5. fw.pc = "idle"
    BY Zenon, <1>4 DEF OpenRaw, Idle
  <2> QED BY <2>1, <2>3, <2>4, <2>5 DEF Types, HalType, QueueType, Handshake, Tables, NoOut
<1>5. CASE InitRaw
  <2>1. UNCHANGED <<hal, cond, state, control, view, hal2mnld, mnld2hal, nmea>>
    BY Zenon, <1>5 DEF InitRaw
  <2>2. fw.pc \in {"measurement", "navigation"} /\ fw' \in {fw, [fw EXCEPT !.pc = "idle", !.user = fw.user]}
    BY Zenon, <1>5 DEF InitRaw
  <2>3. FwType'
    BY Zenon, <2>2 DEF Types, FwType, RunningCall, InitCall, StartCall, CleanupCall
  <2>4. Handshake'
    BY Zenon, <2>1, <2>2 DEF Handshake
  <2>5. Tables'
    BY <1>0, <1>5, <2>1 DEF InitRaw, Tables, NoOut
  <2> QED BY <2>1, <2>3, <2>4, <2>5 DEF Types, HalType, QueueType
<1>6. CASE CloseRaw
  <2>1. UNCHANGED <<fw, hal, cond, state, control, view, mnld2hal, nmea>>
    BY Zenon, <1>6 DEF CloseRaw
  <2>2. PICK x \in {"measurement", "navigation"} :
          hal2mnld' = Append(hal2mnld, Command("close")) /\ ready' = ready \ {RawFlag[x]}
    BY Zenon, <1>6 DEF CloseRaw
  <2>3. hal2mnld' \in Seq(HalMessage)
    <3>1. Command("close") \in HalMessage
      BY Zenon, MessagesToMnld
    <3> QED BY <2>2, <3>1 DEF Types, QueueType
  <2>4. Tables'
    BY Zenon, <1>0, <2>1, <2>2 DEF Tables, NoOut
  <2> QED BY <2>1, <2>3, <2>4 DEF Types, FwType, HalType, QueueType, Handshake
<1>7. CASE mtk_gps_delete_aiding_data
  <2>1. UNCHANGED <<fw, hal, cond, state, view, mnld2hal, ready, nmea>>
    BY Zenon, <1>7 DEF mtk_gps_delete_aiding_data
  <2>2. hal2mnld' \in Seq(HalMessage) /\ control' \in Seq(ControlCmd)
    <3>1. Command("RESTART") \in HalMessage /\ "CMD_RESTART" \in ControlCmd
      BY Zenon, MessagesToMnld DEF ControlCmd
    <3>2. /\ control' = Append(control, "CMD_RESTART")
          /\ hal2mnld' \in {hal2mnld, Append(hal2mnld, Command("RESTART"))}
      BY Zenon, <1>7 DEF mtk_gps_delete_aiding_data
    <3>3. hal2mnld' \in Seq(HalMessage)
      <4>1. hal2mnld \in Seq(HalMessage) /\ Append(hal2mnld, Command("RESTART")) \in Seq(HalMessage)
        BY <3>1 DEF Types, QueueType
      <4> QED BY Zenon, <3>2, <4>1
    <3>4. control' \in Seq(ControlCmd)
      BY <3>1, <3>2 DEF Types, QueueType
    <3> QED BY Zenon, <3>3, <3>4
  <2> QED BY <2>1, <2>2 DEF Types, FwType, HalType, QueueType, Handshake, Tables, NoOut
<1>8. CASE mtk_gps_set_position_mode
  <2>1. UNCHANGED <<fw, hal, cond, state, control, view, hal2mnld, mnld2hal, ready>>
    BY Zenon, <1>8 DEF mtk_gps_set_position_mode
  <2>2. /\ nmea' \in [gps_mode : {0, 1}, reader : Reader, interval : Nat, count : Nat, located : BOOLEAN]
        /\ nmea'.reader = nmea.reader /\ nmea'.gps_mode = nmea.gps_mode
    BY <1>8 DEF mtk_gps_set_position_mode, Types, HalType
  <2> QED BY <2>1, <2>2 DEF Types, FwType, HalType, QueueType, Handshake, Tables, NoOut
<1> QED BY Zenon, <1>1, <1>2, <1>3, <1>4, <1>5, <1>6, <1>7, <1>8 DEF ExtensionSteps

\* No step of a call changes the reader or reports.
LEMMA FrameworkBasics ==
  ASSUME Types, Handshake, Tables, Reports, Framework
  PROVE  Types' /\ Handshake' /\ Tables' /\ Reports'
<1>1. /\ Types' /\ Handshake' /\ Tables'
      /\ nmea'.reader = nmea.reader /\ nmea'.gps_mode = nmea.gps_mode /\ out' = NoOut
  <2>1. Alive /\ out' = NoOut /\ UNCHANGED <<started, engine>>
    BY Zenon DEF Framework
  <2>2. CASE (InitSteps \/ SessionSteps \/ CleanupSteps) /\ UNCHANGED <<nmea, nw>>
    BY Zenon, <2>1, <2>2, InitStepsBasics, SessionStepsBasics, CleanupStepsBasics
  <2>3. CASE ExtensionSteps
    BY Zenon, <2>1, <2>3, ExtensionStepsBasics
  <2> QED BY Zenon, <2>2, <2>3 DEF Framework
<1> QED BY Zenon, <1>1 DEF Reports, ReportsSound, NoOut

\* What a step of the HAL thread that does not read /dev/gps leaves sound: it reports no
\* location and no satellites.
LEMMA Silent ==
  ASSUME Reports, ReaderSound(nmea'.reader, nmea'.gps_mode), out'.fix = Nothing, out'.svs = Nothing
  PROVE  Reports'
BY Zenon DEF Reports, ReportsSound

\* gps_state_thread up to its loop.
LEMMA ThreadSetupBasics ==
  ASSUME Types, Handshake, Tables, Reports, UNCHANGED fw, ThreadSetup
  PROVE  Types' /\ Handshake' /\ Tables' /\ Reports'
<1>1. nmea.gps_mode \in {0, 1}
  BY Zenon DEF Types, HalType
<1>2. ReaderSound(nmea_reader_init, nmea.gps_mode)
  BY Zenon, <1>1, InitReader
<1>3. /\ nmea' \in [gps_mode : {0, 1}, reader : Reader, interval : Nat, count : Nat, located : BOOLEAN]
      /\ nmea'.reader = nmea_reader_init /\ nmea'.gps_mode = nmea.gps_mode
  BY Zenon, <1>2 DEF ThreadSetup, Types, HalType, ReaderSound
<1>4. /\ UNCHANGED <<fw, state, control, view, engine, hal2mnld, mnld2hal, ready, started>> /\ out' = NoOut
      /\ hal' \in {[pc |-> "loop"], [pc |-> "none"]} /\ cond' \in {cond, [cond EXCEPT !["M_INIT"] = TRUE]}
  BY Zenon DEF ThreadSetup, release_condition
<1>5. Types'
  <2>1. hal' \in [pc : {"none", "setup", "loop", "measurement", "navigation", "dieStop", "dieFlag", "crashed"}]
    BY <1>4
  <2>2. cond' \in [Locks -> BOOLEAN]
    BY Zenon, <1>4 DEF Types, HalType
  <2> QED BY <1>3, <1>4, <2>1, <2>2 DEF Types, FwType, HalType, QueueType
<1>6. Handshake' /\ Tables'
  BY <1>4 DEF Handshake, Tables, NoOut, Types, HalType, Locks
<1>7. Reports'
  BY Zenon, <1>2, <1>3, <1>4, Silent DEF NoOut
<1> QED BY Zenon, <1>5, <1>6, <1>7

\* EPOLLERR or EPOLLHUP.
LEMMA HangupBasics ==
  ASSUME Types, Handshake, Tables, Reports, UNCHANGED fw, Hangup
  PROVE  Types' /\ Handshake' /\ Tables' /\ Reports'
<1>1. /\ UNCHANGED <<fw, state, control, view, engine, hal2mnld, ready, started, nmea>> /\ out' = NoOut
      /\ hal' = [pc |-> "none"] /\ mnld2hal' = << >> /\ cond' = [cond EXCEPT !["M_CLEANUP"] = TRUE]
  BY Zenon DEF Hangup, release_condition
<1>2. Types'
  BY <1>1 DEF Types, FwType, HalType, QueueType, Locks
<1>3. Handshake' /\ Tables'
  BY Zenon, <1>1 DEF Handshake, Tables, NoOut, Types, HalType, Locks
<1>4. Reports'
  BY Zenon, <1>1, Silent DEF NoOut, Reports
<1> QED BY <1>2, <1>3, <1>4

\* A control command: a start empties the reader, a restart forgets the fix.
LEMMA ControlCommandBasics ==
  ASSUME Types, Handshake, Tables, Reports, UNCHANGED fw, ControlCommand
  PROVE  Types' /\ Handshake' /\ Tables' /\ Reports'
<1>1. /\ UNCHANGED <<fw, state, view, engine, hal2mnld, ready>> /\ out' = NoOut
      /\ hal' \in {hal, [pc |-> "none"]} /\ mnld2hal' \in {mnld2hal, << >>}
      /\ cond' \in {cond, [cond EXCEPT !["M_CLEANUP"] = TRUE]}
      /\ control # << >> /\ control' = Tail(control)
      /\ started' \in {started, TRUE, FALSE}
  BY Zenon DEF ControlCommand, release_condition, NoFault
<1>2. PICK r \in {nmea.reader, nmea_reader_set_callback(nmea.reader), [nmea.reader EXCEPT !.fix_mode = 0]} :
        nmea' = [nmea EXCEPT !.reader = r]
  BY Zenon DEF ControlCommand
<1>3. ReaderSound(r, nmea.gps_mode)
  <2>1. ReaderSound(nmea.reader, nmea.gps_mode) /\ nmea.gps_mode \in {0, 1}
    BY Zenon DEF Reports, Types, HalType
  <2> QED BY Zenon, <2>1, ResetReader
<1>4. /\ nmea' \in [gps_mode : {0, 1}, reader : Reader, interval : Nat, count : Nat, located : BOOLEAN]
      /\ nmea'.reader = r /\ nmea'.gps_mode = nmea.gps_mode
  BY Zenon, <1>2, <1>3 DEF Types, HalType, ReaderSound
<1>5. HalType'
  <2>1. hal' \in [pc : {"none", "setup", "loop", "measurement", "navigation", "dieStop", "dieFlag", "crashed"}]
    BY <1>1 DEF Types, HalType
  <2>2. cond' \in [Locks -> BOOLEAN] /\ started' \in BOOLEAN
    BY Zenon, <1>1 DEF Types, HalType
  <2> QED BY Zenon, <1>1, <1>4, <2>1, <2>2 DEF Types, HalType
<1>6. QueueType'
  <2>1. control' \in Seq(ControlCmd)
    BY <1>1 DEF Types, QueueType
  <2>2. mnld2hal' \in Seq(MnldMessage)
    <3>1. mnld2hal \in Seq(MnldMessage) /\ << >> \in Seq(MnldMessage)
      BY DEF Types, QueueType
    <3> QED BY Zenon, <1>1, <3>1
  <2> QED BY Zenon, <1>1, <2>1, <2>2 DEF Types, QueueType
<1>7. Types'
  BY Zenon, <1>1, <1>5, <1>6 DEF Types, FwType
<1>8. Handshake' /\ Tables'
  BY <1>1 DEF Handshake, Tables, NoOut, Types, HalType, Locks
<1>9. Reports'
  BY Zenon, <1>1, <1>3, <1>4, Silent DEF NoOut
<1> QED BY Zenon, <1>7, <1>8, <1>9

\* /dev/gps: a sound reader reads a line, and reports what it has.
LEMMA ReadNmeaBasics ==
  ASSUME Types, Handshake, Tables, Reports, UNCHANGED fw, ReadNmea
  PROVE  Types' /\ Handshake' /\ Tables' /\ Reports'
<1>1. /\ UNCHANGED <<fw, hal, control, view, mnld2hal, ready, started>> /\ hal.pc = "loop"
      /\ engine' = [engine EXCEPT !.nmea = FALSE]
      /\ IF state.flag_unlock THEN UNCHANGED <<cond, state>>
         ELSE cond' = [cond EXCEPT !["M_START"] = TRUE] /\ state' = [state EXCEPT !.flag_unlock = TRUE]
  BY Zenon DEF ReadNmea, release_condition
<1>2. /\ engine' \in [on : BOOLEAN, nmea : BOOLEAN] /\ cond' \in [Locks -> BOOLEAN]
      /\ state' \in [init : BOOLEAN, start_flag : BOOLEAN, flag_unlock : BOOLEAN, exit : BOOLEAN]
  BY <1>1, Zenon DEF Types, HalType
<1>3. hal2mnld' \in Seq(HalMessage)
  <2>1. Message("LOG_WRITE", <<"string">>) \in HalMessage
    BY Zenon, MessagesToMnld
  <2>2. hal2mnld' \in {hal2mnld, Append(hal2mnld, Message("LOG_WRITE", <<"string">>))}
    BY Zenon DEF ReadNmea, mtk_daemon_send
  <2>3. hal2mnld \in Seq(HalMessage)
    BY Zenon DEF Types, QueueType
  <2> QED BY <2>1, <2>2, <2>3
<1>4. Handshake'
  BY <1>1 DEF Handshake, Types, HalType, Locks
<1>5. ReaderSound(nmea.reader, nmea.gps_mode) /\ nmea.gps_mode \in {0, 1}
  BY Zenon DEF Reports, Types, HalType
<1>6. /\ nmea' \in [gps_mode : {0, 1}, reader : Reader, interval : Nat, count : Nat, located : BOOLEAN]
      /\ out'.cb = "base" /\ Reports'
  <2>1. CASE nmea.interval > nmea.count + 1
    <3>1. nmea' = [nmea EXCEPT !.count = @ + 1] /\ out' = NoOut
      BY Zenon, <2>1 DEF ReadNmea
    <3>2. nmea.count + 1 \in Nat
      BY DEF Types, HalType
    <3>3. /\ nmea' \in [gps_mode : {0, 1}, reader : Reader, interval : Nat, count : Nat, located : BOOLEAN]
          /\ nmea'.reader = nmea.reader /\ nmea'.gps_mode = nmea.gps_mode
      BY Zenon, <3>1, <3>2 DEF Types, HalType
    <3> QED BY Zenon, <1>5, <3>1, <3>3, Silent DEF NoOut
  <2>2. CASE ~ (nmea.interval > nmea.count + 1)
    <3>1. PICK line \in Readings, end \in Ends :
            LET a == nmea_reader_addc(nmea.reader, nmea.gps_mode, line, end)
            IN  /\ nmea' = [nmea EXCEPT !.count = 0, !.reader = a.reader, !.located = @ \/ a.fix # Nothing]
                /\ out' = [fix |-> a.fix, svs |-> a.svs, cb |-> "base"]
      BY Zenon, <2>2 DEF ReadNmea
    <3> DEFINE a == nmea_reader_addc(nmea.reader, nmea.gps_mode, line, end)
    <3>2. line \in NmeaLine
      <4>1. Blank \in NmeaLine
        BY Zenon DEF Blank, NmeaLine
      <4>2. Content \subseteq NmeaLine
        BY Zenon, LineAssumption DEF Content
      <4>3. line \in Content \/ line = Blank
        BY Zenon DEF Readings
      <4> QED BY Zenon, <4>1, <4>2, <4>3
    <3>3. ReaderSound(a.reader, nmea.gps_mode) /\ ReportsSound(a.fix, a.svs)
      BY Zenon, <1>5, <3>2, LineRead
    <3>4. /\ nmea' = [nmea EXCEPT !.count = 0, !.reader = a.reader, !.located = @ \/ a.fix # Nothing]
          /\ out' = [fix |-> a.fix, svs |-> a.svs, cb |-> "base"]
      BY Zenon, <3>1
    <3> HIDE DEF a
    <3>5. a.reader \in Reader
      BY Zenon, <3>3 DEF ReaderSound
    <3>6. (nmea.located \/ a.fix # Nothing) \in BOOLEAN
      BY Zenon DEF Types, HalType
    <3>7. /\ nmea' \in [gps_mode : {0, 1}, reader : Reader, interval : Nat, count : Nat, located : BOOLEAN]
          /\ nmea'.reader = a.reader /\ nmea'.gps_mode = nmea.gps_mode
      BY <3>4, <3>5, <3>6, Zenon DEF Types, HalType
    <3>8. out'.fix = a.fix /\ out'.svs = a.svs /\ out'.cb = "base"
      BY Zenon, <3>4
    <3> QED BY Zenon, <3>3, <3>7, <3>8 DEF Reports
  <2> QED BY Zenon, <2>1, <2>2
<1>7. Types'
  BY <1>1, <1>2, <1>3, <1>6 DEF Types, FwType, HalType, QueueType
<1>8. Tables'
  BY Zenon, <1>1, <1>6 DEF Tables
<1> QED BY Zenon, <1>4, <1>6, <1>7, <1>8

\* mnld_to_gps_handler: a callback is made through a table that is there.
LEMMA MessageStepsBasics ==
  ASSUME Types, Handshake, Tables, Reports, UNCHANGED fw, MessageSteps
  PROVE  Types' /\ Handshake' /\ Tables' /\ Reports'
<1> USE DEF HeadIs, Taken, NoFault
<1>0. RawFlag["measurement"] = "measurement_flag" /\ RawFlag["navigation"] = "navigation_flag"
  BY Zenon DEF RawFlag
<1>1. mnld2hal # << >> => Tail(mnld2hal) \in Seq(MnldMessage)
  BY DEF Types, QueueType
<1>2. CASE CallBack
  <2>1. /\ UNCHANGED <<fw, cond, state, control, view, engine, hal2mnld, ready, started, nmea>>
        /\ mnld2hal # << >> /\ mnld2hal' = Tail(mnld2hal)
        /\ hal.pc = "loop"
    BY Zenon, <1>2 DEF CallBack
  <2>2. /\ hal' = hal \/ hal' = [pc |-> "crashed"]
        /\ out'.fix = Nothing /\ out'.svs = Nothing /\ out'.cb \in ready \union {"base"}
    BY <1>2 DEF CallBack, NoOut
  <2>3. HalType' /\ hal'.pc \in {"loop", "crashed"}
    BY <2>1, <2>2 DEF Types, HalType
  <2>4. Types' /\ Handshake' /\ Tables'
    BY <1>1, <2>1, <2>2, <2>3 DEF Types, FwType, QueueType, Handshake, Tables
  <2> QED BY Zenon, <2>1, <2>2, <2>4, Silent DEF Reports
<1>3. CASE CheckRaw
  <2>1. /\ UNCHANGED <<fw, cond, state, control, view, engine, hal2mnld, ready, started, nmea>>
        /\ mnld2hal # << >> /\ mnld2hal' = Tail(mnld2hal)
        /\ hal.pc = "loop" /\ out' = NoOut
    BY Zenon, <1>3 DEF CheckRaw
  <2>2. \/ hal' = hal
        \/ hal' = [pc |-> "measurement"] /\ "measurement_flag" \in ready
        \/ hal' = [pc |-> "navigation"] /\ "navigation_flag" \in ready
    BY Zenon, <1>0, <1>3 DEF CheckRaw
  <2>3. HalType' /\ (hal'.pc = "loop" \/ (hal'.pc \in {"measurement", "navigation"} /\ hal'.pc \in ready))
    BY <2>1, <2>2 DEF Types, HalType, Tables
  <2>4. Types' /\ Handshake' /\ Tables'
    BY <1>1, <2>1, <2>3 DEF Types, FwType, QueueType, Handshake, Tables, NoOut
  <2> QED BY <2>1, <2>4, Silent, Zenon DEF Reports, NoOut
<1>4. CASE CallRaw
  <2>1. /\ UNCHANGED <<fw, cond, state, control, view, engine, hal2mnld, mnld2hal, ready, started, nmea>>
        /\ hal.pc \in {"measurement", "navigation"} /\ hal' = [pc |-> "loop"] /\ out' = [NoOut EXCEPT !.cb = hal.pc]
    BY Zenon, <1>4 DEF CallRaw
  <2>2. out'.cb = hal.pc /\ out'.fix = Nothing /\ out'.svs = Nothing
    BY Zenon, <2>1 DEF NoOut
  <2>3. Types' /\ Handshake' /\ Tables'
    BY <2>1, <2>2 DEF Types, FwType, HalType, QueueType, Handshake, Tables
  <2> QED BY Zenon, <2>1, <2>2, <2>3, Silent DEF Reports
<1>5. CASE mtk_gps_send_location_to_mnl
  <2>1. /\ UNCHANGED <<fw, hal, cond, state, control, view, engine, ready, started, nmea>>
        /\ mnld2hal # << >> /\ mnld2hal' = Tail(mnld2hal) /\ out' = NoOut
        /\ hal2mnld' \in {hal2mnld, Append(hal2mnld, InjectLocation)}
    BY Zenon, <1>5 DEF mtk_gps_send_location_to_mnl, mtk_daemon_send
  <2>2. hal2mnld' \in Seq(HalMessage)
    <3>1. hal2mnld \in Seq(HalMessage) /\ InjectLocation \in HalMessage
      BY Zenon, MessagesToMnld DEF Types, QueueType
    <3> QED BY <2>1, <3>1
  <2>3. Types' /\ Handshake' /\ Tables'
    BY <1>1, <2>1, <2>2 DEF Types, FwType, HalType, QueueType, Handshake, Tables, NoOut
  <2> QED BY Zenon, <2>1, <2>3, Silent DEF Reports, NoOut
<1>6. CASE HAL_CMD_GPS_ICON
  <2>1. /\ UNCHANGED <<fw, hal, cond, state, control, engine, hal2mnld, ready, started, nmea>>
        /\ mnld2hal # << >> /\ mnld2hal' = Tail(mnld2hal) /\ out' = NoOut
    BY Zenon, <1>6 DEF HAL_CMD_GPS_ICON
  <2>2. view' \in [wakelock : BOOLEAN, status : {"ENGINE_OFF", "SESSION_BEGIN", "SESSION_END"}]
    BY Zenon, <1>6 DEF HAL_CMD_GPS_ICON, Types, HalType
  <2>3. Types' /\ Handshake' /\ Tables'
    BY <1>1, <2>1, <2>2 DEF Types, FwType, HalType, QueueType, Handshake, Tables, NoOut
  <2> QED BY Zenon, <2>1, <2>3, Silent DEF Reports, NoOut
<1>7. CASE HAL_CMD_MNL_DIE
  <2>1. /\ UNCHANGED <<fw, cond, control, engine, hal2mnld, ready, started, nmea>>
        /\ mnld2hal # << >> /\ mnld2hal' = Tail(mnld2hal) /\ out' = NoOut
        /\ hal' = [pc |-> "dieStop"] /\ state' = [state EXCEPT !.flag_unlock = FALSE]
        /\ view' = [view EXCEPT !.status = "ENGINE_OFF"]
    BY Zenon, <1>7 DEF HAL_CMD_MNL_DIE
  <2>2. HalType' /\ ~state'.flag_unlock
    BY Zenon, <2>1 DEF Types, HalType
  <2>3. Types' /\ Handshake' /\ Tables'
    BY Zenon, <1>1, <2>1, <2>2 DEF Types, FwType, QueueType, Handshake, Tables, NoOut
  <2> QED BY Zenon, <2>1, <2>3, Silent DEF Reports, NoOut
<1>8. CASE DieStop
  <2>1. /\ UNCHANGED <<fw, state, control, view, engine, hal2mnld, mnld2hal, ready, started, nmea>>
        /\ hal.pc = "dieStop" /\ hal' = [pc |-> "dieFlag"] /\ out' = NoOut
        /\ cond' = [cond EXCEPT !["M_STOP"] = TRUE]
    BY Zenon, <1>8 DEF DieStop, release_condition
  <2>2. HalType' /\ cond'["M_START"] = cond["M_START"]
    BY <2>1 DEF Types, HalType, Locks
  <2>3. Types' /\ Handshake' /\ Tables'
    BY Zenon, <2>1, <2>2 DEF Types, FwType, QueueType, Handshake, Tables, NoOut
  <2> QED BY Zenon, <2>1, <2>3, Silent DEF Reports, NoOut
<1>9. CASE DieFlag
  <2>1. /\ UNCHANGED <<fw, cond, control, engine, hal2mnld, mnld2hal, ready, started, nmea>>
        /\ hal.pc = "dieFlag" /\ hal' = [pc |-> "loop"] /\ out' = NoOut
        /\ view' = [view EXCEPT !.wakelock = FALSE] /\ state' = [state EXCEPT !.start_flag = FALSE]
    BY Zenon, <1>9 DEF DieFlag
  <2>2. HalType' /\ state'.flag_unlock = state.flag_unlock
    BY Zenon, <2>1 DEF Types, HalType
  <2>3. Types' /\ Handshake' /\ Tables'
    BY Zenon, <2>1, <2>2 DEF Types, FwType, QueueType, Handshake, Tables, NoOut
  <2> QED BY Zenon, <2>1, <2>3, Silent DEF Reports, NoOut
<1> QED BY Zenon, <1>2, <1>3, <1>4, <1>5, <1>6, <1>7, <1>8, <1>9 DEF MessageSteps

\* The EPO thread, and its end.
LEMMA EpoThreadBasics ==
  ASSUME Types, Handshake, Tables, Reports, EpoThread
  PROVE  Types' /\ Handshake' /\ Tables' /\ Reports'
<1>1. /\ UNCHANGED <<started, fw, hal, state, control, view, engine, hal2mnld, mnld2hal, nmea, ready>>
      /\ out' = NoOut /\ (cond' = cond \/ cond' = [cond EXCEPT !["M_THREAD_EXIT"] = TRUE])
  BY Zenon DEF EpoThread, EpoExit, release_condition
<1>2. cond' \in [Locks -> BOOLEAN] /\ cond'["M_START"] = cond["M_START"]
  <2>1. cond \in [Locks -> BOOLEAN] /\ "M_START" \in Locks
    BY Zenon DEF Types, HalType, Locks
  <2> QED BY <1>1, <2>1, Zenon
<1>3. Types' /\ Handshake' /\ Tables'
  BY <1>1, <1>2 DEF Types, FwType, HalType, QueueType, Handshake, Tables, NoOut
<1> QED BY Zenon, <1>1, <1>3, Silent DEF Reports, NoOut

\* MNLD and the engine.
LEMMA DaemonBasics ==
  ASSUME Types, Handshake, Tables, Reports, out' = NoOut,
         UNCHANGED <<started, fw, hal, cond, state, control, view, nmea, ready>>,
         Mnld \/ Engine \/ EngineCrash \/ MnldSends
  PROVE  Types' /\ Handshake' /\ Tables' /\ Reports'
<1>1. engine' \in [on : BOOLEAN, nmea : BOOLEAN]
  BY Zenon DEF Types, HalType, Mnld, Engine, EngineCrash, MnldSends
<1>2. hal2mnld' \in Seq(HalMessage)
  <2>1. hal2mnld' = hal2mnld \/ (hal2mnld # << >> /\ hal2mnld' = Tail(hal2mnld))
    BY Zenon DEF Mnld, Engine, EngineCrash, MnldSends
  <2>2. hal2mnld \in Seq(HalMessage)
    BY Zenon DEF Types, QueueType
  <2> QED BY <2>1, <2>2
<1>3. mnld2hal' \in Seq(MnldMessage)
  <2>1. mnld2hal' = mnld2hal \/ \E m \in MnldMessage : mnld2hal' = Append(mnld2hal, m)
    BY Zenon, MessagesFromMnld DEF Mnld, Engine, EngineCrash, MnldSends, ToHal
  <2>2. mnld2hal \in Seq(MnldMessage)
    BY Zenon DEF Types, QueueType
  <2> QED BY <2>1, <2>2
<1>4. Types' /\ Handshake' /\ Tables'
  BY <1>1, <1>2, <1>3 DEF Types, FwType, HalType, QueueType, Handshake, Tables, NoOut
<1> QED BY Zenon, <1>4, Silent DEF Reports, NoOut
-----------------------------------------------------------------------------
(* Theorems *)

\* Every step keeps the inductive invariant.
LEMMA NextIInv ==
  ASSUME IInv, Next
  PROVE  IInv'
<1>1. Types /\ Handshake /\ Tables /\ Reports
  BY Zenon DEF IInv
<1>2. CASE Framework
  BY Zenon, <1>1, <1>2, FrameworkBasics DEF IInv
<1>3. CASE EpoThread
  BY <1>1, <1>3, EpoThreadBasics DEF IInv
<1>4. CASE HalThread(ThreadSetup \/ MessageSteps)
  <2>1. UNCHANGED fw /\ (ThreadSetup \/ MessageSteps)
    BY Zenon, <1>4 DEF HalThread
  <2> QED BY Zenon, <1>1, <2>1, ThreadSetupBasics, MessageStepsBasics DEF IInv
<1>5. CASE HalThread(Hangup)
  <2>1. UNCHANGED fw /\ Hangup
    BY Zenon, <1>5 DEF HalThread
  <2> QED BY Zenon, <1>1, <2>1, HangupBasics DEF IInv
<1>6. CASE HalThread(ControlCommand)
  <2>1. UNCHANGED fw /\ ControlCommand
    BY Zenon, <1>6 DEF HalThread
  <2> QED BY <1>1, <2>1, ControlCommandBasics DEF IInv
<1>7. CASE HalThread(ReadNmea)
  <2>1. UNCHANGED fw /\ ReadNmea
    BY <1>7 DEF HalThread
  <2> QED BY <1>1, <2>1, ReadNmeaBasics DEF IInv
<1>8. CASE Daemon(Mnld) \/ Daemon(Engine) \/ Daemon(EngineCrash) \/ Daemon(MnldSends)
  <2>1. /\ out' = NoOut /\ UNCHANGED <<started, fw, hal, cond, state, control, view, nmea, ready>>
        /\ Mnld \/ Engine \/ EngineCrash \/ MnldSends
    BY Zenon, <1>8 DEF Daemon
  <2> QED BY Zenon, <1>1, <2>1, DaemonBasics DEF IInv
<1> QED BY Zenon, <1>2, <1>3, <1>4, <1>5, <1>6, <1>7, <1>8 DEF Next

\* A step that changes nothing keeps it, too.
LEMMA StutterIInv ==
  ASSUME IInv, UNCHANGED vars
  PROVE  IInv'
<1>1. Types'
  BY DEF IInv, vars, Types, FwType, HalType, QueueType
<1>2. Handshake' /\ Tables' /\ Reports'
  BY Zenon DEF IInv, vars, Handshake, Tables, Reports
<1> QED BY Zenon, <1>1, <1>2 DEF IInv

\* The inductive invariant holds in every state the HAL reaches.
THEOREM Invariance == Spec => []IInv
<1>1. Init => IInv
  BY Zenon, InitIInv
<1>2. IInv /\ [Next]_vars => IInv'
  BY Zenon, NextIInv, StutterIInv
<1> QED BY <1>1, <1>2, PTL DEF Spec

\* Between sessions the next mtk_gps_start cannot be left waiting for M_START: the next
\* data releases it, or it has been released.  With any faults.
THEOREM StartsCanBegin == Spec => []StartHandshake
<1>1. IInv => StartHandshake
  BY Zenon DEF IInv, Handshake, StartHandshake, Starting
<1> QED BY <1>1, Invariance, PTL

\* A callback is made only through a table that was stored, also while
\* mtk_gps_measurement_init and mtk_gps_navigation_init run against the HAL thread.
THEOREM CallbacksAreReady == Spec => []CallbacksReady
<1>1. IInv => CallbacksReady
  BY Zenon DEF IInv, Tables, CallbacksReady
<1> QED BY <1>1, Invariance, PTL

\* A list of satellites fits its array and holds no entry that was not written, for any
\* NMEA lines and any size of the array.
THEOREM SvListsAreSound == Spec => []SvListSound
<1>1. IInv => SvListSound
  BY Zenon DEF IInv, Reports, ReportsSound, SvListSound
<1> QED BY <1>1, Invariance, PTL

\* A fix carries only values of its session, for any NMEA lines.
THEOREM FixesAreCurrent == Spec => []FixOfThisSession
<1>1. IInv => FixOfThisSession
  BY Zenon DEF IInv, Reports, ReportsSound, FixOfThisSession
<1> QED BY <1>1, Invariance, PTL
=============================================================================
