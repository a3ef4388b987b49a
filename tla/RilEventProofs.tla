--------------------------- MODULE RilEventProofs ---------------------------
(***************************************************************************)
(* Proofs of the safety properties of RilEvent for any table length, any   *)
(* descriptors, timers, threads and times, and of RilWakeLock, whose timer *)
(* the event loop fires, for any number of senders and timers and for both *)
(* versions of the vendor library.                                         *)
(***************************************************************************)
EXTENDS RilEvent, RilWakeLock, WellFoundedInduction, SequenceTheorems, TLAPS

\* The pipe is the first watch and is never removed.
PipeWatched ==
  /\ loopPC \in {"startup", "ended"} => \A i \in Slots : watch.table[i] = Empty
  /\ loopPC \notin {"startup", "ended"} => watch.index[WakeFd] # Empty
  /\ loopPC \in {"calc", "select", "blocked"} => WakeFd \in rfds

\* pending_list is empty until processTimeouts, then holds timers, then the descriptors
\* that processReadReadies has passed.
PendingSound ==
  /\ loopPC \in {"startup", "ended", "copy", "calc", "select", "blocked", "timeouts"} => pending_list = <<>>
  /\ loopPC # "ready" => slot = 0
  /\ loopPC = "ready" =>
       /\ slot = 0 => \A i \in 1 .. Len(pending_list) : pending_list[i] \in Timers
       /\ \A i \in 1 .. Len(pending_list), j \in slot .. MAX_FD_EVENTS - 1 :
            pending_list[i] # watch.table[j]

\* No event is twice on a list or on both.
Once ==
  /\ \A i, j \in 1 .. Len(timer_list) : timer_list[i] = timer_list[j] => i = j
  /\ \A i, j \in 1 .. Len(pending_list) : pending_list[i] = pending_list[j] => i = j
  /\ \A i \in 1 .. Len(timer_list), j \in 1 .. Len(pending_list) : timer_list[i] # pending_list[j]

\* WatchConsistent, of any value of the watch structures.
Consistent(W) ==
  /\ \A f \in AllFds, i \in Slots : W.index[f] = i <=> W.table[i] = f
  /\ W.readFds = Watched(W)
  /\ \A f \in W.readFds : f < W.nfds

\* The inductive invariant.
IInv == TypeOK /\ WatchConsistent /\ TimersSorted /\ Once /\ PipeWatched /\ PendingSound /\ NoMissedAdd

-----------------------------------------------------------------------------
(* The operators *)

\* Every set of natural numbers that is not empty has a least element: the loops of
\* ril_event.cpp that look for a first or a last one find it.
LEMMA LeastNatural ==
  ASSUME NEW T, T \subseteq Nat, T # {}
  PROVE  \E m \in T : \A x \in T : m <= x
<1>1. PICK m \in T : \A y \in T : ~ (<<y, m>> \in OpToRel(<, Nat))
  BY Zenon, NatLessThanWellFounded, WFMin
<1>2. \A y \in T : ~ (y < m)
  BY Zenon, <1>1 DEF OpToRel
<1> QED BY <1>2

\* A set of integers with an upper bound has a greatest element: the new nfds of
\* removeWatch exists.
LEMMA GreatestInteger ==
  ASSUME NEW S, S \subseteq Int, S # {}, NEW b \in Int, \A x \in S : x <= b
  PROVE  \E m \in S : \A x \in S : m >= x
<1> DEFINE T == {b - x : x \in S}
<1>a. ASSUME NEW x \in S PROVE b - x \in Nat
  <2>1. x \in Int /\ x <= b
    BY Zenon
  <2> QED BY <2>1
<1>1. T \subseteq Nat /\ T # {}
  BY Zenon, <1>a
<1>2. PICK n \in T : \A y \in T : n <= y
  BY Zenon, <1>1, LeastNatural
<1>3. PICK m \in S : n = b - m
  BY Zenon, <1>2
<1>4. ASSUME NEW x \in S PROVE m >= x
  <2>1. b - m <= b - x
    BY Zenon, <1>2, <1>3
  <2> QED BY <2>1
<1> QED BY Zenon, <1>4

\* The walk over a list ends before the first element outside S, or at the end.
LEMMA LeadingStops ==
  ASSUME NEW T, NEW list \in Seq(T), NEW S
  PROVE  LET n == Leading(list, S) IN
         /\ n \in 0 .. Len(list)
         /\ \A i \in 1 .. n : list[i] \in S
         /\ n < Len(list) => list[n + 1] \notin S
<1> DEFINE Out == {k \in 0 .. Len(list) - 1 : list[k + 1] \notin S}
<1>0. Len(list) \in Nat
  OBVIOUS
<1>1. \E n \in 0 .. Len(list) : Passes(list, S, n)
  <2>1. CASE Out = {}
    <3>1. ASSUME NEW i \in 1 .. Len(list) PROVE list[i] \in S
      <4>1. i - 1 \in 0 .. Len(list) - 1 /\ (i - 1) + 1 = i
        BY <1>0
      <4> QED BY Zenon, <2>1, <4>1
    <3>2. Passes(list, S, Len(list))
      BY <3>1, <1>0 DEF Passes
    <3> QED BY <3>2, <1>0
  <2>2. CASE Out # {}
    <3>1. Out \subseteq Nat
      BY <1>0
    <3>2. PICK n \in Out : \A k \in Out : n <= k
      BY Zenon, <2>2, <3>1, LeastNatural
    <3>3. ASSUME NEW i \in 1 .. n PROVE list[i] \in S
      <4>1. i - 1 \in 0 .. Len(list) - 1 /\ (i - 1) + 1 = i /\ i - 1 < n
        BY <1>0, <3>2
      <4>2. i - 1 \notin Out
        <5> HIDE DEF Out
        <5>1. n \in Nat /\ i - 1 \in Int
          BY <3>1, <3>2
        <5> QED BY <4>1, <5>1, <3>2
      <4> QED BY Zenon, <4>1, <4>2
    <3>4. Passes(list, S, n) /\ n \in 0 .. Len(list)
      BY <3>2, <3>3, <1>0 DEF Passes
    <3> QED BY Zenon, <3>4
  <2> QED BY Zenon, <2>1, <2>2
<1>2. Leading(list, S) \in 0 .. Len(list) /\ Passes(list, S, Leading(list, S))
  BY Zenon, <1>1 DEF Leading
<1> QED BY Zenon, <1>2 DEF Passes

\* ril_event_add keeps index, table, readFds and nfds in agreement, touches no other
\* event, and succeeds when a slot is free.
LEMMA WatchAdded ==
  ASSUME NEW W \in WatchState, Consistent(W), NEW f \in AllFds, W.index[f] = Empty
  PROVE  LET V == WatchAdd(W, f) IN
         /\ V \in WatchState
         /\ Consistent(V)
         /\ \A g \in AllFds \ {f} : V.index[g] = W.index[g]
         /\ \A i \in Slots : V.table[i] \in {W.table[i], f}
         /\ (\E i \in Slots : W.table[i] = Empty) => V.index[f] # Empty
<1>1. CASE \A i \in Slots : W.table[i] # Empty
  BY Zenon, <1>1 DEF WatchAdd
<1>2. CASE ~ \A i \in Slots : W.table[i] # Empty
  <2> DEFINE Free(i) == W.table[i] = Empty /\ \A j \in 0 .. i - 1 : W.table[j] # Empty
             k == CHOOSE i \in Slots : Free(i)
  <2>1. \E i \in Slots : Free(i)
    <3> DEFINE T == {i \in Slots : W.table[i] = Empty}
    <3>1. T \subseteq Nat /\ T # {}
      BY <1>2, TableAssumption DEF Slots
    <3>2. PICK m \in T : \A x \in T : m <= x
      BY Zenon, <3>1, LeastNatural
    <3>3. \A j \in 0 .. m - 1 : j \in Slots /\ j \notin T
      BY <3>2, <3>1, TableAssumption DEF Slots
    <3> QED BY Zenon, <3>2, <3>3
  <2>2. k \in Slots /\ W.table[k] = Empty
    BY Zenon, <2>1
  <2>3. WatchAdd(W, f) = [table |-> [W.table EXCEPT ![k] = f], index |-> [W.index EXCEPT ![f] = k],
                          readFds |-> W.readFds \cup {f},
                          nfds |-> IF f >= W.nfds THEN f + 1 ELSE W.nfds]
    BY Zenon, <1>2 DEF WatchAdd
  <2> HIDE DEF k, Free
  <2> DEFINE V == WatchAdd(W, f)
  <2>4. /\ W.table \in [Slots -> AllFds \cup {Empty}]
        /\ W.index \in [AllFds -> Slots \cup {Empty}]
        /\ W.readFds \subseteq AllFds
        /\ W.nfds \in Nat
    BY Zenon DEF WatchState
  <2>5. /\ V.table = [W.table EXCEPT ![k] = f]
        /\ V.index = [W.index EXCEPT ![f] = k]
        /\ V.readFds = W.readFds \cup {f}
        /\ V.nfds = IF f >= W.nfds THEN f + 1 ELSE W.nfds
    BY <2>3
  <2>n. AllFds \subseteq Nat /\ Empty \notin Nat /\ Slots \subseteq Nat
    BY FdAssumption, TableAssumption DEF AllFds, Empty, Slots
  <2>6. V \in WatchState
    <3>1. V.table \in [Slots -> AllFds \cup {Empty}]
      BY <2>4, <2>5, <2>2
    <3>2. V.index \in [AllFds -> Slots \cup {Empty}]
      BY Zenon, <2>4, <2>5, <2>2
    <3>3. V.nfds \in Nat /\ V.readFds \subseteq AllFds
      BY <2>4, <2>5, <2>n
    <3> QED BY Zenon, <2>3, <2>5, <3>1, <3>2, <3>3 DEF WatchState
  <2>7. ASSUME NEW g \in AllFds, NEW i \in Slots PROVE V.index[g] = i <=> V.table[i] = g
    BY <2>2, <2>4, <2>5, <2>n DEF Consistent
  <2>8. V.readFds = Watched(V)
    BY <2>2, <2>4, <2>5, <2>n DEF Consistent, Watched
  <2>9. ASSUME NEW g \in V.readFds PROVE g < V.nfds
    <3>1. g \in Nat /\ f \in Nat
      <4>1. g \in AllFds
        BY Zenon, <2>6, <2>9 DEF WatchState
      <4> QED BY Zenon, <4>1, <2>n
    <3>2. CASE g = f
      BY <3>1, <3>2, <2>5, <2>4
    <3>3. CASE g # f
      <4>1. g < W.nfds
        BY Zenon, <3>3, <2>5 DEF Consistent
      <4> QED BY <4>1, <3>1, <2>5, <2>4
    <3> QED BY Zenon, <3>2, <3>3
  <2>10. Consistent(V)
    BY Zenon, <2>7, <2>8, <2>9 DEF Consistent
  <2>11. V.index[f] # Empty
    BY <2>2, <2>4, <2>5, <2>n
  <2> QED BY Zenon, <2>2, <2>4, <2>5, <2>6, <2>10, <2>11
<1> QED BY Zenon, <1>1, <1>2

\* removeWatch keeps them in agreement, whichever descriptor goes: no watched
\* descriptor is left at or above nfds.
LEMMA WatchRemoved ==
  ASSUME NEW W \in WatchState, Consistent(W), NEW f \in AllFds, W.index[f] # Empty
  PROVE  LET V == removeWatch(W, f) IN
         /\ V \in WatchState
         /\ Consistent(V)
         /\ \A g \in AllFds \ {f} : V.index[g] = W.index[g]
         /\ \A i \in Slots : V.table[i] \in {W.table[i], Empty} /\ V.table[i] # f
<1> DEFINE k == W.index[f]
           table == [W.table EXCEPT ![k] = Empty]
           left  == {table[i] : i \in Slots} \cup {0}
           top   == CHOOSE n \in left : \A m \in left : n >= m
           V == removeWatch(W, f)
<1>1. /\ W.table \in [Slots -> AllFds \cup {Empty}]
      /\ W.index \in [AllFds -> Slots \cup {Empty}]
      /\ W.readFds \subseteq AllFds
      /\ W.nfds \in Nat
  BY Zenon DEF WatchState
<1>2. k \in Slots /\ W.table[k] = f
  BY <1>1 DEF Consistent
<1>3. V = [table |-> table, index |-> [W.index EXCEPT ![f] = Empty],
           readFds |-> W.readFds \ {f}, nfds |-> IF f + 1 = W.nfds THEN top + 1 ELSE W.nfds]
  BY Zenon DEF removeWatch
<1>4. /\ V.table = table
      /\ V.index = [W.index EXCEPT ![f] = Empty]
      /\ V.readFds = W.readFds \ {f}
      /\ V.nfds = IF f + 1 = W.nfds THEN top + 1 ELSE W.nfds
  BY <1>3
<1>n. AllFds \subseteq Nat /\ Empty \notin Nat /\ Empty \in Int /\ Empty < 0 /\ Slots \subseteq Nat
  BY FdAssumption, TableAssumption DEF AllFds, Empty, Slots
<1>t. table \in [Slots -> AllFds \cup {Empty}]
  BY Zenon, <1>1
<1>l. left \subseteq Int /\ left # {}
  <2>1. 0 \in left
    BY Zenon
  <2>2. ASSUME NEW i \in Slots PROVE table[i] \in Int
    <3>1. table[i] \in AllFds \cup {Empty}
      BY Zenon, <1>t, <2>2
    <3>2. AllFds \cup {Empty} \subseteq Int
      BY <1>n
    <3> QED BY <3>1, <3>2, Zenon
  <2> HIDE DEF table
  <2>3. ASSUME NEW x \in left PROVE x \in Int
    <3>1. CASE x = 0
      BY <3>1
    <3>2. CASE x # 0
      <4>1. PICK i \in Slots : x = table[i]
        BY Zenon, <3>2
      <4> QED BY Zenon, <4>1, <2>2
    <3> QED BY Zenon, <3>1, <3>2
  <2> HIDE DEF left
  <2> QED BY Zenon, <2>1, <2>3
<1>5. top \in left /\ \A m \in left : top >= m
  <2>1. left \subseteq Int /\ left # {}
    BY Zenon, <1>l
  <2>2. ASSUME NEW x \in left PROVE x <= W.nfds
    <3>1. CASE x = 0
      BY <3>1, <1>1
    <3>2. CASE x # 0
      <4>1. PICK i \in Slots : x = table[i]
        BY Zenon, <3>2
      <4>2. CASE x = Empty
        BY <4>2, <1>n, <1>1
      <4>3. CASE x # Empty
        <5>1. x \in AllFds /\ W.table[i] = x
          BY Zenon, <4>1, <4>3, <1>t, <1>1
        <5>2. W.index[x] = i
          BY Zenon, <5>1 DEF Consistent
        <5>3. x \in W.readFds
          BY <5>1, <5>2, <1>n DEF Consistent, Watched
        <5>4. x < W.nfds
          BY Zenon, <5>3 DEF Consistent
        <5>5. x \in Nat
          BY Zenon, <5>1, <1>n
        <5> HIDE DEF left
        <5> QED BY <5>4, <5>5, <1>1
      <4> QED BY Zenon, <4>2, <4>3
    <3> QED BY Zenon, <3>1, <3>2
  <2> HIDE DEF left
  <2>3. W.nfds \in Int
    BY <1>1
  <2>4. \E n \in left : \A m \in left : n >= m
    BY Zenon, <2>1, <2>2, <2>3, GreatestInteger
  <2> QED BY Zenon, <2>4
<1>6. top \in Nat
  <2>1. top \in Int /\ 0 \in left
    <3> HIDE DEF top
    <3> QED BY Zenon, <1>5, <1>l
  <2>2. top >= 0
    BY Zenon, <1>5, <2>1
  <2> QED BY <2>1, <2>2
<1>7. V \in WatchState
  <2>1. V.index \in [AllFds -> Slots \cup {Empty}]
    BY Zenon, <1>1, <1>4
  <2> HIDE DEF top, table
  <2>2. V.nfds \in Nat /\ V.readFds \subseteq AllFds
    BY <1>1, <1>4, <1>6
  <2> QED BY Zenon, <1>3, <1>4, <1>t, <2>1, <2>2 DEF WatchState
<1>8. \A i \in Slots : V.table[i] = IF i = k THEN Empty ELSE W.table[i]
  BY Zenon, <1>1, <1>2, <1>4
<1>9. \A g \in AllFds : V.index[g] = IF g = f THEN Empty ELSE W.index[g]
  BY Zenon, <1>1, <1>4
<1>10. ASSUME NEW g \in AllFds, NEW i \in Slots PROVE V.index[g] = i <=> V.table[i] = g
  <2> HIDE DEF table, top, V
  <2> QED BY <1>1, <1>2, <1>8, <1>9, <1>n DEF Consistent
<1>11. V.readFds = Watched(V)
  <2> HIDE DEF table, top, V
  <2> QED BY <1>1, <1>4, <1>9 DEF Consistent, Watched
<1>12. ASSUME NEW g \in V.readFds PROVE g < V.nfds
  <2>1. g \in W.readFds /\ g # f /\ g \in AllFds /\ g \in Nat
    BY Zenon, <1>4, <1>1, <1>n
  <2>2. CASE f + 1 # W.nfds
    <3>1. V.nfds = W.nfds
      BY Zenon, <2>2, <1>4
    <3> QED BY Zenon, <2>1, <3>1 DEF Consistent
  <2>3. CASE f + 1 = W.nfds
    <3>1. V.nfds = top + 1
      BY Zenon, <2>3, <1>4
    <3>2. PICK i \in Slots : V.index[g] = i
      BY Zenon, <1>9, <1>11, <1>7, <2>1 DEF Watched, WatchState
    <3>3. table[i] = g
      BY Zenon, <3>2, <1>10, <1>4, <2>1
    <3>4. g \in left
      BY Zenon, <3>3
    <3>5. top >= g
      BY Zenon, <3>4, <1>5
    <3> HIDE DEF top, V
    <3> QED BY <3>1, <3>5, <1>6, <2>1
  <2> QED BY Zenon, <2>2, <2>3
<1>13. Consistent(V)
  BY Zenon, <1>10, <1>11, <1>12 DEF Consistent
<1>14. \A i \in Slots : V.table[i] # f
  BY <1>8, <1>1, <1>2, <1>n DEF Consistent
<1> HIDE DEF V
<1>15. \A i \in Slots : V.table[i] \in {W.table[i], Empty}
  BY Zenon, <1>8
<1>16. \A g \in AllFds \ {f} : V.index[g] = W.index[g]
  BY Zenon, <1>9
<1> QED BY Zenon, <1>7, <1>13, <1>14, <1>15, <1>16 DEF V

\* ril_timer_add puts a new timer where the list stays sorted; the others keep their
\* order and no one is lost.
LEMMA TimerInserted ==
  ASSUME NEW list \in Seq(Timers), NEW deadline \in [Timers -> 0 .. MaxTime], NEW t \in Timers,
         \A i \in 1 .. Len(list) : list[i] # t,
         \A i, j \in 1 .. Len(list) : list[i] = list[j] => i = j,
         \A i, j \in 1 .. Len(list) : i < j => deadline[list[i]] <= deadline[list[j]]
  PROVE  LET L == TimerInsert(list, deadline, t) IN
         /\ L \in Seq(Timers)
         /\ Len(L) = Len(list) + 1
         /\ \A i \in 1 .. Len(L) : L[i] = t \/ \E k \in 1 .. Len(list) : L[i] = list[k]
         /\ \A i, j \in 1 .. Len(L) : L[i] = L[j] => i = j
         /\ \A i, j \in 1 .. Len(L) : i < j => deadline[L[i]] <= deadline[L[j]]
<1> DEFINE S == {u \in Timers : deadline[u] < deadline[t]}
           n == Leading(list, S)
           L == TimerInsert(list, deadline, t)
<1>0. Len(list) \in Nat /\ \A i \in 1 .. Len(list) : list[i] \in Timers
  OBVIOUS
<1>1. /\ n \in 0 .. Len(list)
      /\ \A i \in 1 .. n : list[i] \in S
      /\ n < Len(list) => list[n + 1] \notin S
  BY Zenon, LeadingStops
<1>2. L = SubSeq(list, 1, n) \o <<t>> \o SubSeq(list, n + 1, Len(list))
  BY Zenon DEF TimerInsert
<1> HIDE DEF n, L
<1> DEFINE front == SubSeq(list, 1, n)
           back == SubSeq(list, n + 1, Len(list))
           head == front \o <<t>>
<1>a. /\ front \in Seq(Timers) /\ Len(front) = n
      /\ \A i \in 1 .. n : front[i] = list[i]
  BY <1>0, <1>1
<1>b. /\ back \in Seq(Timers) /\ Len(back) = Len(list) - n
      /\ \A i \in 1 .. Len(list) - n : back[i] = list[n + i]
  <2>1. back \in Seq(Timers) /\ Len(back) = Len(list) - n
    BY <1>0, <1>1
  <2>2. ASSUME NEW i \in 1 .. Len(list) - n PROVE back[i] = list[n + i]
    <3>1. back[i] = list[n + 1 + i - 1]
      BY <2>1, <1>0, <1>1
    <3>2. n + 1 + i - 1 = n + i
      BY <1>0, <1>1
    <3> QED BY Zenon, <3>1, <3>2
  <2> QED BY Zenon, <2>1, <2>2
<1> HIDE DEF front, back
<1>c. /\ head \in Seq(Timers) /\ Len(head) = n + 1
      /\ \A i \in 1 .. n : head[i] = list[i]
      /\ head[n + 1] = t
  BY <1>a, <1>1, <1>0
<1>n. n \in Nat /\ n <= Len(list)
  BY <1>1, <1>0
<1>d. L = head \o back
  BY Zenon, <1>2 DEF front, back
<1> HIDE DEF head
<1>3. L \in Seq(Timers) /\ Len(L) = Len(list) + 1
  BY <1>b, <1>c, <1>d, <1>0, <1>n, ConcatProperties
<1>e. \A i \in 1 .. n + 1 + (Len(list) - n) : L[i] = IF i <= n + 1 THEN head[i] ELSE back[i - (n + 1)]
  <2>1. \A i \in 1 .. Len(head) + Len(back) :
           (head \o back)[i] = IF i <= Len(head) THEN head[i] ELSE back[i - Len(head)]
    <3>1. head \in Seq(Timers) /\ back \in Seq(Timers)
      BY Zenon, <1>b, <1>c
    <3> QED BY Zenon, <3>1, ConcatProperties
  <2> QED BY Zenon, <2>1, <1>b, <1>c, <1>d
<1>4. /\ \A i \in 1 .. n : L[i] = list[i]
      /\ L[n + 1] = t
      /\ \A i \in n + 2 .. Len(L) : L[i] = list[i - 1]
  <2>0. ASSUME NEW i \in 1 .. n + 1 PROVE L[i] = head[i]
    <3>1. i \in 1 .. n + 1 + (Len(list) - n) /\ i <= n + 1
      BY <1>0, <1>n
    <3> QED BY Zenon, <3>1, <1>e
  <2>1. ASSUME NEW i \in 1 .. n PROVE L[i] = list[i]
    <3>1. i \in 1 .. n + 1
      BY <1>n
    <3> QED BY Zenon, <3>1, <2>0, <1>c
  <2>2. L[n + 1] = t
    <3>1. n + 1 \in 1 .. n + 1
      BY <1>n
    <3> QED BY Zenon, <3>1, <2>0, <1>c
  <2>3. ASSUME NEW i \in n + 2 .. Len(L) PROVE L[i] = list[i - 1]
    <3>1. i - (n + 1) \in 1 .. Len(list) - n /\ n + (i - (n + 1)) = i - 1
      BY <1>3, <1>0, <1>n
    <3>2. i \in 1 .. n + 1 + (Len(list) - n) /\ ~ (i <= n + 1)
      BY <1>3, <1>0, <1>n
    <3>3. L[i] = back[i - (n + 1)]
      BY Zenon, <3>2, <1>e
    <3>4. back[i - (n + 1)] = list[n + (i - (n + 1))]
      BY Zenon, <3>1, <1>b
    <3> QED BY Zenon, <3>1, <3>3, <3>4
  <2> QED BY Zenon, <2>1, <2>2, <2>3
<1> DEFINE At(i) == IF i <= n THEN i ELSE i - 1
<1>f. ASSUME NEW i \in 1 .. Len(L), i # n + 1
      PROVE  At(i) \in 1 .. Len(list) /\ L[i] = list[At(i)]
  <2>1. CASE i <= n
    BY <2>1, <1>4, <1>n, <1>0
  <2>2. CASE i > n + 1
    <3>1. i \in n + 2 .. Len(L) /\ i - 1 \in 1 .. Len(list) /\ ~ (i <= n)
      BY <2>2, <1>n, <1>0, <1>3
    <3> QED BY Zenon, <3>1, <1>4
  <2> QED BY <2>1, <2>2, <1>f, <1>n
<1>g. ASSUME NEW i \in 1 .. Len(L), NEW j \in 1 .. Len(L), i # n + 1, j # n + 1, i < j
      PROVE  At(i) < At(j)
  BY <1>g, <1>n
<1> HIDE DEF At
<1>5. ASSUME NEW i \in 1 .. Len(L) PROVE L[i] = t \/ \E k \in 1 .. Len(list) : L[i] = list[k]
  BY Zenon, <1>4, <1>f
<1>6. ASSUME NEW i \in 1 .. Len(L), NEW j \in 1 .. Len(L), i < j PROVE L[i] # L[j]
  <2>0. i # j
    BY <1>6
  <2>1. CASE i = n + 1
    <3>1. j # n + 1 /\ L[i] = t
      BY Zenon, <2>0, <2>1, <1>4
    <3>2. At(j) \in 1 .. Len(list) /\ L[j] = list[At(j)]
      BY Zenon, <3>1, <1>f
    <3> QED BY Zenon, <3>1, <3>2
  <2>2. CASE j = n + 1
    <3>1. i # n + 1 /\ L[j] = t
      BY Zenon, <2>0, <2>2, <1>4
    <3>2. At(i) \in 1 .. Len(list) /\ L[i] = list[At(i)]
      BY Zenon, <3>1, <1>f
    <3> QED BY Zenon, <3>1, <3>2
  <2>3. CASE i # n + 1 /\ j # n + 1
    <3>1. At(i) < At(j) /\ At(i) \in 1 .. Len(list) /\ At(j) \in 1 .. Len(list)
      BY Zenon, <2>3, <1>6, <1>f, <1>g
    <3>2. At(i) # At(j)
      BY <3>1
    <3> QED BY Zenon, <2>3, <3>1, <3>2, <1>f
  <2> QED BY Zenon, <2>1, <2>2, <2>3
<1>7. ASSUME NEW i \in 1 .. Len(L), NEW j \in 1 .. Len(L), i < j
      PROVE  deadline[L[i]] <= deadline[L[j]]
  <2>0. \A u \in Timers : deadline[u] \in Int
    BY DelayAssumption
  <2>1. CASE i # n + 1 /\ j # n + 1
    <3>1. At(i) < At(j) /\ At(i) \in 1 .. Len(list) /\ At(j) \in 1 .. Len(list)
      BY Zenon, <2>1, <1>7, <1>f, <1>g
    <3> QED BY Zenon, <2>1, <3>1, <1>f
  <2>2. CASE j = n + 1
    <3>1. i \in 1 .. n
      BY <2>2, <1>7, <1>n
    <3>2. L[j] = t /\ L[i] = list[i] /\ list[i] \in S
      BY Zenon, <2>2, <3>1, <1>1, <1>4
    <3>3. deadline[L[i]] < deadline[t] /\ L[i] \in Timers
      BY Zenon, <3>2
    <3> QED BY <3>2, <3>3, <2>0
  <2>3. CASE i = n + 1
    <3>1. At(j) = j - 1 /\ j - 1 >= n + 1 /\ At(j) \in 1 .. Len(list) /\ L[j] = list[At(j)] /\ n < Len(list)
      <4>1. j # n + 1 /\ j > n + 1 /\ ~ (j <= n) /\ j - 1 >= n + 1
        BY <2>3, <1>7, <1>n
      <4>2. At(j) = j - 1
        BY Zenon, <4>1 DEF At
      <4>3. At(j) \in 1 .. Len(list) /\ L[j] = list[At(j)]
        BY Zenon, <4>1, <1>f
      <4>4. n < Len(list)
        BY <4>1, <4>2, <4>3, <1>n, <1>0
      <4> QED BY Zenon, <4>1, <4>2, <4>3, <4>4
    <3>2. n + 1 \in 1 .. Len(list) /\ list[n + 1] \notin S
      BY <3>1, <1>1, <1>n, <1>0
    <3>3. list[n + 1] \in Timers /\ list[j - 1] \in Timers
      BY Zenon, <3>1, <3>2, <1>0
    <3>4. ~ (deadline[list[n + 1]] < deadline[t])
      BY Zenon, <3>2, <3>3
    <3>5. deadline[list[n + 1]] <= deadline[list[j - 1]]
      <4>1. CASE n + 1 = j - 1
        BY <4>1, <3>3, <2>0
      <4>2. CASE n + 1 # j - 1
        <5>1. n + 1 < j - 1
          BY <4>2, <3>1, <1>n
        <5> QED BY Zenon, <5>1, <3>1, <3>2
      <4> QED BY Zenon, <4>1, <4>2
    <3> QED BY <2>3, <1>4, <3>1, <3>3, <3>4, <3>5, <2>0
  <2> QED BY Zenon, <2>1, <2>2, <2>3
<1>8. \A i, j \in 1 .. Len(L) : L[i] = L[j] => i = j
  <2> SUFFICES ASSUME NEW i \in 1 .. Len(L), NEW j \in 1 .. Len(L), i # j PROVE L[i] # L[j]
    BY Zenon
  <2>1. i < j \/ j < i
    BY <1>3, <1>0
  <2> QED BY Zenon, <2>1, <1>6
<1> QED BY Zenon, <1>3, <1>5, <1>7, <1>8 DEF L
-----------------------------------------------------------------------------
(* The steps *)

\* The watch structures of a state of the invariant.
LEMMA WatchFacts ==
  ASSUME TypeOK, WatchConsistent
  PROVE  /\ watch \in WatchState
         /\ Consistent(watch)
         /\ watch.table \in [Slots -> AllFds \cup {Empty}]
         /\ watch.index \in [AllFds -> Slots \cup {Empty}]
         /\ watch.readFds \subseteq AllFds
         /\ watch.nfds \in Nat
BY Zenon DEF TypeOK, WatchConsistent, Consistent, WatchState

\* ril_timer_add, by whichever thread: the list stays sorted and free of duplicates, and
\* shares no event with pending_list.
LEMMA TimerAdded ==
  ASSUME IInv, NEW t \in Timers, NEW d \in Delays, TimerAdd(t, d)
  PROVE  /\ timer_list' \in Seq(Timers)
         /\ timeout' \in [Timers -> 0 .. MaxTime]
         /\ TimersSorted'
         /\ \A i, j \in 1 .. Len(timer_list') : timer_list'[i] = timer_list'[j] => i = j
         /\ \A i \in 1 .. Len(timer_list'), j \in 1 .. Len(pending_list) :
              timer_list'[i] # pending_list[j]
<1>1. timeout' \in [Timers -> 0 .. MaxTime]
  <2>1. now + d \in 0 .. MaxTime
    BY DelayAssumption DEF IInv, TypeOK, TimerAdd
  <2> QED BY Zenon, <2>1 DEF IInv, TypeOK, TimerAdd
<1>2. timer_list \in Seq(Timers) /\ pending_list \in Seq(Timers \cup AllFds)
  BY Zenon DEF IInv, TypeOK
<1>3. /\ \A i \in 1 .. Len(timer_list) : timer_list[i] # t
      /\ \A i \in 1 .. Len(pending_list) : pending_list[i] # t
  BY <1>2 DEF TimerAdd, Idle, Range
<1>4. \A i, j \in 1 .. Len(timer_list) : i < j => timeout'[timer_list[i]] <= timeout'[timer_list[j]]
  BY <1>2, <1>3 DEF IInv, TypeOK, TimersSorted, TimerAdd
<1>5. timer_list' = TimerInsert(timer_list, timeout', t)
  BY Zenon DEF TimerAdd
<1>6. \A i, j \in 1 .. Len(timer_list) : timer_list[i] = timer_list[j] => i = j
  BY Zenon DEF IInv, Once
<1>7. /\ timer_list' \in Seq(Timers)
      /\ Len(timer_list') = Len(timer_list) + 1
      /\ \A i \in 1 .. Len(timer_list') :
           timer_list'[i] = t \/ \E k \in 1 .. Len(timer_list) : timer_list'[i] = timer_list[k]
      /\ \A i, j \in 1 .. Len(timer_list') : timer_list'[i] = timer_list'[j] => i = j
      /\ \A i, j \in 1 .. Len(timer_list') :
           i < j => timeout'[timer_list'[i]] <= timeout'[timer_list'[j]]
  <2> DEFINE list == timer_list
             deadline == timeout'
             L == TimerInsert(list, deadline, t)
  <2>1. /\ list \in Seq(Timers)
        /\ deadline \in [Timers -> 0 .. MaxTime]
        /\ \A i \in 1 .. Len(list) : list[i] # t
        /\ \A i, j \in 1 .. Len(list) : list[i] = list[j] => i = j
        /\ \A i, j \in 1 .. Len(list) : i < j => deadline[list[i]] <= deadline[list[j]]
    BY Zenon, <1>1, <1>2, <1>3, <1>4, <1>6
  <2>2. timer_list' = L
    BY Zenon, <1>5
  <2> HIDE DEF list, deadline
  <2>3. /\ L \in Seq(Timers)
        /\ Len(L) = Len(list) + 1
        /\ \A i \in 1 .. Len(L) : L[i] = t \/ \E k \in 1 .. Len(list) : L[i] = list[k]
        /\ \A i, j \in 1 .. Len(L) : L[i] = L[j] => i = j
        /\ \A i, j \in 1 .. Len(L) : i < j => deadline[L[i]] <= deadline[L[j]]
    BY <2>1, TimerInserted, Zenon
  <2> HIDE DEF L
  <2> QED BY Zenon, <2>2, <2>3 DEF list, deadline
<1>8. ASSUME NEW i \in 1 .. Len(timer_list'), NEW j \in 1 .. Len(pending_list)
      PROVE  timer_list'[i] # pending_list[j]
  BY <1>3, <1>7 DEF IInv, Once
<1> QED BY Zenon, <1>1, <1>7, <1>8 DEF TimersSorted

\* The invariant holds when the loop thread has been started.
LEMMA InitIInv ==
  ASSUME Init
  PROVE  IInv
<1>0. AllFds \subseteq Nat /\ Empty \notin Nat /\ Slots \subseteq Nat /\ 0 \in Slots
  BY FdAssumption, TableAssumption DEF AllFds, Empty, Slots
<1>1. TypeOK
  BY <1>0, DelayAssumption DEF Init, TypeOK, WatchState
<1>2. WatchConsistent
  BY Zenon, <1>0 DEF Init, WatchConsistent, Watched
<1>3. TimersSorted /\ Once /\ NoMissedAdd
  BY DEF Init, TimersSorted, Once, NoMissedAdd
<1>4. PipeWatched /\ PendingSound
  BY Zenon DEF Init, PipeWatched, PendingSound
<1> QED BY Zenon, <1>1, <1>2, <1>3, <1>4 DEF IInv

\* internalRequestTimedCallback: the pipe will end the select() that does not know of
\* the new timer.
LEMMA RequestTimedCallbackStep ==
  ASSUME IInv, NEW th \in Threads, NEW t \in Timers, NEW d \in Delays, RequestTimedCallback(th, t, d)
  PROVE  IInv'
<1>0. TimerAdd(t, d) /\ UNCHANGED <<watch, pending_list, now, loopPC, slot, rfds, tv, until, readable>>
  BY Zenon DEF RequestTimedCallback, loopVars
<1>1. TypeOK'
  BY Zenon, <1>0, TimerAdded DEF IInv, TypeOK, RequestTimedCallback
<1>2. WatchConsistent' /\ PipeWatched' /\ PendingSound'
  BY <1>0 DEF IInv, WatchConsistent, PipeWatched, PendingSound, Watched
<1>3. TimersSorted' /\ Once'
  BY <1>0, TimerAdded DEF IInv, Once
<1>4. loopPC \in {"calc", "select", "blocked"} => WakeupOnItsWay'
  BY Zenon, <1>0 DEF IInv, TypeOK, PipeWatched, WakeupOnItsWay, RequestTimedCallback
<1>5. NoMissedAdd'
  BY Zenon, <1>0, <1>4 DEF NoMissedAdd
<1> QED BY Zenon, <1>1, <1>2, <1>3, <1>5 DEF IInv

\* rilEventAddWakeup: the same for a new watch.
LEMMA AddWakeupStep ==
  ASSUME IInv, NEW th \in Threads, NEW f \in Fds, AddWakeup(th, f)
  PROVE  IInv'
<1>0. UNCHANGED <<timer_list, timeout, pending_list, now, loopPC, slot, rfds, tv, until, readable>>
  BY Zenon DEF AddWakeup, loopVars
<1>1. f \in AllFds /\ f # WakeFd /\ WakeFd \in AllFds
  BY Zenon, FdAssumption DEF AllFds
<1>2. /\ watch' \in WatchState
      /\ Consistent(watch')
      /\ watch'.index[WakeFd] = watch.index[WakeFd]
      /\ \A i \in Slots : watch'.table[i] \in {watch.table[i], f}
  BY <1>1, WatchFacts, WatchAdded DEF IInv, AddWakeup
<1>3. TypeOK'
  BY Zenon, <1>0, <1>2 DEF IInv, TypeOK, AddWakeup
<1>4. WatchConsistent'
  BY Zenon, <1>2 DEF Consistent, WatchConsistent
<1>5. TimersSorted' /\ Once'
  BY <1>0 DEF IInv, TimersSorted, Once
<1>6. PipeWatched'
  BY Zenon, <1>0, <1>2 DEF IInv, PipeWatched, AddWakeup
<1>7. PendingSound'
  <2>1. CASE loopPC # "ready"
    BY Zenon, <2>1, <1>0 DEF IInv, PendingSound
  <2>2. CASE loopPC = "ready"
    <3>1. slot = 0 /\ \A i \in 1 .. Len(pending_list) : pending_list[i] \in Timers
      BY Zenon, <2>2 DEF IInv, PendingSound, AddWakeup, MutexFree
    <3>2. \A j \in 0 .. MAX_FD_EVENTS - 1 : watch'.table[j] \in AllFds \cup {Empty}
      BY Zenon, <1>2 DEF WatchState, Slots
    <3>3. ASSUME NEW i \in 1 .. Len(pending_list), NEW j \in slot .. MAX_FD_EVENTS - 1
          PROVE  pending_list[i] # watch'.table[j]
      <4>1. j \in Slots /\ watch'.table[j] \in {watch.table[j], f}
        BY Zenon, <3>1, <1>2 DEF Slots
      <4>2. pending_list[i] # watch.table[j]
        BY Zenon, <2>2 DEF IInv, PendingSound
      <4>3. pending_list[i] # f
        BY Zenon, <3>1, <1>1, TimerAssumption
      <4> QED BY Zenon, <4>1, <4>2, <4>3
    <3> QED BY Zenon, <2>2, <3>1, <3>3, <1>0 DEF PendingSound
  <2> QED BY Zenon, <2>1, <2>2
<1>8. loopPC \in {"calc", "select", "blocked"} => WakeupOnItsWay'
  BY Zenon, <1>0 DEF IInv, TypeOK, PipeWatched, WakeupOnItsWay, AddWakeup
<1>9. NoMissedAdd'
  BY Zenon, <1>0, <1>8 DEF NoMissedAdd
<1> QED BY Zenon, <1>3, <1>4, <1>5, <1>6, <1>7, <1>9 DEF IInv

\* triggerEvLoop: what was on its way is now in the pipe.
LEMMA TriggerStep ==
  ASSUME IInv, NEW th \in Threads, triggerEvLoop(th)
  PROVE  IInv'
<1>0. UNCHANGED <<watch, timer_list, timeout, pending_list, now, loopPC, slot, rfds, tv, until>>
  BY Zenon DEF triggerEvLoop, loopVars
<1>1. TypeOK'
  BY Zenon, <1>0 DEF IInv, TypeOK, triggerEvLoop, AllFds
<1>2. WatchConsistent' /\ PipeWatched' /\ PendingSound' /\ TimersSorted' /\ Once'
  BY <1>0 DEF IInv, WatchConsistent, PipeWatched, PendingSound, TimersSorted, Once, Watched
<1>3. loopPC \in {"calc", "select", "blocked"} => WakeupOnItsWay'
  BY Zenon, <1>0 DEF IInv, PipeWatched, WakeupOnItsWay, triggerEvLoop
<1>4. NoMissedAdd'
  BY Zenon, <1>0, <1>3 DEF NoMissedAdd
<1> QED BY Zenon, <1>1, <1>2, <1>4 DEF IInv

\* ril_event_del: fewer descriptors to wait for, and never the pipe.
LEMMA DelStep ==
  ASSUME IInv, NEW f \in Fds, ril_event_del(f)
  PROVE  IInv'
<1>0. UNCHANGED <<timer_list, timeout, pending_list, now, loopPC, slot, rfds, tv, until, readable, pc>>
  BY Zenon DEF ril_event_del, loopVars
<1>1. f \in AllFds /\ f # WakeFd /\ WakeFd \in AllFds
  BY Zenon, FdAssumption DEF AllFds
<1>2. /\ watch' \in WatchState
      /\ Consistent(watch')
      /\ \A g \in AllFds \ {f} : watch'.index[g] = watch.index[g]
      /\ \A i \in Slots : watch'.table[i] \in {watch.table[i], Empty} /\ watch'.table[i] # f
  BY <1>1, WatchFacts, WatchRemoved DEF IInv, ril_event_del
<1>3. TypeOK'
  BY Zenon, <1>0, <1>2 DEF IInv, TypeOK
<1>4. WatchConsistent'
  BY Zenon, <1>2 DEF Consistent, WatchConsistent
<1>5. TimersSorted' /\ Once'
  BY <1>0 DEF IInv, TimersSorted, Once
<1>6. PipeWatched'
  BY Zenon, <1>0, <1>1, <1>2 DEF IInv, PipeWatched
<1>7. PendingSound'
  <2>1. CASE loopPC # "ready"
    BY Zenon, <2>1, <1>0 DEF IInv, PendingSound
  <2>2. CASE loopPC = "ready"
    <3>1. slot = 0 /\ \A i \in 1 .. Len(pending_list) : pending_list[i] \in Timers
      BY Zenon, <2>2 DEF IInv, PendingSound, ril_event_del, MutexFree
    <3>3. ASSUME NEW i \in 1 .. Len(pending_list), NEW j \in slot .. MAX_FD_EVENTS - 1
          PROVE  pending_list[i] # watch'.table[j]
      <4>1. j \in Slots /\ watch'.table[j] \in {watch.table[j], Empty}
        BY Zenon, <3>1, <1>2 DEF Slots
      <4>2. pending_list[i] # watch.table[j]
        BY Zenon, <2>2 DEF IInv, PendingSound
      <4> QED BY Zenon, <4>1, <4>2, <3>1, TimerAssumption
    <3> QED BY Zenon, <2>2, <3>1, <3>3, <1>0 DEF PendingSound
  <2> QED BY Zenon, <2>1, <2>2
<1>8. Watched(watch') \subseteq Watched(watch)
  BY <1>1, <1>2 DEF Watched, Consistent, WatchState
<1>9. NoMissedAdd'
  BY Zenon, <1>0, <1>8 DEF IInv, NoMissedAdd, WakeupOnItsWay
<1> QED BY Zenon, <1>3, <1>4, <1>5, <1>6, <1>7, <1>9 DEF IInv

\* eventLoop: the table is empty, so the pipe gets its slot.
LEMMA MakePipeStep ==
  ASSUME IInv, MakePipe
  PROVE  IInv'
<1>0. /\ UNCHANGED <<timer_list, timeout, pending_list, now, slot, rfds, tv, until, readable, pc>>
      /\ loopPC = "startup" /\ loopPC' = "copy"
  BY Zenon DEF MakePipe
<1>1. WakeFd \in AllFds /\ Empty \notin AllFds
  BY FdAssumption DEF AllFds, Empty
<1>2. \A i \in Slots : watch.table[i] = Empty
  BY Zenon, <1>0 DEF IInv, PipeWatched
<1>3. watch.index[WakeFd] = Empty
  BY <1>1, <1>2, WatchFacts DEF IInv, Consistent
<1>4. 0 \in Slots
  BY TableAssumption DEF Slots
<1>5. watch' \in WatchState /\ Consistent(watch') /\ watch'.index[WakeFd] # Empty
  BY <1>1, <1>2, <1>3, <1>4, WatchFacts, WatchAdded DEF IInv, MakePipe
<1>6. TypeOK'
  BY Zenon, <1>0, <1>5 DEF IInv, TypeOK
<1>7. WatchConsistent'
  BY Zenon, <1>5 DEF Consistent, WatchConsistent
<1>8. TimersSorted' /\ Once'
  BY <1>0 DEF IInv, TimersSorted, Once
<1>9. PipeWatched' /\ PendingSound' /\ NoMissedAdd'
  BY Zenon, <1>0, <1>5 DEF IInv, PipeWatched, PendingSound, NoMissedAdd
<1> QED BY Zenon, <1>6, <1>7, <1>8, <1>9 DEF IInv

\* Without a pipe the loop never runs.
LEMMA PipeFailsStep ==
  ASSUME IInv, PipeFails
  PROVE  IInv'
<1>0. /\ UNCHANGED <<watch, timer_list, timeout, pending_list, now, slot, rfds, tv, until, readable, pc>>
      /\ loopPC = "startup" /\ loopPC' = "ended"
  BY Zenon DEF PipeFails
<1>1. TypeOK'
  BY Zenon, <1>0 DEF IInv, TypeOK
<1>2. WatchConsistent' /\ TimersSorted'
  BY Zenon, <1>0 DEF IInv, WatchConsistent, TimersSorted
<1>3. Once'
  BY <1>0 DEF IInv, Once
<1>4. PipeWatched' /\ PendingSound' /\ NoMissedAdd'
  BY Zenon, <1>0 DEF IInv, PipeWatched, PendingSound, NoMissedAdd
<1> QED BY Zenon, <1>1, <1>2, <1>3, <1>4 DEF IInv

\* The copy of readFds is exact when it is made, and has the pipe in it.
LEMMA CopyReadFdsStep ==
  ASSUME IInv, CopyReadFds
  PROVE  IInv'
<1>0. /\ UNCHANGED <<watch, timer_list, timeout, pending_list, now, slot, tv, until, readable, pc>>
      /\ loopPC = "copy" /\ loopPC' = "calc" /\ rfds' = watch.readFds
  BY Zenon DEF CopyReadFds
<1>1. TypeOK'
  BY Zenon, <1>0, WatchFacts DEF IInv, TypeOK
<1>2. WatchConsistent' /\ TimersSorted' /\ Once' /\ PendingSound'
  BY <1>0 DEF IInv, WatchConsistent, TimersSorted, Once, PendingSound
<1>3. watch.readFds = Watched(watch) /\ WakeFd \in Watched(watch)
  BY Zenon, <1>0 DEF IInv, WatchConsistent, PipeWatched, Watched, AllFds
<1>4. PipeWatched' /\ NoMissedAdd'
  BY Zenon, <1>0, <1>3 DEF IInv, PipeWatched, NoMissedAdd
<1> QED BY Zenon, <1>1, <1>2, <1>4 DEF IInv

\* The first deadline is exact when it is read: the list is sorted.
LEMMA CalcStep ==
  ASSUME IInv, calcNextTimeout
  PROVE  IInv'
<1>0. /\ UNCHANGED <<watch, timer_list, timeout, pending_list, now, slot, rfds, readable, pc>>
      /\ loopPC = "calc" /\ loopPC' = "select"
  BY Zenon DEF calcNextTimeout
<1>1. timer_list # <<>> => /\ until' = timeout[Head(timer_list)]
                           /\ Head(timer_list) \in Timers
                           /\ until' \in 0 .. MaxTime
  BY DEF IInv, TypeOK, calcNextTimeout
<1>2. timer_list = <<>> => until' = NoTimeout
  BY Zenon DEF calcNextTimeout
<1>3. until' \in 0 .. MaxTime \cup {NoTimeout}
  BY Zenon, <1>1, <1>2
<1>4. tv' \in 0 .. MaxTime \cup {NoTimeout}
  BY <1>3, DelayAssumption DEF IInv, TypeOK, calcNextTimeout
<1>5. TypeOK'
  BY Zenon, <1>0, <1>3, <1>4 DEF IInv, TypeOK
<1>6. WatchConsistent' /\ TimersSorted' /\ Once' /\ PendingSound' /\ PipeWatched'
  BY <1>0 DEF IInv, WatchConsistent, TimersSorted, Once, PendingSound, PipeWatched
<1>7. timer_list # <<>> => until' # NoTimeout /\ until' <= timeout[Head(timer_list)]
  BY <1>1, DelayAssumption
<1>8. NoMissedAdd'
  BY Zenon, <1>0, <1>7 DEF IInv, NoMissedAdd, WakeupOnItsWay
<1> QED BY Zenon, <1>5, <1>6, <1>8 DEF IInv

\* select() looks below nfds only: that leaves out no watched descriptor.
LEMMA EnterSelectStep ==
  ASSUME IInv, EnterSelect
  PROVE  IInv'
<1>0. /\ UNCHANGED <<watch, timer_list, timeout, pending_list, now, slot, tv, until, readable, pc>>
      /\ loopPC = "select" /\ loopPC' = "blocked" /\ rfds' = {f \in rfds : f < watch.nfds}
  BY Zenon DEF EnterSelect
<1>1. TypeOK'
  BY Zenon, <1>0 DEF IInv, TypeOK
<1>2. WatchConsistent' /\ TimersSorted' /\ Once' /\ PendingSound'
  BY <1>0 DEF IInv, WatchConsistent, TimersSorted, Once, PendingSound
<1>3. \A f \in Watched(watch) : f < watch.nfds
  BY Zenon DEF IInv, WatchConsistent
<1>4. WakeFd \in Watched(watch)
  BY Zenon, <1>0 DEF IInv, PipeWatched, Watched, AllFds
<1>5. PipeWatched'
  BY Zenon, <1>0, <1>3, <1>4 DEF IInv, PipeWatched
<1>6. WakeupOnItsWay => WakeupOnItsWay'
  BY Zenon, <1>0, <1>3, <1>4 DEF WakeupOnItsWay
<1>7. Watched(watch) \subseteq rfds => Watched(watch) \subseteq rfds'
  BY Zenon, <1>0, <1>3
<1>8. NoMissedAdd'
  BY Zenon, <1>0, <1>6, <1>7 DEF IInv, NoMissedAdd
<1> QED BY Zenon, <1>1, <1>2, <1>5, <1>8 DEF IInv

\* select() returns, is interrupted, or fails.
LEMMA SelectStep ==
  ASSUME IInv, SelectReturns \/ SelectInterrupted \/ SelectError
  PROVE  IInv'
<1>0. /\ UNCHANGED <<watch, timer_list, timeout, pending_list, now, slot, tv, until, readable, pc>>
      /\ loopPC = "blocked" /\ loopPC' \in {"timeouts", "copy", "killed"} /\ rfds' \subseteq rfds
  BY Zenon DEF SelectReturns, SelectInterrupted, SelectError
<1>1. TypeOK'
  BY Zenon, <1>0 DEF IInv, TypeOK
<1>2. WatchConsistent' /\ TimersSorted' /\ Once'
  BY <1>0 DEF IInv, WatchConsistent, TimersSorted, Once
<1>3. PendingSound' /\ PipeWatched' /\ NoMissedAdd'
  BY Zenon, <1>0 DEF IInv, PendingSound, PipeWatched, NoMissedAdd
<1> QED BY Zenon, <1>1, <1>2, <1>3 DEF IInv

\* processTimeouts moves timers from one list to the other.
LEMMA ProcessTimeoutsStep ==
  ASSUME IInv, processTimeouts
  PROVE  IInv'
<1> DEFINE n == Leading(timer_list, {t \in Timers : now > timeout[t]})
<1>0. /\ UNCHANGED <<watch, timeout, now, slot, rfds, tv, until, readable, pc>>
      /\ loopPC = "timeouts" /\ loopPC' = "ready"
      /\ pending_list' = pending_list \o SubSeq(timer_list, 1, n)
      /\ timer_list' = SubSeq(timer_list, n + 1, Len(timer_list))
  BY Zenon DEF processTimeouts
<1>1. timer_list \in Seq(Timers) /\ pending_list = <<>> /\ slot = 0
  BY Zenon, <1>0 DEF IInv, TypeOK, PendingSound
<1>2. n \in Nat /\ n <= Len(timer_list)
  BY <1>1, LeadingStops
<1> HIDE DEF n
<1>3. /\ pending_list' \in Seq(Timers)
      /\ Len(pending_list') = n
      /\ \A i \in 1 .. n : pending_list'[i] = timer_list[i]
  <2>1. pending_list' = SubSeq(timer_list, 1, n)
    <3>1. SubSeq(timer_list, 1, n) \in Seq(Timers)
      BY <1>1, <1>2
    <3> QED BY Zenon, <1>0, <1>1, <3>1, ConcatEmptySeq
  <2> QED BY <2>1, <1>1, <1>2
<1>4. /\ timer_list' \in Seq(Timers)
      /\ Len(timer_list') = Len(timer_list) - n
      /\ \A i \in 1 .. Len(timer_list) - n : timer_list'[i] = timer_list[n + i]
  <2>1. timer_list' \in Seq(Timers) /\ Len(timer_list') = Len(timer_list) - n
    BY <1>0, <1>1, <1>2
  <2>2. ASSUME NEW i \in 1 .. Len(timer_list) - n PROVE timer_list'[i] = timer_list[n + i]
    <3>1. timer_list'[i] = timer_list[n + 1 + i - 1]
      BY <2>1, <1>0, <1>1, <1>2
    <3>2. n + 1 + i - 1 = n + i
      BY <1>1, <1>2
    <3> QED BY Zenon, <3>1, <3>2
  <2> QED BY Zenon, <2>1, <2>2
<1>5. TypeOK'
  <2>1. pending_list' \in Seq(Timers \cup AllFds)
    BY <1>3
  <2> QED BY Zenon, <1>0, <1>4, <2>1 DEF IInv, TypeOK
<1>6. WatchConsistent' /\ PipeWatched' /\ NoMissedAdd'
  BY Zenon, <1>0 DEF IInv, WatchConsistent, PipeWatched, NoMissedAdd
<1>7. TimersSorted'
  <2> SUFFICES ASSUME NEW i \in 1 .. Len(timer_list'), NEW j \in 1 .. Len(timer_list'), i < j
               PROVE  timeout[timer_list'[i]] <= timeout[timer_list'[j]]
    BY Zenon, <1>0 DEF TimersSorted
  <2>1. n + i \in 1 .. Len(timer_list) /\ n + j \in 1 .. Len(timer_list) /\ n + i < n + j
    BY <1>1, <1>2, <1>4
  <2>2. timer_list'[i] = timer_list[n + i] /\ timer_list'[j] = timer_list[n + j]
    BY Zenon, <1>4
  <2> QED BY Zenon, <2>1, <2>2 DEF IInv, TimersSorted
<1>8. Once'
  <2>1. ASSUME NEW i \in 1 .. Len(timer_list'), NEW j \in 1 .. Len(timer_list'),
               timer_list'[i] = timer_list'[j]
        PROVE  i = j
    <3>1. n + i \in 1 .. Len(timer_list) /\ n + j \in 1 .. Len(timer_list)
      BY <1>1, <1>2, <1>4
    <3>2. timer_list'[i] = timer_list[n + i] /\ timer_list'[j] = timer_list[n + j]
      BY Zenon, <1>4
    <3>3. n + i = n + j
      BY Zenon, <2>1, <3>1, <3>2 DEF IInv, Once
    <3> QED BY <3>3, <1>2
  <2>2. ASSUME NEW i \in 1 .. Len(pending_list'), NEW j \in 1 .. Len(pending_list'),
               pending_list'[i] = pending_list'[j]
        PROVE  i = j
    <3>1. i \in 1 .. Len(timer_list) /\ j \in 1 .. Len(timer_list)
      BY <1>1, <1>2, <1>3
    <3>2. timer_list[i] = timer_list[j]
      BY Zenon, <2>2, <1>3
    <3> QED BY Zenon, <3>1, <3>2 DEF IInv, Once
  <2>3. ASSUME NEW i \in 1 .. Len(timer_list'), NEW j \in 1 .. Len(pending_list')
        PROVE  timer_list'[i] # pending_list'[j]
    <3>1. n + i \in 1 .. Len(timer_list) /\ j \in 1 .. Len(timer_list) /\ n + i # j
      BY <1>1, <1>2, <1>3, <1>4
    <3>2. timer_list'[i] = timer_list[n + i] /\ pending_list'[j] = timer_list[j]
      BY Zenon, <1>3, <1>4
    <3> QED BY Zenon, <3>1, <3>2 DEF IInv, Once
  <2> QED BY Zenon, <2>1, <2>2, <2>3 DEF Once
<1>9. PendingSound'
  <2>1. \A i \in 1 .. Len(pending_list') : pending_list'[i] \in Timers
    BY <1>3
  <2>2. ASSUME NEW j \in 0 .. MAX_FD_EVENTS - 1 PROVE watch.table[j] \notin Timers
    <3>1. watch.table[j] \in AllFds \cup {Empty}
      BY Zenon, WatchFacts DEF IInv, Slots
    <3> QED BY Zenon, <3>1, TimerAssumption
  <2> QED BY Zenon, <1>0, <1>1, <2>1, <2>2 DEF PendingSound
<1> QED BY Zenon, <1>5, <1>6, <1>7, <1>8, <1>9 DEF IInv

\* One turn of processReadReadies: the event is not yet on pending_list, because the
\* loop has not passed its slot and no other slot has it.
LEMMA ProcessReadReadiesStep ==
  ASSUME IInv, processReadReadies
  PROVE  IInv'
<1> DEFINE f == watch.table[slot]
<1>0. /\ UNCHANGED <<timer_list, timeout, now, rfds, tv, until, readable, pc>>
      /\ loopPC = "ready" /\ loopPC' \in {"ready", "fire"}
      /\ loopPC' = IF slot + 1 = MAX_FD_EVENTS THEN "fire" ELSE "ready"
      /\ slot' = (slot + 1) % MAX_FD_EVENTS
  BY Zenon DEF processReadReadies
<1>n. /\ AllFds \subseteq Nat /\ Empty \notin Nat /\ MAX_FD_EVENTS \in Nat \ {0}
      /\ slot \in Nat /\ slot < MAX_FD_EVENTS /\ slot \in Slots
  BY FdAssumption, TableAssumption DEF AllFds, Empty, IInv, TypeOK, Slots
<1>1. slot' = IF slot + 1 = MAX_FD_EVENTS THEN 0 ELSE slot + 1
  BY <1>0, <1>n
<1>2. slot' \in Slots
  BY <1>1, <1>n DEF Slots
<1>3. /\ pending_list \in Seq(Timers \cup AllFds)
      /\ timer_list \in Seq(Timers)
      /\ f \in AllFds \cup {Empty}
      /\ rfds \subseteq AllFds
  BY Zenon, <1>n, WatchFacts DEF IInv, TypeOK
<1>4. \A i \in 1 .. Len(pending_list), j \in slot .. MAX_FD_EVENTS - 1 : pending_list[i] # watch.table[j]
  BY Zenon, <1>0 DEF IInv, PendingSound
<1>5. CASE f \notin rfds
  <2>1. UNCHANGED <<pending_list, watch>>
    BY Zenon, <1>5 DEF processReadReadies
  <2>2. TypeOK'
    BY Zenon, <1>0, <1>2, <2>1 DEF IInv, TypeOK
  <2>3. WatchConsistent' /\ TimersSorted' /\ Once'
    BY Zenon, <1>0, <2>1 DEF IInv, WatchConsistent, TimersSorted, Once
  <2>p. PipeWatched' /\ NoMissedAdd'
    BY Zenon, <1>0, <2>1 DEF IInv, PipeWatched, NoMissedAdd
  <2>4. loopPC' = "ready" => slot' = slot + 1 /\ slot' # 0
    BY <1>0, <1>1, <1>n
  <2>5. loopPC' # "ready" => slot' = 0
    BY Zenon, <1>0, <1>1, <1>n
  <2>6. loopPC' = "ready" =>
          \A i \in 1 .. Len(pending_list), j \in slot' .. MAX_FD_EVENTS - 1 : pending_list[i] # watch.table[j]
    BY <2>4, <1>4, <1>n
  <2>7. PendingSound'
    BY Zenon, <1>0, <2>1, <2>4, <2>5, <2>6 DEF PendingSound
  <2> QED BY Zenon, <2>2, <2>3, <2>p, <2>7 DEF IInv
<1>6. CASE f \in rfds
  <2>0. f \in AllFds /\ f # Empty
    BY Zenon, <1>6, <1>3, <1>n
  <2>1. pending_list' = Append(pending_list, f)
    BY Zenon, <1>6 DEF processReadReadies
  <2>2. /\ pending_list' \in Seq(Timers \cup AllFds)
        /\ Len(pending_list') = Len(pending_list) + 1
        /\ \A i \in 1 .. Len(pending_list) : pending_list'[i] = pending_list[i]
        /\ pending_list'[Len(pending_list) + 1] = f
    BY <2>0, <2>1, <1>3, AppendProperties
  <2>3. watch.index[f] = slot /\ watch.index[f] # Empty
    <3>1. Consistent(watch)
      BY Zenon, WatchFacts DEF IInv
    <3>2. watch.index[f] = slot
      BY Zenon, <3>1, <2>0, <1>n DEF Consistent
    <3> QED BY Zenon, <3>2, <1>n
  <2>4. /\ watch' \in WatchState
        /\ Consistent(watch')
        /\ \A i \in Slots : watch'.table[i] \in {watch.table[i], Empty}
        /\ watch'.index[WakeFd] = watch.index[WakeFd]
    <3>0. WakeFd \in AllFds
      BY Zenon DEF AllFds
    <3>1. CASE f \in Persist \cup {WakeFd}
      <4>1. watch' = watch
        BY Zenon, <1>6, <3>1 DEF processReadReadies
      <4> QED BY Zenon, <4>1, WatchFacts DEF IInv
    <3>2. CASE f \notin Persist \cup {WakeFd}
      <4>1. watch' = removeWatch(watch, f)
        BY Zenon, <1>6, <3>2 DEF processReadReadies
      <4>2. f # WakeFd
        BY Zenon, <3>2
      <4> HIDE DEF f
      <4> QED BY <4>1, <4>2, <3>0, <2>0, <2>3, WatchFacts, WatchRemoved DEF IInv
    <3> QED BY Zenon, <3>1, <3>2
  <2>5. TypeOK'
    BY Zenon, <1>0, <1>2, <2>2, <2>4 DEF IInv, TypeOK
  <2>6. WatchConsistent'
    BY Zenon, <2>4 DEF Consistent, WatchConsistent
  <2>7. TimersSorted' /\ PipeWatched' /\ NoMissedAdd'
    BY Zenon, <1>0, <2>4 DEF IInv, TimersSorted, PipeWatched, NoMissedAdd
  <2>8. \A i \in 1 .. Len(pending_list) : pending_list[i] # f
    BY <1>4, <1>n
  <2>9. \A i \in 1 .. Len(timer_list) : timer_list[i] # f
    BY <1>3, <2>0, TimerAssumption
  <2> HIDE DEF f
  <2>10. Len(pending_list) \in Nat /\ Len(timer_list) \in Nat
    BY <1>3
  <2>11. Once'
    <3>1. ASSUME NEW i \in 1 .. Len(pending_list'), NEW j \in 1 .. Len(pending_list'),
                 pending_list'[i] = pending_list'[j]
          PROVE  i = j
      <4>1. \A k, l \in 1 .. Len(pending_list) : pending_list[k] = pending_list[l] => k = l
        BY Zenon DEF IInv, Once
      <4> QED BY <3>1, <4>1, <2>2, <2>8, <2>10
    <3>2. ASSUME NEW i \in 1 .. Len(timer_list), NEW j \in 1 .. Len(pending_list')
          PROVE  timer_list[i] # pending_list'[j]
      BY <2>2, <2>9, <2>10 DEF IInv, Once
    <3> QED BY Zenon, <1>0, <3>1, <3>2 DEF IInv, Once
  <2>12. PendingSound'
    <3>1. loopPC' = "ready" => slot' = slot + 1 /\ slot' # 0
      BY <1>0, <1>1, <1>n
    <3>2. loopPC' # "ready" => slot' = 0
      BY <1>0, <1>1, <1>n
    <3>3. ASSUME loopPC' = "ready", NEW i \in 1 .. Len(pending_list'), NEW j \in slot' .. MAX_FD_EVENTS - 1
          PROVE  pending_list'[i] # watch'.table[j]
      <4>1. j \in Slots /\ j # slot /\ j \in slot .. MAX_FD_EVENTS - 1
        BY <3>1, <3>3, <1>n DEF Slots
      <4>2. watch'.table[j] \in {watch.table[j], Empty}
        BY Zenon, <2>4, <4>1
      <4>3. pending_list'[i] # Empty
        <5>1. pending_list'[i] \in Timers \cup AllFds
          BY <2>2
        <5> QED BY Zenon, <5>1, <1>n, TimerAssumption
      <4>4. pending_list'[i] # watch.table[j]
        <5>1. CASE i \in 1 .. Len(pending_list)
          BY Zenon, <5>1, <4>1, <2>2, <1>4
        <5>2. CASE i = Len(pending_list) + 1
          <6>1. pending_list'[i] = f
            BY Zenon, <5>2, <2>2
          <6>2. watch.table[j] # f
            BY <4>1, <2>0, <2>3, WatchFacts DEF IInv, Consistent
          <6> QED BY Zenon, <6>1, <6>2
        <5> QED BY <5>1, <5>2, <2>2, <2>10
      <4> QED BY Zenon, <4>2, <4>3, <4>4
    <3> QED BY Zenon, <1>0, <3>1, <3>2, <3>3 DEF PendingSound
  <2> QED BY Zenon, <2>5, <2>6, <2>7, <2>11, <2>12 DEF IInv
<1> QED BY Zenon, <1>5, <1>6

\* firePending: an event leaves pending_list; its callback may add another timer.
LEMMA FirePendingStep ==
  ASSUME IInv, firePending
  PROVE  IInv'
<1>0. /\ UNCHANGED <<watch, now, loopPC, slot, rfds, tv, until, pc>>
      /\ loopPC = "fire" /\ pending_list # <<>> /\ pending_list' = Tail(pending_list)
      /\ readable' \subseteq readable
  BY Zenon DEF firePending, loopVars
<1>1. \/ UNCHANGED <<timer_list, timeout>>
      \/ \E t \in Timers, d \in Delays : TimerAdd(t, d)
  BY Zenon DEF firePending
<1>2. /\ timer_list' \in Seq(Timers)
      /\ timeout' \in [Timers -> 0 .. MaxTime]
      /\ TimersSorted'
      /\ \A i, j \in 1 .. Len(timer_list') : timer_list'[i] = timer_list'[j] => i = j
      /\ \A i \in 1 .. Len(timer_list'), j \in 1 .. Len(pending_list) :
           timer_list'[i] # pending_list[j]
  <2>1. CASE UNCHANGED <<timer_list, timeout>>
    BY Zenon, <2>1 DEF IInv, TypeOK, TimersSorted, Once
  <2>2. CASE \E t \in Timers, d \in Delays : TimerAdd(t, d)
    BY Zenon, <2>2, TimerAdded
  <2> QED BY Zenon, <1>1, <2>1, <2>2
<1>3. /\ pending_list' \in Seq(Timers \cup AllFds)
      /\ Len(pending_list') = Len(pending_list) - 1
      /\ \A i \in 1 .. Len(pending_list') : pending_list'[i] = pending_list[i + 1]
      /\ Len(pending_list) \in Nat
  <2>1. pending_list \in Seq(Timers \cup AllFds)
    BY Zenon DEF IInv, TypeOK
  <2> QED BY <1>0, <2>1, HeadTailProperties
<1>4. TypeOK'
  BY Zenon, <1>0, <1>2, <1>3 DEF IInv, TypeOK
<1>5. WatchConsistent' /\ PipeWatched' /\ PendingSound' /\ NoMissedAdd'
  BY Zenon, <1>0 DEF IInv, WatchConsistent, PipeWatched, PendingSound, NoMissedAdd
<1>6. Once'
  <2>1. \A i \in 1 .. Len(pending_list') : i + 1 \in 1 .. Len(pending_list)
    BY <1>3
  <2>2. ASSUME NEW i \in 1 .. Len(pending_list'), NEW j \in 1 .. Len(pending_list'),
               pending_list'[i] = pending_list'[j]
        PROVE  i = j
    <3>1. i + 1 = j + 1
      BY <2>1, <2>2, <1>3 DEF IInv, Once
    <3> QED BY <3>1
  <2>3. ASSUME NEW i \in 1 .. Len(timer_list'), NEW j \in 1 .. Len(pending_list')
        PROVE  timer_list'[i] # pending_list'[j]
    BY Zenon, <2>1, <1>2, <1>3
  <2> QED BY Zenon, <1>2, <2>2, <2>3 DEF Once
<1> QED BY Zenon, <1>2, <1>4, <1>5, <1>6 DEF IInv

\* The end of the callbacks, the clock, and data on a descriptor disturb nothing.
LEMMA OutsideStep ==
  ASSUME IInv, FireDone \/ Tick \/ (\E f \in Fds : DataArrives(f)) \/ UNCHANGED vars
  PROVE  IInv'
<1>0. /\ UNCHANGED <<watch, timer_list, timeout, pending_list, slot, rfds, until, pc>>
      /\ readable \subseteq readable'
      /\ loopPC' = loopPC \/ (loopPC = "fire" /\ loopPC' = "copy" /\ pending_list = <<>>)
  BY Zenon DEF FireDone, Tick, DataArrives, vars, loopVars
<1>1. TypeOK'
  <2>1. now' \in 0 .. MaxTime
    BY DelayAssumption DEF IInv, TypeOK, FireDone, Tick, DataArrives, vars, loopVars
  <2>2. tv' \in 0 .. MaxTime \cup {NoTimeout}
    BY DelayAssumption DEF IInv, TypeOK, FireDone, Tick, DataArrives, vars, loopVars
  <2>3. readable' \subseteq AllFds
    BY DEF IInv, TypeOK, FireDone, Tick, DataArrives, vars, AllFds
  <2> QED BY Zenon, <1>0, <2>1, <2>2, <2>3 DEF IInv, TypeOK
<1>2. WatchConsistent' /\ TimersSorted'
  BY Zenon, <1>0 DEF IInv, WatchConsistent, TimersSorted
<1>o. Once'
  BY <1>0 DEF IInv, Once
<1>p. PipeWatched' /\ PendingSound'
  BY Zenon, <1>0 DEF IInv, PipeWatched, PendingSound
<1>3. NoMissedAdd'
  BY Zenon, <1>0 DEF IInv, NoMissedAdd, WakeupOnItsWay
<1> QED BY Zenon, <1>1, <1>2, <1>o, <1>p, <1>3 DEF IInv

\* Every step of the loop, of the other threads and of the environment keeps the invariant.
LEMMA NextIInv ==
  ASSUME IInv, [Next]_vars
  PROVE  IInv'
<1>1. CASE Loop
  BY Zenon, <1>1, MakePipeStep, CopyReadFdsStep, CalcStep, EnterSelectStep, SelectStep,
     ProcessTimeoutsStep, ProcessReadReadiesStep, FirePendingStep, OutsideStep DEF Loop
<1>2. CASE PipeFails \/ SelectInterrupted \/ SelectError
  BY Zenon, <1>2, PipeFailsStep, SelectStep
<1>3. CASE \E th \in Threads : \/ \E t \in Timers, d \in Delays : RequestTimedCallback(th, t, d)
                               \/ \E f \in Fds : AddWakeup(th, f)
                               \/ triggerEvLoop(th)
  BY Zenon, <1>3, RequestTimedCallbackStep, AddWakeupStep, TriggerStep
<1>4. CASE \E f \in Fds : ril_event_del(f)
  BY Zenon, <1>4, DelStep
<1>5. CASE Tick \/ (\E f \in Fds : DataArrives(f)) \/ Killed \/ UNCHANGED vars
  BY Zenon, <1>5, OutsideStep DEF Killed
<1> QED BY Zenon, <1>1, <1>2, <1>3, <1>4, <1>5 DEF Next

\* No event is linked twice, counted over both lists.
LEMMA OnceLinked ==
  ASSUME TypeOK, Once
  PROVE  LinkedOnce
<1> DEFINE all == timer_list \o pending_list
           E == Timers \cup AllFds
<1>1. timer_list \in Seq(E) /\ pending_list \in Seq(E)
  BY DEF TypeOK
<1>2. /\ Len(all) = Len(timer_list) + Len(pending_list)
      /\ Len(timer_list) \in Nat /\ Len(pending_list) \in Nat
      /\ \A i \in 1 .. Len(timer_list) + Len(pending_list) :
           all[i] = IF i <= Len(timer_list) THEN timer_list[i] ELSE pending_list[i - Len(timer_list)]
  BY <1>1, ConcatProperties
<1> HIDE DEF all, E
<1>3. ASSUME NEW i \in 1 .. Len(all), NEW j \in 1 .. Len(all), all[i] = all[j], i < j
      PROVE  FALSE
  <2>1. CASE j <= Len(timer_list)
    <3>1. all[i] = timer_list[i] /\ all[j] = timer_list[j] /\ i \in 1 .. Len(timer_list) /\ j \in 1 .. Len(timer_list) /\ i # j
      BY <2>1, <1>2, <1>3
    <3> QED BY Zenon, <3>1, <1>3 DEF Once
  <2>2. CASE i <= Len(timer_list) /\ j > Len(timer_list)
    <3> DEFINE l == j - Len(timer_list)
    <3>1. all[i] = timer_list[i] /\ all[j] = pending_list[l] /\ i \in 1 .. Len(timer_list) /\ l \in 1 .. Len(pending_list)
      BY <2>2, <1>2, <1>3
    <3> QED BY Zenon, <3>1, <1>3 DEF Once
  <2>3. CASE i > Len(timer_list)
    <3> DEFINE k == i - Len(timer_list)
               l == j - Len(timer_list)
    <3>1. all[i] = pending_list[k] /\ all[j] = pending_list[l] /\ k \in 1 .. Len(pending_list) /\ l \in 1 .. Len(pending_list) /\ k # l
      BY <2>3, <1>2, <1>3
    <3> QED BY Zenon, <3>1, <1>3 DEF Once
  <2> QED BY <2>1, <2>2, <2>3, <1>2
<1>4. ASSUME NEW i \in 1 .. Len(all), NEW j \in 1 .. Len(all), all[i] = all[j] PROVE i = j
  <2>1. i < j \/ j < i \/ i = j
    BY <1>2
  <2> QED BY Zenon, <2>1, <1>3, <1>4
<1> QED BY Zenon, <1>4 DEF LinkedOnce, all

\* The inductive invariant holds in every state of ril_event_loop and its callers.
THEOREM Invariance == Spec => []IInv
<1>1. Init => IInv
  BY Zenon, InitIInv
<1>2. IInv /\ [Next]_vars => IInv'
  BY Zenon, NextIInv
<1> QED BY <1>1, <1>2, PTL DEF Spec

\* The watch table, readFds, nfds, timer_list and pending_list agree after any
\* interleaving of ril_event_add, ril_timer_add, ril_event_del and ril_event_loop, and
\* the copies the loop makes without listMutex hide no event from its select().
THEOREM NoEventIsHidden == Spec => []EventsConsistent
<1>1. IInv => EventsConsistent
  BY Zenon, OnceLinked DEF IInv, EventsConsistent
<1> QED BY <1>1, Invariance, PTL
-----------------------------------------------------------------------------
(* The wake lock *)

\* A structure that has no timer yet is not cancelled, because the last timer
\* and the ones a sender is about to remember have been armed.
FreshInfos ==
  /\ \A i \in Infos : stage[i] = "unused" => userParam[i] = 0
  /\ s_last_wake_timeout_info # NoInfo => stage[s_last_wake_timeout_info] # "unused"
  /\ \A s \in Senders : sender[s] \in Infos => stage[sender[s]] # "unused"

\* The inductive invariant.
WakeInv == WakeTypeOK /\ FreshInfos /\ HeldHasTimer /\ HeldIsCounted

\* The initial states satisfy the invariant.
LEMMA WakeInitInv == WakeInit => WakeInv
<1> SUFFICES ASSUME WakeInit PROVE WakeInv
  OBVIOUS
<1>1. WakeTypeOK
  BY Zenon DEF WakeInit, WakeTypeOK
<1>2. FreshInfos
  BY Zenon, InfoAssumption DEF WakeInit, FreshInfos
<1>3. HeldHasTimer /\ HeldIsCounted
  BY Zenon DEF WakeInit, HeldHasTimer, HeldIsCounted
<1> QED BY Zenon, <1>1, <1>2, <1>3 DEF WakeInv

\* Cancelling leaves a well-typed userParam and touches only the last timer,
\* which is never one that is still unused.
LEMMA CancelTyped ==
  ASSUME WakeTypeOK, FreshInfos
  PROVE  /\ CancelLast \in [Infos -> {0, 1}]
         /\ \A i \in Infos : stage[i] = "unused" => CancelLast[i] = 0
  BY Zenon, InfoAssumption DEF WakeTypeOK, FreshInfos, CancelLast

\* A counted grab keeps the invariant: its own timer is the one that will
\* release the lock.
LEMMA GrabStep ==
  ASSUME WakeInv, NEW s \in Senders, NEW i \in Infos, SendCounted(s, i)
  PROVE  WakeInv'
<1>1. CancelLast \in [Infos -> {0, 1}] /\ \A j \in Infos : stage[j] = "unused" => CancelLast[j] = 0
  BY Zenon, CancelTyped DEF WakeInv
<1>2. WakeTypeOK'
  <2>1. s_wakelock_count' \in Nat
    BY DEF WakeInv, WakeTypeOK, SendCounted, grabPartialWakeLock
  <2>2. held' \in BOOLEAN /\ s_last_wake_timeout_info' \in Infos /\ userParam' = CancelLast /\ sender' = sender
    BY Zenon DEF SendCounted, grabPartialWakeLock
  <2>3. stage' \in [Infos -> {"unused", "armed", "queued", "expired", "done"}]
    BY Zenon DEF WakeInv, WakeTypeOK, SendCounted, grabPartialWakeLock
  <2>4. Counted' \in BOOLEAN /\ sender' \in [Senders -> {"idle", "sent"} \cup Infos]
    BY Zenon, <2>2 DEF WakeInv, WakeTypeOK, SendCounted
  <2>5. userParam' \in [Infos -> {0, 1}]
    BY Zenon, <1>1, <2>2
  <2> QED BY <2>1, <2>2, <2>3, <2>4, <2>5, Zenon DEF WakeTypeOK
<1>3. FreshInfos'
  BY Zenon, <1>1, InfoAssumption DEF WakeInv, WakeTypeOK, FreshInfos, SendCounted, grabPartialWakeLock
<1>4. HeldHasTimer'
  <2>1. WillRelease(i)'
    BY Zenon, <1>1 DEF WakeInv, WakeTypeOK, WillRelease, SendCounted, grabPartialWakeLock
  <2> QED BY Zenon, <2>1 DEF HeldHasTimer
<1>5. HeldIsCounted'
  BY DEF WakeInv, WakeTypeOK, HeldIsCounted, SendCounted, grabPartialWakeLock
<1> QED BY Zenon, <1>2, <1>3, <1>4, <1>5 DEF WakeInv

\* Arming the timer of an uncounted grab keeps the invariant.
LEMMA ScheduleStep ==
  ASSUME WakeInv, NEW s \in Senders, NEW i \in Infos, ScheduleTimeout(s, i)
  PROVE  WakeInv'
<1>1. CancelLast \in [Infos -> {0, 1}] /\ \A j \in Infos : stage[j] = "unused" => CancelLast[j] = 0
  BY CancelTyped DEF WakeInv
<1>2. WakeTypeOK'
  BY Zenon, <1>1 DEF WakeInv, WakeTypeOK, ScheduleTimeout
<1>3. FreshInfos'
  BY Zenon, <1>1, InfoAssumption DEF WakeInv, WakeTypeOK, FreshInfos, ScheduleTimeout
<1>4. HeldHasTimer'
  <2>1. WillRelease(i)'
    BY Zenon, <1>1 DEF WakeInv, WakeTypeOK, WillRelease, ScheduleTimeout
  <2> QED BY <2>1 DEF HeldHasTimer
<1>5. HeldIsCounted'
  BY Zenon DEF WakeInv, WakeTypeOK, HeldIsCounted, ScheduleTimeout
<1> QED BY <1>2, <1>3, <1>4, <1>5 DEF WakeInv

\* The other steps of a sender keep the invariant.
LEMMA OtherSenderStep ==
  ASSUME WakeInv, NEW s \in Senders,
         GrabFails(s) \/ GrabUncounted(s) \/ ScheduleFails(s) \/ RememberTimeout(s)
  PROVE  WakeInv'
<1>1. CASE GrabFails(s)
  BY Zenon, <1>1 DEF WakeInv, WakeTypeOK, FreshInfos, HeldHasTimer, HeldIsCounted, GrabFails
<1>2. CASE GrabUncounted(s)
  BY Zenon, <1>2, InfoAssumption
  DEF WakeInv, WakeTypeOK, FreshInfos, HeldHasTimer, HeldIsCounted, GrabUncounted
<1>3. CASE ScheduleFails(s)
  BY Zenon, <1>3, InfoAssumption
  DEF WakeInv, WakeTypeOK, FreshInfos, HeldHasTimer, HeldIsCounted, ScheduleFails
<1>4. CASE RememberTimeout(s)
  <2>1. WakeTypeOK' /\ FreshInfos' /\ HeldIsCounted'
    BY Zenon, <1>4, InfoAssumption DEF WakeInv, WakeTypeOK, FreshInfos, HeldIsCounted, RememberTimeout
  <2>2. \A j \in Infos : WillRelease(j) => WillRelease(j)'
    BY Zenon, <1>4 DEF WillRelease, RememberTimeout
  <2>3. \A r \in Senders : sender[r] = "sent" => sender'[r] = "sent"
    BY Zenon, <1>4, InfoAssumption DEF WakeInv, WakeTypeOK, RememberTimeout
  <2>4. held' = held
    BY Zenon, <1>4 DEF RememberTimeout
  <2> QED BY Zenon, <2>1, <2>2, <2>3, <2>4 DEF WakeInv, HeldHasTimer
<1> QED BY Zenon, <1>1, <1>2, <1>3, <1>4

\* An acknowledgement either leaves the lock and its timer alone or drops both.
LEMMA ReleaseStep ==
  ASSUME WakeInv, releaseWakeLock
  PROVE  WakeInv'
<1>1. CASE Counted /\ s_wakelock_count > 1
  BY <1>1 DEF WakeInv, WakeTypeOK, FreshInfos, HeldHasTimer, WillRelease, HeldIsCounted, releaseWakeLock
<1>2. CASE ~ (Counted /\ s_wakelock_count > 1)
  <2>1. CancelLast \in [Infos -> {0, 1}] /\ \A j \in Infos : stage[j] = "unused" => CancelLast[j] = 0
    BY Zenon, CancelTyped DEF WakeInv
  <2>2. userParam' \in {CancelLast, userParam} /\ held' = FALSE /\ s_wakelock_count' = 0
    BY Zenon, <1>2 DEF releaseWakeLock
  <2> QED BY Zenon, <2>1, <2>2 DEF WakeInv, WakeTypeOK, FreshInfos, HeldHasTimer, HeldIsCounted, releaseWakeLock
<1> QED BY Zenon, <1>1, <1>2

\* A timer on its way either still will release the lock or has released it.
LEMMA TimerStep ==
  ASSUME WakeInv, NEW i \in Infos, Timer(i)
  PROVE  WakeInv'
<1>1. CASE userTimerCallback(i)
  <2>1. WakeTypeOK' /\ FreshInfos' /\ HeldIsCounted'
    BY Zenon, <1>1 DEF WakeInv, WakeTypeOK, FreshInfos, HeldIsCounted, userTimerCallback
  <2>2. \A j \in Infos : WillRelease(j) => WillRelease(j)'
    BY Zenon, <1>1 DEF WakeInv, WakeTypeOK, WillRelease, userTimerCallback
  <2>3. held' = held /\ sender' = sender
    BY Zenon, <1>1 DEF userTimerCallback
  <2> QED BY Zenon, <2>1, <2>2, <2>3 DEF WakeInv, HeldHasTimer
<1>2. CASE wakeTimeoutCallback(i)
  <2>1. WakeTypeOK' /\ FreshInfos' /\ HeldIsCounted'
    BY Zenon, <1>2 DEF WakeInv, WakeTypeOK, FreshInfos, HeldIsCounted, wakeTimeoutCallback
  <2>2. \A j \in Infos : WillRelease(j) => WillRelease(j)'
    BY Zenon, <1>2 DEF WakeInv, WakeTypeOK, WillRelease, wakeTimeoutCallback
  <2>3. held' = held /\ sender' = sender
    BY Zenon, <1>2 DEF wakeTimeoutCallback
  <2> QED BY <2>1, <2>2, <2>3 DEF WakeInv, HeldHasTimer
<1>3. CASE TimeoutReleases(i)
  BY Zenon, <1>3 DEF WakeInv, WakeTypeOK, FreshInfos, HeldHasTimer, HeldIsCounted, TimeoutReleases
<1> QED BY Zenon, <1>1, <1>2, <1>3 DEF Timer

\* Every step keeps the invariant.
LEMMA WakeNextInv == WakeInv /\ [WakeNext]_wakeVars => WakeInv'
<1> SUFFICES ASSUME WakeInv, [WakeNext]_wakeVars PROVE WakeInv'
  OBVIOUS
<1>1. CASE UNCHANGED wakeVars
  BY Zenon, <1>1 DEF WakeInv, WakeTypeOK, FreshInfos, HeldHasTimer, WillRelease, HeldIsCounted, wakeVars
<1>2. CASE WakeNext
  <2>1. ASSUME NEW s \in Senders, Sender(s) PROVE WakeInv'
    BY Zenon, <2>1, GrabStep, ScheduleStep, OtherSenderStep DEF Sender
  <2>2. ASSUME NEW i \in Infos, Timer(i) PROVE WakeInv'
    BY Zenon, <2>2, TimerStep
  <2> QED BY Zenon, <1>2, <2>1, <2>2, ReleaseStep DEF WakeNext
<1> QED BY Zenon, <1>1, <1>2

\* The inductive invariant holds in every reachable state.
THEOREM WakeInvariance == WakeSpec => []WakeInv
  BY WakeInitInv, WakeNextInv, PTL DEF WakeSpec

\* The type invariant holds.
THEOREM WakeTypeCorrect == WakeSpec => []WakeTypeOK
<1>1. WakeInv => WakeTypeOK
  BY Zenon DEF WakeInv
<1> QED BY <1>1, WakeInvariance, PTL

\* While the wake lock is held, a timer that will release it is on its way.
THEOREM NeverAwakeForGood == WakeSpec => []HeldHasTimer
<1>1. WakeInv => HeldHasTimer
  BY Zenon DEF WakeInv
<1> QED BY <1>1, WakeInvariance, PTL

\* A held lock is counted, from version 13 on.
THEOREM CountedLock == WakeSpec => []HeldIsCounted
<1>1. WakeInv => HeldIsCounted
  BY Zenon DEF WakeInv
<1> QED BY <1>1, WakeInvariance, PTL
=============================================================================
