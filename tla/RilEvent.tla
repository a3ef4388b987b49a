------------------------------ MODULE RilEvent ------------------------------
(***************************************************************************)
(* The select() loop of hal/libril/ril_event.cpp with its wake pipe of     *)
(* hal/libril/ril.cpp.  Threads add watches and timers under listMutex and *)
(* then write to the pipe; the loop thread copies readFds and reads the    *)
(* first timer WITHOUT the mutex before it blocks in select(), so every    *)
(* one of those reads is a step of its own.  A watch event is identified   *)
(* by its descriptor; a timer by its ril_event structure.                  *)
(***************************************************************************)
EXTENDS Integers, Sequences, Functions

CONSTANTS MAX_FD_EVENTS,  \* length of watch_table
          Fds,            \* descriptors other than the pipe that may be watched
          Persist,        \* the descriptors whose events have persist = true
          WakeFd,         \* s_fdWakeupRead
          Timers,         \* timer events
          Threads,        \* threads other than the loop
          Delays,         \* relative times given to ril_timer_add
          MaxTime,        \* bound on the clock
          NoTimeout       \* ptv = NULL

ASSUME TableAssumption == MAX_FD_EVENTS \in Nat \ {0}
ASSUME FdAssumption == Fds \subseteq Nat /\ WakeFd \in Nat \ Fds
ASSUME DelayAssumption == Delays \subseteq Nat /\ MaxTime \in Nat /\ NoTimeout \notin Nat

AllFds == Fds \cup {WakeFd}
Slots == 0 .. MAX_FD_EVENTS - 1
Empty == -1                   \* watch_table[i] == NULL

ASSUME TimerAssumption == Timers \cap (AllFds \cup {Empty}) = {}

VARIABLES
  watch,        \* [table, index, readFds, nfds]: watch_table, ev->index, ...
  timer_list,   \* timers, earliest first
  timeout,      \* timeout[t]: absolute deadline of timer t
  pending_list, \* events about to be fired: descriptors and timers
  now,          \* CLOCK_MONOTONIC
  loopPC,       \* where eventLoop / ril_event_loop is
  slot,         \* i of the loop in processReadReadies
  rfds,         \* its local copy of readFds, then the result of select()
  tv,           \* its local timeout: relative, or NoTimeout
  until,        \* history: the deadline calcNextTimeout found, or NoTimeout
  readable,     \* descriptors that have data to read
  pc            \* pc[th]: "idle", or "trigger" between an add and triggerEvLoop

loopVars == <<loopPC, slot, rfds, tv, until>>
vars == <<watch, timer_list, timeout, pending_list, now, loopVars, readable, pc>>

Watched(W) == {f \in AllFds : W.index[f] # Empty}

Init ==
  /\ watch = [table |-> [i \in Slots |-> Empty], index |-> [f \in AllFds |-> Empty],
              readFds |-> {}, nfds |-> 0]
  /\ timer_list = <<>>
  /\ timeout = [t \in Timers |-> 0]
  /\ pending_list = <<>>
  /\ now = 0
  /\ loopPC = "startup"
  /\ slot = 0
  /\ rfds = {}
  /\ tv = NoTimeout
  /\ until = NoTimeout
  /\ readable = {}
  /\ pc = [th \in Threads |-> "idle"]
-----------------------------------------------------------------------------
(* Operations on the lists *)

\* Faulty variant of WatchAdd: nfds is not raised.
WatchAdd_NoNfds(W, f) ==
  IF \A i \in Slots : W.table[i] # Empty
    THEN W
    ELSE LET i == CHOOSE i \in Slots : W.table[i] = Empty /\ \A j \in 0 .. i - 1 : W.table[j] # Empty
         IN  [W EXCEPT !.table[i] = f, !.index[f] = i, !.readFds = @ \cup {f}]

\* The body of ril_event_add: the first free slot; nothing if there is none.
WatchAdd(W, f) ==
  IF \A i \in Slots : W.table[i] # Empty
    THEN W
    ELSE LET i == CHOOSE i \in Slots : W.table[i] = Empty /\ \A j \in 0 .. i - 1 : W.table[j] # Empty
         IN  [table |-> [W.table EXCEPT ![i] = f], index |-> [W.index EXCEPT ![f] = i],
              readFds |-> W.readFds \cup {f}, nfds |-> IF f >= W.nfds THEN f + 1 ELSE W.nfds]

\* Faulty variant of removeWatch: the descriptor stays in readFds.
removeWatch_NoClear(W, f) ==
  [W EXCEPT !.table[W.index[f]] = Empty, !.index[f] = Empty]

\* removeWatch(ev, ev->index): nfds shrinks when the highest descriptor goes.
removeWatch(W, f) ==
  LET table == [W.table EXCEPT ![W.index[f]] = Empty]
      left  == {table[i] : i \in Slots} \cup {0}
      top   == CHOOSE n \in left : \A m \in left : n >= m
  IN  [table |-> table, index |-> [W.index EXCEPT ![f] = Empty],
       readFds |-> W.readFds \ {f}, nfds |-> IF f + 1 = W.nfds THEN top + 1 ELSE W.nfds]

\* A walk from the front that goes on while it meets elements of S passes n.
Passes(list, S, n) ==
  /\ \A i \in 1 .. n : list[i] \in S
  /\ n < Len(list) => list[n + 1] \notin S

Leading(list, S) == CHOOSE n \in 0 .. Len(list) : Passes(list, S, n)

\* The sorted insertion of ril_timer_add: before the first timer that is not
\* earlier than t.
TimerInsert(list, deadline, t) ==
  LET n == Leading(list, {u \in Timers : deadline[u] < deadline[t]})
  IN  SubSeq(list, 1, n) \o <<t>> \o SubSeq(list, n + 1, Len(list))

Idle(t) == t \notin Range(timer_list) /\ t \notin Range(pending_list)

\* ril_timer_add by any thread, with a relative time d.
TimerAdd(t, d) ==
  /\ Idle(t)
  /\ now + d < MaxTime
  /\ timeout' = [timeout EXCEPT ![t] = now + d]
  /\ timer_list' = TimerInsert(timer_list, timeout', t)
-----------------------------------------------------------------------------
(* The other threads *)

\* listMutex: all functions release it before they return, and only the loop in
\* processReadReadies takes more than one step.
MutexFree == loopPC # "ready" \/ slot = 0

\* internalRequestTimedCallback: ril_timer_add ...
RequestTimedCallback(th, t, d) ==
  /\ loopPC # "killed"
  /\ MutexFree
  /\ pc[th] = "idle"
  /\ TimerAdd(t, d)
  /\ pc' = [pc EXCEPT ![th] = "trigger"]
  /\ UNCHANGED <<watch, pending_list, now, loopVars, readable>>

\* rilEventAddWakeup: ril_event_add ...  The pipe is the first watch.
AddWakeup(th, f) ==
  /\ loopPC \notin {"startup", "ended", "killed"}
  /\ MutexFree
  /\ pc[th] = "idle"
  /\ watch.index[f] = Empty
  /\ watch' = WatchAdd(watch, f)
  /\ pc' = [pc EXCEPT ![th] = "trigger"]
  /\ UNCHANGED <<timer_list, timeout, pending_list, now, loopVars, readable>>

\* Faulty variant of triggerEvLoop: nothing is written.
triggerEvLoop_NoWrite(th) ==
  /\ loopPC # "killed"
  /\ pc[th] = "trigger"
  /\ pc' = [pc EXCEPT ![th] = "idle"]
  /\ UNCHANGED <<watch, timer_list, timeout, pending_list, now, loopVars, readable>>

\* ... and triggerEvLoop.  Until eventLoop has made the pipe, s_fdWakeupWrite
\* is 0 and the byte goes elsewhere.
triggerEvLoop(th) ==
  /\ loopPC # "killed"
  /\ pc[th] = "trigger"
  /\ readable' = IF loopPC \in {"startup", "ended"} THEN readable ELSE readable \cup {WakeFd}
  /\ pc' = [pc EXCEPT ![th] = "idle"]
  /\ UNCHANGED <<watch, timer_list, timeout, pending_list, now, loopVars>>

\* ril_event_del of a watched descriptor.
ril_event_del(f) ==
  /\ loopPC # "killed"
  /\ MutexFree
  /\ watch.index[f] # Empty
  /\ watch' = removeWatch(watch, f)
  /\ UNCHANGED <<timer_list, timeout, pending_list, now, loopVars, readable, pc>>
-----------------------------------------------------------------------------
(* The loop thread *)

\* eventLoop after it has announced s_started: the pipe and its watch.
MakePipe ==
  /\ loopPC = "startup"
  /\ watch' = WatchAdd(watch, WakeFd)
  /\ loopPC' = "copy"
  /\ UNCHANGED <<timer_list, timeout, pending_list, now, slot, rfds, tv, until, readable, pc>>

\* pipe() fails: the loop thread ends, and the process goes on without it.
PipeFails ==
  /\ loopPC = "startup"
  /\ loopPC' = "ended"
  /\ UNCHANGED <<watch, timer_list, timeout, pending_list, now, slot, rfds, tv, until, readable, pc>>

\* The local copy of readFds, made without the mutex.
CopyReadFds ==
  /\ loopPC = "copy"
  /\ rfds' = watch.readFds
  /\ loopPC' = "calc"
  /\ UNCHANGED <<watch, timer_list, timeout, pending_list, now, slot, tv, until, readable, pc>>

\* The time to the first deadline, zero if it is past; no timeout without timers.
calcNextTimeout ==
  /\ loopPC = "calc"
  /\ until' = IF timer_list = <<>> THEN NoTimeout ELSE timeout[Head(timer_list)]
  /\ tv' = IF until' = NoTimeout THEN NoTimeout
           ELSE IF until' > now THEN until' - now ELSE 0
  /\ loopPC' = "select"
  /\ UNCHANGED <<watch, timer_list, timeout, pending_list, now, slot, rfds, readable, pc>>

\* The call of select(): it looks at the descriptors below nfds.
EnterSelect ==
  /\ loopPC = "select"
  /\ rfds' = {f \in rfds : f < watch.nfds}
  /\ loopPC' = "blocked"
  /\ UNCHANGED <<watch, timer_list, timeout, pending_list, now, slot, tv, until, readable, pc>>

\* Some descriptor is readable, or the time is over (n = 0).
SelectReturns ==
  /\ loopPC = "blocked"
  /\ rfds \cap readable # {} \/ tv = 0
  /\ rfds' = rfds \cap readable
  /\ loopPC' = "timeouts"
  /\ UNCHANGED <<watch, timer_list, timeout, pending_list, now, slot, tv, until, readable, pc>>

\* n < 0 with EINTR: start over.
SelectInterrupted ==
  /\ loopPC = "blocked"
  /\ loopPC' = "copy"
  /\ UNCHANGED <<watch, timer_list, timeout, pending_list, now, slot, rfds, tv, until, readable, pc>>

\* Any other error: ril_event_loop returns and eventLoop kills the process.
SelectError ==
  /\ loopPC = "blocked"
  /\ loopPC' = "killed"
  /\ UNCHANGED <<watch, timer_list, timeout, pending_list, now, slot, rfds, tv, until, readable, pc>>

\* The timers at the front of the list whose deadline is strictly in the past.
processTimeouts ==
  /\ loopPC = "timeouts"
  /\ LET n == Leading(timer_list, {t \in Timers : now > timeout[t]})
     IN  /\ pending_list' = pending_list \o SubSeq(timer_list, 1, n)
         /\ timer_list' = SubSeq(timer_list, n + 1, Len(timer_list))
  /\ loopPC' = "ready"
  /\ UNCHANGED <<watch, timeout, now, slot, rfds, tv, until, readable, pc>>

\* One turn of the loop over the table: an event whose descriptor select()
\* reported is pending, and leaves the table unless it is persistent.  The mutex is
\* held from the first turn to the last.
processReadReadies ==
  /\ loopPC = "ready"
  /\ LET f == watch.table[slot] IN
     IF f \in rfds
       THEN /\ pending_list' = Append(pending_list, f)
            /\ watch' = IF f \in Persist \cup {WakeFd} THEN watch ELSE removeWatch(watch, f)
       ELSE UNCHANGED <<pending_list, watch>>
  /\ slot' = (slot + 1) % MAX_FD_EVENTS
  /\ loopPC' = IF slot + 1 = MAX_FD_EVENTS THEN "fire" ELSE "ready"
  /\ UNCHANGED <<timer_list, timeout, now, rfds, tv, until, readable, pc>>

\* firePending runs the first callback.  A read callback reads its
\* descriptor (processWakeupCallback empties the pipe); a timer callback may
\* itself request a timer, and triggerEvLoop does nothing in this thread.
firePending ==
  /\ loopPC = "fire"
  /\ pending_list # <<>>
  /\ pending_list' = Tail(pending_list)
  /\ LET ev == Head(pending_list) IN
     IF ev \in AllFds
       THEN /\ readable' = readable \ {ev}
            /\ UNCHANGED <<timer_list, timeout>>
       ELSE /\ readable' = readable
            /\ \/ UNCHANGED <<timer_list, timeout>>
               \/ \E t \in Timers \ {ev}, d \in Delays : TimerAdd(t, d)
  /\ UNCHANGED <<watch, now, loopVars, pc>>

FireDone ==
  /\ loopPC = "fire"
  /\ pending_list = <<>>
  /\ loopPC' = "copy"
  /\ UNCHANGED <<watch, timer_list, timeout, pending_list, now, slot, rfds, tv, until, readable, pc>>
-----------------------------------------------------------------------------
(* The environment *)

\* Time passes; a select() that is blocked with a timeout counts down.  The
\* clock stops at the bound MaxTime, the countdown does not.
Tick ==
  /\ loopPC # "killed"
  /\ now' = IF now < MaxTime THEN now + 1 ELSE now
  /\ tv' = IF loopPC = "blocked" /\ tv # NoTimeout /\ tv # 0 THEN tv - 1 ELSE tv
  /\ <<now, tv>>' # <<now, tv>>
  /\ UNCHANGED <<watch, timer_list, timeout, pending_list, loopPC, slot, rfds, until, readable, pc>>

DataArrives(f) ==
  /\ loopPC # "killed"
  /\ readable' = readable \cup {f}
  /\ f \notin readable
  /\ UNCHANGED <<watch, timer_list, timeout, pending_list, now, loopVars, pc>>

Killed == loopPC \in {"ended", "killed"} /\ UNCHANGED vars

Loop ==
  \/ MakePipe \/ CopyReadFds \/ calcNextTimeout \/ EnterSelect \/ SelectReturns
  \/ processTimeouts \/ processReadReadies \/ firePending \/ FireDone

Next ==
  \/ Loop
  \/ PipeFails
  \/ SelectInterrupted
  \/ SelectError
  \/ \E th \in Threads : \/ \E t \in Timers, d \in Delays : RequestTimedCallback(th, t, d)
                         \/ \E f \in Fds : AddWakeup(th, f)
                         \/ triggerEvLoop(th)
  \/ \E f \in Fds : ril_event_del(f) \/ DataArrives(f)
  \/ Tick
  \/ Killed

Spec == Init /\ [][Next]_vars

(***************************************************************************)
(* Fairness: the loop thread runs whenever it can, a thread that has added *)
(* an event goes on to triggerEvLoop, and the clock advances.  A select()  *)
(* that could return again and again is not interrupted by signals every   *)
(* time.  New events may come at any time but need not.                    *)
(***************************************************************************)
Fairness ==
  /\ WF_vars(Loop)
  /\ SF_vars(SelectReturns)
  /\ WF_vars(Tick)
  /\ \A th \in Threads : WF_vars(triggerEvLoop(th))

FairSpec == Spec /\ Fairness
-----------------------------------------------------------------------------
WatchState == [table : [Slots -> AllFds \cup {Empty}], index : [AllFds -> Slots \cup {Empty}],
               readFds : SUBSET AllFds, nfds : Nat]

\* Types of the variables.
TypeOK ==
  /\ watch \in WatchState
  /\ timer_list \in Seq(Timers)
  /\ timeout \in [Timers -> 0 .. MaxTime]
  /\ pending_list \in Seq(Timers \cup AllFds)
  /\ now \in 0 .. MaxTime
  /\ loopPC \in {"startup", "copy", "calc", "select", "blocked", "timeouts", "ready",
                "fire", "ended", "killed"}
  /\ slot \in Slots
  /\ rfds \subseteq AllFds
  /\ tv \in 0 .. MaxTime \cup {NoTimeout}
  /\ until \in 0 .. MaxTime \cup {NoTimeout}
  /\ readable \subseteq AllFds
  /\ pc \in [Threads -> {"idle", "trigger"}]

\* ev->index, watch_table, readFds and nfds agree after any sequence of
\* ril_event_add, ril_event_del and one-shot events: select() looks at exactly
\* the watched descriptors.
WatchConsistent ==
  /\ \A f \in AllFds, i \in Slots : watch.index[f] = i <=> watch.table[i] = f
  /\ watch.readFds = Watched(watch)
  /\ \A f \in watch.readFds : f < watch.nfds

\* timer_list is sorted: calcNextTimeout and processTimeouts look only at its
\* front.
TimersSorted ==
  \A i, j \in 1 .. Len(timer_list) : i < j => timeout[timer_list[i]] <= timeout[timer_list[j]]

\* An event structure is linked into at most one list, once: addToList never
\* overwrites the links of an event that is still on a list.
LinkedOnce ==
  LET all == timer_list \o pending_list IN
  \A i, j \in 1 .. Len(all) : all[i] = all[j] => i = j

\* The byte that will end the select() the loop is in, or about to enter.
WakeupOnItsWay ==
  /\ WakeFd \in rfds
  /\ WakeFd \in readable \/ \E th \in Threads : pc[th] = "trigger"

\* The loop never blocks past an event that was added behind its back: if its
\* unlocked copies of readFds and of the first deadline miss a watch or an
\* earlier timer, the wake pipe ends this select().
NoMissedAdd ==
  /\ loopPC \in {"calc", "select", "blocked"} =>
       Watched(watch) \subseteq rfds \/ WakeupOnItsWay
  /\ loopPC \in {"select", "blocked"} /\ timer_list # <<>> =>
       \/ until # NoTimeout /\ until <= timeout[Head(timer_list)]
       \/ WakeupOnItsWay

\* The tables and lists agree after any interleaving of ril_event_add, ril_timer_add,
\* ril_event_del and the loop, and what the loop has copied of them without the
\* mutex never hides an event from it.
EventsConsistent == TypeOK /\ WatchConsistent /\ TimersSorted /\ LinkedOnce /\ NoMissedAdd

\* Every timer that was added fires, also when it was added while the loop was
\* on its way into select() with another deadline or with none, as long as there is
\* a loop: it ends without a pipe, and an error of select() kills the process.
TimerFires ==
  \A t \in Timers :
    (t \in Range(timer_list)) ~> (t \notin Range(timer_list) \/ loopPC \in {"ended", "killed"})

\* A watched descriptor that has data is served, although ril_event_loop copies
\* readFds without the mutex.
WatchServed ==
  \A f \in Fds :
    (f \in readable /\ f \in Watched(watch))
      ~> (f \notin readable \/ f \notin Watched(watch) \/ loopPC \in {"ended", "killed"})
=============================================================================
