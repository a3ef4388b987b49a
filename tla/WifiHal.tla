------------------------------- MODULE WifiHal -------------------------------
(***************************************************************************)
(* The Wi-Fi HAL of hal/wifi_hal: one thread of the framework that calls   *)
(* it, and the thread that runs wifi_event_loop.  They share hal_info: the *)
(* table of outstanding commands (cmd), the table of event handlers        *)
(* (event_cb, under cb_lock) and the socket pair of wifi_cleanup.          *)
(*                                                                         *)
(* Command objects are counted references.  An object is numbered when it  *)
(* is created and never reused, so a reference count of zero is a deleted  *)
(* object.  The number is also the request id the framework chose.  Each   *)
(* step of start() and cancel() is a step of the caller, so that the event *)
(* loop delivers between them.                                             *)
(*                                                                         *)
(* The framework runs one command at a time for each event: it does not    *)
(* start a command while another one waits for one of its events.          *)
(***************************************************************************)
EXTENDS WifiCommands

CONSTANTS AllocCmd,     \* size of the command table (DEFAULT_CMD_SIZE)
          AllocCb,      \* size of the handler table (DEFAULT_EVENT_CB_SIZE)
          Counts,       \* lengths of the lists the framework passes
          RTT_MAX_RESULTS,  \* size of the array of a ranging (1024)
          MaxObjects,   \* bound: command objects created
          Companions,   \* bound: kinds started after a command of another kind
          MaxOverrun,   \* bound: results of a ranging beyond its array
          MaxEvents     \* bound: events queued by the driver

ASSUME AllocAssumption ==
  AllocCmd \in Nat \ {0} /\ AllocCb \in Nat \ {0} /\ RTT_MAX_RESULTS \in Nat \ {0}

VARIABLES info,       \* "none", "up", "cleaning" or "freed", or the process is "dead"
          held,       \* resources acquired and not released, or released wrongly
          object,     \* the objects created: their kind, request id and references,
                      \* the list kept for cancel() and the results of a ranging
          cmd,        \* hal_info.cmd, the numbers of the saved objects
          event_cb,   \* hal_info.event_cb
          wanted,     \* the objects whose request the framework believes running
          caller,     \* what the calling thread does
          loop,       \* what the event thread does
          events,     \* events in the event socket
          socks       \* what is in the two directions of cleanup_socks

tables == <<object, cmd, event_cb>>
vars == <<info, held, tables, wanted, caller, loop, events, socks>>

Objects == 1 .. Len(object)
Live(o) == object[o].refs > 0
EventsOf(o) == Commands[object[o].kind].events

Idle == [op |-> "idle"]
Polling == [at |-> "poll"]
-----------------------------------------------------------------------------
(* References and the two tables. *)

Referenced(objs, o) == [objs EXCEPT ![o].refs = @ + 1]
Released(objs, o) == [objs EXCEPT ![o].refs = @ - 1]

\* The table without its first entry that passes a test.
WithoutFirst(table, Test(_)) ==
  LET i == SelectInSeq(table, Test)
  IN  IF i = 0 THEN table ELSE RemoveAt(table, i)

wifi_register_vendor_handler(table, e, o) ==
  IF Len(table) < AllocCb THEN Append(table, [event |-> e, cmd |-> o]) ELSE table

\* Faulty variant of wifi_unregister_vendor_handler: the subcommand is not compared.
wifi_unregister_vendor_handler_Any(table, e) == WithoutFirst(table, LAMBDA cb : TRUE)

\* The first handler of the event goes, whichever command it belongs to.
wifi_unregister_vendor_handler(table, e) == WithoutFirst(table, LAMBDA cb : cb.event = e)

\* wifi_unregister_cmd finds a saved command by its id.
wifi_unregister_cmd(table, id) == WithoutFirst(table, LAMBDA o : object[o].id = id)
Saved(id) ==
  LET i == SelectInSeq(cmd, LAMBDA o : object[o].id = id)
  IN  IF i = 0 THEN 0 ELSE cmd[i]

-----------------------------------------------------------------------------
(* wifi_initialize: the resources it acquires, in order, and what each failure
   releases. *)

Acquired == <<"info", "cleanup_socks", "cmd_sock", "event_sock", "nl_cb", "event_cb", "cmd",
              "family", "interfaces", "membership">>

\* Faulty variant of ReleasedOnFailure: the exit for a missing command table
\* frees the callback table of every exit after it as well.
ReleasedOnFailure_Twice(step) ==
  CASE step \in {"info", "cleanup_socks"} -> {"info"} \ {step}
    [] step = "cmd_sock" -> {"info"}
    [] step = "event_sock" -> {"info", "cmd_sock", "event_cb"}
    [] OTHER -> {"info", "cmd_sock", "event_sock", "event_cb", "cmd"} \ {step}

ReleasedOnFailure(step) ==
  CASE step \in {"info", "cleanup_socks"} -> {"info"} \ {step}
    [] step = "cmd_sock" -> {"info"}
    [] step = "event_sock" -> {"info", "cmd_sock"}
    [] step \in {"nl_cb", "event_cb"} -> {"info", "cmd_sock", "event_sock"}
    [] step = "cmd" -> {"info", "cmd_sock", "event_sock", "event_cb"}
    [] OTHER -> {"info", "cmd_sock", "event_sock", "event_cb", "cmd"}

\* What has been acquired when step i fails, or when all have succeeded.
AcquiredBefore(i) == {Acquired[j] : j \in 1 .. i - 1} \ {"nl_cb", "family", "membership"}

HeldAfter(step, i) ==
  [left |-> AcquiredBefore(i) \ ReleasedOnFailure(step),
   wrong |-> ReleasedOnFailure(step) \ AcquiredBefore(i)]

NothingHeld == [left |-> {}, wrong |-> {}]

wifi_initialize ==
  /\ info = "none"
  /\ \/ info' = "up" /\ held' = [left |-> AcquiredBefore(Len(Acquired) + 1), wrong |-> {}]
     \/ \E i \in 2 .. Len(Acquired) : held' = HeldAfter(Acquired[i], i) /\ UNCHANGED info
  /\ UNCHANGED <<tables, wanted, caller, loop, events, socks>>

Init ==
  /\ info = "none" /\ held = NothingHeld
  /\ object = << >> /\ cmd = << >> /\ event_cb = << >>
  /\ wanted = {}
  /\ caller = Idle
  /\ loop = [at |-> "none"]
  /\ events = << >>
  /\ socks = {}
-----------------------------------------------------------------------------
(* Starting and stopping a command. *)

\* The calling thread works through steps on behalf of an object.
Working(op, o, n, steps) ==
  [op |-> op, cmd |-> o, n |-> n, steps |-> steps, message |-> Refused]

NewObject(kind, id, n) == [kind |-> kind, id |-> id, refs |-> 1, kept |-> n, idx |-> 0]

Lists(kind) == IF \E s \in Range(Commands[kind].start) : s.op = "build" /\ s.request.item # << >>
               THEN Counts ELSE {0}

\* wifi_start_gscan, wifi_rtt_range_request and the others.  Only
\* AnqpoConfigureCommand keeps the list for cancel().  When wifi_register_cmd
\* finds the table full the new object is deleted at once, and nothing changes.
Start(kind) ==
  /\ info = "up" /\ caller = Idle
  /\ Len(object) < MaxObjects
  /\ \A o \in Objects : object[o].kind = kind \/ kind \in Companions
  /\ \A o \in wanted : EventsOf(o) \cap Commands[kind].events = {}
  /\ Len(cmd) < AllocCmd
  /\ \E n \in Lists(kind) :
       LET o == Len(object) + 1
       IN  /\ object' = Append(object, NewObject(kind, o, IF kind = "Anqpo" THEN n ELSE 0))
           /\ cmd' = Append(cmd, o)
           /\ wanted' = wanted \cup {o}
           /\ caller' = Working("start", o, n, Commands[kind].start)
  /\ UNCHANGED <<info, held, event_cb, loop, events, socks>>

\* wifi_cancel_cmd.
Stop(o) ==
  /\ info = "up" /\ caller = Idle
  /\ o \in wanted /\ object[o].kind # "Rtt"
  /\ LET saved == Saved(object[o].id)
     IN  IF saved = 0 THEN UNCHANGED <<cmd, caller>>
         ELSE /\ cmd' = wifi_unregister_cmd(cmd, object[o].id)
              /\ caller' = Working("stop", saved, object[saved].kept,
                                   Commands[object[saved].kind].cancel)
  /\ wanted' = wanted \ {o}
  /\ UNCHANGED <<info, held, object, event_cb, loop, events, socks>>

\* A stop with id -1, and wifi_rtt_range_cancel with any id and a list of devices:
\* an object of the calling thread alone (0) is cancelled, and the saved one is left
\* where it is.
StopAll(kind) ==
  /\ info = "up" /\ caller = Idle
  /\ kind \in StoppableWithoutId \cup {"Rtt"}
  /\ \A o \in wanted : object[o].kind = kind \/ EventsOf(o) \cap Commands[kind].events = {}
  /\ \E n \in IF kind = "Rtt" THEN Counts ELSE {0} :
       caller' = Working("stop all", 0, n, Commands[kind].cancel)
  /\ wanted' = {o \in wanted : object[o].kind # kind}
  /\ UNCHANGED <<info, held, tables, loop, events, socks>>
-----------------------------------------------------------------------------
(* The steps of start() and cancel(). *)

Busy(op) == caller.op \in {"start", "fail", "stop", "stop all", "cleanup"}
            /\ caller.steps # << >> /\ Head(caller.steps).op = op
Step == Head(caller.steps)
Advanced == [caller EXCEPT !.steps = Tail(@), !.message = Refused]
Failing(undo) ==
  [caller EXCEPT !.op = "fail", !.message = Refused,
                 !.steps = [i \in DOMAIN undo |-> Unregister(undo[i])]]

BuildStep ==
  /\ Busy("build")
  /\ LET message == Built(Step.request, caller.n)
     IN  caller' = IF message = Refused THEN Failing(<< >>)
                   ELSE [Advanced EXCEPT !.message = message]
  /\ UNCHANGED <<info, held, tables, wanted, loop, events, socks>>

\* requestResponse: the driver accepts or refuses, or the message cannot be sent.
\* Without memory for the netlink callbacks nothing is sent and 0 is returned.
requestResponse ==
  /\ Busy("send")
  /\ caller' \in {Advanced, Failing(Step.undo)}
  /\ UNCHANGED <<info, held, tables, wanted, loop, events, socks>>

TryStep ==
  /\ Busy("try")
  /\ caller' = [Advanced EXCEPT !.message = Built(Step.request, caller.n)]
  /\ UNCHANGED <<info, held, tables, wanted, loop, events, socks>>

\* A message is kept until it is sent.
RegisterStep ==
  /\ Busy("register")
  /\ event_cb' = wifi_register_vendor_handler(event_cb, Step.event, caller.cmd)
  /\ caller' = [caller EXCEPT !.steps = Tail(@)]
  /\ UNCHANGED <<info, held, object, cmd, wanted, loop, events, socks>>

UnregisterStep ==
  /\ Busy("unregister")
  /\ event_cb' = wifi_unregister_vendor_handler(event_cb, Step.event)
  /\ caller' = Advanced
  /\ UNCHANGED <<info, held, object, cmd, wanted, loop, events, socks>>

Finished(op) == caller.op = op /\ caller.steps = << >>

StartReturns ==
  /\ Finished("start")
  /\ caller' = Idle
  /\ UNCHANGED <<info, held, tables, wanted, loop, events, socks>>

\* The API removes the command it saved, by id, and drops its reference.
StartFails ==
  /\ Finished("fail")
  /\ cmd' = wifi_unregister_cmd(cmd, object[caller.cmd].id)
  /\ object' = Released(object, caller.cmd)
  /\ wanted' = wanted \ {caller.cmd}
  /\ caller' = Idle
  /\ UNCHANGED <<info, held, event_cb, loop, events, socks>>

StopAllReturns ==
  /\ Finished("stop all")
  /\ caller' = Idle
  /\ UNCHANGED <<info, held, tables, wanted, loop, events, socks>>

StopReturns ==
  /\ Finished("stop")
  /\ object' = Released(object, caller.cmd)
  /\ caller' = Idle
  /\ UNCHANGED <<info, held, cmd, event_cb, wanted, loop, events, socks>>
-----------------------------------------------------------------------------
(* Queries: the answer is copied while the caller waits in requestResponse. *)

Answers == 0 .. 3
Rooms == {1, 2}

\* Queries touch no table, so they are explored before any command exists.
Quiet == info = "up" /\ caller = Idle /\ object = << >>

AskQuery ==
  /\ Quiet
  /\ \E q \in Queries, max \in Rooms, n \in Answers \cup Counts :
       LET message == Built(q.request, IF q.request.limit = NoLimit THEN 0 ELSE n)
       IN  caller' = [op |-> "query", max |-> max, message |-> message,
                      stored |-> IF message = Refused THEN 0 ELSE Stored(q, max, n)]
  /\ UNCHANGED <<info, held, tables, wanted, loop, events, socks>>

\* GetScanResultsCommand::execute asks until the room is used, an answer brings
\* nothing, or the driver says that it has no more.
AskScans ==
  /\ Quiet
  /\ Built(ScanResultsRequest, 0) # Refused
  /\ \E max \in Rooms : caller' = [op |-> "scans", max |-> max, stored |-> 0, round |-> 0]
  /\ UNCHANGED <<info, held, tables, wanted, loop, events, socks>>

ScansReceived ==
  /\ caller.op = "scans"
  /\ caller.round < Rounds /\ caller.stored < caller.max
  /\ \E n \in Answers, completed \in BOOLEAN :
       LET stored == Retrieve(caller.stored, caller.max, n)
       IN  caller' = [caller EXCEPT !.stored = stored,
                        !.round = IF stored = caller.stored \/ completed THEN Rounds ELSE @ + 1]
  /\ UNCHANGED <<info, held, tables, wanted, loop, events, socks>>

\* Also when the driver refuses a round: what was retrieved is returned.
QueryReturns ==
  /\ caller.op \in {"query", "scans"}
  /\ caller' = Idle
  /\ UNCHANGED <<info, held, tables, wanted, loop, events, socks>>
-----------------------------------------------------------------------------
(* The driver and the event loop. *)

DriverEvent(e) ==
  /\ info \in {"up", "cleaning"}
  /\ Len(events) < MaxEvents
  /\ e \in UNION {EventsOf(o) : o \in Objects}
  /\ events' = Append(events, e)
  /\ UNCHANGED <<info, held, tables, wanted, caller, loop, socks>>

\* The framework's thread for the loop may be late.
LoopStart ==
  /\ info \in {"up", "cleaning"} /\ loop.at = "none"
  /\ loop' = Polling
  /\ UNCHANGED <<info, held, tables, wanted, caller, events, socks>>

\* Faulty variant of internal_valid_message_handler: the command is used without
\* a reference of its own, which is dropped all the same.
internal_valid_message_handler_NoRef ==
  /\ loop.at = "poll" /\ events # << >>
  /\ LET i == SelectInSeq(event_cb, LAMBDA cb : cb.event = Head(events))
     IN  loop' = IF i = 0 THEN Polling
                 ELSE [at |-> "handle", cmd |-> event_cb[i].cmd, event |-> Head(events)]
  /\ events' = Tail(events)
  /\ UNCHANGED <<info, held, tables, wanted, caller, socks>>

\* Under cb_lock the first handler of the event is found and its command kept
\* alive; the callback runs without the lock.
internal_valid_message_handler ==
  /\ loop.at = "poll" /\ events # << >>
  /\ LET i == SelectInSeq(event_cb, LAMBDA cb : cb.event = Head(events))
     IN  IF i = 0 THEN loop' = Polling /\ UNCHANGED object
         ELSE /\ object' = Referenced(object, event_cb[i].cmd)
              /\ loop' = [at |-> "handle", cmd |-> event_cb[i].cmd, event |-> Head(events)]
  /\ events' = Tail(events)
  /\ UNCHANGED <<info, held, cmd, event_cb, wanted, caller, socks>>

Handling(kinds) == loop.at = "handle" /\ object[loop.cmd].kind \in kinds

\* The callback of the command.  The driver's data is looked at only here.
CommandCallback ==
  /\ Handling(Kinds \ {"Rtt"})
  /\ \E n \in {NoData, 0} \cup Counts, wellFormed \in BOOLEAN :
       loop' = [at |-> "release", cmd |-> loop.cmd,
                num |-> handleEvent(object[loop.cmd].kind, loop.event, n, wellFormed).num]
  /\ UNCHANGED <<info, held, tables, wanted, caller, events, socks>>

\* The process dies, both its threads and all it has allocated.
Dies ==
  /\ info' = "dead" /\ caller' = [op |-> "dead"] /\ loop' = [at |-> "dead"]
  /\ held' = NothingHeld
  /\ object' = << >> /\ cmd' = << >> /\ event_cb' = << >>
  /\ wanted' = {} /\ events' = << >> /\ socks' = {}

\* RttCommand::handleEvent: results are stored at currentIdx, which is compared with
\* nothing, until the ranging is complete.
CollectResults ==
  /\ Handling({"Rtt"})
  /\ \E n \in 0 .. 2, complete \in BOOLEAN :
       \E r \in RttCollected(object[loop.cmd].idx, n, complete) :
         /\ r.idx <= RTT_MAX_RESULTS + MaxOverrun
         /\ object' = [object EXCEPT ![loop.cmd].idx = r.idx]
         /\ loop' = IF r.complete THEN [at |-> "completed", cmd |-> loop.cmd]
                    ELSE [at |-> "release", cmd |-> loop.cmd, num |-> 0]
  /\ UNCHANGED <<info, held, cmd, event_cb, wanted, caller, events, socks>>

\* A ranging event without data is iterated all the same.
NoRangingData == Handling({"Rtt"}) /\ Dies

\* One result too many lands on rttParams, which has been used; the next ones land on
\* rttHandler and behind the object.
Overrun(o) == object[o].idx > RTT_MAX_RESULTS + 1

\* What was overwritten may be used at any time.
OverrunKills ==
  /\ info \in {"up", "cleaning"}
  /\ \E o \in Objects : Overrun(o)
  /\ Dies

RangingComplete ==
  /\ loop.at = "completed"
  /\ event_cb' = wifi_unregister_vendor_handler(event_cb, "RTT_EVENT_COMPLETE")
  /\ loop' = [at |-> "ranged", cmd |-> loop.cmd]
  /\ UNCHANGED <<info, held, object, cmd, wanted, caller, events, socks>>

\* RttCommand::handleEvent, its end: the results are reported and freed, and the
\* command leaves the table.
RangingDone ==
  /\ loop.at = "ranged" /\ ~Overrun(loop.cmd)
  /\ LET saved == Saved(object[loop.cmd].id)
         emptied == [object EXCEPT ![loop.cmd].idx = 0]
     IN  IF saved = 0 THEN object' = emptied /\ UNCHANGED cmd
         ELSE /\ cmd' = wifi_unregister_cmd(cmd, object[loop.cmd].id)
              /\ object' = Released(emptied, saved)
  /\ wanted' = wanted \ {loop.cmd}
  /\ loop' = [at |-> "release", cmd |-> loop.cmd, num |-> object[loop.cmd].idx]
  /\ UNCHANGED <<info, held, event_cb, caller, events, socks>>

\* on_rtt_results of rttHandler is a pointer to a result.
ReportCrashes == loop.at = "ranged" /\ Overrun(loop.cmd) /\ Dies

HandlerReturns ==
  /\ loop.at = "release"
  /\ object' = Released(object, loop.cmd)
  /\ loop' = Polling
  /\ UNCHANGED <<info, held, cmd, event_cb, wanted, caller, events, socks>>

\* POLLERR: what is there is read and thrown away.
PollError ==
  /\ loop.at = "poll" /\ events # << >>
  /\ events' = Tail(events)
  /\ UNCHANGED <<info, held, tables, wanted, caller, loop, socks>>

\* POLLHUP: the loop ends without an answer to wifi_cleanup.
PollHangUp ==
  /\ loop.at = "poll"
  /\ loop' = [at |-> "hungup"]
  /\ UNCHANGED <<info, held, tables, wanted, caller, events, socks>>

\* Faulty variant of PollExit: the loop ends without the answer.
PollExit_NoAnswer ==
  /\ loop.at = "poll" /\ events = << >> /\ "Exit" \in socks
  /\ socks' = socks \ {"Exit"}
  /\ loop' = [at |-> "exited"]
  /\ UNCHANGED <<info, held, tables, wanted, caller, events>>

\* Events come before the request to exit.
PollExit ==
  /\ loop.at = "poll" /\ events = << >> /\ "Exit" \in socks
  /\ socks' = (socks \ {"Exit"}) \cup {"Done"}
  /\ loop' = [at |-> "exited"]
  /\ UNCHANGED <<info, held, tables, wanted, caller, events>>
-----------------------------------------------------------------------------
(* wifi_cleanup. *)

\* Cancelling the saved command at index i of the table.
Cleaning(i) ==
  IF i > Len(cmd) THEN [op |-> "cleaned"]
  ELSE [op |-> "cleanup", at |-> i, cmd |-> cmd[i], n |-> object[cmd[i]].kept,
        steps |-> Commands[object[cmd[i]].kind].cancel, message |-> Refused]

wifi_cleanup ==
  /\ info = "up" /\ caller = Idle
  /\ info' = "cleaning"
  /\ socks' = socks \cup {"Exit"}
  /\ caller' = [op |-> "await"]
  /\ UNCHANGED <<held, tables, wanted, loop, events>>

CleanupAnswered ==
  /\ caller.op = "await" /\ "Done" \in socks
  /\ socks' = socks \ {"Done"}
  /\ caller' = Cleaning(1)
  /\ UNCHANGED <<info, held, tables, wanted, loop, events>>

\* Faulty variant of CommandCancelled: an index is skipped, as if the table had
\* not kept the command.
CommandCancelled_Skips ==
  /\ Finished("cleanup")
  /\ object' = Released(object, caller.cmd)
  /\ caller' = Cleaning(caller.at + 2)
  /\ UNCHANGED <<info, held, cmd, event_cb, wanted, loop, events, socks>>

\* cancel() leaves the table as it was, so the command counts as a bad one and
\* the next index follows.
CommandCancelled ==
  /\ Finished("cleanup")
  /\ object' = Released(object, caller.cmd)
  /\ caller' = Cleaning(caller.at + 1)
  /\ UNCHANGED <<info, held, cmd, event_cb, wanted, loop, events, socks>>

\* internal_cleaned_up_handler closes the sockets and frees hal_info, but not the
\* tables and the interfaces that hal_info points to.
internal_cleaned_up_handler ==
  /\ caller.op = "cleaned" /\ info = "cleaning"
  /\ info' = "freed"
  /\ held' = [held EXCEPT !.left = @ \ {"info", "cleanup_socks", "cmd_sock", "event_sock"}]
  /\ cmd' = << >>
  /\ UNCHANGED <<object, event_cb, wanted, caller, loop, events, socks>>
-----------------------------------------------------------------------------
CallerStep ==
  \/ BuildStep \/ requestResponse \/ TryStep \/ RegisterStep \/ UnregisterStep
  \/ StartReturns \/ StartFails \/ StopReturns \/ StopAllReturns \/ QueryReturns \/ ScansReceived
  \/ CleanupAnswered \/ CommandCancelled \/ internal_cleaned_up_handler

LoopStep ==
  \/ LoopStart \/ internal_valid_message_handler \/ CommandCallback
  \/ CollectResults \/ NoRangingData \/ RangingComplete \/ RangingDone \/ ReportCrashes
  \/ HandlerReturns \/ PollExit

Next ==
  \/ wifi_initialize \/ wifi_cleanup \/ AskQuery \/ AskScans
  \/ \E kind \in Kinds : Start(kind) \/ StopAll(kind)
  \/ \E o \in wanted : Stop(o)
  \/ CallerStep \/ LoopStep \/ PollError \/ PollHangUp \/ OverrunKills
  \/ \E kind \in Kinds : \E e \in Commands[kind].events : DriverEvent(e)

\* Both threads are scheduled.
Fairness == WF_vars(CallerStep) /\ WF_vars(LoopStep)

Spec == Init /\ [][Next]_vars /\ Fairness
-----------------------------------------------------------------------------
(* Properties. *)

\* The saved commands that will be looked at: wifi_cleanup does not go back.
StillSaved ==
  CASE caller.op = "cleanup" -> {cmd[i] : i \in caller.at .. Len(cmd)}
    [] caller.op = "cleaned" -> {}
    [] OTHER -> Range(cmd)

\* Neither table, nor the event loop, nor the calling thread holds a command that
\* was deleted, and no reference is given back twice: the addRef in
\* internal_valid_message_handler, and the releases of wifi_cancel_cmd, of a
\* failing start and of a finished ranging balance in every interleaving.  Only a
\* start() that has nothing left to do may find its ranging already completed.
NoFreedCommand ==
  /\ \A o \in Objects : object[o].refs >= 0
  /\ \A o \in StillSaved \cup {cb.cmd : cb \in Range(event_cb)} : Live(o)
  /\ loop.at \in {"handle", "ranged", "release"} => Live(loop.cmd)
  /\ caller.op \in {"start", "fail", "stop", "cleanup"} =>
       Live(caller.cmd) \/ Finished("start")

\* While the framework believes a command running, every event the command needs
\* has its handler in event_cb: neither the failure path of another start(), nor
\* another cancel(), nor a delivery removed it.  Ranging is left out: a completion
\* in flight when it is cancelled removes the handler of the next ranging.
ListensWhileWanted ==
  info = "up" /\ caller = Idle =>
    \A o \in wanted : object[o].kind # "Rtt" =>
      \A e \in EventsOf(o) : [event |-> e, cmd |-> o] \in Range(event_cb)

\* A message given to the driver holds every element of the caller's list, and the
\* count it states is their number.  The one exception is the cancellation of the
\* ranging with more than 255 devices: createTeardownRequest states their number
\* modulo 256 as long as the addresses fit the message.
WholeRequestsOnly ==
  caller.op \in {"start", "fail", "stop", "stop all", "cleanup", "query"} =>
    LET message == caller.message IN
    message.items # message.count
      <=> message.subcmd = RttTeardown.subcmd /\ message.items > 255

\* However many results the driver sends, a query, the cached scans and the arrays of
\* a command's handleEvent take no more than they have room for.  The exception is
\* RttCommand, which stores at currentIdx whatever its value.
WithinRoom ==
  /\ caller.op \in {"query", "scans"} => caller.stored <= caller.max
  /\ loop.at = "release" /\ object[loop.cmd].kind # "Rtt" =>
       loop.num <= ResultRoom(object[loop.cmd].kind)

\* wifi_initialize, when it fails, closes and frees only what it had acquired,
\* and leaves nothing but the socket pair and the interface handles.
InitExitsClean ==
  info = "none" => held.wrong = {} /\ held.left \subseteq {"cleanup_socks", "interfaces"}

\* hal_info is freed only when the event thread does not use it any more, when
\* every command was deleted and when no handler is left; of what wifi_initialize
\* acquired only the two tables and the interface handles are then still allocated.
CleanupIsLast ==
  info = "freed" =>
    /\ loop.at = "exited"
    /\ \A o \in Objects : object[o].refs = 0
    /\ event_cb = << >>
    /\ held.left = {"event_cb", "cmd", "interfaces"}

\* A failed wifi_initialize gives back what it took, and wifi_cleanup frees hal_info
\* after everything that refers to it; what either leaves allocated is what
\* InitExitsClean and CleanupIsLast name.
ReleasesInOrder == InitExitsClean /\ CleanupIsLast

\* wifi_cleanup returns once the driver is quiet, unless it hung up on the event
\* socket or a ranging killed the process.  The loop serves events before the
\* request to exit, so a driver that never stops sending delays it; after a hang-up
\* the loop has ended without the answer that wifi_cleanup reads.
CleanupReturns ==
  <>[](events = << >>) => 
    (info = "cleaning" ~> (info \in {"freed", "dead"} \/ loop.at = "hungup"))
=============================================================================
