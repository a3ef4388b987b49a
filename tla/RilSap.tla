------------------------------- MODULE RilSap -------------------------------
(***************************************************************************)
(* SIM access for Bluetooth: hal/libril/sap_service.cpp, RilSapSocket.cpp  *)
(* and rilSocketQueue.h.  Requests come on the one HIDL thread, which      *)
(* encodes them, puts them in the queue of the slot and hands them to the  *)
(* vendor library.  Threads of the vendor library complete them and send   *)
(* unsolicited messages.  The queue has a mutex; sapCallback has none, so  *)
(* each access to it is a step.  Blocks are named by request and purpose   *)
(* and never reused: reading or freeing one that is not in heap is the     *)
(* error a reused address would turn into.                                 *)
(***************************************************************************)
EXTENDS Integers, Sequences, FiniteSets, Functions

CONSTANTS Slots,        \* 0 .. SIM_COUNT - 1
          Workers,      \* threads of the vendor library
          Methods,      \* the requests the client uses
          MaxRequests,  \* bound on its requests
          MaxUnsol,     \* bound on unsolicited messages
          MaxDeaths,    \* bound on deaths of the client
          Several,      \* bound: the methods used when there are several requests
          Mixed         \* bound: whether unsolicited messages come then, too

ASSUME SapAssumption ==
  /\ Slots \subseteq Nat /\ MaxRequests \in Nat /\ MaxUnsol \in Nat /\ MaxDeaths \in Nat
  /\ Methods \subseteq {"CONNECT", "DISCONNECT", "APDU", "TRANSFER_ATR", "POWER", "RESET_SIM",
                        "TRANSFER_CARD_READER_STATUS", "SET_TRANSFER_PROTOCOL"}

Requests == 1 .. MaxRequests
None == "none"

VARIABLES
  uimFuncs,     \* what RIL_SAP_Init returned: "functions" or "NULL"
  start,        \* steps RIL_register_socket has done: a socket per slot, a service per slot
  sockets,      \* slots with a RilSapSocket in the list
  sapCallback,  \* sapCallback[s]: the generation of the client it belongs to, 0 for NULL
  client,       \* client[s]: [gen, alive, ready], ready after its setCallback
  req,          \* req[r]: [slot, id, token] once made
  hidl,         \* the HIDL thread: [pc, r, cb, ok]
  worker,       \* worker[w]: [pc, r, slot, id, msg, cb, ok]; r is 0 for an unsolicited message
  queue,        \* queue[s]: pendingResponseQueue, front first
  vendor,       \* requests the vendor library has
  heap,         \* allocated blocks: <<request, purpose>>
  wrong,        \* blocks freed or read while not allocated
  said,         \* a call of the client under way: [r, callback, result, code], or Silence
  answers,      \* answers[r]: answers sent for r
  lost,         \* requests given up without an answer
  unsols, deaths,
  crashed

memory == <<heap, wrong>>
told == <<said, answers, lost>>
fixed == <<uimFuncs, start, sockets>>
bounds == <<unsols, deaths>>
vars == <<fixed, sapCallback, client, req, hidl, worker, queue, vendor, memory, told, bounds, crashed>>

Silence == [r |-> 0, callback |-> None, result |-> None, code |-> None]
HidlIdle == [pc |-> "idle", r |-> 0, cb |-> 0, ok |-> TRUE]
Thread(pc, r, slot, id, msg) ==
  [pc |-> pc, r |-> r, slot |-> slot, id |-> id, msg |-> msg, cb |-> 0, ok |-> TRUE]
WorkerIdle == Thread("idle", 0, 0, None, None)

Init ==
  /\ uimFuncs \in {"functions", "NULL"}
  /\ start = 0
  /\ sockets = {}
  /\ sapCallback = [s \in Slots |-> 0]
  /\ client = [s \in Slots |-> [gen |-> 1, alive |-> TRUE, ready |-> FALSE]]
  /\ req = << >>
  /\ hidl = HidlIdle
  /\ worker = [w \in Workers |-> WorkerIdle]
  /\ queue = [s \in Slots |-> << >>]
  /\ vendor = {}
  /\ heap = {} /\ wrong = {}
  /\ said = Silence
  /\ answers = [r \in Requests |-> 0]
  /\ lost = {}
  /\ unsols = 0 /\ deaths = 0
  /\ crashed = FALSE

\* free() of blocks: those that are not allocated go wrong.
Free(blocks) ==
  /\ heap' = heap \ blocks
  /\ wrong' = wrong \cup (blocks \ heap)
-----------------------------------------------------------------------------
(* Start-up, on the main thread, which becomes the HIDL thread afterwards. *)

Started == start = 2 * Cardinality(Slots)
ServiceOf(s) == start > Cardinality(Slots) + s

\* initSapSocket: the socket of the slot joins the list, or there is no memory for it.
addSocketToList(s) == sockets' \in {sockets, sockets \cup {s}}

\* RIL_register_socket: initSapSocket for each slot, then registerService for each.
RIL_register_socket ==
  /\ ~ crashed
  /\ ~ Started
  /\ start' = start + 1
  /\ IF start \in Slots THEN addSocketToList(start) ELSE UNCHANGED sockets
  /\ UNCHANGED <<uimFuncs, sapCallback, client, req, hidl, worker, queue, vendor, memory, told, bounds, crashed>>
-----------------------------------------------------------------------------
(* The client *)

ClientDies(s) ==
  /\ ~ crashed
  /\ deaths < MaxDeaths
  /\ client[s].ready
  /\ client' = [client EXCEPT ![s] = [gen |-> @.gen, alive |-> FALSE, ready |-> FALSE]]
  /\ deaths' = deaths + 1
  /\ UNCHANGED <<fixed, sapCallback, req, hidl, worker, queue, vendor, memory, told, unsols, crashed>>

ClientRestarts(s) ==
  /\ ~ crashed
  /\ ~ client[s].alive
  /\ client' = [client EXCEPT ![s] = [gen |-> @.gen + 1, alive |-> TRUE, ready |-> FALSE]]
  /\ UNCHANGED <<fixed, sapCallback, req, hidl, worker, queue, vendor, memory, told, bounds, crashed>>

\* The first call of a client.
setCallback(s) ==
  /\ ~ crashed
  /\ Started /\ hidl.pc = "idle"
  /\ client[s].alive /\ ~ client[s].ready
  /\ client' = [client EXCEPT ![s] = [gen |-> @.gen, alive |-> TRUE, ready |-> TRUE]]
  /\ sapCallback' = [sapCallback EXCEPT ![s] = client[s].gen]
  /\ UNCHANGED <<fixed, req, hidl, worker, queue, vendor, memory, told, bounds, crashed>>
-----------------------------------------------------------------------------
(* Calling the client *)

CallbackOf(id) ==
  CASE id = "CONNECT" -> "connectResponse"
    [] id = "DISCONNECT" -> "disconnectResponse"
    [] id = "APDU" -> "apduResponse"
    [] id = "TRANSFER_ATR" -> "transferAtrResponse"
    [] id = "POWER" -> "powerResponse"
    [] id = "RESET_SIM" -> "resetSimResponse"
    [] id = "TRANSFER_CARD_READER_STATUS" -> "transferCardReaderStatusResponse"
    [] id = "SET_TRANSFER_PROTOCOL" -> "transferProtocolResponse"

\* What sendFailedResponse tells the client; for the other ids it returns.
FailedResult(id) ==
  CASE id = "CONNECT" -> "CONNECT_FAILURE"
    [] id = "DISCONNECT" -> "void"
    [] id = "SET_TRANSFER_PROTOCOL" -> "NOT_SUPPORTED"
    [] OTHER -> "GENERIC_FAILURE"

\* A call through sapCallback[s]: a NULL pointer ends the process; a dead client is
\* not reached, which the status of the call tells.
Reached(s) == client[s].alive /\ client[s].gen = sapCallback[s]

CallClient(s, r, callback, result, code) ==
  /\ crashed' = (sapCallback[s] = 0)
  /\ IF sapCallback[s] # 0 /\ Reached(s)
       THEN /\ said' = [r |-> r, callback |-> callback, result |-> result, code |-> code]
            /\ answers' = IF r = 0 THEN answers ELSE [answers EXCEPT ![r] = @ + 1]
       ELSE UNCHANGED <<said, answers>>

\* The call returns.  If sapCallback was assigned meanwhile, the last reference to
\* the object of this call is gone, and anything may happen.
CallReturns(s, t) ==
  crashed' \in IF sapCallback[s] = t.cb THEN {FALSE} ELSE BOOLEAN

\* Faulty variant of checkReturnStatus: the test is inverted.
checkReturnStatus_Ok(s, ok) ==
  sapCallback' = IF ok THEN [sapCallback EXCEPT ![s] = 0] ELSE sapCallback

checkReturnStatus(s, ok) ==
  sapCallback' = IF ok THEN sapCallback ELSE [sapCallback EXCEPT ![s] = 0]
-----------------------------------------------------------------------------
(* Requests, on the HIDL thread *)

\* Where a method may fail: each allocation, pb_get_encoded_size and pb_encode.
Points == {"msg", "command", "size", "buffer", "encode", "payload", "socket", None}

\* The blocks a method has allocated when it fails at p.
Allocated(id, p) ==
  (IF p # "msg" THEN {"msg"} ELSE {})
    \cup (IF id = "APDU" /\ p \notin {"msg", "command"} THEN {"command"} ELSE {})
    \cup (IF p \in {"encode", "payload", "socket", None} THEN {"buffer"} ELSE {})
    \cup (IF p \in {"socket", None} THEN {"payload"} ELSE {})

\* Faulty variant of FreedAt: a failing pb_encode frees the buffer only.
FreedAt_KeepsMsg(id, p) ==
  CASE p \in {"msg", None} -> {}
    [] p = "command" -> {"msg"}
    [] p \in {"size", "buffer"} -> {"msg"} \cup (IF id = "APDU" THEN {"command"} ELSE {})
    [] p = "encode" -> {"buffer"} \cup (IF id = "APDU" THEN {"command"} ELSE {})
    [] p = "payload" -> {"buffer", "msg"}
    [] p = "socket" -> {"payload", "buffer", "msg"}

\* The pointers it gives to sendFailedResponse there.
FreedAt(id, p) ==
  CASE p \in {"msg", None} -> {}
    [] p = "command" -> {"msg"}
    [] p \in {"size", "buffer"} -> {"msg"} \cup (IF id = "APDU" THEN {"command"} ELSE {})
    [] p = "encode" -> {"buffer", "msg"} \cup (IF id = "APDU" THEN {"command"} ELSE {})
    [] p = "payload" -> {"buffer", "msg"}
    [] p = "socket" -> {"payload", "buffer", "msg"}

Of(r, names) == {r} \X names

\* Which failures are possible for a request of slot s.
CanFail(s, id, p) ==
  CASE p = "command" -> id = "APDU"
    [] p = "socket" -> s \notin sockets
    [] p = None -> s \in sockets
    [] OTHER -> TRUE

\* The bounds on several requests.
Explored(id) == req # << >> => {req[1].id, id} \subseteq Several /\ (Mixed \/ unsols = 0)

\* A request method up to dispatchRequest or sendFailedResponse; the client counts
\* its tokens.
Request(s, id, p) ==
  LET r == Len(req) + 1 IN
  /\ ~ crashed
  /\ Started /\ hidl.pc = "idle"
  /\ client[s].alive /\ client[s].ready
  /\ r \in Requests
  /\ Explored(id)
  /\ CanFail(s, id, p)
  /\ req' = Append(req, [slot |-> s, id |-> id, token |-> r])
  /\ heap' = heap \cup Of(r, Allocated(id, p) \ FreedAt(id, p))
  /\ wrong' = wrong \cup Of(r, FreedAt(id, p) \ Allocated(id, p))
  /\ hidl' = [HidlIdle EXCEPT !.pc = IF p = None THEN "dispatch" ELSE "failed", !.r = r]
  /\ UNCHANGED <<fixed, sapCallback, client, worker, queue, vendor, told, bounds, crashed>>

\* sendFailedResponse, which does not test sapCallback.
SendFailed ==
  LET q == req[hidl.r] IN
  /\ ~ crashed
  /\ hidl.pc = "failed"
  /\ CallClient(q.slot, hidl.r, CallbackOf(q.id), FailedResult(q.id), None)
  /\ hidl' = [hidl EXCEPT !.pc = "returned", !.cb = sapCallback[q.slot], !.ok = Reached(q.slot)]
  /\ UNCHANGED <<fixed, sapCallback, client, req, worker, queue, vendor, memory, lost, bounds>>

FailedReturns ==
  /\ ~ crashed
  /\ hidl.pc = "returned"
  /\ CallReturns(req[hidl.r].slot, hidl)
  /\ checkReturnStatus(req[hidl.r].slot, hidl.ok)
  /\ hidl' = HidlIdle
  /\ said' = Silence
  /\ UNCHANGED <<fixed, client, req, worker, queue, vendor, memory, answers, lost, bounds>>

\* dispatchRequest without memory: nobody is told.
DispatchFails ==
  /\ ~ crashed
  /\ hidl.pc = "dispatch"
  /\ Free({<<hidl.r, "msg">>})
  /\ lost' = lost \cup {hidl.r}
  /\ hidl' = [hidl EXCEPT !.pc = "dispatched"]
  /\ UNCHANGED <<fixed, sapCallback, client, req, worker, queue, vendor, said, answers, bounds, crashed>>

\* dispatchRequest: the request is put in front of the queue, under the mutex ...
Enqueue ==
  /\ ~ crashed
  /\ hidl.pc = "dispatch"
  /\ heap' = heap \cup {<<hidl.r, "request">>}
  /\ queue' = [queue EXCEPT ![req[hidl.r].slot] = <<hidl.r>> \o @]
  /\ hidl' = [hidl EXCEPT !.pc = "onRequest"]
  /\ UNCHANGED <<fixed, sapCallback, client, req, worker, vendor, wrong, told, bounds, crashed>>

\* ... and the vendor library called.  Without its functions the member of the socket
\* is not initialized: nothing is called, or something else.
OnRequest ==
  /\ ~ crashed
  /\ hidl.pc = "onRequest"
  /\ hidl' = [hidl EXCEPT !.pc = "dispatched"]
  /\ \/ /\ uimFuncs = "functions"
        /\ vendor' = vendor \cup {hidl.r}
        /\ UNCHANGED <<lost, crashed>>
     \/ /\ uimFuncs = "NULL"
        /\ lost' = lost \cup {hidl.r}
        /\ crashed' \in BOOLEAN
        /\ UNCHANGED vendor
  /\ UNCHANGED <<fixed, sapCallback, client, req, worker, queue, memory, said, answers, bounds>>

\* addPayloadAndDispatchRequest frees the buffer and what msg->payload points to.  If
\* msg is freed by then, that may be anything.
FreePayload ==
  LET stale == <<hidl.r, "msg">> \notin heap IN
  /\ ~ crashed
  /\ hidl.pc = "dispatched"
  /\ Free(Of(hidl.r, {"payload", "buffer"}))
  /\ crashed' \in IF stale THEN BOOLEAN ELSE {FALSE}
  /\ hidl' = HidlIdle
  /\ UNCHANGED <<fixed, sapCallback, client, req, worker, queue, vendor, told, bounds>>

Hidl == SendFailed \/ FailedReturns \/ Enqueue \/ DispatchFails \/ OnRequest \/ FreePayload
-----------------------------------------------------------------------------
(* Completions and unsolicited messages, on threads of the vendor library *)

\* The codes of the answers; the callback of CONNECT gets them as they are.
Codes == {"SUCCESS", "GENERIC_FAILURE", "SIM_NOT_READY", "SIM_ALREADY_POWERED_OFF",
          "SIM_ALREADY_POWERED_ON", "SIM_ABSENT", "SIM_DATA_NOT_AVAILABLE"}

convertApduResponseProtoToHal ==
  [SUCCESS |-> "SUCCESS", SIM_NOT_READY |-> "CARD_NOT_ACCESSSIBLE",
   SIM_ALREADY_POWERED_OFF |-> "CARD_ALREADY_POWERED_OFF", SIM_ABSENT |-> "CARD_REMOVED"]

convertTransferAtrResponseProtoToHal ==
  [SUCCESS |-> "SUCCESS", SIM_ALREADY_POWERED_OFF |-> "CARD_ALREADY_POWERED_OFF",
   SIM_ABSENT |-> "CARD_REMOVED", SIM_DATA_NOT_AVAILABLE |-> "DATA_NOT_AVAILABLE"]

\* Faulty variant of convertPowerResponseProtoToHal: a card that is on already
\* counts as a success.
convertPowerResponseProtoToHal_On ==
  [SUCCESS |-> "SUCCESS", SIM_ABSENT |-> "CARD_REMOVED",
   SIM_ALREADY_POWERED_OFF |-> "CARD_ALREADY_POWERED_OFF", SIM_ALREADY_POWERED_ON |-> "SUCCESS"]

convertPowerResponseProtoToHal ==
  [SUCCESS |-> "SUCCESS", SIM_ABSENT |-> "CARD_REMOVED",
   SIM_ALREADY_POWERED_OFF |-> "CARD_ALREADY_POWERED_OFF",
   SIM_ALREADY_POWERED_ON |-> "CARD_ALREADY_POWERED_ON"]

convertResetSimResponseProtoToHal ==
  [SUCCESS |-> "SUCCESS", SIM_ABSENT |-> "CARD_REMOVED", SIM_NOT_READY |-> "CARD_NOT_ACCESSSIBLE",
   SIM_ALREADY_POWERED_OFF |-> "CARD_ALREADY_POWERED_OFF"]

convertTransferCardReaderStatusResponseProtoToHal ==
  [SUCCESS |-> "SUCCESS", SIM_DATA_NOT_AVAILABLE |-> "DATA_NOT_AVAILABLE"]

\* The code a table has no line for is a generic failure.
Converted(table, code) == IF code \in DOMAIN table THEN table[code] ELSE "GENERIC_FAILURE"

\* The result processResponse gives to the callback of an answer.
ResultOf(id, code) ==
  CASE id = "CONNECT" -> code
    [] id = "DISCONNECT" -> "void"
    [] id = "APDU" -> Converted(convertApduResponseProtoToHal, code)
    [] id = "TRANSFER_ATR" -> Converted(convertTransferAtrResponseProtoToHal, code)
    [] id = "POWER" -> Converted(convertPowerResponseProtoToHal, code)
    [] id = "RESET_SIM" -> Converted(convertResetSimResponseProtoToHal, code)
    [] id = "TRANSFER_CARD_READER_STATUS" ->
         Converted(convertTransferCardReaderStatusResponseProtoToHal, code)
    [] id = "SET_TRANSFER_PROTOCOL" -> IF code = "SUCCESS" THEN code ELSE "NOT_SUPPORTED"

IndicationOf(id) ==
  CASE id = "DISCONNECT" -> "disconnectIndication"
    [] id = "STATUS" -> "statusIndication"
    [] id = "ERROR_RESP" -> "errorResponse"

\* What sapDecodeMessage makes of a payload.
Messages == {"decoded", "undecodable"}

At(w, l) == worker' = [worker EXCEPT ![w].pc = l]

\* RilSapSocket::onRequestComplete reads the request and its message; sapDecodeMessage
\* turns the payload into a message or fails.
onRequestComplete(w, r, msg) ==
  /\ ~ crashed
  /\ worker[w].pc = "idle"
  /\ r \in vendor
  /\ vendor' = vendor \ {r}
  /\ wrong' = wrong \cup (Of(r, {"request", "msg"}) \ heap)
  /\ worker' = [worker EXCEPT ![w] = Thread("check", r, req[r].slot, req[r].id, msg)]
  /\ UNCHANGED <<fixed, sapCallback, client, req, hidl, queue, heap, told, bounds, crashed>>

\* There is no memory for the payload of the answer: the client is not told.
CompleteFails(w, r) ==
  /\ ~ crashed
  /\ worker[w].pc = "idle"
  /\ r \in vendor
  /\ vendor' = vendor \ {r}
  /\ lost' = lost \cup {r}
  /\ worker' = [worker EXCEPT ![w] = Thread("dequeue", r, req[r].slot, None, None)]
  /\ UNCHANGED <<fixed, sapCallback, client, req, hidl, queue, memory, said, answers, bounds, crashed>>

\* onUnsolicitedResponse with data, for a slot that has a socket.
onUnsolicitedResponse(w, s, id, msg) ==
  /\ ~ crashed
  /\ uimFuncs = "functions"
  /\ worker[w].pc = "idle"
  /\ s \in sockets
  /\ unsols < MaxUnsol /\ (Mixed \/ Len(req) <= 1)
  /\ unsols' = unsols + 1
  /\ worker' = [worker EXCEPT ![w] = Thread("check", 0, s, id, msg)]
  /\ UNCHANGED <<fixed, sapCallback, client, req, hidl, queue, vendor, memory, told, deaths, crashed>>

\* Where a thread goes when processResponse returns.
Done(w) == IF worker[w].r = 0 THEN "idle" ELSE "dequeue"

\* processResponse tests sapCallback, through a service that may not exist yet; an
\* indication that cannot be decoded ends here unless it is a disconnection.
CheckCallback(w) ==
  LET t == worker[w] IN
  /\ ~ crashed
  /\ t.pc = "check"
  /\ crashed' = ~ ServiceOf(t.slot)
  /\ At(w, IF sapCallback[t.slot] = 0 \/ (t.msg = "undecodable" /\ t.id \in {"STATUS", "ERROR_RESP"})
             THEN Done(w) ELSE "call")
  /\ UNCHANGED <<fixed, sapCallback, client, req, hidl, queue, vendor, memory, told, bounds>>

\* processResponse, or sendFailedResponse for what could not be decoded, reads
\* sapCallback again and calls.  What the message says matters only here.
CallCallback(w) ==
  LET t == worker[w] IN
  /\ ~ crashed
  /\ t.pc = "call"
  /\ IF t.msg = "undecodable"
       THEN CallClient(t.slot, t.r, CallbackOf(t.id), FailedResult(t.id), t.msg)
       ELSE IF t.r = 0 THEN CallClient(t.slot, 0, IndicationOf(t.id), None, None)
       ELSE \E code \in Codes : CallClient(t.slot, t.r, CallbackOf(t.id), ResultOf(t.id, code), code)
  /\ worker' = [worker EXCEPT ![w] = [t EXCEPT !.pc = "returned", !.cb = sapCallback[t.slot], !.ok = Reached(t.slot)]]
  /\ UNCHANGED <<fixed, sapCallback, client, req, hidl, queue, vendor, memory, lost, bounds>>

CallbackReturns(w) ==
  LET t == worker[w] IN
  /\ ~ crashed
  /\ t.pc = "returned"
  /\ CallReturns(t.slot, t)
  /\ checkReturnStatus(t.slot, t.ok)
  /\ said' = Silence
  /\ worker' = [worker EXCEPT ![w] = Thread(Done(w), t.r, t.slot, None, None)]
  /\ UNCHANGED <<fixed, client, req, hidl, queue, vendor, memory, answers, lost, bounds>>

\* Faulty variant of Matches: the token is not compared.
Matches_IdOnly(n, r) == req[n].id = req[r].id

Matches(n, r) == req[n].token = req[r].token /\ req[n].id = req[r].id

\* The place of the first request of a queue that matches, and the queue without it.
FirstMatch(q, r) ==
  CHOOSE i \in DOMAIN q : Matches(q[i], r) /\ \A j \in 1 .. i - 1 : ~ Matches(q[j], r)
Without(q, i) == [j \in 1 .. Len(q) - 1 |-> q[IF j < i THEN j ELSE j + 1]]

\* checkAndDequeue frees the first request of the queue that matches.
checkAndDequeue(w) ==
  LET s == worker[w].slot
      i == FirstMatch(queue[s], worker[w].r)
  IN
  /\ ~ crashed
  /\ worker[w].pc = "dequeue"
  /\ IF \E n \in Range(queue[s]) : Matches(n, worker[w].r)
       THEN /\ queue' = [queue EXCEPT ![s] = Without(@, i)]
            /\ Free({<<queue[s][i], "request">>})
       ELSE UNCHANGED <<queue, memory>>
  /\ At(w, "free")
  /\ UNCHANGED <<fixed, sapCallback, client, req, hidl, vendor, told, bounds, crashed>>

\* free(hdr)
FreeHeader(w) ==
  /\ ~ crashed
  /\ worker[w].pc = "free"
  /\ Free({<<worker[w].r, "msg">>})
  /\ worker' = [worker EXCEPT ![w] = WorkerIdle]
  /\ UNCHANGED <<fixed, sapCallback, client, req, hidl, queue, vendor, told, bounds, crashed>>

Answering(w) ==
  CheckCallback(w) \/ CallCallback(w) \/ CallbackReturns(w) \/ checkAndDequeue(w) \/ FreeHeader(w)

Completes(r) ==
  \E w \in Workers : CompleteFails(w, r) \/ \E msg \in Messages : onRequestComplete(w, r, msg)
-----------------------------------------------------------------------------
Next ==
  \/ RIL_register_socket
  \/ \E s \in Slots :
       \/ ClientDies(s) \/ ClientRestarts(s) \/ setCallback(s)
       \/ \E id \in Methods, p \in Points : Request(s, id, p)
       \/ \E w \in Workers, id \in {"DISCONNECT", "STATUS", "ERROR_RESP"}, msg \in Messages :
            onUnsolicitedResponse(w, s, id, msg)
  \/ Hidl
  \/ \E r \in Requests : Completes(r)
  \/ \E w \in Workers : Answering(w)

\* The threads run, and the vendor library completes what it gets.
Fairness ==
  /\ WF_vars(Hidl)
  /\ \A w \in Workers : WF_vars(Answering(w))
  /\ \A r \in Requests : WF_vars(Completes(r))

Spec == Init /\ [][Next]_vars /\ Fairness
-----------------------------------------------------------------------------
(* Properties *)

\* What the vendor library holds as a token, and what is in pendingResponseQueue, is
\* allocated: completions free the request of their own token, although new ones are
\* put in front and several threads complete at once.
SapTokensValid ==
  ~ crashed =>
    /\ \A r \in vendor : Of(r, {"request", "msg"}) \subseteq heap /\ r \in Range(queue[req[r].slot])
    /\ \A s \in Slots : \A r \in Range(queue[s]) : Of(r, {"request", "msg"}) \subseteq heap

\* A request that is over has freed each of its blocks once, wherever it failed, except
\* the command of an APDU, which apduReq does not free when it succeeds.
SapBlocksReclaimed ==
  ~ crashed =>
    /\ wrong = {}
    /\ \A r \in 1 .. Len(req) :
         \/ r \in vendor \cup Range(queue[req[r].slot]) \cup {hidl.r} \cup {worker[w].r : w \in Workers}
         \/ heap \cap Of(r, {"msg", "buffer", "payload", "request"}) = {}

\* The blocks of a request live as long as the queue or the vendor library refers to
\* them and not longer.
SapMemorySound == SapTokensValid /\ SapBlocksReclaimed

\* The client gets at most one answer for a token, from the callback of the method,
\* and a success exactly when the vendor library reports one; unsolicited messages
\* come as indications.  An undecodable one about a disconnection is the exception:
\* sendFailedResponse answers a disconnectReq nobody made.
SapAnswersTrue ==
  /\ \A r \in Requests : answers[r] <= 1
  /\ said # Silence /\ said.r # 0 =>
       /\ said.callback = CallbackOf(req[said.r].id)
       /\ said.result # "void" => (said.result = "SUCCESS" <=> said.code = "SUCCESS")
  /\ said # Silence /\ said.r = 0 /\ said.code # "undecodable" =>
       said.callback \in {"disconnectIndication", "statusIndication", "errorResponse"}

\* While the client lives, each of its requests is answered, unless dispatchRequest or
\* onRequestComplete runs out of memory or the vendor library gave no functions.
SapAnswered ==
  \A r \in Requests : (Len(req) >= r) ~> (answers[r] = 1 \/ r \in lost \/ crashed \/ deaths > 0)
=============================================================================
