---------------------------- MODULE RadioService -----------------------------
(***************************************************************************)
(* One slot of the radio service of hal/libril: a client calls a method of *)
(* ril_service.cpp, the method builds its request and hands it to the      *)
(* vendor library through my_enqueue of ril.cpp, the library answers or    *)
(* indicates with a payload, and the service calls the client back.  The   *)
(* tables of the methods, of the answers and of the indications are in     *)
(* RadioRequests, RadioResponses and RadioIndications; this module runs    *)
(* them, with the heap blocks of the request, the interface table          *)
(* dataCallCids, and the identity kept in Device_ID.                       *)
(*                                                                         *)
(* Callback objects and their locks are in RadioCallbacks, the list of     *)
(* pending requests in RilRequests: here the client is connected and a     *)
(* token is valid.  dataCallCids is one table for both slots: the client   *)
(* that makes data calls stands for those of either, as long as they come  *)
(* one after the other and the ids differ.                                 *)
(***************************************************************************)
EXTENDS RadioIndications, SequencesExt

CONSTANTS Versions,   \* vendor library versions
          Cids        \* ids the vendor library gives to data calls

ASSUME VersionsAssumption == Versions \subseteq 6 .. 16
ASSUME CidsAssumption == Cids \subseteq Nat

VARIABLES version, client,
          method,       \* the method running, or "none"
          todo,         \* its plans that are not started
          plan,         \* the plan the vendor library is looking at, or NoPlan
          iface,        \* the interface the running setupDataCall asked for
          live,         \* the heap blocks of the plan that are allocated
          wrong,        \* blocks it freed that were not
          pending,      \* requests the vendor library has not answered
          Device_ID, dataCallCids,
          calls,        \* data calls the client knows, each with its interface
          said          \* the latest callback

request == <<method, todo, plan, iface, live, wrong>>
vars == <<version, client, request, pending, Device_ID, dataCallCids, calls, said>>

NoPlan == Plan("none", NULL, 0, 0, "VOID")
Interfaces == 0 .. 4
FREE == -1

Silence == [kind |-> "none"]
-----------------------------------------------------------------------------
(* The blocks of a plan: the outer ones first, then the strings. *)

Strings(p) == (1 .. p.strings) \ p.missing
Outer(p) == (1 - p.heap) .. 0
Blocks(p) == Outer(p) \cup Strings(p)

\* Each profile is freed on its own, but only the first starts a block.
Cleared(p) ==
  CASE p.fmt \in {"INTS", "VOID", "RAW"} -> {}
    [] p.fmt = "ImsSms" -> Blocks(p)
    [] p.fmt = "DATAPROF" -> Strings(p) \cup {-1 + k * 100 : k \in 0 .. p.data.count - 1}
    [] OTHER -> Strings(p)

\* Faulty variant of EnqueueClears: the last string of RIL_SIM_IO_v6 is forgotten.
EnqueueClears_KeepsAid(p) ==
  IF p.fmt = "IGNORE" THEN {} ELSE IF p.fmt = "SIMIO" THEN 1 .. 3 ELSE Cleared(p)

\* What my_enqueue clears when onRequest is back.
EnqueueClears(p) == IF p.fmt = "IGNORE" THEN {} ELSE Cleared(p)

\* Faulty variant of MethodFrees: the strings are freed whoever is to clear them.
MethodFrees_Always(p) == IF p.fmt = "IGNORE" THEN Blocks(p) ELSE Strings(p)

\* What the method frees when my_enqueue is back.
MethodFrees(p) == IF p.fmt = "IGNORE" THEN Blocks(p) ELSE {}
-----------------------------------------------------------------------------
(* Answers. *)

\* The tables for each version.
MethodsOf == [v \in Versions |-> Methods(v)]
ResponsesOf == [v \in Versions |-> ResponseRows(v)]

ResponseFunction(req) == CommandRow(RequestNumber[req])[2]

\* The response function of a request called with an error and a payload.
Answer(m, p, e, payload) ==
  LET f == ResponseFunction(p.request)
      row == ResponsesOf[version][f]
  IN  [kind |-> "answer", method |-> m, request |-> p.request, local |-> p.local,
       callback |-> Callback(f), e |-> e, error |-> ErrorSeen(row, e, payload),
       payload |-> payload, read |-> ElementsRead(row, payload), as |-> row.as]

\* The process dies.
Crash(m, p, cause) == [kind |-> "crash", method |-> m, local |-> p.local, cause |-> cause]

\* Payloads of as many ints or strings as a shape has, or of fewer.
UpTo(shape) ==
  UNION { { P(p.type, n) : n \in 0 .. p.count } :
            p \in {q \in shape : q.type \in {"int", "string"}} }

\* Answers of vendor libraries: NULL, what ril.h declares, less than that, and what
\* libraries up to version 14 send instead.
Payloads(req) ==
  {NULL} \cup
  CASE req = "SETUP_DATA_CALL" -> DeclaredResponse[req] \cup One("Data_Call_Response_v6")
    [] req \in {"VOICE_REGISTRATION_STATE", "DATA_REGISTRATION_STATE"} /\ version <= 14 ->
         UpTo(Strs(MaxCount))
    [] OTHER -> DeclaredResponse[req] \cup UpTo(DeclaredResponse[req])
-----------------------------------------------------------------------------
(* The interface table: one entry for each of four interfaces, and a fifth that
   takes what finds no place. *)

\* The first of the four entries that holds a value, or 4.
FirstWith(cid) ==
  LET is == {i \in 0 .. 3 : dataCallCids[i] = cid}
  IN  IF is = {} THEN 4 ELSE CHOOSE i \in is : \A j \in is : i <= j

InterfaceAsked == IF FirstWith(FREE) < 4 THEN FirstWith(FREE) + 1 ELSE 0
-----------------------------------------------------------------------------
Init ==
  /\ version \in Versions
  /\ client \in (IF version <= 14 THEN {"data", "other"} ELSE {"other"})
  /\ method = "none" /\ todo = << >> /\ plan = NoPlan /\ iface = 0
  /\ live = {} /\ wrong = {}
  /\ pending = << >>
  /\ Device_ID = [imei |-> NULL, imeisv |-> NULL]
  /\ dataCallCids = [i \in Interfaces |-> FREE]
  /\ calls = [c \in {} |-> 0]
  /\ said = Silence

Idle == method = "none" /\ pending = << >> /\ said.kind # "crash"

Start(m, plans) ==
  /\ method' = m /\ todo' = plans /\ live' = {} /\ wrong' = {}
  /\ UNCHANGED <<plan, version, client, pending, Device_ID>>

\* A client that makes data calls, one setup or deactivation after the other.
setupDataCall ==
  /\ Idle /\ client = "data"
  /\ \E m \in SetupDataCall(version) : Start(m[1], << m[2] >>)
  /\ iface' = InterfaceAsked
  /\ said' = Silence
  /\ UNCHANGED <<dataCallCids, calls>>

\* Faulty variant of deactivateDataCall: the entry is emptied whatever it holds.
deactivateDataCall_First(cid) ==
  /\ Idle /\ client = "data" /\ cid \in DOMAIN calls
  /\ Start("deactivateDataCall", << dispatchStrings("DEACTIVATE_DATA_CALL", 2) >>)
  /\ dataCallCids' = [dataCallCids EXCEPT ![0] = FREE]
  /\ calls' = [c \in DOMAIN calls \ {cid} |-> calls[c]]
  /\ said' = Silence /\ iface' = 0

deactivateDataCall(cid) ==
  /\ Idle /\ client = "data" /\ cid \in DOMAIN calls
  /\ Start("deactivateDataCall", << dispatchStrings("DEACTIVATE_DATA_CALL", 2) >>)
  /\ dataCallCids' = IF FirstWith(cid) < 4 THEN [dataCallCids EXCEPT ![FirstWith(cid)] = FREE]
                     ELSE dataCallCids
  /\ calls' = [c \in DOMAIN calls \ {cid} |-> calls[c]]
  /\ said' = Silence /\ iface' = 0

\* A client that calls any method, one after the other.
Call(m) ==
  /\ Idle /\ client = "other"
  /\ Start(m[1], m[2])
  /\ said' = Silence
  /\ UNCHANGED <<iface, dataCallCids, calls>>
-----------------------------------------------------------------------------
(* One plan: until my_enqueue the method runs alone on blocks only it knows. *)

Ready == todo # << >> /\ plan = NoPlan

Finish == method' = IF Len(todo) = 1 THEN "none" ELSE method

\* addRequestToList finds no memory: nothing is sent and nobody is told.
NoRequestInfo ==
  /\ Ready
  /\ Finish /\ todo' = Tail(todo)
  /\ said' = Silence /\ live' = {} /\ wrong' = {}
  /\ UNCHANGED <<plan, iface, version, client, pending, Device_ID, dataCallCids, calls>>

\* What is freed when block b cannot be allocated: all blocks before it.
FreedWith(p, b) == {x \in Blocks(p) : x < b}

\* sendErrorResponse calls the response function also where the row has none.
Refusal(p, b, e) ==
  /\ Finish /\ todo' = Tail(todo)
  /\ live' = {x \in Blocks(p) : x < b} \ FreedWith(p, b)
  /\ wrong' = FreedWith(p, b) \ Blocks(p)
  /\ said' = IF ResponseFunction(p.request) = "NULL" THEN Crash(method, p, "no response function")
             ELSE Answer(method, p, e, NULL)
  /\ UNCHANGED <<plan, iface, version, client, pending, Device_ID, dataCallCids, calls>>

OutOfMemory(b) ==
  /\ Ready /\ b \in Outer(Head(todo)) \cup 1 .. Head(todo).copied
  /\ Refusal(Head(todo), b, "NO_MEMORY")

\* Strings of the client that reach copyHidlStringToRil with the length they claim;
\* dispatchString and the variadic dispatchStrings pass what c_str() returns.
OwnLength(p) == p.data.type \notin {"chars", "string"} \/ p.request = "OEM_HOOK_STRINGS"

Truncation(b) == [kind |-> "truncated", string |-> b]

\* copyHidlStringToRil finds string b longer than it claims to be: it keeps the copy
\* allocated and tells nobody.  The caller frees what was there before; only
\* freeSetDataProfileData frees the copy as well.
Truncated(b) ==
  /\ Ready /\ b \in 1 .. Head(todo).copied /\ OwnLength(Head(todo))
  /\ Finish /\ todo' = Tail(todo)
  /\ live' = IF method = "setDataProfile" THEN {} ELSE {b}
  /\ wrong' = {}
  /\ said' = Truncation(b)
  /\ UNCHANGED <<plan, iface, version, client, pending, Device_ID, dataCallCids, calls>>

\* operatorNumeric: strncpy into what calloc returned, which may be NULL, from the
\* part of gsm.sim.operator.numeric after the comma, which the second slot may not
\* find.
CopiesFromNull ==
  /\ Ready /\ method = "setInitialAttachApn" /\ version <= 14
  /\ method' = "none" /\ todo' = << >> /\ live' = {} /\ wrong' = {}
  /\ said' = Crash(method, Head(todo), "strncpy")
  /\ UNCHANGED <<plan, iface, version, client, pending, Device_ID, dataCallCids, calls>>

Refuse ==
  /\ Ready /\ Head(todo).error # "none"
  /\ Refusal(Head(todo), Head(todo).strings + 1, Head(todo).error)

\* Strings that a calloc nobody looks at may leave NULL, all but operatorNumeric of
\* setInitialAttachApn.
MayBeMissing(p) == p.copied + 1 .. (IF p.local THEN p.strings ELSE p.strings - 1)

\* my_enqueue calls onRequest of the vendor library.
HandOver ==
  /\ Ready /\ Head(todo).error = "none"
  /\ \E missing \in SUBSET MayBeMissing(Head(todo)) :
       plan' = [Head(todo) EXCEPT !.missing = missing]
  /\ todo' = Tail(todo)
  /\ live' = Blocks(plan') /\ wrong' = {}
  /\ pending' = Append(pending, [plan |-> Head(todo), method |-> method, iface |-> iface])
  /\ said' = Silence
  /\ UNCHANGED <<method, iface, version, client, Device_ID, dataCallCids, calls>>

\* onRequest is back: what my_enqueue and then the method clean up.
VendorReturns ==
  /\ plan # NoPlan
  /\ live' = (live \ EnqueueClears(plan)) \ MethodFrees(plan)
  /\ wrong' = (EnqueueClears(plan) \ live) \cup
               (MethodFrees(plan) \ (live \ EnqueueClears(plan)))
  /\ plan' = NoPlan
  /\ method' = IF todo = << >> THEN "none" ELSE method
  /\ UNCHANGED <<todo, iface, version, client, pending, Device_ID, dataCallCids, calls, said>>
-----------------------------------------------------------------------------
(* RIL_onRequestComplete, on a thread of the vendor library, which may still be
   inside onRequest. *)

Answered(i) == pending' = RemoveAt(pending, i)

\* A request of the service itself: only the identity is kept.
CompleteLocal(i, p) ==
  LET req == pending[i].plan.request
  IN  /\ pending[i].plan.local
      /\ Answered(i)
      /\ Device_ID' = [Device_ID EXCEPT !.imei = IF req = "GET_IMEI" THEN p ELSE @,
                                        !.imeisv = IF req = "GET_IMEISV" THEN p ELSE @]
      /\ said' = Silence
      /\ UNCHANGED <<request, version, client, dataCallCids, calls>>

\* The answer to DEVICE_IDENTITY is replaced by what is kept.
Replaced(req, e, p) ==
  IF req = "DEVICE_IDENTITY" THEN <<"SUCCESS", P("string", 4)>> ELSE <<e, p>>

Complete(i, e, p) ==
  LET r == pending[i]
      a == Replaced(r.plan.request, e, p)
  IN  /\ ~r.plan.local /\ r.plan.request # "SETUP_DATA_CALL"
      /\ Answered(i)
      /\ said' = IF ResponseFunction(r.plan.request) = "NULL" THEN Silence
                 ELSE Answer(r.method, r.plan, a[1], a[2])
      /\ UNCHANGED <<request, version, client, Device_ID, dataCallCids, calls>>

\* A record of the expected layout is entered whatever its status and the error.
CompleteSetup(i, e, p, cid) ==
  LET r == pending[i]
      answer == Answer(r.method, r.plan, e, p)
  IN  /\ r.plan.request = "SETUP_DATA_CALL"
      /\ Answered(i)
      /\ said' = answer
      /\ dataCallCids' = IF answer.read # {} /\ client = "data"
                         THEN [dataCallCids EXCEPT ![FirstWith(FREE)] = cid] ELSE dataCallCids
      /\ \/ calls' = calls
         \/ /\ answer.error = "SUCCESS" /\ client = "data" /\ cid # FREE
            /\ calls' = [c \in DOMAIN calls \cup {cid} |-> IF c = cid THEN r.iface ELSE calls[c]]
      /\ UNCHANGED <<request, version, client, Device_ID>>

\* The network ends a data call: the client learns it from an indication, the
\* table does not.
CallDropped(cid) ==
  /\ Idle /\ cid \in DOMAIN calls
  /\ calls' = [c \in DOMAIN calls \ {cid} |-> calls[c]]
  /\ UNCHANGED <<version, client, request, pending, Device_ID, dataCallCids, said>>
-----------------------------------------------------------------------------
(* Indications. *)

\* What libraries send with the vendor's own indications that are handled.
VendorPayloads(name) ==
  CASE name = "INCOMING_CALL_INDICATION" -> Strs(7)
    [] name = "CALL_INFO_INDICATION" -> Strs(5)
    [] name \in {"RESPONSE_REGISTRATION_SUSPENDED", "RESPONSE_PS_NETWORK_STATE_CHANGED"} -> Ints(1)
    [] OTHER -> Void

VendorIndications ==
  { <<VendorUnsolDefines[k], VENDOR_UNSOL_BASE + k - 1, VendorPayloads(VendorUnsolDefines[k])>> :
      k \in DOMAIN VendorUnsolDefines }

Indications == UnsolRows \cup VendorIndications

\* What libraries send: what is declared, less, or NULL, but NULL only with an
\* indication whose function looks for it.
IndicationPayloads(u) == u[3] \cup UpTo(u[3]) \cup (IF u \in UnsolRows THEN {NULL} ELSE {})

\* send_unsolResponse.
Indicate(u, p) ==
  LET row == UnsolRow(u[2])
      f == row[2]
      ind == IndicationRows[f]
      quiet == f \in ContentDecides
  IN  /\ Idle /\ client = "other" /\ UnsolAccepted(u[2])
      /\ IF f = "NULL" THEN
            /\ said' = [kind |-> "unhandled", name |-> u[1], row |-> row[1]]
            /\ UNCHANGED <<method, todo>>
         ELSE
            /\ \E delivered \in IF Accepts(ind, p) THEN {TRUE, ~quiet} ELSE {FALSE} :
                 said' = [kind |-> "indication", name |-> u[1], row |-> row[1],
                          callback |-> IF delivered THEN IndicationCallback(f) ELSE "none",
                          accepted |-> Accepts(ind, p), payload |-> p,
                          read |-> ElementsRead(ind, p), as |-> ind.as]
            /\ IF Accepts(ind, p) /\ IndicationRequests(f) # << >>
               THEN method' = f /\ todo' = IndicationRequests(f)
               ELSE UNCHANGED <<method, todo>>
      /\ live' = {} /\ wrong' = {}
      /\ UNCHANGED <<plan, iface, version, client, pending, Device_ID, dataCallCids, calls>>

Next ==
  \/ setupDataCall
  \/ \E cid \in Cids : deactivateDataCall(cid) \/ CallDropped(cid)
  \/ \E m \in MethodsOf[version] : Call(m)
  \/ NoRequestInfo
  \/ \E b \in -1 .. 15 : OutOfMemory(b) \/ Truncated(b)
  \/ CopiesFromNull
  \/ Refuse
  \/ HandOver
  \/ VendorReturns
  \/ \E i \in DOMAIN pending : \E p \in Payloads(pending[i].plan.request) :
       \/ CompleteLocal(i, p)
       \/ \E e \in {"SUCCESS", "GENERIC_FAILURE"} :
            \/ Complete(i, e, p)
            \/ \E cid \in (Cids \ DOMAIN calls) \cup {FREE} : CompleteSetup(i, e, p, cid)
  \/ \E u \in Indications : \E p \in IndicationPayloads(u) : Indicate(u, p)

Spec == Init /\ [][Next]_vars
-----------------------------------------------------------------------------
(* Properties. *)

\* What my_enqueue clears and what the methods free are blocks they allocated,
\* each once.  The exception is in clearPendingBuffer: of several profiles it
\* frees each, but they share one block.
FreesOnlyBlocks ==
  \A b \in wrong : b > 15

\* No string copied for a request is left allocated when the request is with the
\* vendor library or refused: the copies hold PINs and messages, and
\* memsetAndFreeStrings is where they are wiped.  The exception is the one copy that
\* was found truncated.
StringsReclaimed ==
  plan = NoPlan => \A b \in live : b <= 0 \/ said = Truncation(b)

\* Whatever fails on the way of a request to the vendor library, its blocks are freed
\* once and none of its strings is left behind but a truncated one.
RequestMemorySound == FreesOnlyBlocks /\ StringsReclaimed

\* No answer hides an error of the vendor library, and none invents an error but
\* INVALID_RESPONSE for a payload that cannot be read; only the answer to
\* DEVICE_IDENTITY is the service's own.
ErrorNeverHidden ==
  said.kind = "answer" =>
    \/ said.error = said.e
    \/ said.e = "SUCCESS" /\ said.error = "INVALID_RESPONSE"

\* A successful answer with the payload ril.h declares reaches the client as a
\* success, and an indication with the payload ril.h declares is not dropped.
\* The exceptions: RIL_Data_Call_Response_v11, for which the service expects v6,
\* and setSimCardPower.
ConformingAccepted ==
  /\ said.kind = "answer" /\ said.e = "SUCCESS" /\ said.method # "setSimCardPower"
       /\ said.payload \in DeclaredResponse[said.request] \ One("Data_Call_Response_v11") =>
       said.error = "SUCCESS"
  /\ said.kind = "indication" /\ said.payload \in NamedRow(Indications, said.name)[3] =>
       said.accepted

\* The client learns of every error and of nothing but the errors there were.
AnswersFaithful == ErrorNeverHidden /\ ConformingAccepted

\* The lengths for which a function reads more elements than it made sure of: string
\* answers about the registration that are neither short nor complete, an empty
\* payload where one int is read, and two indications of the vendor's own.
ReadPast(name, as) ==
  CASE name = "VOICE_REGISTRATION_STATE" -> 5 .. 13
    [] name = "DATA_REGISTRATION_STATE" -> {5}
    [] name = "INCOMING_CALL_INDICATION" -> 0 .. 4
    [] name = "CALL_INFO_INDICATION" -> {1}
    [] OTHER -> IF as = "int" THEN {0} ELSE {}

\* The response and indication functions read only elements the payload has, whatever
\* its length, but for exactly the lengths ReadPast names; and they read them as what
\* they are, but for RIL_CellInfo_v12 records.
ReadsWithinPayload ==
  said.kind \in {"answer", "indication"} /\ said.as # "pointer to CellInfo" /\ said.read # {} =>
    LET name == IF said.kind = "answer" THEN said.request ELSE said.name IN
    /\ said.as \in {"any", said.payload.type}
    /\ said.read \subseteq 0 .. said.payload.count - 1
         <=> said.payload.count \notin ReadPast(name, said.as)

\* What the vendor library is handed is what ril.h declares for the request
\* (where both give the number of elements of the same type), for a library of the
\* version the header describes.  setBarringPassword is the exception: it drops the
\* facility and passes two strings, where ril.h declares the facility, the old and
\* the new password.
DataAsDeclared ==
  version >= 15 /\ plan # NoPlan /\ method # "setBarringPassword"
    /\ (\E d \in DeclaredData[plan.request] : d.type = plan.data.type) =>
    plan.data \in DeclaredData[plan.request]

\* The method a callback answers.
Answers(m) ==
  CASE m = "getImsiForApp" -> "getIMSIForApp"
    [] m = "hangup" -> "hangupConnection"
    [] OTHER -> m

\* A method is answered through the callback that belongs to it.  Three are not:
\* setSimCardPower, whose vendor requests fall on rows of s_commands that belong
\* to others; hangupForegroundResumeBackground, whose response function calls its
\* neighbour; and the requests of incomingCallInd and registrationSuspendInd, which
\* no client made, when they run out of memory (the row of the first has no
\* function to call).
AnsweredAsCalled ==
  /\ said.kind = "crash" /\ said.cause = "no response function" => said.local
  /\ said.kind = "answer" /\ ~said.local
       /\ said.method \notin {"setSimCardPower", "hangupForegroundResumeBackground"} =>
       said.callback = Answers(said.method)

\* An indication is handled by the row of s_unsolResponses that bears its name:
\* send_unsolResponse computes the row from the number alone.  The numbers after
\* MODEM_RESTART have no row and fall on vendor rows without a function.
IndicationIsOwn ==
  /\ said.kind = "indication" => said.row = said.name
  /\ said.kind = "unhandled" =>
       said.row = said.name \/ \E u \in UnsolRows : u[1] = said.name /\ u[2] > 1047

\* A request and an indication keep their identity on the way through the tables: the
\* vendor library gets the data of the request, its answer goes to the callback of
\* the method, and an indication to its own row.
HandledByOwnRow == DataAsDeclared /\ AnsweredAsCalled /\ IndicationIsOwn

\* The interface a setupDataCall asks for carries no other data call of the client,
\* unless all four are taken.
InterfaceIsFree ==
  /\ \A c, d \in DOMAIN calls : calls[c] = calls[d] /\ calls[c] # 0 => c = d
  /\ \A i \in DOMAIN pending : pending[i].method = "setupDataCall" /\ pending[i].iface # 0 =>
       \A c \in DOMAIN calls : calls[c] # pending[i].iface
=============================================================================
