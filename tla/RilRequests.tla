----------------------------- MODULE RilRequests -----------------------------
(***************************************************************************)
(* The life of a request in hal/libril/ril.cpp.  A thread allocates a      *)
(* RequestInfo, links it into the pending list of its SIM slot and hands   *)
(* it to the vendor library: the HIDL thread for the client's requests,    *)
(* and also a thread of the vendor library for local ones, whose answers   *)
(* go nowhere.  Threads of the vendor library acknowledge and complete it, *)
(* which unlinks it, answers the client and frees it.  The pending lists   *)
(* have a mutex; a RequestInfo is read without it once it has been found   *)
(* there.                                                                  *)
(*                                                                         *)
(* This is the program as Android.mk builds it, without                    *)
(* RIL_CHANNEL_QUEUING: my_enqueue sends every request at once.            *)
(***************************************************************************)
EXTENDS Integers

CONSTANTS Addr,       \* addresses calloc returns for RequestInfo structures
          Slots,      \* RIL_SOCKET_1, RIL_SOCKET_2
          Workers,    \* threads of the vendor library
          MaxSerial,  \* bound on the serials the client uses
          Callers,    \* threads that issue requests
          Hidl,       \* the one that issues the client's
          MaxLocal,   \* bound on the local requests
          None        \* NULL

ASSUME CallerAssumption == Hidl \in Callers /\ MaxLocal \in Nat
ASSUME RequestAssumption == MaxSerial \in Nat

Serials == 1 .. MaxSerial

\* handled: the row of s_commands has a response function.
RequestInfo == [token : 0 .. MaxSerial, slot : Slots, handled : BOOLEAN, wasAckSent : BOOLEAN]

ASSUME NoneAssumption == None \notin Addr /\ None \notin RequestInfo

VARIABLES
  info,        \* info[a]: the RequestInfo at a, or None; token 0 stands for a local
               \* request (serial -1)
  pending,     \* pending[s]: s_pendingRequests of slot s
  issued,      \* serials the client has used
  answers,     \* answers[n]: responses the client got for serial n
  lost,        \* serials given up without an answer
  locals,      \* local requests so far
  caller,      \* caller[th]: [pc, req], a dispatch function with its pRI
  worker,      \* worker[w]: [pc, req]
  vendor,      \* requests handed to the vendor library and not completed
  crashed      \* the process has died

client == <<issued, answers, lost, locals>>
vars == <<info, pending, client, caller, worker, vendor, crashed>>

NoRequest == [pc |-> "idle", req |-> None]

Init ==
  /\ info = [a \in Addr |-> None]
  /\ pending = [s \in Slots |-> {}]
  /\ issued = 0
  /\ answers = [n \in Serials |-> 0]
  /\ lost = {}
  /\ locals = 0
  /\ caller = [th \in Callers |-> NoRequest]
  /\ worker = [w \in Workers |-> NoRequest]
  /\ vendor = {}
  /\ crashed = FALSE

\* The response function; what a local request gets goes to nobody.
Answer(a) == answers' = IF info[a].token = 0 THEN answers
                        ELSE [answers EXCEPT ![info[a].token] = @ + 1]

\* A request ends without an answer.
GiveUp(a) == lost' = lost \cup ({info[a].token} \ {0})
-----------------------------------------------------------------------------
(* Issuing a request *)

Set(th, r) == caller' = [caller EXCEPT ![th] = r]

\* Who may issue what: serial -1 makes a request local.
Issue(th, serial) ==
  /\ ~ crashed
  /\ caller[th].pc = "idle"
  /\ IF serial = -1 THEN locals < MaxLocal /\ locals' = locals + 1 /\ UNCHANGED issued
     ELSE th = Hidl /\ issued < MaxSerial /\ issued' = issued + 1 /\ UNCHANGED locals

\* addRequestToList, called by a dispatch function.
addRequestToList(th, a, s, h, serial) ==
  /\ Issue(th, serial)
  /\ info[a] = None
  /\ info' = [info EXCEPT ![a] = [token |-> IF serial = -1 THEN 0 ELSE issued', slot |-> s,
                                  handled |-> h, wasAckSent |-> FALSE]]
  /\ pending' = [pending EXCEPT ![s] = @ \cup {a}]
  /\ Set(th, [pc |-> "dispatch", req |-> a])
  /\ UNCHANGED <<answers, lost, worker, vendor, crashed>>

\* addRequestToList returns NULL, and the dispatch function just returns.
OutOfMemory(th, serial) ==
  /\ Issue(th, serial)
  /\ lost' = IF serial = -1 THEN lost ELSE lost \cup {issued'}
  /\ UNCHANGED <<info, pending, answers, caller, worker, vendor, crashed>>

\* copyHidlStringToRil finds the copy truncated: no answer, and the RequestInfo
\* stays in the list.
Truncated(th) ==
  /\ ~ crashed
  /\ caller[th].pc = "dispatch"
  /\ GiveUp(caller[th].req)
  /\ Set(th, NoRequest)
  /\ UNCHANGED <<info, pending, issued, answers, locals, worker, vendor, crashed>>

\* Faulty variant of DispatchFails: the dispatch function goes on.
DispatchFails_NoReturn(th) ==
  /\ ~ crashed
  /\ caller[th].pc = "dispatch"
  /\ info[caller[th].req].handled
  /\ Answer(caller[th].req)
  /\ UNCHANGED <<info, pending, issued, lost, locals, caller, worker, vendor, crashed>>

\* The dispatch function runs out of memory, or does not support the request:
\* sendErrorResponse.  The RequestInfo stays where it is.
DispatchFails(th) ==
  /\ ~ crashed
  /\ caller[th].pc = "dispatch"
  /\ info[caller[th].req].handled
  /\ Answer(caller[th].req)
  /\ Set(th, NoRequest)
  /\ UNCHANGED <<info, pending, issued, lost, locals, worker, vendor, crashed>>

\* sendErrorResponse does not ask whether there is a response function.
DispatchCrashes(th) ==
  /\ ~ crashed
  /\ caller[th].pc = "dispatch"
  /\ ~ info[caller[th].req].handled
  /\ crashed' = TRUE
  /\ UNCHANGED <<info, pending, client, caller, worker, vendor>>

\* Faulty variant of my_enqueue: onRequest is not called.
my_enqueue_Forgets(th) ==
  /\ ~ crashed
  /\ caller[th].pc = "dispatch"
  /\ Set(th, NoRequest)
  /\ UNCHANGED <<info, pending, client, worker, vendor, crashed>>

\* my_enqueue calls onRequest, and does not touch the RequestInfo afterwards.
my_enqueue(th) ==
  /\ ~ crashed
  /\ caller[th].pc = "dispatch"
  /\ vendor' = vendor \cup {caller[th].req}
  /\ Set(th, NoRequest)
  /\ UNCHANGED <<info, pending, client, worker, crashed>>
-----------------------------------------------------------------------------
(* The vendor library and what it calls *)

At(w, l) == worker' = [worker EXCEPT ![w].pc = l]

\* RIL_onRequestAck: the request is found in the list, under the mutex ...
RIL_onRequestAck(w, a) ==
  /\ ~ crashed
  /\ worker[w].pc = "idle"
  /\ a \in vendor
  /\ \A v \in Workers : worker[v].req # a
  /\ ~ info[a].wasAckSent
  /\ info' = [info EXCEPT ![a].wasAckSent = TRUE]
  /\ worker' = [worker EXCEPT ![w] = [pc |-> "acking", req |-> a]]
  /\ UNCHANGED <<pending, client, caller, vendor, crashed>>

\* ... and then read without it, to acknowledge its serial.
AcknowledgeRequest(w) ==
  /\ ~ crashed
  /\ worker[w].pc = "acking"
  /\ worker' = [worker EXCEPT ![w] = NoRequest]
  /\ UNCHANGED <<info, pending, client, caller, vendor, crashed>>

\* Faulty variant of checkAndDequeueRequestInfo: the request stays in the list.
checkAndDequeueRequestInfo_Keep(w, a) ==
  /\ ~ crashed
  /\ worker[w].pc = "idle"
  /\ a \in vendor
  /\ \A v \in Workers : worker[v].req # a
  /\ pending' = pending
  /\ vendor' = vendor \ {a}
  /\ worker' = [worker EXCEPT ![w] = [pc |-> "respond", req |-> a]]
  /\ UNCHANGED <<info, client, caller, crashed>>

\* RIL_onRequestComplete, once per request and not before an acknowledgement of
\* it has returned: the request leaves the list, under the mutex.
checkAndDequeueRequestInfo(w, a) ==
  /\ ~ crashed
  /\ worker[w].pc = "idle"
  /\ a \in vendor
  /\ \A v \in Workers : worker[v].req # a
  /\ a \in pending[info[a].slot]
  /\ pending' = [pending EXCEPT ![info[a].slot] = @ \ {a}]
  /\ vendor' = vendor \ {a}
  /\ worker' = [worker EXCEPT ![w] = [pc |-> "respond", req |-> a]]
  /\ UNCHANGED <<info, client, caller, crashed>>

\* The response function answers the client, where the row has one; a row without
\* one is logged, and the client waits.
Respond(w) ==
  /\ ~ crashed
  /\ worker[w].pc = "respond"
  /\ info[worker[w].req].handled
  /\ Answer(worker[w].req)
  /\ At(w, "free")
  /\ UNCHANGED <<info, pending, issued, lost, locals, caller, vendor, crashed>>

NotHandled(w) ==
  /\ ~ crashed
  /\ worker[w].pc = "respond"
  /\ ~ info[worker[w].req].handled
  /\ GiveUp(worker[w].req)
  /\ At(w, "free")
  /\ UNCHANGED <<info, pending, issued, answers, locals, caller, vendor, crashed>>

\* free(pRI)
FreeInfo(w) ==
  /\ ~ crashed
  /\ worker[w].pc = "free"
  /\ info' = [info EXCEPT ![worker[w].req] = None]
  /\ worker' = [worker EXCEPT ![w] = NoRequest]
  /\ UNCHANGED <<pending, client, caller, vendor, crashed>>

Complete(w) ==
  AcknowledgeRequest(w) \/ Respond(w) \/ NotHandled(w) \/ FreeInfo(w)

\* Nothing more happens: the client is done, or the process is dead.
Quiet ==
  /\ crashed \/ (vendor = {} /\ \A th \in Callers : caller[th].pc = "idle")
  /\ UNCHANGED vars

Next ==
  \/ \E th \in Callers :
       \/ \E a \in Addr, s \in Slots, h \in BOOLEAN, serial \in {-1, 1} :
            addRequestToList(th, a, s, h, serial)
       \/ \E serial \in {-1, 1} : OutOfMemory(th, serial)
       \/ DispatchFails(th) \/ DispatchCrashes(th) \/ Truncated(th)
       \/ my_enqueue(th)
  \/ \E w \in Workers :
       \/ \E a \in Addr : RIL_onRequestAck(w, a) \/ checkAndDequeueRequestInfo(w, a)
       \/ Complete(w)
  \/ Quiet

Spec == Init /\ [][Next]_vars

\* The threads run, and the vendor library completes what it was given.
Fairness ==
  /\ \A th \in Callers : WF_vars(my_enqueue(th))
  /\ \A w \in Workers : WF_vars(Complete(w))
  /\ \A a \in Addr : SF_vars(\E w \in Workers : checkAndDequeueRequestInfo(w, a))

FairSpec == Spec /\ Fairness
-----------------------------------------------------------------------------
CallerState == [pc : {"idle", "dispatch"}, req : Addr \cup {None}]
WorkerState == [pc : {"idle", "acking", "respond", "free"}, req : Addr \cup {None}]

\* Types of the variables.
TypeOK ==
  /\ info \in [Addr -> RequestInfo \cup {None}]
  /\ pending \in [Slots -> SUBSET Addr]
  /\ issued \in 0 .. MaxSerial
  /\ answers \in [Serials -> Nat]
  /\ lost \subseteq Serials
  /\ locals \in 0 .. MaxLocal
  /\ caller \in [Callers -> CallerState]
  /\ worker \in [Workers -> WorkerState]
  /\ vendor \subseteq Addr
  /\ crashed \in BOOLEAN

\* Everything that can still reach a RequestInfo.
Reachable ==
  (UNION {pending[s] : s \in Slots}) \cup vendor
    \cup {caller[th].req : th \in Callers} \cup {worker[w].req : w \in Workers}

\* No list, no thread and no token of the vendor library refers to a RequestInfo
\* that has been freed, although calloc reuses addresses; and a request the vendor
\* library has is still in the pending list of its slot, so that its completion is
\* not refused as an invalid token.
NoDanglingRequest ==
  /\ TypeOK
  /\ \A a \in Reachable \ {None} : info[a] # None
  /\ \A a \in vendor : a \in pending[info[a].slot]

\* No request gets a second answer, also when a dispatch function has failed or
\* the address is reused while the vendor library completes others.
AnsweredOnce == \A n \in Serials : answers[n] <= 1

\* A request whose row has a response function is answered if the vendor library
\* completes what it gets, except where a dispatch function gives up without
\* sendErrorResponse or the process dies.
EveryRequestAnswered ==
  \A n \in Serials :
    (\E a \in Addr : info[a] # None /\ info[a].token = n /\ info[a].handled)
      ~> (answers[n] = 1 \/ n \in lost \/ crashed)
=============================================================================
