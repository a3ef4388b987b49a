-------------------------- MODULE RilRequestsProofs --------------------------
(***************************************************************************)
(* Proofs of the safety properties of RilRequests, for any number of       *)
(* addresses, slots, callers, vendor threads and requests.                 *)
(***************************************************************************)
EXTENDS RilRequests, TLAPS

\* Where the RequestInfo structures are: the pending list of a slot holds allocated
\* ones of that slot, and what the vendor library has is in the pending list of its
\* slot.
Linked ==
  /\ \A s \in Slots : \A a \in pending[s] : info[a] # None /\ info[a].slot = s
  /\ \A a \in vendor : info[a] # None /\ a \in pending[info[a].slot]

\* What a caller is sending is in the pending list of its slot, and no two callers
\* send the same request.
Sending ==
  /\ \A th \in Callers : caller[th].pc = "idle" <=> caller[th].req = None
  /\ \A th \in Callers : caller[th].req # None =>
       info[caller[th].req] # None /\ caller[th].req \in pending[info[caller[th].req].slot]
  /\ \A th, u \in Callers : caller[th].req = caller[u].req /\ caller[th].req # None => th = u

\* No two vendor threads work on the same request, and one that has been unlinked
\* stays allocated until its thread frees it.
Working ==
  /\ \A w \in Workers : worker[w].pc = "idle" <=> worker[w].req = None
  /\ \A w \in Workers : worker[w].pc = "acking" => worker[w].req \in vendor
  /\ \A w \in Workers : worker[w].pc \notin {"idle", "acking"} =>
       info[worker[w].req] # None /\ \A s \in Slots : worker[w].req \notin pending[s]
  /\ \A w, v \in Workers : worker[w].req = worker[v].req /\ worker[w].req # None => w = v

\* A request is with its caller or in the vendor library, not both.
OnePlace == \A th \in Callers : caller[th].req \notin vendor

\* Serials are used once.
Tokens ==
  /\ \A a \in Addr : info[a] # None => info[a].token <= issued
  /\ \A a, b \in Addr : info[a] # None /\ info[b] # None /\ info[a].token = info[b].token
                          /\ info[a].token # 0 => a = b

Unanswered == {a \in Addr : info[a] # None /\ (info[a].token # 0 => answers[info[a].token] = 0)}

\* A request that can still be answered has not been.
Open ==
  /\ \A n \in Serials : answers[n] <= 1 /\ (n > issued => answers[n] = 0)
  /\ vendor \subseteq Unanswered
  /\ \A th \in Callers : caller[th].req # None => caller[th].req \in Unanswered
  /\ \A w \in Workers : worker[w].pc = "respond" => worker[w].req \in Unanswered

\* The inductive invariant.
IInv == TypeOK /\ Linked /\ Sending /\ Working /\ OnePlace /\ Tokens /\ Open
-----------------------------------------------------------------------------
\* A thread without a request.
LEMMA NoRequestType ==
  /\ NoRequest \in CallerState /\ NoRequest \in WorkerState
  /\ NoRequest.pc = "idle"
  /\ NoRequest.req = None
  BY Zenon DEF NoRequest, CallerState, WorkerState

\* A step that leaves the requests, the lists and the callers alone keeps what is
\* said about them.
LEMMA ListsKept ==
  ASSUME Linked, Sending, OnePlace, Tokens,
         UNCHANGED <<info, pending, issued, caller, vendor, crashed>>
  PROVE  Linked' /\ Sending' /\ OnePlace' /\ Tokens'
<1>1. Linked'
  BY Zenon DEF Linked
<1>3. Sending'
  BY Zenon DEF Sending
<1>4. OnePlace'
  BY Zenon DEF OnePlace
<1>5. Tokens'
  BY Zenon DEF Tokens
<1> QED BY Zenon, <1>1, <1>3, <1>4, <1>5

\* The initial states satisfy the invariant.
LEMMA InitIInv == Init => IInv
<1> SUFFICES ASSUME Init PROVE IInv
  BY Zenon
<1>1. TypeOK
  <2>1. caller \in [Callers -> CallerState]
    BY Zenon, NoRequestType DEF Init
  <2>2. worker \in [Workers -> WorkerState]
    BY Zenon, NoRequestType DEF Init
  <2>3. crashed \in BOOLEAN
    BY Zenon DEF Init
  <2>4. /\ info \in [Addr -> RequestInfo \cup {None}]
        /\ pending \in [Slots -> SUBSET Addr]
        /\ issued \in 0 .. MaxSerial /\ locals \in 0 .. MaxLocal
        /\ answers \in [Serials -> Nat]
        /\ lost \subseteq Serials /\ vendor \subseteq Addr
    BY RequestAssumption, CallerAssumption DEF Init
  <2> QED BY Zenon, <2>1, <2>2, <2>3, <2>4 DEF TypeOK
<1>2. \A s \in Slots : pending[s] = {}
  BY Zenon DEF Init
<1>3. \A th \in Callers : caller[th].pc = "idle" /\ caller[th].req = None
  BY Zenon, NoRequestType DEF Init
<1>4. \A w \in Workers : worker[w].pc = "idle" /\ worker[w].req = None
  BY Zenon, NoRequestType DEF Init
<1>5. vendor = {} /\ \A a \in Addr : info[a] = None
  BY Zenon DEF Init
<1>6. \A n \in Serials : answers[n] = 0
  BY Zenon DEF Init
<1>7. Linked /\ Sending /\ Working /\ OnePlace
  BY <1>2, <1>3, <1>4, <1>5 DEF Linked, Sending, Working, OnePlace
<1>8. Tokens /\ Open
  BY <1>2, <1>3, <1>4, <1>5, <1>6 DEF Tokens, Open
<1> QED BY Zenon, <1>1, <1>7, <1>8 DEF IInv

-----------------------------------------------------------------------------
(* The threads that issue requests *)

\* A caller has left its request or sent it.
LEMMA CallerLeaves ==
  ASSUME IInv, NEW th \in Callers, caller[th].pc # "idle", Set(th, NoRequest),
         vendor' = vendor \/ vendor' = vendor \cup {caller[th].req},
         lost' \subseteq Serials,
         UNCHANGED <<info, pending, issued, answers, locals, worker, crashed>>
  PROVE  IInv'
<1> DEFINE a == caller[th].req
<1>1. /\ caller' \in [Callers -> CallerState] /\ caller'[th].req = None /\ caller'[th].pc = "idle"
      /\ \A u \in Callers \ {th} : caller'[u] = caller[u]
  BY Zenon, NoRequestType DEF IInv, TypeOK, Set
<1>2. a \in Addr /\ info[a] # None /\ a \in pending[info[a].slot]
  BY Zenon, NoneAssumption DEF IInv, TypeOK, CallerState, Sending
<1>3. TypeOK'
  BY Zenon, <1>1, <1>2 DEF IInv, TypeOK
<1>4. Linked' /\ Tokens'
  BY <1>2 DEF IInv, Linked, Tokens
<1>5. Sending'
  BY <1>1 DEF IInv, Sending
<1>6. Working'
  BY Zenon DEF IInv, Working
<1>7. OnePlace'
  BY <1>1, <1>2, NoneAssumption DEF IInv, OnePlace, Sending, TypeOK
<1>8. Open'
  <2>1. Unanswered' = Unanswered
    BY Zenon DEF Unanswered
  <2>2. vendor' \subseteq Unanswered
    BY <1>2, <2>1, NoneAssumption DEF IInv, Open
  <2>3. \A u \in Callers : caller'[u].req # None => caller'[u].req \in Unanswered
    BY Zenon, <1>1 DEF IInv, Open
  <2> QED BY Zenon, <2>1, <2>2, <2>3 DEF IInv, Open
<1> QED BY Zenon, <1>3, <1>4, <1>5, <1>6, <1>7, <1>8 DEF IInv

\* The serial of an allocated request that is given up is one the client used.
LEMMA GiveUpType ==
  ASSUME IInv, NEW a \in Addr, info[a] # None, GiveUp(a)
  PROVE  lost' \subseteq Serials
<1>1. info[a] \in RequestInfo
  BY Zenon DEF IInv, TypeOK
<1>2. {info[a].token} \ {0} \subseteq Serials
  BY <1>1, RequestAssumption DEF RequestInfo, Serials
<1> QED BY Zenon, <1>2 DEF GiveUp, IInv, TypeOK

\* Sending a request and giving it up are such steps.
LEMMA LeavingSteps ==
  ASSUME IInv, NEW th \in Callers, my_enqueue(th) \/ Truncated(th)
  PROVE  IInv'
<1>1. caller[th].pc # "idle" /\ Set(th, NoRequest)
  BY Zenon DEF my_enqueue, Truncated
<1>2. UNCHANGED <<info, pending, issued, answers, locals, worker, crashed>>
  BY Zenon DEF my_enqueue, Truncated, client
<1>3. vendor' = vendor \/ vendor' = vendor \cup {caller[th].req}
  BY Zenon DEF my_enqueue, Truncated
<1>4. lost' \subseteq Serials
  <2>1. caller[th].req \in Addr /\ info[caller[th].req] # None
    BY Zenon, <1>1, NoneAssumption DEF IInv, TypeOK, CallerState, Sending
  <2>2. CASE Truncated(th)
    BY Zenon, <2>1, <2>2, GiveUpType DEF Truncated
  <2>3. CASE my_enqueue(th)
    BY Zenon, <2>3 DEF my_enqueue, client, IInv, TypeOK
  <2> QED BY Zenon, <2>2, <2>3
<1> QED BY Zenon, <1>1, <1>2, <1>3, <1>4, CallerLeaves

\* Answering a request that has no answer yet gives it one, and concerns no other.
LEMMA AnswerSettles ==
  ASSUME IInv, NEW a \in Addr, a \in Unanswered, Answer(a), UNCHANGED <<info, issued>>
  PROVE  /\ answers' \in [Serials -> Nat]
         /\ \A m \in Serials : answers'[m] <= 1 /\ (m > issued' => answers'[m] = 0)
         /\ Unanswered \ {a} \subseteq Unanswered'
<1> DEFINE n == info[a].token
<1>1. info[a] # None /\ info[a] \in RequestInfo
  BY Zenon DEF Unanswered, IInv, TypeOK
<1>2. n \in 0 .. MaxSerial /\ (n # 0 => n \in Serials /\ answers[n] = 0 /\ n <= issued)
  <2>1. n \in 0 .. MaxSerial /\ n <= issued
    BY Zenon, <1>1 DEF RequestInfo, IInv, Tokens
  <2>2. n # 0 => n \in Serials /\ answers[n] = 0
    BY <2>1, RequestAssumption DEF Serials, Unanswered
  <2> QED BY Zenon, <2>1, <2>2
<1>3. /\ answers' \in [Serials -> Nat]
      /\ n # 0 => answers'[n] = 1
      /\ \A m \in Serials \ {n} : answers'[m] = answers[m]
  <2>1. answers \in [Serials -> Nat]
    BY Zenon DEF IInv, TypeOK
  <2>2. answers' = IF n = 0 THEN answers ELSE [answers EXCEPT ![n] = @ + 1]
    BY Zenon DEF Answer
  <2> QED BY <1>2, <2>1, <2>2
<1>4. Unanswered \ {a} \subseteq Unanswered'
  <2> SUFFICES ASSUME NEW b \in Addr, b \in Unanswered, b # a, info[b].token # 0
               PROVE  answers'[info[b].token] = 0
    BY Zenon DEF Unanswered
  <2>1. info[b].token # n /\ info[b].token \in Serials
    BY <1>1, RequestAssumption DEF IInv, TypeOK, Tokens, RequestInfo, Serials, Unanswered
  <2> QED BY Zenon, <1>3, <2>1 DEF Unanswered
<1> HIDE DEF n
<1>5. ASSUME NEW m \in Serials PROVE answers'[m] <= 1 /\ (m > issued' => answers'[m] = 0)
  <2>1. CASE m = n
    BY <1>2, <1>3, <2>1, RequestAssumption DEF IInv, TypeOK, Serials
  <2>2. CASE m # n
    BY Zenon, <1>3, <2>2 DEF IInv, Open
  <2> QED BY Zenon, <2>1, <2>2
<1> QED BY Zenon, <1>3, <1>4, <1>5

\* A dispatch function that answers with an error keeps no way to answer again.
LEMMA DispatchFailsStep ==
  ASSUME IInv, NEW th \in Callers, DispatchFails(th)
  PROVE  IInv'
<1> DEFINE a == caller[th].req
<1>1. /\ caller[th].pc = "dispatch" /\ Answer(a)
      /\ UNCHANGED <<info, pending, issued, lost, locals, worker, vendor, crashed>>
  BY Zenon DEF DispatchFails
<1>2. /\ caller' \in [Callers -> CallerState] /\ caller'[th].req = None /\ caller'[th].pc = "idle"
      /\ \A u \in Callers \ {th} : caller'[u] = caller[u]
  BY Zenon, NoRequestType DEF IInv, TypeOK, DispatchFails, Set
<1>3. a \in Addr /\ info[a] \in RequestInfo /\ info[a] # None /\ a \in pending[info[a].slot]
  BY Zenon, <1>1, NoneAssumption DEF IInv, TypeOK, CallerState, Sending
<1>4. a \in Unanswered
  BY Zenon, <1>3, NoneAssumption DEF IInv, Open
<1>5. /\ answers' \in [Serials -> Nat]
      /\ \A m \in Serials : answers'[m] <= 1 /\ (m > issued' => answers'[m] = 0)
      /\ Unanswered \ {a} \subseteq Unanswered'
  BY Zenon, <1>1, <1>3, <1>4, AnswerSettles
<1>6. TypeOK'
  BY Zenon, <1>1, <1>2, <1>5 DEF IInv, TypeOK
<1>7. Linked' /\ Tokens' /\ Working'
  BY Zenon, <1>1 DEF IInv, Linked, Tokens, Working
<1>8. Sending'
  BY <1>1, <1>2 DEF IInv, Sending
<1>9. OnePlace'
  BY Zenon, <1>1, <1>2, NoneAssumption DEF IInv, OnePlace, TypeOK
<1>10. Open'
  <2>1. a \notin vendor /\ vendor \subseteq Unanswered
    BY Zenon, <1>1 DEF IInv, OnePlace, Open
  <2>2. \A u \in Callers : caller'[u].req # None => caller'[u].req \in Unanswered \ {a}
    BY <1>2, <1>3, NoneAssumption DEF IInv, Sending, Open
  <2>3. \A w \in Workers : worker[w].pc = "respond" => worker[w].req \in Unanswered \ {a}
    BY Zenon, <1>3 DEF IInv, Working, RequestInfo, Open
  <2> QED BY Zenon, <1>1, <1>5, <2>1, <2>2, <2>3 DEF Open
<1> QED BY Zenon, <1>6, <1>7, <1>8, <1>9, <1>10 DEF IInv

\* The process dies where it is.
LEMMA DispatchCrashesStep ==
  ASSUME IInv, NEW th \in Callers, DispatchCrashes(th)
  PROVE  IInv'
<1>1. /\ crashed' = TRUE
      /\ UNCHANGED <<info, pending, issued, answers, lost, locals, caller, worker, vendor>>
  BY Zenon DEF DispatchCrashes, client
<1>2. TypeOK' /\ Linked' /\ Tokens'
  BY Zenon, <1>1 DEF IInv, TypeOK, Linked, Tokens
<1>3. Sending' /\ Working' /\ OnePlace'
  BY Zenon, <1>1 DEF IInv, Sending, Working, OnePlace
<1>4. Open'
  BY Zenon, <1>1 DEF IInv, Open, Unanswered
<1> QED BY Zenon, <1>2, <1>3, <1>4 DEF IInv

\* What Issue gives: a new serial, unless the request is local.
LEMMA IssueSerial ==
  ASSUME IInv, NEW th \in Callers, NEW serial \in {-1, 1}, Issue(th, serial)
  PROVE  /\ issued \in Nat /\ issued' \in 0 .. MaxSerial /\ issued <= issued'
         /\ locals' \in 0 .. MaxLocal
         /\ serial # -1 => issued' = issued + 1
         /\ ~ crashed /\ caller[th].pc = "idle"
<1>1. issued \in 0 .. MaxSerial /\ locals \in 0 .. MaxLocal
  BY Zenon DEF IInv, TypeOK
<1>2. CASE serial = -1
  BY <1>1, <1>2, CallerAssumption, RequestAssumption DEF Issue
<1>3. CASE serial = 1
  BY <1>1, <1>3, CallerAssumption, RequestAssumption DEF Issue
<1> QED BY Zenon, <1>2, <1>3

\* A free address is nowhere, so a new request is in the pending list and nowhere
\* else.
LEMMA addRequestToListStep ==
  ASSUME IInv, NEW th \in Callers, NEW a \in Addr, NEW s \in Slots, NEW h \in BOOLEAN,
         NEW serial \in {-1, 1}, addRequestToList(th, a, s, h, serial)
  PROVE  IInv'
<1> DEFINE t == IF serial = -1 THEN 0 ELSE issued'
           f == [token |-> t, slot |-> s, handled |-> h, wasAckSent |-> FALSE]
           r == [pc |-> "dispatch", req |-> a]
<1>1. /\ issued \in Nat /\ issued' \in 0 .. MaxSerial /\ issued <= issued'
      /\ locals' \in 0 .. MaxLocal
      /\ serial # -1 => issued' = issued + 1
      /\ ~ crashed /\ caller[th].pc = "idle"
  BY Zenon, IssueSerial DEF addRequestToList
<1>2. /\ info[a] = None
      /\ info' = [info EXCEPT ![a] = f]
      /\ pending' = [pending EXCEPT ![s] = @ \cup {a}]
      /\ caller' = [caller EXCEPT ![th] = r]
      /\ UNCHANGED <<answers, lost, worker, vendor, crashed>>
  BY Zenon DEF addRequestToList, Set
<1>3. f \in RequestInfo /\ f # None /\ f.token = t /\ f.slot = s
  <2>1. t \in 0 .. MaxSerial
    BY <1>1, RequestAssumption
  <2> HIDE DEF t
  <2>2. f \in RequestInfo
    BY Zenon, <2>1 DEF RequestInfo
  <2> QED BY Zenon, <2>2, NoneAssumption
<1>4. r \in CallerState /\ r.pc = "dispatch" /\ r.req = a
  BY Zenon DEF CallerState
<1>t. t = 0 \/ t = issued + 1
  BY Zenon, <1>1
<1> HIDE DEF f, r, t
<1>5. /\ info' \in [Addr -> RequestInfo \cup {None}] /\ info'[a] = f
      /\ \A b \in Addr \ {a} : info'[b] = info[b]
  BY Zenon, <1>2, <1>3 DEF IInv, TypeOK
<1>6. /\ caller' \in [Callers -> CallerState] /\ caller'[th] = r
      /\ \A u \in Callers \ {th} : caller'[u] = caller[u]
  BY Zenon, <1>2, <1>4 DEF IInv, TypeOK
<1>7. /\ pending' \in [Slots -> SUBSET Addr] /\ pending'[s] = pending[s] \cup {a}
      /\ \A z \in Slots \ {s} : pending'[z] = pending[z]
  BY Zenon, <1>2 DEF IInv, TypeOK
<1>8. \A z \in Slots : a \notin pending[z]
  BY Zenon, <1>2 DEF IInv, Linked
<1>9. a \notin vendor
  BY Zenon, <1>2 DEF IInv, Linked
<1>10. \A u \in Callers : caller[u].req # a
  BY Zenon, <1>2, NoneAssumption DEF IInv, Sending
<1>11. \A w \in Workers : worker[w].req # a
  BY Zenon, <1>2, <1>9, NoneAssumption DEF IInv, Working, TypeOK, WorkerState
<1>13. TypeOK'
  BY Zenon, <1>1, <1>2, <1>5, <1>6, <1>7 DEF IInv, TypeOK
<1>14. Linked'
  <2>1. \A z \in Slots : \A b \in pending'[z] : info'[b] # None /\ info'[b].slot = z
    <3> SUFFICES ASSUME NEW z \in Slots, NEW b \in pending'[z] PROVE info'[b] # None /\ info'[b].slot = z
      BY Zenon
    <3>1. CASE b = a
      BY Zenon, <1>3, <1>5, <1>7, <1>8, <3>1
    <3>2. CASE b # a
      <4>1. pending[z] \subseteq Addr /\ \A c \in pending[z] : info[c] # None /\ info[c].slot = z
        BY Zenon DEF IInv, TypeOK, Linked
      <4> QED BY Zenon, <1>5, <1>7, <3>2, <4>1
    <3> QED BY Zenon, <3>1, <3>2
  <2>2. \A b \in vendor : info'[b] # None /\ b \in pending'[info'[b].slot]
    <3> SUFFICES ASSUME NEW b \in vendor PROVE info'[b] # None /\ b \in pending'[info'[b].slot]
      BY Zenon
    <3>1. b \in Addr /\ b # a /\ info[b] # None /\ info[b] \in RequestInfo /\ b \in pending[info[b].slot]
      BY <1>9 DEF IInv, TypeOK, Linked
    <3>2. info[b].slot \in Slots
      BY Zenon, <3>1 DEF RequestInfo
    <3> QED BY Zenon, <1>5, <1>7, <3>1, <3>2
  <2> QED BY Zenon, <1>2, <2>1, <2>2 DEF Linked
<1>16. Sending'
  <2>1. \A u \in Callers : caller'[u].pc = "idle" <=> caller'[u].req = None
    BY <1>4, <1>6, NoneAssumption DEF IInv, Sending
  <2>2. ASSUME NEW u \in Callers, caller'[u].req # None
        PROVE  info'[caller'[u].req] # None /\ caller'[u].req \in pending'[info'[caller'[u].req].slot]
    <3>1. CASE u = th
      BY Zenon, <1>3, <1>4, <1>5, <1>6, <1>7, <3>1
    <3>2. CASE u # th
      <4> DEFINE b == caller[u].req
      <4>1. caller'[u].req = b /\ b \in Addr /\ b # a /\ info[b] # None /\ b \in pending[info[b].slot]
        BY Zenon, <1>6, <1>10, <2>2, <3>2 DEF IInv, TypeOK, CallerState, Sending
      <4>2. info[b].slot \in Slots
        BY Zenon, <4>1 DEF IInv, TypeOK, RequestInfo
      <4> HIDE DEF b
      <4> QED BY Zenon, <1>5, <1>7, <4>1, <4>2
    <3> QED BY Zenon, <3>1, <3>2
  <2>3. \A u, v \in Callers : caller'[u].req = caller'[v].req /\ caller'[u].req # None => u = v
    BY <1>4, <1>6, <1>10 DEF IInv, Sending
  <2> QED BY Zenon, <2>1, <2>2, <2>3 DEF Sending
<1>17. Working'
  <2>1. \A w \in Workers : worker[w].pc \notin {"idle", "acking"} =>
          info'[worker[w].req] # None /\ \A z \in Slots : worker[w].req \notin pending'[z]
    <3> SUFFICES ASSUME NEW w \in Workers, worker[w].pc \notin {"idle", "acking"}
                 PROVE  info'[worker[w].req] # None /\ \A z \in Slots : worker[w].req \notin pending'[z]
      BY Zenon
    <3>1. /\ worker[w].req \in Addr /\ info[worker[w].req] # None
          /\ \A z \in Slots : worker[w].req \notin pending[z]
      BY Zenon DEF IInv, Working, TypeOK, WorkerState
    <3> QED BY Zenon, <1>5, <1>7, <1>11, <3>1
  <2> QED BY Zenon, <1>2, <2>1 DEF IInv, Working
<1>18. OnePlace'
  <2>1. OnePlace
    BY Zenon DEF IInv
  <2>2. ASSUME NEW u \in Callers PROVE caller'[u].req = a \/ caller'[u] = caller[u]
    BY Zenon, <1>4, <1>6
  <2> QED BY <1>2, <1>9, <2>1, <2>2 DEF OnePlace
<1>19. Tokens'
  <2>1. \A b \in Addr : info[b] # None => info[b].token \in Nat /\ info[b].token <= issued
    BY RequestAssumption DEF IInv, TypeOK, Tokens, RequestInfo
  <2>2. \A b \in Addr : info'[b] # None => info'[b].token <= issued'
    BY <1>1, <1>3, <1>5, <2>1 DEF t
  <2>3. ASSUME NEW b \in Addr, NEW c \in Addr, info'[b] # None, info'[c] # None,
               info'[b].token = info'[c].token, info'[b].token # 0, b # c
        PROVE  FALSE
    <3>1. CASE b # a /\ c # a
      BY Zenon, <1>5, <2>3, <3>1 DEF IInv, Tokens
    <3>2. CASE b = a
      <4>1. info'[b].token = t /\ info'[c] = info[c] /\ info[c] # None
        BY Zenon, <1>3, <1>5, <2>3, <3>2
      <4>2. info[c].token = t /\ t # 0 /\ info[c].token <= issued
        BY Zenon, <2>1, <2>3, <4>1
      <4> QED BY <1>1, <1>t, <4>2
    <3>3. CASE c = a
      <4>1. info'[c].token = t /\ info'[b] = info[b] /\ info[b] # None
        BY Zenon, <1>3, <1>5, <2>3, <3>3
      <4>2. info[b].token = t /\ t # 0 /\ info[b].token <= issued
        BY Zenon, <2>1, <2>3, <4>1
      <4> QED BY <1>1, <1>t, <4>2
    <3> QED BY Zenon, <3>1, <3>2, <3>3
  <2> QED BY Zenon, <2>2, <2>3 DEF Tokens
<1>20. Open'
  <2>1. Unanswered \subseteq Unanswered' \ {a}
    BY Zenon, <1>2, <1>5 DEF Unanswered
  <2>2. a \in Unanswered'
    <3>1. CASE t = 0
      BY Zenon, <1>3, <1>5, <3>1 DEF Unanswered
    <3>2. CASE t # 0
      <4>1. t = issued + 1 /\ t \in Serials
        BY <1>1, <1>t, <1>3, <3>2, RequestAssumption DEF RequestInfo, Serials
      <4>2. answers[t] = 0
        BY <1>1, <4>1 DEF IInv, Open, Serials
      <4> QED BY Zenon, <1>2, <1>3, <1>5, <4>2 DEF Unanswered
    <3> QED BY Zenon, <3>1, <3>2
  <2>3. \A n \in Serials : answers'[n] <= 1 /\ (n > issued' => answers'[n] = 0)
    BY <1>1, <1>2, RequestAssumption DEF IInv, Open, Serials
  <2>4. \A u \in Callers : caller'[u].req # None => caller'[u].req \in Unanswered'
    BY Zenon, <1>4, <1>6, <2>1, <2>2 DEF IInv, Open
  <2> QED BY Zenon, <1>2, <2>1, <2>3, <2>4 DEF IInv, Open
<1> QED BY Zenon, <1>13, <1>14, <1>16, <1>17, <1>18, <1>19, <1>20 DEF IInv

\* A serial that was given up is not used again.
LEMMA OutOfMemoryStep ==
  ASSUME IInv, NEW th \in Callers, NEW serial \in {-1, 1}, OutOfMemory(th, serial)
  PROVE  IInv'
<1>1. /\ issued \in Nat /\ issued' \in 0 .. MaxSerial /\ issued <= issued'
      /\ locals' \in 0 .. MaxLocal
      /\ serial # -1 => issued' = issued + 1
  BY Zenon, IssueSerial DEF OutOfMemory
<1>2. UNCHANGED <<info, pending, answers, caller, worker, vendor, crashed>>
  BY Zenon DEF OutOfMemory
<1>3. lost' \subseteq Serials
  <2>1. CASE serial = -1
    BY Zenon, <2>1 DEF OutOfMemory, IInv, TypeOK
  <2>2. CASE serial # -1
    <3>1. issued' \in Serials
      BY <1>1, <2>2, RequestAssumption DEF Serials
    <3> QED BY Zenon, <2>2, <3>1 DEF OutOfMemory, IInv, TypeOK
  <2> QED BY Zenon, <2>1, <2>2
<1>4. TypeOK'
  BY Zenon, <1>1, <1>2, <1>3 DEF IInv, TypeOK
<1>5. Linked' /\ Sending' /\ Working' /\ OnePlace'
  <2>1. Linked'
    BY Zenon, <1>2 DEF IInv, Linked
  <2>2. Sending' /\ Working'
    BY Zenon, <1>2 DEF IInv, Sending, Working
  <2>3. OnePlace'
    BY Zenon, <1>2 DEF IInv, OnePlace
  <2> QED BY Zenon, <2>1, <2>2, <2>3
<1>6. Tokens'
  <2>1. \A b \in Addr : info[b] # None => info[b].token \in Nat /\ info[b].token <= issued
    BY RequestAssumption DEF IInv, TypeOK, Tokens, RequestInfo
  <2> QED BY <1>1, <1>2, <2>1 DEF IInv, Tokens
<1>7. Open'
  <2>1. Unanswered' = Unanswered
    BY Zenon, <1>2 DEF Unanswered
  <2>2. \A n \in Serials : answers'[n] <= 1 /\ (n > issued' => answers'[n] = 0)
    BY <1>1, <1>2, RequestAssumption DEF IInv, Open, Serials
  <2> QED BY Zenon, <1>2, <2>1, <2>2 DEF IInv, Open
<1> QED BY Zenon, <1>4, <1>5, <1>6, <1>7 DEF IInv
-----------------------------------------------------------------------------
(* The threads of the vendor library *)

\* The acknowledgement keeps the request where it is.
LEMMA RIL_onRequestAckStep ==
  ASSUME IInv, NEW w \in Workers, NEW a \in Addr, RIL_onRequestAck(w, a)
  PROVE  IInv'
<1>1. /\ ~ crashed /\ worker[w].pc = "idle" /\ a \in vendor /\ (\A v \in Workers : worker[v].req # a)
      /\ info' = [info EXCEPT ![a].wasAckSent = TRUE]
      /\ worker' = [worker EXCEPT ![w] = [pc |-> "acking", req |-> a]]
      /\ UNCHANGED <<pending, client, caller, vendor, crashed>>
  BY Zenon DEF RIL_onRequestAck
<1>2. info[a] \in RequestInfo
  BY <1>1 DEF IInv, TypeOK, Linked
<1>3. info'[a] = [info[a] EXCEPT !.wasAckSent = TRUE] /\ \A b \in Addr \ {a} : info'[b] = info[b]
  BY Zenon, <1>1 DEF IInv, TypeOK
<1>4. info'[a] \in RequestInfo /\ info'[a].token = info[a].token /\ info'[a].slot = info[a].slot
  BY Zenon, <1>2, <1>3 DEF RequestInfo
<1>5. /\ info' \in [Addr -> RequestInfo \cup {None}]
      /\ \A b \in Addr : (info'[b] # None <=> info[b] # None)
      /\ \A b \in Addr : info[b] # None => info'[b].token = info[b].token /\ info'[b].slot = info[b].slot
  BY <1>1, <1>2, <1>3, <1>4, NoneAssumption, Zenon DEF IInv, TypeOK
<1>6. /\ worker' \in [Workers -> WorkerState] /\ worker'[w].pc = "acking" /\ worker'[w].req = a
      /\ \A v \in Workers \ {w} : worker'[v] = worker[v]
  BY Zenon, <1>1 DEF IInv, TypeOK, WorkerState
<1>7. TypeOK'
  BY Zenon, <1>1, <1>5, <1>6 DEF IInv, TypeOK, client
<1>8. Linked'
  <2>1. \A s \in Slots : \A b \in pending[s] : info'[b] # None /\ info'[b].slot = s
    BY Zenon, <1>5 DEF IInv, TypeOK, Linked
  <2>2. \A b \in vendor : info'[b] # None /\ b \in pending[info'[b].slot]
    BY Zenon, <1>5 DEF IInv, TypeOK, Linked
  <2> QED BY Zenon, <1>1, <2>1, <2>2 DEF IInv, Linked
<1>9. OnePlace'
  BY Zenon, <1>1 DEF IInv, OnePlace
<1>10. Sending'
  <2>1. \A th \in Callers : caller[th].req # None =>
          info'[caller[th].req] # None /\ caller[th].req \in pending[info'[caller[th].req].slot]
    BY Zenon, <1>5 DEF IInv, TypeOK, CallerState, Sending
  <2> QED BY Zenon, <1>1, <2>1 DEF IInv, Sending
<1>11. Working'
  <2>1. \A v \in Workers : worker'[v].pc = "idle" <=> worker'[v].req = None
    BY Zenon, <1>6, NoneAssumption DEF IInv, Working
  <2>2. \A v \in Workers : worker'[v].pc = "acking" => worker'[v].req \in vendor'
    BY Zenon, <1>1, <1>6 DEF IInv, Working
  <2>3. \A v \in Workers : worker'[v].pc \notin {"idle", "acking"} =>
          info'[worker'[v].req] # None /\ \A s \in Slots : worker'[v].req \notin pending'[s]
    <3> SUFFICES ASSUME NEW v \in Workers, worker'[v].pc \notin {"idle", "acking"}
                 PROVE  info'[worker'[v].req] # None /\ \A s \in Slots : worker'[v].req \notin pending'[s]
      BY Zenon
    <3>1. worker'[v] = worker[v] /\ worker[v].req \in Addr \cup {None}
      BY Zenon, <1>6 DEF IInv, TypeOK, WorkerState
    <3>2. /\ worker[v].req \in Addr /\ info[worker[v].req] # None
          /\ \A s \in Slots : worker[v].req \notin pending[s]
      BY Zenon, <3>1 DEF IInv, Working
    <3> QED BY Zenon, <1>1, <1>5, <3>1, <3>2
  <2>4. \A v, x \in Workers : worker'[v].req = worker'[x].req /\ worker'[v].req # None => v = x
    BY Zenon, <1>1, <1>6 DEF IInv, Working
  <2> QED BY Zenon, <2>1, <2>2, <2>3, <2>4 DEF Working
<1>12. Tokens'
  BY <1>1, <1>5 DEF IInv, Tokens, client
<1>13. Open'
  <2>1. Unanswered' = Unanswered
    BY Zenon, <1>1, <1>5 DEF Unanswered, client
  <2> QED BY Zenon, <1>1, <1>6, <2>1 DEF IInv, Open, client
<1> QED BY Zenon, <1>7, <1>8, <1>9, <1>10, <1>11, <1>12, <1>13 DEF IInv

\* The acknowledgement is over.
LEMMA AcknowledgeRequestStep ==
  ASSUME IInv, NEW w \in Workers, AcknowledgeRequest(w)
  PROVE  IInv'
<1>1. /\ worker' = [worker EXCEPT ![w] = NoRequest]
      /\ UNCHANGED <<info, pending, client, caller, vendor, crashed>>
  BY Zenon DEF AcknowledgeRequest
<1>2. /\ worker' \in [Workers -> WorkerState] /\ worker'[w].pc = "idle" /\ worker'[w].req = None
      /\ \A v \in Workers \ {w} : worker'[v] = worker[v]
  BY Zenon, <1>1, NoRequestType DEF IInv, TypeOK
<1>3. TypeOK'
  BY Zenon, <1>1, <1>2 DEF IInv, TypeOK, client
<1>4. Linked' /\ Sending' /\ OnePlace' /\ Tokens'
  BY Zenon, <1>1, ListsKept DEF IInv, client
<1>5. Working'
  BY Zenon, <1>1, <1>2 DEF IInv, Working
<1>6. Open'
  <2>1. Unanswered' = Unanswered
    BY Zenon, <1>1 DEF Unanswered, client
  <2> QED BY Zenon, <1>1, <1>2, <2>1 DEF IInv, Open, client
<1> QED BY Zenon, <1>3, <1>4, <1>5, <1>6 DEF IInv

\* A completion unlinks a request that is only in the vendor library.
LEMMA checkAndDequeueRequestInfoStep ==
  ASSUME IInv, NEW w \in Workers, NEW a \in Addr, checkAndDequeueRequestInfo(w, a)
  PROVE  IInv'
<1> DEFINE z == info[a].slot
<1>1. /\ ~ crashed /\ worker[w].pc = "idle" /\ a \in vendor /\ (\A v \in Workers : worker[v].req # a)
      /\ pending' = [pending EXCEPT ![z] = @ \ {a}]
      /\ vendor' = vendor \ {a}
      /\ worker' = [worker EXCEPT ![w] = [pc |-> "respond", req |-> a]]
      /\ UNCHANGED <<info, client, caller, crashed>>
  BY Zenon DEF checkAndDequeueRequestInfo
<1>2. info[a] # None /\ info[a] \in RequestInfo /\ z \in Slots
  BY <1>1 DEF IInv, TypeOK, Linked, RequestInfo
<1>3. \A s \in Slots : pending'[s] = pending[s] \ {a}
  BY <1>1, <1>2 DEF IInv, TypeOK, Linked
<1> HIDE DEF z
<1>4. /\ worker' \in [Workers -> WorkerState] /\ worker'[w].pc = "respond" /\ worker'[w].req = a
      /\ \A v \in Workers \ {w} : worker'[v] = worker[v]
  BY Zenon, <1>1 DEF IInv, TypeOK, WorkerState
<1>5. \A th \in Callers : caller[th].req # a
  BY Zenon, <1>1 DEF IInv, OnePlace
<1>7. TypeOK'
  <2>1. pending' \in [Slots -> SUBSET Addr] /\ vendor' \subseteq Addr
    BY Zenon, <1>1, <1>3 DEF IInv, TypeOK
  <2> QED BY Zenon, <1>1, <1>4, <2>1 DEF IInv, TypeOK, client
<1>8. Linked'
  <2>1. \A b \in vendor \ {a} : info[b] # None /\ b \in pending'[info[b].slot]
    <3> SUFFICES ASSUME NEW b \in vendor \ {a} PROVE info[b] # None /\ b \in pending'[info[b].slot]
      BY Zenon
    <3>1. b \in Addr /\ info[b] # None /\ b \in pending[info[b].slot]
      BY Zenon DEF IInv, TypeOK, Linked
    <3>2. info[b].slot \in Slots
      BY Zenon, <3>1 DEF IInv, TypeOK, RequestInfo
    <3> QED BY Zenon, <1>3, <3>1, <3>2
  <2>3. \A s \in Slots : \A b \in pending'[s] : info[b] # None /\ info[b].slot = s
    BY <1>3 DEF IInv, Linked
  <2> QED BY Zenon, <1>1, <2>1, <2>3 DEF Linked
<1>9. OnePlace' /\ Tokens'
  BY Zenon, <1>1 DEF IInv, OnePlace, Tokens, client
<1>10. Sending'
  <2>1. ASSUME NEW th \in Callers, caller[th].req # None
        PROVE  info[caller[th].req] # None /\ caller[th].req \in pending'[info[caller[th].req].slot]
    <3>1. /\ caller[th].req \in Addr /\ info[caller[th].req] # None
          /\ caller[th].req \in pending[info[caller[th].req].slot]
      BY Zenon, <2>1 DEF IInv, TypeOK, CallerState, Sending
    <3>2. info[caller[th].req].slot \in Slots
      BY Zenon, <3>1 DEF IInv, TypeOK, RequestInfo
    <3> QED BY Zenon, <1>3, <1>5, <3>1, <3>2
  <2> QED BY <1>1, <2>1, Zenon DEF IInv, Sending
<1>11. Working'
  <2>1. \A v \in Workers : worker'[v].pc = "idle" <=> worker'[v].req = None
    BY Zenon, <1>4, NoneAssumption DEF IInv, Working
  <2>2. \A v \in Workers : worker'[v].pc = "acking" => worker'[v].req \in vendor'
    BY Zenon, <1>1, <1>4 DEF IInv, Working
  <2>3. \A v \in Workers : worker'[v].pc \notin {"idle", "acking"} =>
          info[worker'[v].req] # None /\ \A s \in Slots : worker'[v].req \notin pending'[s]
    BY <1>2, <1>3, <1>4 DEF IInv, Working
  <2>4. \A v, x \in Workers : worker'[v].req = worker'[x].req /\ worker'[v].req # None => v = x
    BY Zenon, <1>1, <1>4 DEF IInv, Working
  <2> QED BY Zenon, <1>1, <2>1, <2>2, <2>3, <2>4 DEF Working
<1>12. Open'
  <2>1. Unanswered' = Unanswered
    BY <1>1, Zenon DEF Unanswered, client
  <2>2. a \in Unanswered
    BY Zenon, <1>1 DEF IInv, Open
  <2> QED BY Zenon, <1>1, <1>4, <2>1, <2>2 DEF IInv, Open, client
<1> QED BY Zenon, <1>7, <1>8, <1>9, <1>10, <1>11, <1>12 DEF IInv

\* A worker is done with the response to the request it has unlinked.
LEMMA WorkerLeavesRespond ==
  ASSUME IInv, NEW w \in Workers, worker[w].pc = "respond", At(w, "free"),
         answers' \in [Serials -> Nat], lost' \subseteq Serials,
         \A m \in Serials : answers'[m] <= 1 /\ (m > issued => answers'[m] = 0),
         Unanswered \ {worker[w].req} \subseteq Unanswered',
         UNCHANGED <<info, pending, issued, locals, caller, vendor, crashed>>
  PROVE  IInv'
<1> DEFINE a == worker[w].req
<1>1. a \in Addr /\ info[a] \in RequestInfo /\ info[a] # None /\ \A s \in Slots : a \notin pending[s]
  BY NoneAssumption, Zenon DEF IInv, TypeOK, WorkerState, Working
<1>2. /\ worker' \in [Workers -> WorkerState] /\ worker'[w].pc = "free" /\ worker'[w].req = a
      /\ \A v \in Workers \ {w} : worker'[v] = worker[v]
  BY Zenon DEF IInv, TypeOK, At, WorkerState
<1>3. TypeOK'
  BY Zenon, <1>2 DEF IInv, TypeOK
<1>4. Linked' /\ Sending' /\ OnePlace' /\ Tokens'
  BY Zenon, ListsKept DEF IInv
<1>5. Working'
  BY <1>2 DEF IInv, Working
<1>6. Open'
  <2>1. a \notin vendor /\ vendor \subseteq Unanswered
    BY Zenon, <1>1 DEF IInv, Linked, Open, RequestInfo
  <2>2. \A u \in Callers : caller[u].req # None => caller[u].req \in Unanswered \ {a}
    BY Zenon, <1>1 DEF IInv, Sending, Open, RequestInfo
  <2>3. \A v \in Workers : worker'[v].pc = "respond" => worker'[v].req \in Unanswered \ {a}
    BY <1>1, <1>2, NoneAssumption DEF IInv, Working, Open
  <2> QED BY Zenon, <2>1, <2>2, <2>3 DEF Open
<1> QED BY Zenon, <1>3, <1>4, <1>5, <1>6 DEF IInv

\* The answer to a request is the only one.
LEMMA RespondStep ==
  ASSUME IInv, NEW w \in Workers, Respond(w)
  PROVE  IInv'
<1> DEFINE a == worker[w].req
<1>1. /\ worker[w].pc = "respond" /\ At(w, "free") /\ Answer(a)
      /\ UNCHANGED <<info, pending, issued, lost, locals, caller, vendor, crashed>>
  BY Zenon DEF Respond
<1>2. a \in Addr /\ a \in Unanswered
  BY Zenon, <1>1 DEF IInv, Open, Unanswered
<1>3. /\ answers' \in [Serials -> Nat]
      /\ \A m \in Serials : answers'[m] <= 1 /\ (m > issued' => answers'[m] = 0)
      /\ Unanswered \ {a} \subseteq Unanswered'
  BY Zenon, <1>1, <1>2, AnswerSettles
<1>4. lost' \subseteq Serials
  BY Zenon, <1>1 DEF IInv, TypeOK
<1> QED BY Zenon, <1>1, <1>3, <1>4, WorkerLeavesRespond

\* A request without a response function gets none.
LEMMA NotHandledStep ==
  ASSUME IInv, NEW w \in Workers, NotHandled(w)
  PROVE  IInv'
<1> DEFINE a == worker[w].req
<1>1. /\ worker[w].pc = "respond" /\ At(w, "free") /\ GiveUp(a)
      /\ UNCHANGED <<info, pending, issued, answers, locals, caller, vendor, crashed>>
  BY Zenon DEF NotHandled
<1>2. a \in Addr /\ info[a] # None
  BY Zenon, <1>1 DEF IInv, Open, Unanswered
<1>3. lost' \subseteq Serials
  BY Zenon, <1>1, <1>2, GiveUpType
<1>4. Unanswered' = Unanswered
  BY Zenon, <1>1 DEF Unanswered
<1>5. answers' \in [Serials -> Nat]
  BY Zenon, <1>1 DEF IInv, TypeOK
<1>6. \A m \in Serials : answers'[m] <= 1 /\ (m > issued => answers'[m] = 0)
  BY Zenon, <1>1 DEF IInv, Open
<1> QED BY Zenon, <1>1, <1>3, <1>4, <1>5, <1>6, WorkerLeavesRespond

\* Freeing a request leaves nothing that refers to it.
LEMMA FreeInfoStep ==
  ASSUME IInv, NEW w \in Workers, FreeInfo(w)
  PROVE  IInv'
<1> DEFINE a == worker[w].req
<1>1. /\ worker[w].pc = "free"
      /\ info' = [info EXCEPT ![a] = None]
      /\ worker' = [worker EXCEPT ![w] = NoRequest]
      /\ UNCHANGED <<pending, client, caller, vendor, crashed>>
  BY Zenon DEF FreeInfo
<1>2. a \in Addr /\ info[a] \in RequestInfo /\ \A s \in Slots : a \notin pending[s]
  BY Zenon, <1>1, NoneAssumption DEF IInv, TypeOK, WorkerState, Working
<1>3. /\ info' \in [Addr -> RequestInfo \cup {None}] /\ info'[a] = None
      /\ \A b \in Addr \ {a} : info'[b] = info[b]
  BY Zenon, <1>1, <1>2 DEF IInv, TypeOK
<1>4. /\ worker' \in [Workers -> WorkerState] /\ worker'[w].pc = "idle" /\ worker'[w].req = None
      /\ \A v \in Workers \ {w} : worker'[v] = worker[v]
  BY Zenon, <1>1, NoRequestType DEF IInv, TypeOK
<1>5. a \notin vendor
  BY Zenon, <1>2 DEF IInv, Linked, RequestInfo
<1>6. \A u \in Callers : caller[u].req # a
  BY Zenon, <1>2, NoneAssumption DEF IInv, Sending, RequestInfo
<1>8. \A v \in Workers \ {w} : worker[v].req # a
  BY Zenon, <1>2, NoneAssumption DEF IInv, Working
<1> HIDE DEF a
<1>9. TypeOK'
  BY <1>1, <1>3, <1>4, Zenon DEF IInv, TypeOK, client
<1>10. Linked'
  <2>1. \A s \in Slots : \A b \in pending[s] : info'[b] # None /\ info'[b].slot = s
    <3>1. \A s \in Slots : pending[s] \subseteq Addr
      BY Zenon DEF IInv, TypeOK
    <3>2. \A s \in Slots : \A b \in pending[s] : info[b] # None /\ info[b].slot = s
      BY Zenon DEF IInv, Linked
    <3> QED BY <1>2, <1>3, <3>1, <3>2
  <2>2. \A b \in vendor : info'[b] # None /\ b \in pending[info'[b].slot]
    BY Zenon, <1>3, <1>5 DEF IInv, TypeOK, Linked
  <2> QED BY Zenon, <1>1, <2>1, <2>2 DEF IInv, Linked
<1>11. OnePlace'
  BY Zenon, <1>1 DEF IInv, OnePlace
<1>12. Sending'
  <2>1. \A u \in Callers : caller[u].req # None =>
          info'[caller[u].req] # None /\ caller[u].req \in pending[info'[caller[u].req].slot]
    BY Zenon, <1>3, <1>6 DEF IInv, TypeOK, CallerState, Sending
  <2> QED BY Zenon, <1>1, <2>1 DEF IInv, Sending
<1>13. Working'
  <2>1. \A v \in Workers \ {w} : worker[v].pc \notin {"idle", "acking"} => info'[worker[v].req] # None
    BY Zenon, <1>3, <1>8 DEF IInv, TypeOK, WorkerState, Working
  <2> QED BY <1>1, <1>4, <2>1, Zenon DEF IInv, Working
<1>14. Tokens'
  BY Zenon, <1>1, <1>3 DEF IInv, Tokens, client
<1>15. Open'
  <2>1. Unanswered \ {a} \subseteq Unanswered'
    BY Zenon, <1>1, <1>3 DEF Unanswered, client
  <2>2. \A u \in Callers : caller'[u].req # None => caller'[u].req \in Unanswered'
    BY Zenon, <1>1, <1>6, <2>1 DEF IInv, Open
  <2>3. \A v \in Workers : worker'[v].pc = "respond" => worker'[v].req \in Unanswered'
    BY Zenon, <1>4, <1>8, <2>1 DEF IInv, Open
  <2>4. vendor' \subseteq Unanswered'
    BY <1>1, <1>5, <2>1, Zenon DEF IInv, Open
  <2> QED BY Zenon, <1>1, <2>2, <2>3, <2>4 DEF IInv, Open, client
<1> QED BY Zenon, <1>9, <1>10, <1>11, <1>12, <1>13, <1>14, <1>15 DEF IInv

-----------------------------------------------------------------------------
\* Steps that change nothing.
LEMMA StutterStep ==
  ASSUME IInv, UNCHANGED vars
  PROVE  IInv'
<1>1. UNCHANGED <<info, pending, issued, answers, lost, locals, caller,
                  worker, vendor, crashed>>
  BY Zenon DEF vars, client
<1>2. TypeOK' /\ Linked' /\ Tokens'
  BY Zenon, <1>1 DEF IInv, TypeOK, Linked, Tokens
<1>3. Sending' /\ Working' /\ OnePlace'
  BY <1>1, Zenon DEF IInv, Sending, Working, OnePlace
<1>4. Open'
  BY Zenon, <1>1 DEF IInv, Open, Unanswered
<1> QED BY Zenon, <1>2, <1>3, <1>4 DEF IInv

\* Every step keeps the invariant.
LEMMA NextIInv == IInv /\ [Next]_vars => IInv'
<1> SUFFICES ASSUME IInv, [Next]_vars PROVE IInv'
  BY Zenon
<1>1. ASSUME NEW th \in Callers,
             my_enqueue(th) \/ Truncated(th) \/ DispatchFails(th) \/ DispatchCrashes(th)
      PROVE  IInv'
  BY Zenon, <1>1, LeavingSteps, DispatchFailsStep, DispatchCrashesStep
<1>2. ASSUME NEW w \in Workers, Complete(w) PROVE IInv'
  BY Zenon, <1>2, AcknowledgeRequestStep, RespondStep, NotHandledStep, FreeInfoStep DEF Complete
<1>3. CASE Quiet \/ UNCHANGED vars
  BY Zenon, <1>3, StutterStep DEF Quiet
<1>4. CASE Next
  BY Zenon, <1>1, <1>2, <1>3, <1>4, addRequestToListStep, OutOfMemoryStep, RIL_onRequestAckStep,
     checkAndDequeueRequestInfoStep DEF Next
<1> QED BY Zenon, <1>3, <1>4

\* The inductive invariant holds in every state of the specification.
THEOREM Invariance == Spec => []IInv
<1>1. Init => IInv
  BY Zenon, InitIInv
<1>2. IInv /\ [Next]_vars => IInv'
  BY Zenon, NextIInv
<1> QED BY <1>1, <1>2, PTL DEF Spec

\* For any number of requests, addresses, callers and vendor threads: no list, thread
\* or token refers to a RequestInfo that has been freed, and the vendor library's
\* requests are in the pending list of their slot.
THEOREM NothingDangles == Spec => []NoDanglingRequest
<1>1. IInv => NoDanglingRequest
  <2> SUFFICES ASSUME IInv PROVE NoDanglingRequest
    BY Zenon
  <2>1. ASSUME NEW a \in Reachable, a # None PROVE info[a] # None
    <3>1. CASE a \in vendor
      BY Zenon, <3>1 DEF IInv, Linked
    <3>2. ASSUME NEW s \in Slots, a \in pending[s] PROVE info[a] # None
      BY Zenon, <3>2 DEF IInv, Linked
    <3>4. ASSUME NEW th \in Callers, a = caller[th].req PROVE info[a] # None
      BY Zenon, <2>1, <3>4 DEF IInv, Sending
    <3>5. ASSUME NEW w \in Workers, a = worker[w].req PROVE info[a] # None
      BY Zenon, <2>1, <3>5 DEF IInv, Working, Linked
    <3>6. \/ \E s \in Slots : a \in pending[s]
          \/ a \in vendor
          \/ \E th \in Callers : a = caller[th].req
          \/ \E w \in Workers : a = worker[w].req
      <4>1. \/ a \in UNION {pending[s] : s \in Slots}
            \/ a \in vendor
            \/ a \in {caller[th].req : th \in Callers}
            \/ a \in {worker[w].req : w \in Workers}
        BY Zenon, <2>1 DEF Reachable
      <4> QED BY Zenon, <4>1
    <3> QED BY Zenon, <3>1, <3>2, <3>4, <3>5, <3>6
  <2> QED BY Zenon, <2>1 DEF NoDanglingRequest, IInv, Linked
<1> QED BY <1>1, Invariance, PTL

\* For the same systems: no serial is answered twice, whether an address is reused,
\* a dispatch function has answered with an error, or one has left its request behind.
THEOREM AtMostOneAnswer == Spec => []AnsweredOnce
<1>1. IInv => AnsweredOnce
  BY Zenon DEF IInv, Open, AnsweredOnce
<1> QED BY <1>1, Invariance, PTL

=============================================================================
