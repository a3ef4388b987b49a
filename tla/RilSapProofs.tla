---------------------------- MODULE RilSapProofs ----------------------------
(***************************************************************************)
(* Proofs about RilSap: any number of slots, requests and threads of the   *)
(* vendor library, requests and unsolicited messages of every kind at once.*)
(***************************************************************************)
EXTENDS RilSap, TLAPS

Made == 1 .. Len(req)
Pending(r) == r \in Range(queue[req[r].slot])

Purposes == {"msg", "command", "buffer", "payload", "request"}
Unsolicited == {"DISCONNECT", "STATUS", "ERROR_RESP"}

\* Types of the variables; of the records of the threads, only the fields they have.
HidlFields == {"pc", "r", "cb", "ok"}
WorkerFields == {"pc", "r", "slot", "id", "msg", "cb", "ok"}

RequestFields == [slot : Slots, id : Methods, token : Nat]

SapTypeOK ==
  /\ req \in Seq(RequestFields)
  /\ Len(req) <= MaxRequests
  /\ DOMAIN hidl = HidlFields
  /\ DOMAIN worker = Workers /\ \A w \in Workers : DOMAIN worker[w] = WorkerFields
  /\ queue \in [Slots -> Seq(Nat)]
  /\ vendor \subseteq Made
  /\ answers \in [Requests -> Nat]

Distinct(q) == \A i, j \in DOMAIN q : q[i] = q[j] => i = j

\* The client counts its tokens, and a queue holds requests of its slot, each once.
Queues ==
  /\ \A r \in Made : req[r].token = r
  /\ \A s \in Slots : Distinct(queue[s]) /\ \A r \in Range(queue[s]) : r \in Made /\ req[r].slot = s

\* What the threads know of the request they work on.
Threads ==
  /\ hidl.r \in Made \cup {0} /\ (hidl.r = 0 <=> hidl.pc = "idle")
  /\ \A w \in Workers : LET t == worker[w] IN
       /\ t.r \in Made \cup {0}
       /\ t.pc = "idle" => t.r = 0
       /\ t.pc \in {"dequeue", "free"} => t.r # 0
       /\ t.r # 0 => t.slot = req[t.r].slot
       /\ t.r # 0 /\ t.pc \in {"check", "call"} => t.id = req[t.r].id
       /\ t.r = 0 /\ t.pc \in {"check", "call"} => t.id \in Unsolicited

\* A request is with the HIDL thread until it has been handed over, then with the vendor
\* library, then with one of its threads.
OneOwner ==
  /\ \A w \in Workers : worker[w].r \notin vendor
  /\ \A v, w \in Workers : worker[v].r = worker[w].r /\ worker[v].r # 0 => v = w
  /\ hidl.pc \in {"failed", "returned", "dispatch", "onRequest"} =>
       hidl.r \notin vendor /\ \A w \in Workers : worker[w].r # hidl.r

\* It is in the queue from Enqueue to checkAndDequeue.
Queued ==
  /\ \A r \in vendor : Pending(r)
  /\ hidl.pc = "onRequest" => Pending(hidl.r)
  /\ hidl.pc \in {"failed", "returned", "dispatch"} => ~ Pending(hidl.r)
  /\ \A w \in Workers : worker[w].r # 0 => (Pending(worker[w].r) <=> worker[w].pc # "free")

InHeap(r, b) == <<r, b>> \in heap

\* The blocks that are allocated, by where their request is.
KnownBlocks == wrong = {} /\ heap \subseteq Made \X Purposes
RequestBlocks == \A r \in Made : InHeap(r, "request") <=> Pending(r)
MsgBlocks ==
  \A r \in Made : InHeap(r, "msg") <=>
    \/ Pending(r)
    \/ hidl.r = r /\ hidl.pc = "dispatch"
    \/ \E w \in Workers : worker[w].r = r /\ worker[w].pc = "free"
PayloadBlocks ==
  \A r \in Made : \A b \in {"payload", "buffer"} :
    InHeap(r, b) <=> hidl.r = r /\ hidl.pc \in {"dispatch", "onRequest", "dispatched"}

Blocks == KnownBlocks /\ RequestBlocks /\ MsgBlocks /\ PayloadBlocks

\* A request has no answer until a thread calls the client for it.
Unanswered(r) ==
  \/ r \notin Made \cup {0}
  \/ r \in vendor
  \/ hidl.r = r /\ hidl.pc \in {"failed", "dispatch", "onRequest"}
  \/ \E w \in Workers : worker[w].r = r /\ worker[w].pc \in {"check", "call"}

Counts == \A r \in Requests : answers[r] <= 1 /\ (Unanswered(r) => answers[r] = 0)

\* What the client is being told.
Truth ==
  /\ said.r \in Made \cup {0}
  /\ said # Silence /\ said.r # 0 =>
       /\ said.callback = CallbackOf(req[said.r].id)
       /\ said.result # "void" => (said.result = "SUCCESS" <=> said.code = "SUCCESS")
  /\ said # Silence /\ said.r = 0 /\ said.code # "undecodable" =>
       said.callback \in {"disconnectIndication", "statusIndication", "errorResponse"}

\* The inductive invariant.
SapInv == SapTypeOK /\ Queues /\ Threads /\ OneOwner /\ Queued /\ Blocks /\ Counts /\ Truth
-----------------------------------------------------------------------------
(* Queues and tables *)

\* A new request in front of a queue.
LEMMA PushFront ==
  ASSUME NEW q \in Seq(Nat), NEW r \in Nat, r \notin Range(q), Distinct(q)
  PROVE  /\ <<r>> \o q \in Seq(Nat)
         /\ Range(<<r>> \o q) = Range(q) \cup {r}
         /\ Distinct(<<r>> \o q)
<1> DEFINE p == <<r>> \o q
<1>1. /\ p \in Seq(Nat) /\ Len(p) = Len(q) + 1 /\ DOMAIN p = 1 .. Len(q) + 1
      /\ p[1] = r /\ \A i \in 1 .. Len(q) : p[i + 1] = q[i]
      /\ DOMAIN q = 1 .. Len(q) /\ Len(q) \in Nat
  OBVIOUS
<1> HIDE DEF p
<1>2. \A i \in DOMAIN p : i = 1 \/ (i - 1 \in DOMAIN q /\ p[i] = q[i - 1])
  <2> TAKE i \in DOMAIN p
  <2>1. i = 1 \/ (i - 1 \in 1 .. Len(q) /\ (i - 1) + 1 = i)
    BY <1>1
  <2> QED BY Zenon, <1>1, <2>1
<1>3. ASSUME NEW x \in Range(p) PROVE x \in Range(q) \cup {r}
  <2>1. PICK i \in DOMAIN p : x = p[i]
    BY Zenon DEF Range
  <2> QED BY Zenon, <1>1, <1>2, <2>1 DEF Range
<1>4. ASSUME NEW x \in Range(q) PROVE x \in Range(p)
  <2>1. PICK i \in DOMAIN q : x = q[i]
    BY Zenon DEF Range
  <2>2. i + 1 \in DOMAIN p /\ p[i + 1] = x
    BY <1>1, <2>1
  <2> QED BY Zenon, <2>2 DEF Range
<1>5. r \in Range(p)
  BY <1>1 DEF Range
<1>6. Distinct(p)
  <2> SUFFICES ASSUME NEW i \in DOMAIN p, NEW j \in DOMAIN p, p[i] = p[j] PROVE i = j
    BY Zenon DEF Distinct
  <2>1. \A k \in DOMAIN q : q[k] # r
    BY Zenon DEF Range
  <2> QED BY <1>1, <1>2, <2>1 DEF Distinct
<1> QED BY Zenon, <1>1, <1>3, <1>4, <1>5, <1>6 DEF p

\* A queue without one of its requests.
LEMMA TakenOut ==
  ASSUME NEW q \in Seq(Nat), NEW i \in DOMAIN q, Distinct(q)
  PROVE  /\ Without(q, i) \in Seq(Nat)
         /\ Range(Without(q, i)) = Range(q) \ {q[i]}
         /\ Distinct(Without(q, i))
<1> DEFINE p == Without(q, i)
           up(j) == IF j < i THEN j ELSE j + 1
<1>1. DOMAIN q = 1 .. Len(q) /\ Len(q) \in Nat /\ i \in 1 .. Len(q)
  OBVIOUS
<1>2. \A j \in 1 .. Len(q) - 1 : up(j) \in DOMAIN q /\ up(j) # i
  BY <1>1
<1>3. p \in [1 .. Len(q) - 1 -> Nat] /\ \A j \in 1 .. Len(q) - 1 : p[j] = q[up(j)]
  BY <1>1, <1>2 DEF Without
<1>4. p \in Seq(Nat) /\ DOMAIN p = 1 .. Len(q) - 1
  <2> HIDE DEF p
  <2>1. Len(q) - 1 \in Nat
    BY <1>1
  <2>2. \A n \in Nat : \A f \in [1 .. n -> Nat] : f \in Seq(Nat) /\ DOMAIN f = 1 .. n
    OBVIOUS
  <2> QED BY Zenon, <1>3, <2>1, <2>2
<1>5. \A j, k \in 1 .. Len(q) - 1 : up(j) = up(k) => j = k
  BY <1>1
<1>6. \A k \in DOMAIN q : k # i => \E j \in 1 .. Len(q) - 1 : up(j) = k
  <2> TAKE k \in DOMAIN q
  <2>1. CASE k < i
    BY <1>1, <2>1
  <2>2. CASE k > i
    <3>1. k - 1 \in 1 .. Len(q) - 1 /\ up(k - 1) = k
      BY <1>1, <2>2
    <3> QED BY Zenon, <3>1
  <2> QED BY <1>1, <2>1, <2>2
<1> HIDE DEF p, up
<1>7. Range(p) = Range(q) \ {q[i]}
  <2>1. ASSUME NEW x \in Range(p) PROVE x \in Range(q) \ {q[i]}
    BY <1>2, <1>3, <1>4 DEF Range, Distinct
  <2>2. ASSUME NEW x \in Range(q), x # q[i] PROVE x \in Range(p)
    <3>1. PICK k \in DOMAIN q : x = q[k]
      BY Zenon DEF Range
    <3>2. PICK j \in 1 .. Len(q) - 1 : up(j) = k
      BY Zenon, <1>6, <2>2, <3>1
    <3> QED BY Zenon, <1>3, <1>4, <3>1, <3>2 DEF Range
  <2> QED BY Zenon, <2>1, <2>2
<1>8. Distinct(p)
  BY <1>2, <1>3, <1>4, <1>5 DEF Distinct
<1> QED BY Zenon, <1>4, <1>7, <1>8 DEF p

\* The result of an answer is a success exactly when the code is one.
LEMMA SuccessIsSuccess ==
  ASSUME NEW id \in Methods, NEW code \in Codes, ResultOf(id, code) # "void"
  PROVE  ResultOf(id, code) = "SUCCESS" <=> code = "SUCCESS"
<1>1. id \in {"CONNECT", "DISCONNECT", "APDU", "TRANSFER_ATR", "POWER", "RESET_SIM",
              "TRANSFER_CARD_READER_STATUS", "SET_TRANSFER_PROTOCOL"}
  BY Zenon, SapAssumption
<1>2. Converted(convertApduResponseProtoToHal, code) = "SUCCESS" <=> code = "SUCCESS"
  BY DEF Converted, convertApduResponseProtoToHal, Codes
<1>3. Converted(convertTransferAtrResponseProtoToHal, code) = "SUCCESS" <=> code = "SUCCESS"
  BY DEF Converted, convertTransferAtrResponseProtoToHal, Codes
<1>4. Converted(convertPowerResponseProtoToHal, code) = "SUCCESS" <=> code = "SUCCESS"
  BY DEF Converted, convertPowerResponseProtoToHal, Codes
<1>5. Converted(convertResetSimResponseProtoToHal, code) = "SUCCESS" <=> code = "SUCCESS"
  BY DEF Converted, convertResetSimResponseProtoToHal, Codes
<1>6. Converted(convertTransferCardReaderStatusResponseProtoToHal, code) = "SUCCESS" <=> code = "SUCCESS"
  BY DEF Converted, convertTransferCardReaderStatusResponseProtoToHal, Codes
<1> QED BY Zenon, <1>1, <1>2, <1>3, <1>4, <1>5, <1>6 DEF ResultOf
-----------------------------------------------------------------------------
(* The inductive invariant *)

\* The initial states satisfy the invariant.
LEMMA InitSapInv == Init => SapInv
<1> SUFFICES ASSUME Init PROVE SapInv
  BY Zenon
<1>1. req = << >> /\ Len(req) = 0 /\ Made = {}
  BY DEF Init, Made
<1>2. \A s \in Slots : queue[s] = << >> /\ DOMAIN queue[s] = {} /\ Range(queue[s]) = {}
  BY DEF Init, Range
<1>3. \A w \in Workers : worker[w].r = 0 /\ worker[w].pc = "idle"
  BY Zenon DEF Init, WorkerIdle, Thread
<1>4. hidl.r = 0 /\ hidl.pc = "idle" /\ said = Silence /\ said.r = 0
  BY Zenon DEF Init, HidlIdle, Silence
<1>5. SapTypeOK
  <2>1. req \in Seq(RequestFields) /\ Len(req) <= MaxRequests
    BY <1>1, SapAssumption
  <2>2. DOMAIN hidl = HidlFields
    BY Zenon DEF Init, HidlIdle, HidlFields
  <2>3. DOMAIN worker = Workers /\ \A w \in Workers : DOMAIN worker[w] = WorkerFields
    BY Zenon DEF Init, WorkerIdle, Thread, WorkerFields
  <2> QED BY <2>1, <2>2, <2>3, <1>1 DEF Init, SapTypeOK
<1>6. Queues /\ Threads /\ OneOwner /\ Queued
  BY Zenon, <1>1, <1>2, <1>3, <1>4 DEF Queues, Threads, OneOwner, Queued, Distinct, Init
<1>7. Blocks /\ Counts /\ Truth
  BY <1>1, <1>4 DEF Blocks, KnownBlocks, RequestBlocks, MsgBlocks, PayloadBlocks, Counts, Truth, Init
<1> QED BY Zenon, <1>5, <1>6, <1>7 DEF SapInv

\* The fields of a request.
LEMMA RequestsTyped ==
  ASSUME SapTypeOK
  PROVE  \A n \in Made : n \in Nat \ {0} /\ req[n].slot \in Slots /\ req[n].id \in Methods
<1> TAKE n \in Made
<1>1. req \in Seq(RequestFields) /\ n \in 1 .. Len(req)
  BY Zenon DEF SapTypeOK, Made
<1>2. req[n] \in RequestFields /\ n \in Nat \ {0}
  BY <1>1
<1> QED BY Zenon, <1>2 DEF RequestFields

\* Steps that leave the requests alone.
LEMMA SameRequests ==
  ASSUME UNCHANGED <<req, queue>>
  PROVE  Made' = Made /\ \A r : Pending(r)' <=> Pending(r)
BY Zenon DEF Made, Pending

\* Start-up and the client: nothing the requests depend on changes.
LEMMA OutsideStep ==
  ASSUME SapInv, UNCHANGED <<req, hidl, worker, queue, vendor, heap, wrong, said, answers>>
  PROVE  SapInv'
<1>1. Made' = Made /\ \A r : Pending(r)' <=> Pending(r)
  BY Zenon, SameRequests
<1>2. SapTypeOK'
  BY Zenon, <1>1 DEF SapInv, SapTypeOK
<1>3. Queues' /\ Threads' /\ OneOwner' /\ Queued'
  BY <1>1 DEF SapInv, Queues, Threads, OneOwner, Queued
<1>4. Blocks'
  <2>1. KnownBlocks' /\ RequestBlocks'
    BY Zenon, <1>1 DEF SapInv, Blocks, KnownBlocks, RequestBlocks, InHeap
  <2>2. MsgBlocks' /\ PayloadBlocks'
    BY <1>1 DEF SapInv, Blocks, MsgBlocks, PayloadBlocks, InHeap
  <2> QED BY Zenon, <2>1, <2>2 DEF Blocks
<1>5. Counts'
  BY Zenon, <1>1 DEF SapInv, Counts, Unanswered
<1>6. Truth'
  BY Zenon, <1>1 DEF SapInv, Truth
<1> QED BY Zenon, <1>2, <1>3, <1>4, <1>5, <1>6 DEF SapInv

\* The actions of the client and of the start-up.
LEMMA ClientStep ==
  ASSUME SapInv, \/ RIL_register_socket
                 \/ \E s \in Slots : ClientDies(s) \/ ClientRestarts(s) \/ setCallback(s)
  PROVE  SapInv'
BY Zenon, OutsideStep DEF RIL_register_socket, ClientDies, ClientRestarts, setCallback, memory, told

\* Setting one field of a record.
LEMMA FieldSet ==
  ASSUME NEW h, NEW f \in DOMAIN h, NEW x
  PROVE  /\ DOMAIN [h EXCEPT ![f] = x] = DOMAIN h
         /\ [h EXCEPT ![f] = x][f] = x
         /\ \A g \in DOMAIN h : g # f => [h EXCEPT ![f] = x][g] = h[g]
BY Zenon

\* The record of the HIDL thread.
LEMMA HidlSet ==
  ASSUME SapTypeOK, NEW pc, NEW cb, NEW ok,
         hidl' = [hidl EXCEPT !.pc = pc] \/ hidl' = [hidl EXCEPT !.pc = pc, !.cb = cb, !.ok = ok]
  PROVE  hidl'.pc = pc /\ hidl'.r = hidl.r /\ DOMAIN hidl' = HidlFields
<1>1. \A g : DOMAIN g = HidlFields =>
        \A f \in HidlFields : \A x : /\ DOMAIN [g EXCEPT ![f] = x] = HidlFields
                                     /\ [g EXCEPT ![f] = x][f] = x
                                     /\ f # "r" => [g EXCEPT ![f] = x].r = g.r
                                     /\ f # "pc" => [g EXCEPT ![f] = x].pc = g.pc
  BY Zenon, FieldSet DEF HidlFields
<1> DEFINE h1 == [hidl EXCEPT !.pc = pc]
           h2 == [h1 EXCEPT !.cb = cb]
           h3 == [h2 EXCEPT !.ok = ok]
<1>2. DOMAIN h1 = HidlFields /\ h1.pc = pc /\ h1.r = hidl.r
  BY Zenon, <1>1 DEF SapTypeOK, HidlFields
<1>3. hidl' = h1 \/ hidl' = h3
  BY Zenon
<1> HIDE DEF h1
<1>4. DOMAIN h2 = HidlFields /\ h2.pc = pc /\ h2.r = hidl.r
  BY Zenon, <1>1, <1>2 DEF HidlFields
<1> HIDE DEF h2
<1>5. DOMAIN h3 = HidlFields /\ h3.pc = pc /\ h3.r = hidl.r
  BY Zenon, <1>1, <1>4 DEF HidlFields
<1> QED BY Zenon, <1>2, <1>3, <1>5

\* The record of a thread of the vendor library.
LEMMA WorkerSet ==
  ASSUME SapTypeOK, NEW w \in Workers, NEW t, DOMAIN t = WorkerFields,
         worker' = [worker EXCEPT ![w] = t]
  PROVE  /\ worker'[w] = t /\ \A v \in Workers : v # w => worker'[v] = worker[v]
         /\ DOMAIN worker' = Workers /\ \A v \in Workers : DOMAIN worker'[v] = WorkerFields
BY Zenon DEF SapTypeOK

\* At moves a thread and keeps what it works on.
LEMMA WorkerAt ==
  ASSUME SapTypeOK, NEW w \in Workers, NEW l, At(w, l)
  PROVE  /\ worker'[w].pc = l
         /\ \A f \in WorkerFields \ {"pc"} : worker'[w][f] = worker[w][f]
         /\ \A v \in Workers : v # w => worker'[v] = worker[v]
         /\ DOMAIN worker' = Workers /\ \A v \in Workers : DOMAIN worker'[v] = WorkerFields
<1> DEFINE t == [worker[w] EXCEPT !.pc = l]
<1>1. /\ DOMAIN t = WorkerFields /\ t.pc = l
      /\ \A f \in WorkerFields \ {"pc"} : t[f] = worker[w][f]
  BY Zenon DEF SapTypeOK, WorkerFields
<1> HIDE DEF t
<1>2. worker' = [worker EXCEPT ![w] = t]
  BY Zenon DEF At, SapTypeOK, t
<1>3. /\ worker'[w] = t /\ \A v \in Workers : v # w => worker'[v] = worker[v]
      /\ DOMAIN worker' = Workers /\ \A v \in Workers : DOMAIN worker'[v] = WorkerFields
  BY Zenon, <1>1, <1>2, WorkerSet
<1> QED BY Zenon, <1>1, <1>3

\* What a call of the client about request r leaves in said and answers.
LEMMA ClientTold ==
  ASSUME SapInv, NEW s, NEW r \in Made \cup {0}, NEW callback, NEW result, NEW code,
         CallClient(s, r, callback, result, code), UNCHANGED req,
         r # 0 => /\ answers[r] = 0
                  /\ callback = CallbackOf(req[r].id)
                  /\ result # "void" => (result = "SUCCESS" <=> code = "SUCCESS"),
         r = 0 /\ code # "undecodable" =>
           callback \in {"disconnectIndication", "statusIndication", "errorResponse"}
  PROVE  /\ Truth'
         /\ answers' \in [Requests -> Nat]
         /\ \A n \in Requests : answers'[n] <= 1 /\ (n # r => answers'[n] = answers[n])
<1>1. /\ answers \in [Requests -> Nat] /\ \A n \in Requests : answers[n] <= 1
      /\ Made \subseteq Requests /\ Made' = Made
  <2>1. answers \in [Requests -> Nat] /\ \A n \in Requests : answers[n] <= 1
    BY Zenon DEF SapInv, SapTypeOK, Counts
  <2>2. Made \subseteq Requests /\ Made' = Made
    BY SapAssumption DEF SapInv, SapTypeOK, Made, Requests
  <2> QED BY Zenon, <2>1, <2>2
<1>2. CASE UNCHANGED <<said, answers>>
  BY Zenon, <1>1, <1>2 DEF SapInv, Truth
<1>3. CASE ~ UNCHANGED <<said, answers>>
  <2>1. /\ said' = [r |-> r, callback |-> callback, result |-> result, code |-> code]
        /\ answers' = IF r = 0 THEN answers ELSE [answers EXCEPT ![r] = @ + 1]
    BY Zenon, <1>3 DEF CallClient
  <2>2. Truth'
    BY Zenon, <1>1, <2>1 DEF Truth
  <2>3. CASE r = 0
    BY Zenon, <1>1, <2>1, <2>2, <2>3
  <2>4. CASE r # 0
    BY <1>1, <2>1, <2>2, <2>4
  <2> QED BY Zenon, <2>3, <2>4
<1> QED BY Zenon, <1>2, <1>3

\* sendFailedResponse calls the client.
LEMMA SendFailedStep ==
  ASSUME SapInv, SendFailed
  PROVE  SapInv'
<1> DEFINE r == hidl.r
<1>1. /\ hidl.pc = "failed"
      /\ CallClient(req[r].slot, r, CallbackOf(req[r].id), FailedResult(req[r].id), None)
      /\ UNCHANGED <<req, worker, queue, vendor, heap, wrong>>
  BY Zenon DEF SendFailed, memory
<1>2. hidl'.pc = "returned" /\ hidl'.r = r /\ DOMAIN hidl' = HidlFields
  <2>1. hidl' = [hidl EXCEPT !.pc = "returned", !.cb = sapCallback[req[r].slot], !.ok = Reached(req[r].slot)]
    BY Zenon DEF SendFailed
  <2> QED BY Zenon, <2>1, HidlSet DEF SapInv
<1>3. Made' = Made /\ \A n : Pending(n)' <=> Pending(n)
  BY Zenon, <1>1, SameRequests
<1>4. r \in Made /\ r # 0 /\ r \notin vendor /\ \A w \in Workers : worker[w].r # r
  BY Zenon, <1>1 DEF SapInv, Threads, OneOwner, Made
<1>5. Made \subseteq Requests
  BY SapAssumption DEF SapInv, SapTypeOK, Made, Requests
<1>6. answers[r] = 0
  BY Zenon, <1>1, <1>4, <1>5 DEF SapInv, Counts, Unanswered
<1>7. FailedResult(req[r].id) # "SUCCESS" /\ None # "SUCCESS"
  BY Zenon DEF FailedResult, None
<1>8. /\ Truth'
      /\ answers' \in [Requests -> Nat]
      /\ \A n \in Requests : answers'[n] <= 1 /\ (n # r => answers'[n] = answers[n])
  <2> HIDE DEF r
  <2>1. r \in Made \cup {0} /\ UNCHANGED req
    BY Zenon, <1>1, <1>4
  <2> QED BY Zenon, <1>1, <1>4, <1>6, <1>7, <2>1, ClientTold
<1> HIDE DEF r
<1>9. SapTypeOK'
  BY Zenon, <1>1, <1>2, <1>3, <1>8 DEF SapInv, SapTypeOK
<1>10. Queues' /\ Threads' /\ OneOwner' /\ Queued'
  BY <1>1, <1>2, <1>3, <1>4 DEF SapInv, Queues, Threads, OneOwner, Queued, r
<1>11. Blocks'
  <2>1. KnownBlocks' /\ RequestBlocks'
    BY Zenon, <1>1, <1>3 DEF SapInv, Blocks, KnownBlocks, RequestBlocks, InHeap
  <2>2. MsgBlocks' /\ PayloadBlocks'
    BY Zenon, <1>1, <1>2, <1>3 DEF SapInv, Blocks, MsgBlocks, PayloadBlocks, InHeap, r
  <2> QED BY Zenon, <2>1, <2>2 DEF Blocks
<1>12. Counts'
  <2>1. \A n \in Requests : Unanswered(n)' => n # r /\ Unanswered(n)
    BY Zenon, <1>1, <1>2, <1>3, <1>4 DEF Unanswered, r
  <2> QED BY Zenon, <1>8, <2>1 DEF SapInv, Counts
<1> QED BY Zenon, <1>8, <1>9, <1>10, <1>11, <1>12 DEF SapInv

\* The call returns.
LEMMA FailedReturnsStep ==
  ASSUME SapInv, FailedReturns
  PROVE  SapInv'
<1>1. /\ hidl.pc = "returned" /\ said' = Silence
      /\ UNCHANGED <<req, worker, queue, vendor, heap, wrong, answers>>
  BY Zenon DEF FailedReturns, memory
<1>2. hidl'.pc = "idle" /\ hidl'.r = 0 /\ DOMAIN hidl' = HidlFields
  BY Zenon DEF FailedReturns, HidlIdle, HidlFields
<1>3. Made' = Made /\ \A n : Pending(n)' <=> Pending(n)
  BY Zenon, <1>1, SameRequests
<1>4. SapTypeOK'
  BY Zenon, <1>1, <1>2, <1>3 DEF SapInv, SapTypeOK
<1>5. Queues' /\ Threads' /\ OneOwner' /\ Queued'
  BY Zenon, <1>1, <1>2, <1>3 DEF SapInv, Queues, Threads, OneOwner, Queued
<1>6. Blocks'
  <2>1. KnownBlocks' /\ RequestBlocks'
    BY Zenon, <1>1, <1>3 DEF SapInv, Blocks, KnownBlocks, RequestBlocks, InHeap
  <2>2. \A r \in Made : r # 0
    BY DEF Made
  <2>3. MsgBlocks' /\ PayloadBlocks'
    BY <1>1, <1>2, <1>3, <2>2 DEF SapInv, Blocks, MsgBlocks, PayloadBlocks, InHeap
  <2> QED BY <2>1, <2>3 DEF Blocks
<1>7. Counts'
  <2>1. \A n \in Requests : Unanswered(n)' => Unanswered(n)
    BY Zenon, <1>1, <1>2, <1>3 DEF Unanswered
  <2> QED BY Zenon, <1>1, <2>1 DEF SapInv, Counts
<1>8. Truth'
  BY Zenon, <1>1 DEF Truth, Silence
<1> QED BY Zenon, <1>4, <1>5, <1>6, <1>7, <1>8 DEF SapInv

\* dispatchRequest without memory.
LEMMA DispatchFailsStep ==
  ASSUME SapInv, DispatchFails
  PROVE  SapInv'
<1> DEFINE r == hidl.r
<1>1. /\ hidl.pc = "dispatch"
      /\ heap' = heap \ {<<r, "msg">>} /\ wrong' = wrong \cup ({<<r, "msg">>} \ heap)
      /\ UNCHANGED <<req, worker, queue, vendor, said, answers>>
  BY Zenon DEF DispatchFails, Free
<1>2. hidl'.pc = "dispatched" /\ hidl'.r = r /\ DOMAIN hidl' = HidlFields
  <2>1. hidl' = [hidl EXCEPT !.pc = "dispatched"]
    BY Zenon DEF DispatchFails
  <2> QED BY Zenon, <2>1, HidlSet DEF SapInv
<1>3. Made' = Made /\ \A n : Pending(n)' <=> Pending(n)
  BY Zenon, <1>1, SameRequests
<1>4. r \in Made /\ r # 0 /\ ~ Pending(r) /\ \A w \in Workers : worker[w].r # r
  BY Zenon, <1>1 DEF SapInv, Threads, OneOwner, Queued, Made
<1> HIDE DEF r
<1>5. SapTypeOK'
  BY Zenon, <1>1, <1>2, <1>3 DEF SapInv, SapTypeOK
<1>6. Queues' /\ Threads' /\ OneOwner' /\ Queued'
  BY <1>1, <1>2, <1>3, <1>4 DEF SapInv, Queues, Threads, OneOwner, Queued, r
<1>7. Blocks'
  <2>1. InHeap(r, "msg")
    BY Zenon, <1>1, <1>4 DEF SapInv, Blocks, MsgBlocks, r
  <2>2. KnownBlocks'
    BY Zenon, <1>1, <1>3, <2>1 DEF SapInv, Blocks, KnownBlocks, InHeap
  <2>3. \A n, b : InHeap(n, b)' <=> InHeap(n, b) /\ ~ (n = r /\ b = "msg")
    BY Zenon, <1>1 DEF InHeap
  <2>4. RequestBlocks'
    BY Zenon, <1>3, <2>3 DEF SapInv, Blocks, RequestBlocks
  <2>5. MsgBlocks'
    BY Zenon, <1>1, <1>2, <1>3, <1>4, <2>3 DEF SapInv, Blocks, MsgBlocks, r
  <2>6. PayloadBlocks'
    BY Zenon, <1>1, <1>2, <1>3, <2>3 DEF SapInv, Blocks, PayloadBlocks, r
  <2> QED BY Zenon, <2>2, <2>4, <2>5, <2>6 DEF Blocks
<1>8. Counts'
  <2>1. \A n \in Requests : Unanswered(n)' => Unanswered(n)
    BY Zenon, <1>1, <1>2, <1>3 DEF Unanswered
  <2> QED BY Zenon, <1>1, <2>1 DEF SapInv, Counts
<1>9. Truth'
  BY Zenon, <1>1, <1>3 DEF SapInv, Truth
<1> QED BY <1>5, <1>6, <1>7, <1>8, <1>9 DEF SapInv

\* The vendor library is called.
LEMMA OnRequestStep ==
  ASSUME SapInv, OnRequest
  PROVE  SapInv'
<1> DEFINE r == hidl.r
<1>1. /\ hidl.pc = "onRequest"
      /\ vendor' = vendor \cup {r} \/ vendor' = vendor
      /\ UNCHANGED <<req, worker, queue, heap, wrong, said, answers>>
  BY Zenon DEF OnRequest, memory
<1>2. hidl'.pc = "dispatched" /\ hidl'.r = r /\ DOMAIN hidl' = HidlFields
  <2>1. hidl' = [hidl EXCEPT !.pc = "dispatched"]
    BY Zenon DEF OnRequest
  <2> QED BY Zenon, <2>1, HidlSet DEF SapInv
<1>3. Made' = Made /\ \A n : Pending(n)' <=> Pending(n)
  BY Zenon, <1>1, SameRequests
<1>4. r \in Made /\ r # 0 /\ Pending(r) /\ \A w \in Workers : worker[w].r # r
  BY Zenon, <1>1 DEF SapInv, Threads, OneOwner, Queued, Made
<1> HIDE DEF r
<1>5. SapTypeOK'
  BY Zenon, <1>1, <1>2, <1>3, <1>4 DEF SapInv, SapTypeOK
<1>6. Queues' /\ Threads'
  BY Zenon, <1>1, <1>2, <1>3, <1>4 DEF SapInv, Queues, Threads, r
<1>7. OneOwner' /\ Queued'
  BY Zenon, <1>1, <1>2, <1>3, <1>4 DEF SapInv, OneOwner, Queued, r
<1>8. Blocks'
  <2>1. KnownBlocks' /\ RequestBlocks'
    BY Zenon, <1>1, <1>3 DEF SapInv, Blocks, KnownBlocks, RequestBlocks, InHeap
  <2>2. MsgBlocks' /\ PayloadBlocks'
    BY <1>1, <1>2, <1>3, <1>4 DEF SapInv, Blocks, MsgBlocks, PayloadBlocks, InHeap, r
  <2> QED BY <2>1, <2>2 DEF Blocks
<1>9. Counts'
  <2>1. \A n \in Requests : Unanswered(n)' => Unanswered(n)
    BY Zenon, <1>1, <1>2, <1>3 DEF Unanswered, r
  <2> QED BY Zenon, <1>1, <2>1 DEF SapInv, Counts
<1>10. Truth'
  BY Zenon, <1>1, <1>3 DEF SapInv, Truth
<1> QED BY Zenon, <1>5, <1>6, <1>7, <1>8, <1>9, <1>10 DEF SapInv

\* The request is put in front of the queue.
LEMMA EnqueueStep ==
  ASSUME SapInv, Enqueue
  PROVE  SapInv'
<1> DEFINE r == hidl.r
           s == req[r].slot
<1>1. /\ hidl.pc = "dispatch"
      /\ heap' = heap \cup {<<r, "request">>}
      /\ queue' = [queue EXCEPT ![s] = <<r>> \o queue[s]]
      /\ UNCHANGED <<req, worker, vendor, wrong, said, answers>>
  BY Zenon DEF Enqueue, told
<1>2. hidl'.pc = "onRequest" /\ hidl'.r = r /\ DOMAIN hidl' = HidlFields
  <2>1. hidl' = [hidl EXCEPT !.pc = "onRequest"]
    BY Zenon DEF Enqueue
  <2> QED BY Zenon, <2>1, HidlSet DEF SapInv
<1>3. r \in Made /\ r # 0 /\ ~ Pending(r) /\ r \notin vendor /\ \A w \in Workers : worker[w].r # r
  BY Zenon, <1>1 DEF SapInv, Threads, OneOwner, Queued, Made
<1>4. s \in Slots /\ r \in Nat /\ \A n \in Made : req[n].slot \in Slots
  <2>1. \A n \in Made : req[n].slot \in Slots /\ n \in Nat
    BY Zenon, RequestsTyped DEF SapInv
  <2> QED BY Zenon, <1>3, <2>1
<1> HIDE DEF r, s
<1>5. queue \in [Slots -> Seq(Nat)] /\ Distinct(queue[s]) /\ r \notin Range(queue[s])
  BY Zenon, <1>3, <1>4 DEF SapInv, SapTypeOK, Queues, Pending, s
<1>6. /\ <<r>> \o queue[s] \in Seq(Nat)
      /\ Range(<<r>> \o queue[s]) = Range(queue[s]) \cup {r}
      /\ Distinct(<<r>> \o queue[s])
  BY Zenon, <1>4, <1>5, PushFront
<1>7. /\ queue' \in [Slots -> Seq(Nat)]
      /\ Range(queue'[s]) = Range(queue[s]) \cup {r} /\ Distinct(queue'[s])
      /\ \A u \in Slots : u # s => queue'[u] = queue[u]
  BY Zenon, <1>1, <1>4, <1>5, <1>6
<1>8. Made' = Made
  BY Zenon, <1>1 DEF Made
<1>9. \A n \in Made : Pending(n)' <=> Pending(n) \/ n = r
  <2> TAKE n \in Made
  <2>1. CASE req[n].slot = s
    BY Zenon, <1>1, <1>7, <2>1 DEF Pending
  <2>2. CASE req[n].slot # s
    BY Zenon, <1>1, <1>4, <1>7, <2>2 DEF Pending, s
  <2> QED BY Zenon, <2>1, <2>2
<1>10. SapTypeOK'
  BY Zenon, <1>1, <1>2, <1>7, <1>8 DEF SapInv, SapTypeOK
<1>11. Queues'
  <2>1. \A n \in Made : req'[n].token = n
    BY Zenon, <1>1 DEF SapInv, Queues
  <2>2. \A u \in Slots : Distinct(queue'[u])
    BY Zenon, <1>7 DEF SapInv, Queues
  <2>3. ASSUME NEW u \in Slots, NEW n \in Range(queue'[u]) PROVE n \in Made /\ req[n].slot = u
    <3>1. \A k \in Range(queue[u]) : k \in Made /\ req[k].slot = u
      BY Zenon DEF SapInv, Queues
    <3>2. CASE u = s
      BY Zenon, <1>3, <1>7, <2>3, <3>1, <3>2 DEF s
    <3>3. CASE u # s
      BY Zenon, <1>7, <2>3, <3>1, <3>3
    <3> QED BY Zenon, <3>2, <3>3
  <2> QED BY Zenon, <1>1, <1>8, <2>1, <2>2, <2>3 DEF Queues
<1>12. Threads' /\ OneOwner'
  BY Zenon, <1>1, <1>2, <1>3, <1>8 DEF SapInv, Threads, OneOwner, r
<1>13. Queued'
  <2>1. vendor \subseteq Made /\ \A w \in Workers : worker[w].r \in Made \cup {0}
    BY Zenon DEF SapInv, SapTypeOK, Threads
  <2> QED BY Zenon, <1>1, <1>2, <1>3, <1>9, <2>1 DEF SapInv, Queued
<1>14. Blocks'
  <2>1. KnownBlocks'
    BY <1>1, <1>3, <1>8 DEF SapInv, Blocks, KnownBlocks, Purposes
  <2>2. \A n, b : InHeap(n, b)' <=> InHeap(n, b) \/ (n = r /\ b = "request")
    BY Zenon, <1>1 DEF InHeap
  <2>3. RequestBlocks'
    BY Zenon, <1>8, <1>9, <2>2 DEF SapInv, Blocks, RequestBlocks
  <2>4. MsgBlocks'
    <3>1. \A n \in Made : InHeap(n, "msg")' <=> InHeap(n, "msg")
      BY Zenon, <2>2
    <3>2. InHeap(r, "msg")
      BY Zenon, <1>1, <1>3 DEF SapInv, Blocks, MsgBlocks, r
    <3> QED BY Zenon, <1>1, <1>2, <1>8, <1>9, <3>1, <3>2 DEF SapInv, Blocks, MsgBlocks, r
  <2>5. PayloadBlocks'
    BY Zenon, <1>1, <1>2, <1>8, <2>2 DEF SapInv, Blocks, PayloadBlocks, r
  <2> QED BY <2>1, <2>3, <2>4, <2>5 DEF Blocks
<1>15. Counts'
  <2>1. \A n \in Requests : Unanswered(n)' => Unanswered(n)
    BY Zenon, <1>1, <1>2, <1>8 DEF Unanswered, r
  <2> QED BY Zenon, <1>1, <2>1 DEF SapInv, Counts
<1>16. Truth'
  BY Zenon, <1>1, <1>8 DEF SapInv, Truth
<1> QED BY Zenon, <1>10, <1>11, <1>12, <1>13, <1>14, <1>15, <1>16 DEF SapInv

\* The encoded message is freed after the vendor library has returned.
LEMMA FreePayloadStep ==
  ASSUME SapInv, FreePayload
  PROVE  SapInv'
<1> DEFINE r == hidl.r
           freed == Of(r, {"payload", "buffer"})
<1>1. /\ hidl.pc = "dispatched"
      /\ heap' = heap \ freed /\ wrong' = wrong \cup (freed \ heap)
      /\ UNCHANGED <<req, worker, queue, vendor, said, answers>>
  BY Zenon DEF FreePayload, Free, told
<1>2. hidl'.pc = "idle" /\ hidl'.r = 0 /\ DOMAIN hidl' = HidlFields
  BY Zenon DEF FreePayload, HidlIdle, HidlFields
<1>3. Made' = Made /\ \A n : Pending(n)' <=> Pending(n)
  BY Zenon, <1>1, SameRequests
<1>4. r \in Made
  BY Zenon, <1>1 DEF SapInv, Threads
<1> HIDE DEF r
<1>5. SapTypeOK'
  BY Zenon, <1>1, <1>2, <1>3 DEF SapInv, SapTypeOK
<1>6. Queues' /\ Threads' /\ OneOwner' /\ Queued'
  BY Zenon, <1>1, <1>2, <1>3 DEF SapInv, Queues, Threads, OneOwner, Queued
<1>7. Blocks'
  <2>1. InHeap(r, "payload") /\ InHeap(r, "buffer")
    BY Zenon, <1>1, <1>4 DEF SapInv, Blocks, PayloadBlocks, r
  <2>2. freed = {<<r, "payload">>, <<r, "buffer">>}
    BY DEF Of
  <2> HIDE DEF freed
  <2>3. KnownBlocks'
    BY Zenon, <1>1, <1>3, <2>1, <2>2 DEF SapInv, Blocks, KnownBlocks, InHeap
  <2>4. \A n, b : InHeap(n, b)' <=> InHeap(n, b) /\ ~ (n = r /\ b \in {"payload", "buffer"})
    BY Zenon, <1>1, <2>2 DEF InHeap
  <2>5. \A n \in Made : n # 0
    BY DEF Made
  <2>6. RequestBlocks'
    BY Zenon, <1>3, <2>4 DEF SapInv, Blocks, RequestBlocks
  <2>7. MsgBlocks'
    <3>1. \A n \in Made : InHeap(n, "msg")' <=> InHeap(n, "msg")
      BY Zenon, <2>4
    <3> QED BY Zenon, <1>1, <1>2, <1>3, <3>1 DEF SapInv, Blocks, MsgBlocks
  <2>8. PayloadBlocks'
    BY Zenon, <1>1, <1>2, <1>3, <2>4, <2>5 DEF SapInv, Blocks, PayloadBlocks, r
  <2> QED BY <2>3, <2>6, <2>7, <2>8 DEF Blocks
<1>8. Counts'
  <2>1. \A n \in Requests : Unanswered(n)' => Unanswered(n)
    BY Zenon, <1>1, <1>2, <1>3 DEF Unanswered
  <2> QED BY Zenon, <1>1, <2>1 DEF SapInv, Counts
<1>9. Truth'
  BY Zenon, <1>1, <1>3 DEF SapInv, Truth
<1> QED BY <1>5, <1>6, <1>7, <1>8, <1>9 DEF SapInv

\* A method that fails has freed what it allocated, except the command of an APDU.
LEMMA FailedMethods ==
  ASSUME NEW id, NEW p \in Points
  PROVE  /\ FreedAt(id, p) \subseteq Allocated(id, p)
         /\ Allocated(id, p) \subseteq {"msg", "command", "buffer", "payload"}
         /\ p = None => \A b \in {"msg", "buffer", "payload"} : b \in Allocated(id, p) \ FreedAt(id, p)
         /\ p # None => \A b \in {"msg", "buffer", "payload"} : b \notin Allocated(id, p) \ FreedAt(id, p)
<1>1. CASE p = "msg"
  BY Zenon, <1>1 DEF Allocated, FreedAt, None
<1>2. CASE p = "command"
  BY Zenon, <1>2 DEF Allocated, FreedAt, None
<1>3. CASE p = "size"
  BY Zenon, <1>3 DEF Allocated, FreedAt, None
<1>4. CASE p = "buffer"
  BY Zenon, <1>4 DEF Allocated, FreedAt, None
<1>5. CASE p = "encode"
  BY Zenon, <1>5 DEF Allocated, FreedAt, None
<1>6. CASE p = "payload"
  BY Zenon, <1>6 DEF Allocated, FreedAt, None
<1>7. CASE p = "socket"
  BY Zenon, <1>7 DEF Allocated, FreedAt, None
<1>8. CASE p = None
  BY Zenon, <1>8 DEF Allocated, FreedAt, None
<1> QED BY Zenon, <1>1, <1>2, <1>3, <1>4, <1>5, <1>6, <1>7, <1>8 DEF Points

\* A request method.
LEMMA RequestStep ==
  ASSUME SapInv, NEW s \in Slots, NEW id \in Methods, NEW p \in Points, Request(s, id, p)
  PROVE  SapInv'
<1>r. PICK r : r = Len(req) + 1
  BY Zenon
<1> DEFINE new == Allocated(id, p) \ FreedAt(id, p)
<1>1. /\ r \in Requests
      /\ req' = Append(req, [slot |-> s, id |-> id, token |-> r])
      /\ heap' = heap \cup Of(r, new)
      /\ wrong' = wrong \cup Of(r, FreedAt(id, p) \ Allocated(id, p))
      /\ hidl' = [HidlIdle EXCEPT !.pc = IF p = None THEN "dispatch" ELSE "failed", !.r = r]
  BY Zenon, <1>r DEF Request
<1>0. hidl.pc = "idle" /\ UNCHANGED <<worker, queue, vendor, said, answers>>
  BY Zenon DEF Request, told
<1>2. /\ hidl'.pc = (IF p = None THEN "dispatch" ELSE "failed") /\ hidl'.r = r
      /\ DOMAIN hidl' = HidlFields
  BY Zenon, <1>1 DEF HidlIdle, HidlFields
<1>3. req \in Seq(RequestFields) /\ Len(req) \in Nat
  BY DEF SapInv, SapTypeOK
<1>4. [slot |-> s, id |-> id, token |-> r] \in RequestFields
  BY <1>3, <1>r DEF RequestFields
<1>5. /\ req' \in Seq(RequestFields) /\ Len(req') = r
      /\ \A n \in 1 .. Len(req) : req'[n] = req[n]
      /\ req'[r] = [slot |-> s, id |-> id, token |-> r]
  BY <1>1, <1>3, <1>4, <1>r
<1>6. Made' = Made \cup {r} /\ r \notin Made /\ r # 0 /\ \A n \in Made : req'[n] = req[n]
  BY <1>3, <1>5, <1>r DEF Made
<1>7. req'[r].slot = s /\ req'[r].token = r /\ Len(req') <= MaxRequests
  BY <1>1, <1>5, SapAssumption DEF Requests
<1>8. /\ new \subseteq Purposes /\ Of(r, FreedAt(id, p) \ Allocated(id, p)) = {}
      /\ p = None => \A b \in {"msg", "buffer", "payload"} : b \in new
      /\ p # None => \A b \in {"msg", "buffer", "payload"} : b \notin new
      /\ "request" \notin new
  BY FailedMethods DEF Purposes, Of
<1> HIDE DEF new
<1>9. \A u \in Slots : \A n \in Range(queue[u]) : n \in Made /\ req[n].slot = u
  BY Zenon DEF SapInv, Queues
<1>10. (\A n \in Made : Pending(n)' <=> Pending(n)) /\ ~ Pending(r)'
  <2>1. ASSUME NEW n \in Made PROVE Pending(n)' <=> Pending(n)
    BY Zenon, <1>0, <1>6 DEF Pending
  <2>2. r \notin Range(queue[s])
    BY Zenon, <1>6, <1>9
  <2> QED BY Zenon, <1>0, <1>7, <2>1, <2>2 DEF Pending
<1>11. hidl.r = 0 /\ vendor \subseteq Made /\ \A w \in Workers : worker[w].r \in Made \cup {0}
  BY Zenon, <1>0 DEF SapInv, SapTypeOK, Threads
<1>12. SapTypeOK'
  BY Zenon, <1>0, <1>2, <1>5, <1>6, <1>7 DEF SapInv, SapTypeOK
<1>13. Queues'
  <2>1. \A n \in Made' : req'[n].token = n
    BY Zenon, <1>6, <1>7 DEF SapInv, Queues
  <2>2. \A u \in Slots : Distinct(queue'[u])
    BY Zenon, <1>0 DEF SapInv, Queues
  <2>3. \A u \in Slots : \A n \in Range(queue'[u]) : n \in Made' /\ req'[n].slot = u
    BY Zenon, <1>0, <1>6, <1>9
  <2> QED BY Zenon, <2>1, <2>2, <2>3 DEF Queues
<1>14. Threads'
  <2>1. hidl'.r \in Made' \cup {0} /\ hidl'.r # 0 /\ hidl'.pc # "idle"
    BY Zenon, <1>2, <1>6
  <2>2. \A w \in Workers : /\ worker'[w] = worker[w] /\ worker[w].r \in Made' \cup {0}
                           /\ worker[w].r # 0 => req'[worker[w].r] = req[worker[w].r]
    BY Zenon, <1>0, <1>6, <1>11
  <2> QED BY <2>1, <2>2 DEF SapInv, Threads
<1>15. OneOwner'
  BY Zenon, <1>0, <1>2, <1>6, <1>11 DEF SapInv, OneOwner
<1>16. Queued'
  BY Zenon, <1>0, <1>2, <1>6, <1>10, <1>11 DEF SapInv, Queued
<1>17. Blocks'
  <2>1. Of(r, new) \subseteq Made' \X Purposes
    BY Zenon, <1>6, <1>8 DEF Of
  <2>2. KnownBlocks'
    <3>1. Made \X Purposes \subseteq Made' \X Purposes
      BY Zenon, <1>6
    <3>2. heap \subseteq Made \X Purposes /\ wrong = {}
      BY Zenon DEF SapInv, Blocks, KnownBlocks
    <3>3. wrong' = {}
      BY Zenon, <1>1, <1>8, <3>2
    <3>4. heap' = heap \cup Of(r, new)
      BY Zenon, <1>1 DEF new
    <3>5. heap' \subseteq Made' \X Purposes
      BY Zenon, <3>1, <3>2, <3>4, <2>1
    <3> QED BY Zenon, <3>3, <3>5 DEF KnownBlocks
  <2>3. \A n, b : InHeap(n, b)' <=> InHeap(n, b) \/ (n = r /\ b \in new)
    BY Zenon, <1>1 DEF InHeap, Of
  <2>4. \A b : ~ InHeap(r, b)
    BY Zenon, <1>6 DEF SapInv, Blocks, KnownBlocks, InHeap
  <2>5. RequestBlocks'
    BY Zenon, <1>6, <1>8, <1>10, <2>3, <2>4 DEF SapInv, Blocks, RequestBlocks
  <2>6. MsgBlocks'
    <3>1. \A n \in Made : InHeap(n, "msg")' <=> InHeap(n, "msg")
      BY Zenon, <1>6, <2>3
    <3>2. InHeap(r, "msg")' <=> p = None
      BY Zenon, <1>8, <2>3, <2>4
    <3>3. \A n \in Made : n # r /\ n # 0
      BY <1>6 DEF Made
    <3>4. hidl'.pc = "dispatch" <=> p = None
      BY Zenon, <1>2
    <3>5. MsgBlocks /\ Made' = Made \cup {r} /\ r \notin Made /\ r # 0 /\ hidl'.r = r
      BY Zenon, <1>2, <1>6 DEF SapInv, Blocks
    <3> QED BY <1>0, <1>10, <1>11, <3>1, <3>2, <3>3, <3>4, <3>5 DEF MsgBlocks
  <2>7. PayloadBlocks'
    <3>1. \A n \in Made : \A b \in {"payload", "buffer"} : InHeap(n, b)' <=> InHeap(n, b)
      BY Zenon, <1>6, <2>3
    <3>2. \A b \in {"payload", "buffer"} : InHeap(r, b)' <=> p = None
      BY Zenon, <1>8, <2>3, <2>4
    <3>3. \A n \in Made : n # r /\ n # 0
      BY <1>6 DEF Made
    <3>4. hidl'.pc \in {"dispatch", "onRequest", "dispatched"} <=> p = None
      BY Zenon, <1>2
    <3> QED BY Zenon, <1>0, <1>2, <1>6, <1>11, <3>1, <3>2, <3>3, <3>4 DEF SapInv, Blocks, PayloadBlocks
  <2> QED BY Zenon, <2>2, <2>5, <2>6, <2>7 DEF Blocks
<1>18. Counts'
  <2>1. \A n \in Requests : Unanswered(n)' => Unanswered(n)
    BY Zenon, <1>0, <1>2, <1>6 DEF Unanswered
  <2> QED BY Zenon, <1>0, <2>1 DEF SapInv, Counts
<1>19. Truth'
  BY Zenon, <1>0, <1>6 DEF SapInv, Truth
<1> QED BY Zenon, <1>12, <1>13, <1>14, <1>15, <1>16, <1>17, <1>18, <1>19 DEF SapInv

\* The steps of the HIDL thread.
LEMMA HidlStep ==
  ASSUME SapInv, Hidl
  PROVE  SapInv'
BY Zenon, SendFailedStep, FailedReturnsStep, EnqueueStep, DispatchFailsStep, OnRequestStep,
   FreePayloadStep DEF Hidl

\* The fields of a new thread record.
LEMMA ThreadFields ==
  ASSUME NEW pc, NEW r, NEW slot, NEW id, NEW msg
  PROVE  LET t == Thread(pc, r, slot, id, msg) IN
         t.pc = pc /\ t.r = r /\ t.slot = slot /\ t.id = id /\ t.msg = msg /\ DOMAIN t = WorkerFields
BY Zenon DEF Thread, WorkerFields

\* A thread takes a completion from the vendor library.
LEMMA TakesCompletion ==
  ASSUME SapInv, NEW w \in Workers, NEW r \in vendor, NEW t,
         worker[w].pc = "idle", vendor' = vendor \ {r}, worker' = [worker EXCEPT ![w] = t],
         DOMAIN t = WorkerFields, t.r = r, t.slot = req[r].slot, t.pc \in {"check", "dequeue"},
         t.pc = "check" => t.id = req[r].id,
         wrong' = {}, UNCHANGED <<req, hidl, queue, heap, said, answers>>
  PROVE  SapInv'
<1>4. /\ worker'[w] = t /\ \A v \in Workers : v # w => worker'[v] = worker[v]
      /\ DOMAIN worker' = Workers /\ \A v \in Workers : DOMAIN worker'[v] = WorkerFields
  BY Zenon, WorkerSet DEF SapInv
<1>3. worker'[w].r = r /\ worker'[w].slot = req[r].slot /\ worker'[w].pc \in {"check", "dequeue"}
  BY Zenon, <1>4
<1>5. Made' = Made /\ \A n : Pending(n)' <=> Pending(n)
  BY Zenon, SameRequests
<1>6. r \in Made /\ r # 0 /\ Pending(r) /\ worker[w].r = 0
  BY DEF SapInv, SapTypeOK, Queued, Threads, Made
<1>7. /\ \A v \in Workers : worker[v].r # r
      /\ hidl.pc \in {"failed", "returned", "dispatch", "onRequest"} => hidl.r # r
  BY Zenon DEF SapInv, OneOwner
<1>8. SapTypeOK'
  BY Zenon, <1>4, <1>5 DEF SapInv, SapTypeOK
<1>9. Queues'
  BY Zenon, <1>5 DEF SapInv, Queues
<1>10. Threads'
  BY <1>4, <1>5, <1>6 DEF SapInv, Threads
<1>11. OneOwner'
  <2>1. OneOwner
    BY Zenon DEF SapInv
  <2> QED BY <1>3, <1>4, <1>6, <1>7, <2>1 DEF OneOwner
<1>12. Queued'
  BY Zenon, <1>3, <1>4, <1>5, <1>6 DEF SapInv, Queued
<1>13. Blocks'
  <2>1. KnownBlocks'
    BY Zenon, <1>5 DEF SapInv, Blocks, KnownBlocks
  <2>2. \A n, b : InHeap(n, b)' <=> InHeap(n, b)
    BY Zenon DEF InHeap
  <2>3. RequestBlocks' /\ PayloadBlocks'
    BY Zenon, <1>5, <2>2 DEF SapInv, Blocks, RequestBlocks, PayloadBlocks
  <2>4. MsgBlocks'
    <3>1. \A n : (\E v \in Workers : worker'[v].r = n /\ worker'[v].pc = "free") <=>
                 (\E v \in Workers : worker[v].r = n /\ worker[v].pc = "free")
      BY Zenon, <1>3, <1>4
    <3> QED BY <1>5, <2>2, <3>1 DEF SapInv, Blocks, MsgBlocks
  <2> QED BY Zenon, <2>1, <2>3, <2>4 DEF Blocks
<1>14. Counts'
  <2>1. \A n \in Requests : Unanswered(n)' => Unanswered(n)
    BY <1>3, <1>4, <1>5 DEF Unanswered
  <2> QED BY Zenon, <2>1 DEF SapInv, Counts
<1>15. Truth'
  BY Zenon, <1>5 DEF SapInv, Truth
<1> QED BY Zenon, <1>8, <1>9, <1>10, <1>11, <1>12, <1>13, <1>14, <1>15 DEF SapInv

\* Completions.
LEMMA CompletesStep ==
  ASSUME SapInv, NEW r, Completes(r)
  PROVE  SapInv'
<1>1. ASSUME NEW w \in Workers, CompleteFails(w, r) PROVE SapInv'
  <2>1. /\ worker[w].pc = "idle" /\ r \in vendor /\ vendor' = vendor \ {r}
        /\ worker' = [worker EXCEPT ![w] = Thread("dequeue", r, req[r].slot, None, None)]
        /\ wrong' = wrong /\ UNCHANGED <<req, hidl, queue, heap, said, answers>>
    BY Zenon, <1>1 DEF CompleteFails, memory
  <2>2. wrong' = {}
    BY Zenon, <2>1 DEF SapInv, Blocks, KnownBlocks
  <2>3. PICK t : t = Thread("dequeue", r, req[r].slot, None, None)
    BY Zenon
  <2>4. /\ DOMAIN t = WorkerFields /\ t.r = r /\ t.slot = req[r].slot /\ t.pc = "dequeue"
    BY <2>3, ThreadFields
  <2>5. t.pc \in {"check", "dequeue"} /\ (t.pc = "check" => t.id = req[r].id)
    BY Zenon, <2>4
  <2> QED BY Zenon, <2>1, <2>2, <2>3, <2>4, <2>5, TakesCompletion
<1>2. ASSUME NEW w \in Workers, NEW msg, onRequestComplete(w, r, msg) PROVE SapInv'
  <2>1. /\ worker[w].pc = "idle" /\ r \in vendor /\ vendor' = vendor \ {r}
        /\ worker' = [worker EXCEPT ![w] = Thread("check", r, req[r].slot, req[r].id, msg)]
        /\ UNCHANGED <<req, hidl, queue, heap, said, answers>>
    BY Zenon, <1>2 DEF onRequestComplete, told
  <2>2. wrong' = wrong \cup (Of(r, {"request", "msg"}) \ heap)
    BY Zenon, <1>2 DEF onRequestComplete
  <2>3. r \in Made /\ Pending(r)
    BY Zenon, <2>1 DEF SapInv, SapTypeOK, Queued
  <2>4. InHeap(r, "request") /\ InHeap(r, "msg")
    BY Zenon, <2>3 DEF SapInv, Blocks, RequestBlocks, MsgBlocks
  <2>5. Of(r, {"request", "msg"}) \subseteq heap
    BY <2>4 DEF InHeap, Of
  <2>6. wrong' = {}
    BY Zenon, <2>2, <2>5 DEF SapInv, Blocks, KnownBlocks
  <2>7. PICK t : t = Thread("check", r, req[r].slot, req[r].id, msg)
    BY Zenon
  <2>8. /\ DOMAIN t = WorkerFields /\ t.r = r /\ t.slot = req[r].slot
        /\ t.pc = "check" /\ t.id = req[r].id
    BY <2>7, ThreadFields
  <2>9. t.pc \in {"check", "dequeue"} /\ (t.pc = "check" => t.id = req[r].id)
    BY Zenon, <2>8
  <2> QED BY Zenon, <2>1, <2>6, <2>7, <2>8, <2>9, TakesCompletion
<1> QED BY Zenon, <1>1, <1>2 DEF Completes

\* A thread goes on with the request it works on, without touching the queue or the blocks.
LEMMA ThreadMoves ==
  ASSUME SapInv, NEW w \in Workers, NEW t,
         worker' = [worker EXCEPT ![w] = t], DOMAIN t = WorkerFields,
         t.r = worker[w].r, worker[w].pc # "free", t.pc # "free",
         t.pc = "idle" => t.r = 0, t.pc = "dequeue" => t.r # 0,
         t.r # 0 => t.slot = req[t.r].slot,
         t.r # 0 /\ t.pc \in {"check", "call"} => t.id = req[t.r].id,
         t.r = 0 /\ t.pc \in {"check", "call"} => t.id \in Unsolicited,
         UNCHANGED <<req, hidl, queue, vendor, heap, wrong>>,
         answers' \in [Requests -> Nat]
  PROVE  /\ SapTypeOK' /\ Queues' /\ Threads' /\ OneOwner' /\ Queued' /\ Blocks'
         /\ worker'[w] = t /\ \A v \in Workers : v # w => worker'[v] = worker[v]
         /\ Made' = Made
<1>1. /\ worker'[w] = t /\ \A v \in Workers : v # w => worker'[v] = worker[v]
      /\ DOMAIN worker' = Workers /\ \A v \in Workers : DOMAIN worker'[v] = WorkerFields
  BY Zenon, WorkerSet DEF SapInv
<1>2. /\ \A v \in Workers : worker'[v].r = worker[v].r
      /\ \A v \in Workers : worker'[v].pc = "free" <=> worker[v].pc = "free"
  BY Zenon, <1>1
<1>3. Made' = Made /\ \A n : Pending(n)' <=> Pending(n)
  BY Zenon, SameRequests
<1>4. SapTypeOK'
  BY Zenon, <1>1, <1>3 DEF SapInv, SapTypeOK
<1>5. Queues'
  BY Zenon, <1>3 DEF SapInv, Queues
<1>6. Threads'
  BY <1>1, <1>3 DEF SapInv, Threads
<1>o. OneOwner'
  <2>1. OneOwner /\ hidl' = hidl /\ vendor' = vendor
    BY Zenon DEF SapInv
  <2> QED BY <1>2, <2>1 DEF OneOwner
<1>7. Queued'
  BY Zenon, <1>2, <1>3 DEF SapInv, Queued
<1>8. Blocks'
  <2>1. KnownBlocks'
    BY Zenon, <1>3 DEF SapInv, Blocks, KnownBlocks
  <2>2. \A n, b : InHeap(n, b)' <=> InHeap(n, b)
    BY Zenon DEF InHeap
  <2>3. RequestBlocks' /\ PayloadBlocks'
    BY Zenon, <1>3, <2>2 DEF SapInv, Blocks, RequestBlocks, PayloadBlocks
  <2>4. MsgBlocks'
    <3>1. \A n : (\E v \in Workers : worker'[v].r = n /\ worker'[v].pc = "free") <=>
                 (\E v \in Workers : worker[v].r = n /\ worker[v].pc = "free")
      BY Zenon, <1>2
    <3>2. MsgBlocks /\ hidl' = hidl
      BY Zenon DEF SapInv, Blocks
    <3> QED BY <1>3, <2>2, <3>1, <3>2 DEF MsgBlocks
  <2> QED BY Zenon, <2>1, <2>3, <2>4 DEF Blocks
<1> QED BY Zenon, <1>1, <1>3, <1>4, <1>5, <1>6, <1>o, <1>7, <1>8

\* It does so without calling the client.
LEMMA ThreadMovesOn ==
  ASSUME SapInv, NEW w \in Workers, NEW t,
         worker' = [worker EXCEPT ![w] = t], DOMAIN t = WorkerFields,
         t.r = worker[w].r, worker[w].pc # "free", t.pc # "free",
         t.pc = "idle" => t.r = 0, t.pc = "dequeue" => t.r # 0,
         t.r # 0 => t.slot = req[t.r].slot,
         t.r # 0 /\ t.pc \in {"check", "call"} => t.id = req[t.r].id,
         t.r = 0 /\ t.pc \in {"check", "call"} => t.id \in Unsolicited,
         t.r # 0 /\ t.pc \in {"check", "call"} => worker[w].pc \in {"check", "call"},
         UNCHANGED <<req, hidl, queue, vendor, heap, wrong, answers>>,
         said' = said \/ said' = Silence
  PROVE  SapInv'
<1>1. answers' \in [Requests -> Nat]
  BY Zenon DEF SapInv, SapTypeOK
<1>2. /\ SapTypeOK' /\ Queues' /\ Threads' /\ OneOwner' /\ Queued' /\ Blocks'
      /\ worker'[w] = t /\ \A v \in Workers : v # w => worker'[v] = worker[v]
      /\ Made' = Made
  BY Zenon, <1>1, ThreadMoves
<1>3. Counts'
  <2>1. \A n \in Requests : n # 0
    BY DEF Requests
  <2>2. \A n \in Requests : Unanswered(n)' => Unanswered(n)
    BY <1>2, <2>1 DEF Unanswered
  <2> QED BY Zenon, <2>2 DEF SapInv, Counts
<1>4. Truth'
  BY <1>2 DEF SapInv, Truth, Silence
<1> QED BY Zenon, <1>2, <1>3, <1>4 DEF SapInv

\* Unsolicited messages.
LEMMA UnsolicitedStep ==
  ASSUME SapInv, NEW w \in Workers, NEW s, NEW id \in Unsolicited, NEW msg,
         onUnsolicitedResponse(w, s, id, msg)
  PROVE  SapInv'
<1>1. /\ worker[w].pc = "idle"
      /\ worker' = [worker EXCEPT ![w] = Thread("check", 0, s, id, msg)]
      /\ UNCHANGED <<req, hidl, queue, vendor, heap, wrong, answers, said>>
  BY Zenon DEF onUnsolicitedResponse, memory, told
<1>2. worker[w].r = 0
  BY Zenon, <1>1 DEF SapInv, Threads
<1>3. PICK t : t = Thread("check", 0, s, id, msg)
  BY Zenon
<1>4. DOMAIN t = WorkerFields /\ t.r = 0 /\ t.slot = s /\ t.pc = "check" /\ t.id = id
  BY <1>3, ThreadFields
<1>5. /\ t.r = worker[w].r /\ worker[w].pc # "free" /\ t.pc # "free"
      /\ (t.pc = "idle" => t.r = 0) /\ (t.pc = "dequeue" => t.r # 0)
      /\ t.r # 0 => t.slot = req[t.r].slot
      /\ t.r # 0 /\ t.pc \in {"check", "call"} => t.id = req[t.r].id
      /\ t.r = 0 /\ t.pc \in {"check", "call"} => t.id \in Unsolicited
      /\ t.r # 0 /\ t.pc \in {"check", "call"} => worker[w].pc \in {"check", "call"}
  BY Zenon, <1>1, <1>2, <1>4
<1> QED BY Zenon, <1>1, <1>3, <1>4, <1>5, ThreadMovesOn

\* processResponse tests sapCallback.
LEMMA CheckStep ==
  ASSUME SapInv, NEW w \in Workers, CheckCallback(w)
  PROVE  SapInv'
<1>1. /\ worker[w].pc = "check" /\ (At(w, Done(w)) \/ At(w, "call"))
      /\ UNCHANGED <<req, hidl, queue, vendor, heap, wrong, answers, said>>
  BY Zenon DEF CheckCallback, memory, told
<1>2. PICK l : (l = Done(w) \/ l = "call") /\ At(w, l)
  BY Zenon, <1>1
<1>3. PICK t : t = [worker[w] EXCEPT !.pc = l]
  <2>1. \A x : \E t : t = x
    BY Zenon
  <2> QED BY Zenon, <2>1
<1>4. worker' = [worker EXCEPT ![w] = t]
  BY Zenon, <1>2, <1>3 DEF At, SapInv, SapTypeOK
<1>5. /\ DOMAIN t = WorkerFields /\ t.pc = l /\ t.r = worker[w].r /\ t.slot = worker[w].slot
      /\ t.id = worker[w].id
  BY Zenon, <1>3 DEF SapInv, SapTypeOK, WorkerFields
<1>6. l = "call" \/ (l = "idle" /\ worker[w].r = 0) \/ (l = "dequeue" /\ worker[w].r # 0)
  BY Zenon, <1>2 DEF Done
<1>7. worker[w].pc = "check"
  BY Zenon DEF CheckCallback
<1>8. /\ t.r = worker[w].r /\ worker[w].pc # "free" /\ t.pc # "free"
      /\ (t.pc = "idle" => t.r = 0) /\ (t.pc = "dequeue" => t.r # 0)
      /\ t.r # 0 => t.slot = req[t.r].slot
      /\ t.r # 0 /\ t.pc \in {"check", "call"} => t.id = req[t.r].id
      /\ t.r = 0 /\ t.pc \in {"check", "call"} => t.id \in Unsolicited
      /\ t.r # 0 /\ t.pc \in {"check", "call"} => worker[w].pc \in {"check", "call"}
  BY Zenon, <1>5, <1>6, <1>7 DEF SapInv, Threads
<1> QED BY Zenon, <1>1, <1>4, <1>5, <1>8, ThreadMovesOn

\* The call of a callback returns.
LEMMA CallbackReturnsStep ==
  ASSUME SapInv, NEW w \in Workers, CallbackReturns(w)
  PROVE  SapInv'
<1>1. /\ worker[w].pc = "returned" /\ said' = Silence
      /\ worker' = [worker EXCEPT ![w] = Thread(Done(w), worker[w].r, worker[w].slot, None, None)]
      /\ UNCHANGED <<req, hidl, queue, vendor, heap, wrong, answers>>
  BY Zenon DEF CallbackReturns, memory
<1>2. PICK t : t = Thread(Done(w), worker[w].r, worker[w].slot, None, None)
  BY Zenon
<1>3. /\ DOMAIN t = WorkerFields /\ t.r = worker[w].r /\ t.slot = worker[w].slot /\ t.pc = Done(w)
  BY <1>2, ThreadFields
<1>4. (Done(w) = "idle" /\ worker[w].r = 0) \/ (Done(w) = "dequeue" /\ worker[w].r # 0)
  BY Zenon DEF Done
<1>5. /\ t.r = worker[w].r /\ worker[w].pc # "free" /\ t.pc # "free"
      /\ (t.pc = "idle" => t.r = 0) /\ (t.pc = "dequeue" => t.r # 0)
      /\ t.r # 0 => t.slot = req[t.r].slot
      /\ t.r # 0 /\ t.pc \in {"check", "call"} => t.id = req[t.r].id
      /\ t.r = 0 /\ t.pc \in {"check", "call"} => t.id \in Unsolicited
      /\ t.r # 0 /\ t.pc \in {"check", "call"} => worker[w].pc \in {"check", "call"}
  BY Zenon, <1>1, <1>3, <1>4 DEF SapInv, Threads
<1> QED BY Zenon, <1>1, <1>2, <1>3, <1>5, ThreadMovesOn

\* processResponse, or sendFailedResponse, calls the client.
LEMMA CallStep ==
  ASSUME SapInv, NEW w \in Workers, CallCallback(w)
  PROVE  SapInv'
<1>1. PICK u : u = worker[w]
  BY Zenon
<1>2. worker[w].pc = "call" /\ UNCHANGED <<req, hidl, queue, vendor, heap, wrong>>
  BY Zenon DEF CallCallback, memory
<1>3. \E callback, result, code :
        /\ CallClient(u.slot, u.r, callback, result, code)
        /\ \/ callback = CallbackOf(u.id) /\ result = FailedResult(u.id) /\ code = "undecodable"
           \/ u.r = 0 /\ callback = IndicationOf(u.id)
           \/ u.r # 0 /\ callback = CallbackOf(u.id) /\ code \in Codes /\ result = ResultOf(u.id, code)
  BY <1>1, Zenon DEF CallCallback
<1>4. PICK callback, result, code :
        /\ CallClient(u.slot, u.r, callback, result, code)
        /\ \/ callback = CallbackOf(u.id) /\ result = FailedResult(u.id) /\ code = "undecodable"
           \/ u.r = 0 /\ callback = IndicationOf(u.id)
           \/ u.r # 0 /\ callback = CallbackOf(u.id) /\ code \in Codes /\ result = ResultOf(u.id, code)
  BY Zenon, <1>3
<1>5. /\ u.r \in Made \cup {0} /\ (u.r # 0 => u.slot = req[u.r].slot /\ u.id = req[u.r].id)
      /\ u.r = 0 => u.id \in Unsolicited
  BY Zenon, <1>1, <1>2 DEF SapInv, Threads
<1>6. u.r # 0 => u.id \in Methods
  BY Zenon, <1>5, RequestsTyped DEF SapInv
<1>7. u.r # 0 => answers[u.r] = 0
  <2>1. Made \subseteq Requests
    BY SapAssumption DEF SapInv, SapTypeOK, Made, Requests
  <2> QED BY Zenon, <1>1, <1>2, <1>5, <2>1 DEF SapInv, Counts, Unanswered
<1>8. u.r # 0 => callback = CallbackOf(req[u.r].id) /\ (result # "void" => (result = "SUCCESS" <=> code = "SUCCESS"))
  <2> SUFFICES ASSUME u.r # 0
               PROVE  /\ callback = CallbackOf(req[u.r].id)
                      /\ result # "void" => (result = "SUCCESS" <=> code = "SUCCESS")
    BY Zenon
  <2>1. CASE callback = CallbackOf(u.id) /\ result = FailedResult(u.id) /\ code = "undecodable"
    <3>1. FailedResult(u.id) # "SUCCESS"
      BY Zenon DEF FailedResult
    <3> QED BY Zenon, <1>5, <2>1, <3>1
  <2>2. CASE callback = CallbackOf(u.id) /\ code \in Codes /\ result = ResultOf(u.id, code)
    <3>1. ResultOf(u.id, code) # "void" => (ResultOf(u.id, code) = "SUCCESS" <=> code = "SUCCESS")
      BY Zenon, <1>6, <2>2, SuccessIsSuccess
    <3> QED BY Zenon, <1>5, <2>2, <3>1
  <2> QED BY Zenon, <1>4, <2>1, <2>2
<1>9. u.r = 0 /\ code # "undecodable" =>
        callback \in {"disconnectIndication", "statusIndication", "errorResponse"}
  <2>1. u.id \in Unsolicited =>
          IndicationOf(u.id) \in {"disconnectIndication", "statusIndication", "errorResponse"}
    BY Zenon DEF Unsolicited, IndicationOf
  <2> QED BY Zenon, <1>4, <1>5, <2>1
<1>10. /\ Truth'
       /\ answers' \in [Requests -> Nat]
       /\ \A n \in Requests : answers'[n] <= 1 /\ (n # u.r => answers'[n] = answers[n])
  <2>1. UNCHANGED req
    BY Zenon, <1>2
  <2> QED BY Zenon, <1>4, <1>5, <1>7, <1>8, <1>9, <2>1, ClientTold
<1>11. PICK t : t = [u EXCEPT !["pc"] = "returned", !["cb"] = sapCallback[u.slot], !["ok"] = Reached(u.slot)]
  <2>1. \A x : \E t : t = x
    OBVIOUS
  <2> QED BY Zenon, <2>1
<1>12. worker' = [worker EXCEPT ![w] = t]
  BY <1>1, <1>11, Zenon DEF CallCallback
<1>13. DOMAIN t = WorkerFields /\ t.pc = "returned" /\ t.r = u.r /\ t.slot = u.slot
  <2>0. DOMAIN u = WorkerFields
    BY Zenon, <1>1 DEF SapInv, SapTypeOK
  <2>1. \A g : DOMAIN g = WorkerFields =>
          \A f \in WorkerFields : \A x : /\ DOMAIN [g EXCEPT ![f] = x] = WorkerFields
                                         /\ [g EXCEPT ![f] = x][f] = x
                                         /\ f # "r" => [g EXCEPT ![f] = x].r = g.r
                                         /\ f # "slot" => [g EXCEPT ![f] = x].slot = g.slot
                                         /\ f # "pc" => [g EXCEPT ![f] = x].pc = g.pc
    BY Zenon, FieldSet DEF WorkerFields
  <2> DEFINE t1 == [u EXCEPT !["pc"] = "returned"]
             t2 == [t1 EXCEPT !["cb"] = sapCallback[u.slot]]
             t3 == [t2 EXCEPT !["ok"] = Reached(u.slot)]
  <2>2. DOMAIN t1 = WorkerFields /\ t1.pc = "returned" /\ t1.r = u.r /\ t1.slot = u.slot
    BY Zenon, <2>0, <2>1 DEF WorkerFields
  <2>3. t = t3
    BY Zenon, <1>11
  <2> HIDE DEF t1
  <2>4. DOMAIN t2 = WorkerFields /\ t2.pc = "returned" /\ t2.r = u.r /\ t2.slot = u.slot
    BY Zenon, <2>1, <2>2 DEF WorkerFields
  <2> HIDE DEF t2
  <2>5. DOMAIN t3 = WorkerFields /\ t3.pc = "returned" /\ t3.r = u.r /\ t3.slot = u.slot
    BY Zenon, <2>1, <2>4 DEF WorkerFields
  <2> QED BY Zenon, <2>3, <2>5
<1>14. /\ t.r = worker[w].r /\ worker[w].pc # "free" /\ t.pc # "free"
       /\ (t.pc = "idle" => t.r = 0) /\ (t.pc = "dequeue" => t.r # 0)
       /\ t.r # 0 => t.slot = req[t.r].slot
       /\ t.r # 0 /\ t.pc \in {"check", "call"} => t.id = req[t.r].id
       /\ t.r = 0 /\ t.pc \in {"check", "call"} => t.id \in Unsolicited
  BY Zenon, <1>1, <1>2, <1>5, <1>13
<1>15. /\ SapTypeOK' /\ Queues' /\ Threads' /\ OneOwner' /\ Queued' /\ Blocks'
       /\ worker'[w] = t /\ \A v \in Workers : v # w => worker'[v] = worker[v]
       /\ Made' = Made
  BY Zenon, <1>2, <1>10, <1>12, <1>13, <1>14, ThreadMoves
<1>16. Counts'
  <2>1. \A n \in Requests : n # 0
    BY DEF Requests
  <2>2. u.r # 0 => /\ u.r \notin vendor /\ \A v \in Workers : v # w => worker[v].r # u.r
                   /\ hidl.pc \in {"failed", "returned", "dispatch", "onRequest"} => hidl.r # u.r
    BY Zenon, <1>1 DEF SapInv, OneOwner
  <2>3. \A n \in Requests : Unanswered(n)' => n # u.r /\ Unanswered(n)
    BY Zenon, <1>2, <1>5, <1>13, <1>15, <2>1, <2>2 DEF Unanswered
  <2> QED BY Zenon, <1>10, <2>3 DEF SapInv, Counts
<1> QED BY Zenon, <1>10, <1>15, <1>16 DEF SapInv

\* The first request of the queue that matches a pending request is that request.
LEMMA FirstMatchIsOwn ==
  ASSUME SapInv, NEW r \in Made, Pending(r)
  PROVE  LET q == queue[req[r].slot] IN
         /\ \E n \in Range(q) : Matches(n, r)
         /\ FirstMatch(q, r) \in DOMAIN q /\ q[FirstMatch(q, r)] = r
<1> DEFINE q == queue[req[r].slot]
           P(i) == Matches(q[i], r) /\ \A j \in 1 .. i - 1 : ~ Matches(q[j], r)
<1>1. req[r].slot \in Slots /\ q \in Seq(Nat) /\ Distinct(q) /\ \A n \in Range(q) : n \in Made
  <2>1. req[r].slot \in Slots
    BY Zenon, RequestsTyped DEF SapInv
  <2> QED BY Zenon, <2>1 DEF SapInv, SapTypeOK, Queues
<1>2. DOMAIN q = 1 .. Len(q) /\ Len(q) \in Nat
  BY <1>1
<1> HIDE DEF q
<1>3. \A i \in DOMAIN q : q[i] \in Made
  BY Zenon, <1>1 DEF Range
<1>4. \A i \in DOMAIN q : Matches(q[i], r) <=> q[i] = r
  BY Zenon, <1>3 DEF SapInv, Queues, Matches
<1>5. PICK i \in DOMAIN q : q[i] = r
  BY Zenon DEF Pending, Range, q
<1>6. \A j \in DOMAIN q : j # i => ~ Matches(q[j], r)
  BY Zenon, <1>1, <1>4, <1>5 DEF Distinct
<1>7. P(i)
  BY <1>2, <1>4, <1>5, <1>6
<1>8. FirstMatch(q, r) = CHOOSE k \in DOMAIN q : P(k)
  BY Zenon DEF FirstMatch
<1> HIDE DEF P
<1>9. FirstMatch(q, r) \in DOMAIN q /\ P(FirstMatch(q, r))
  BY Zenon, <1>7, <1>8
<1>10. q[FirstMatch(q, r)] = r
  BY Zenon, <1>4, <1>9 DEF P
<1>11. \E n \in Range(q) : Matches(n, r)
  BY Zenon, <1>4, <1>5 DEF Range
<1> QED BY Zenon, <1>9, <1>10, <1>11 DEF q

\* checkAndDequeue takes the request of the thread out of the queue and frees it.
LEMMA DequeueStep ==
  ASSUME SapInv, NEW w \in Workers, checkAndDequeue(w)
  PROVE  SapInv'
<1>1. PICK r, s, q, i : r = worker[w].r /\ s = req[r].slot /\ q = queue[s] /\ i = FirstMatch(q, r)
  <2>1. \A x : \E y : y = x
    OBVIOUS
  <2> QED BY Zenon, <2>1
<1>2. worker[w].pc = "dequeue"
  BY Zenon DEF checkAndDequeue
<1>3. r \in Made /\ r # 0 /\ worker[w].slot = s /\ Pending(r)
  BY Zenon, <1>1, <1>2 DEF SapInv, Threads, Queued
<1>4. /\ \E n \in Range(q) : Matches(n, r)
      /\ i \in DOMAIN q /\ q[i] = r
  BY Zenon, <1>1, <1>3, FirstMatchIsOwn
<1>5. /\ queue' = [queue EXCEPT ![s] = Without(q, i)]
      /\ Free({<<r, "request">>})
  BY Zenon, <1>1, <1>3, <1>4 DEF checkAndDequeue
<1>6. UNCHANGED <<req, hidl, vendor, said, answers>> /\ At(w, "free")
  BY Zenon DEF checkAndDequeue, told
<1>7. /\ worker'[w].pc = "free"
      /\ \A f \in WorkerFields \ {"pc"} : worker'[w][f] = worker[w][f]
      /\ \A v \in Workers : v # w => worker'[v] = worker[v]
      /\ DOMAIN worker' = Workers /\ \A v \in Workers : DOMAIN worker'[v] = WorkerFields
  BY Zenon, <1>6, WorkerAt DEF SapInv
<1>8. worker'[w].r = r /\ worker'[w].slot = s
  BY Zenon, <1>1, <1>3, <1>7 DEF WorkerFields
<1>9. s \in Slots /\ q \in Seq(Nat) /\ Distinct(q) /\ queue \in [Slots -> Seq(Nat)]
  <2>1. s \in Slots
    BY Zenon, <1>1, <1>3, RequestsTyped DEF SapInv
  <2> QED BY Zenon, <1>1, <2>1 DEF SapInv, SapTypeOK, Queues
<1>10. /\ Without(q, i) \in Seq(Nat) /\ Range(Without(q, i)) = Range(q) \ {r} /\ Distinct(Without(q, i))
  BY Zenon, <1>4, <1>9, TakenOut
<1>11. /\ queue' \in [Slots -> Seq(Nat)]
       /\ Range(queue'[s]) = Range(queue[s]) \ {r} /\ Distinct(queue'[s])
       /\ \A u \in Slots : u # s => queue'[u] = queue[u]
  <2>1. PICK z : z = Without(q, i)
    <3>1. \A x : \E y : y = x
      OBVIOUS
    <3> QED BY Zenon, <3>1
  <2>2. z \in Seq(Nat) /\ Range(z) = Range(q) \ {r} /\ Distinct(z)
    BY Zenon, <1>10, <2>1
  <2>3. queue' = [queue EXCEPT ![s] = z]
    BY Zenon, <1>5, <2>1
  <2>4. /\ queue' \in [Slots -> Seq(Nat)] /\ queue'[s] = z
        /\ \A u \in Slots : u # s => queue'[u] = queue[u]
    BY Zenon, <1>9, <2>2, <2>3
  <2> QED BY Zenon, <1>1, <2>2, <2>4
<1>12. Made' = Made /\ \A n \in Made : req[n].slot \in Slots
  BY Zenon, <1>6, RequestsTyped DEF Made, SapInv
<1>13. \A n \in Made : Pending(n)' <=> Pending(n) /\ n # r
  <2> TAKE n \in Made
  <2>1. CASE req[n].slot = s
    BY Zenon, <1>6, <1>11, <2>1 DEF Pending
  <2>2. CASE req[n].slot # s
    BY Zenon, <1>1, <1>6, <1>11, <1>12, <2>2 DEF Pending
  <2> QED BY Zenon, <2>1, <2>2
<1>14. /\ r \notin vendor /\ \A v \in Workers : v # w => worker[v].r # r
       /\ hidl.pc \in {"failed", "returned", "dispatch", "onRequest"} => hidl.r # r
  BY Zenon, <1>1, <1>3 DEF SapInv, OneOwner
<1>15. \A v \in Workers : worker'[v].r = worker[v].r
  BY Zenon, <1>1, <1>7, <1>8
<1>16. SapTypeOK'
  BY Zenon, <1>6, <1>7, <1>11, <1>12 DEF SapInv, SapTypeOK
<1>17. Queues'
  <2>1. \A n \in Made : req'[n].token = n
    BY Zenon, <1>6 DEF SapInv, Queues
  <2>2. \A u \in Slots : Distinct(queue'[u])
    BY Zenon, <1>11 DEF SapInv, Queues
  <2>3. \A u \in Slots : Range(queue'[u]) \subseteq Range(queue[u])
    BY Zenon, <1>11
  <2>4. \A u \in Slots : \A n \in Range(queue'[u]) : n \in Made /\ req[n].slot = u
    BY Zenon, <2>3 DEF SapInv, Queues
  <2> QED BY Zenon, <1>6, <1>12, <2>1, <2>2, <2>4 DEF Queues
<1>18. Threads'
  <2>1. s = req[r].slot /\ req' = req /\ hidl' = hidl
    BY Zenon, <1>1, <1>6
  <2>2. \A v \in Workers : v # w => worker'[v] = worker[v]
    BY Zenon, <1>7
  <2>3. worker'[w].pc = "free"
    BY Zenon, <1>7
  <2> QED BY <1>3, <1>8, <1>12, <2>1, <2>2, <2>3 DEF SapInv, Threads
<1>19. OneOwner'
  BY Zenon, <1>6, <1>15 DEF SapInv, OneOwner
<1>20. Queued'
  <2>1. vendor \subseteq Made /\ \A v \in Workers : worker[v].r \in Made \cup {0}
    BY Zenon DEF SapInv, SapTypeOK, Threads
  <2>2. hidl.pc # "idle" => hidl.r \in Made
    BY Zenon DEF SapInv, Threads
  <2>3. \A n \in vendor' : Pending(n)'
    BY Zenon, <1>6, <1>13, <1>14, <2>1 DEF SapInv, Queued
  <2>4. hidl'.pc = "onRequest" => Pending(hidl.r)'
    BY Zenon, <1>6, <1>13, <1>14, <2>2 DEF SapInv, Queued
  <2>5. hidl'.pc \in {"failed", "returned", "dispatch"} => ~ Pending(hidl.r)'
    BY Zenon, <1>6, <1>13, <1>14, <2>2 DEF SapInv, Queued
  <2>6. ASSUME NEW v \in Workers, worker'[v].r # 0
        PROVE  Pending(worker[v].r)' <=> worker'[v].pc # "free"
    <3>1. CASE v = w
      BY Zenon, <1>3, <1>7, <1>8, <1>13, <3>1
    <3>2. CASE v # w
      BY Zenon, <1>7, <1>13, <1>14, <2>1, <2>6, <3>2 DEF SapInv, Queued
    <3> QED BY Zenon, <3>1, <3>2
  <2> QED BY Zenon, <2>3, <2>4, <2>5, <2>6 DEF Queued
<1>21. Blocks'
  <2>1. InHeap(r, "request") /\ InHeap(r, "msg")
    BY Zenon, <1>3 DEF SapInv, Blocks, RequestBlocks, MsgBlocks
  <2>2. heap' = heap \ {<<r, "request">>} /\ wrong' = wrong
    BY Zenon, <1>5, <2>1 DEF Free, InHeap
  <2>3. KnownBlocks'
    BY Zenon, <1>12, <2>2 DEF SapInv, Blocks, KnownBlocks
  <2>4. \A n, b : InHeap(n, b)' <=> InHeap(n, b) /\ ~ (n = r /\ b = "request")
    BY Zenon, <2>2 DEF InHeap
  <2>5. RequestBlocks'
    BY Zenon, <1>12, <1>13, <2>4 DEF SapInv, Blocks, RequestBlocks
  <2>6. MsgBlocks'
    <3>1. \A n \in Made : InHeap(n, "msg")' <=> InHeap(n, "msg")
      BY Zenon, <2>4
    <3>2. \A n \in Made : n # r =>
            ((\E v \in Workers : worker'[v].r = n /\ worker'[v].pc = "free") <=>
             (\E v \in Workers : worker[v].r = n /\ worker[v].pc = "free"))
      BY Zenon, <1>1, <1>7, <1>8
    <3> QED BY <1>6, <1>7, <1>8, <1>12, <1>13, <2>1, <3>1, <3>2 DEF SapInv, Blocks, MsgBlocks
  <2>7. PayloadBlocks'
    <3>1. \A n \in Made : \A b \in {"payload", "buffer"} : InHeap(n, b)' <=> InHeap(n, b)
      BY Zenon, <2>4
    <3> QED BY Zenon, <1>6, <1>12, <3>1 DEF SapInv, Blocks, PayloadBlocks
  <2> QED BY Zenon, <2>3, <2>5, <2>6, <2>7 DEF Blocks
<1>22. Counts'
  <2>1. \A n \in Requests : Unanswered(n)' => Unanswered(n)
    BY Zenon, <1>6, <1>7, <1>12 DEF Unanswered
  <2> QED BY Zenon, <1>6, <2>1 DEF SapInv, Counts
<1>23. Truth'
  BY Zenon, <1>6, <1>12 DEF SapInv, Truth
<1> QED BY Zenon, <1>16, <1>17, <1>18, <1>19, <1>20, <1>21, <1>22, <1>23 DEF SapInv

\* FREE(hdr): the thread of an answered request frees its header and is done.
LEMMA FreeHeaderStep ==
  ASSUME SapInv, NEW w \in Workers, FreeHeader(w)
  PROVE  SapInv'
<1>1. PICK r : r = worker[w].r
  BY Zenon
<1>2. /\ worker[w].pc = "free" /\ Free({<<r, "msg">>})
      /\ worker' = [worker EXCEPT ![w] = WorkerIdle]
      /\ UNCHANGED <<req, hidl, queue, vendor, said, answers>>
  BY Zenon, <1>1 DEF FreeHeader, told
<1>3. r \in Made /\ r # 0 /\ ~ Pending(r)
  BY Zenon, <1>1, <1>2 DEF SapInv, Threads, Queued
<1>4. PICK t : t = WorkerIdle
  BY Zenon
<1>5. t.pc = "idle" /\ t.r = 0 /\ DOMAIN t = WorkerFields
  BY <1>4, ThreadFields DEF WorkerIdle
<1>6. /\ worker'[w] = t /\ \A v \in Workers : v # w => worker'[v] = worker[v]
      /\ DOMAIN worker' = Workers
  BY Zenon, <1>2, <1>4 DEF SapInv, SapTypeOK
<1>7. Made' = Made /\ \A n : Pending(n)' <=> Pending(n)
  BY Zenon, <1>2, SameRequests
<1>8. /\ \A v \in Workers : v # w => worker[v].r # r
      /\ hidl.pc \in {"failed", "returned", "dispatch", "onRequest"} => hidl.r # r
  BY Zenon, <1>1, <1>3 DEF SapInv, OneOwner
<1>9. SapTypeOK'
  BY Zenon, <1>2, <1>5, <1>6, <1>7 DEF SapInv, SapTypeOK
<1>10. Queues'
  BY Zenon, <1>2, <1>7 DEF SapInv, Queues
<1>11. Threads'
  BY <1>2, <1>5, <1>6, <1>7 DEF SapInv, Threads
<1>12. OneOwner'
  <2>1. 0 \notin vendor
    BY DEF SapInv, SapTypeOK, Made
  <2>2. \A v \in Workers : worker'[v].r \notin vendor
    BY Zenon, <1>5, <1>6, <2>1 DEF SapInv, OneOwner
  <2>3. \A v, u \in Workers : worker'[v].r = worker'[u].r /\ worker'[v].r # 0 => v = u
    BY <1>5, <1>6 DEF SapInv, OneOwner
  <2>4. hidl.pc # "idle" => hidl.r # 0
    BY Zenon DEF SapInv, Threads
  <2>5. hidl.pc \in {"failed", "returned", "dispatch", "onRequest"} =>
          hidl.r \notin vendor /\ \A v \in Workers : worker'[v].r # hidl.r
    BY Zenon, <1>5, <1>6, <2>4 DEF SapInv, OneOwner
  <2> QED BY Zenon, <1>2, <2>2, <2>3, <2>5 DEF OneOwner
<1>13. Queued'
  BY Zenon, <1>2, <1>5, <1>6, <1>7 DEF SapInv, Queued
<1>14. Blocks'
  <2>1. InHeap(r, "msg")
    BY Zenon, <1>1, <1>2, <1>3 DEF SapInv, Blocks, MsgBlocks
  <2>2. heap' = heap \ {<<r, "msg">>} /\ wrong' = wrong
    BY Zenon, <1>2, <2>1 DEF Free, InHeap
  <2>3. KnownBlocks'
    BY Zenon, <1>7, <2>2 DEF SapInv, Blocks, KnownBlocks
  <2>4. \A n, b : InHeap(n, b)' <=> InHeap(n, b) /\ ~ (n = r /\ b = "msg")
    BY Zenon, <2>2 DEF InHeap
  <2>5. RequestBlocks'
    BY Zenon, <1>7, <2>4 DEF SapInv, Blocks, RequestBlocks
  <2>6. MsgBlocks'
    <3>1. \A n \in Made : InHeap(n, "msg")' <=> InHeap(n, "msg") /\ n # r
      BY Zenon, <2>4
    <3>2. \A n \in Made : n # r =>
            ((\E v \in Workers : worker'[v].r = n /\ worker'[v].pc = "free") <=>
             (\E v \in Workers : worker[v].r = n /\ worker[v].pc = "free"))
      BY Zenon, <1>1, <1>5, <1>6
    <3>3. ~ \E v \in Workers : worker'[v].r = r /\ worker'[v].pc = "free"
      BY Zenon, <1>3, <1>5, <1>6, <1>8
    <3> QED BY <1>2, <1>3, <1>7, <1>8, <3>1, <3>2, <3>3 DEF SapInv, Blocks, MsgBlocks
  <2>7. PayloadBlocks'
    <3>1. \A n \in Made : \A b \in {"payload", "buffer"} : InHeap(n, b)' <=> InHeap(n, b)
      BY Zenon, <2>4
    <3> QED BY Zenon, <1>2, <1>7, <3>1 DEF SapInv, Blocks, PayloadBlocks
  <2> QED BY <2>3, <2>5, <2>6, <2>7 DEF Blocks
<1>15. Counts'
  <2>1. \A n \in Requests : Unanswered(n)' => Unanswered(n)
    BY Zenon, <1>2, <1>5, <1>6, <1>7 DEF Unanswered
  <2> QED BY Zenon, <1>2, <2>1 DEF SapInv, Counts
<1>16. Truth'
  BY Zenon, <1>2, <1>7 DEF SapInv, Truth
<1> QED BY <1>9, <1>10, <1>11, <1>12, <1>13, <1>14, <1>15, <1>16 DEF SapInv

\* The steps of the threads of the vendor library.
LEMMA AnsweringStep ==
  ASSUME SapInv, NEW w \in Workers, Answering(w)
  PROVE  SapInv'
BY Zenon, CheckStep, CallStep, CallbackReturnsStep, DequeueStep, FreeHeaderStep DEF Answering

\* Every step of the system preserves the invariant.
LEMMA NextSapInv ==
  ASSUME SapInv, [Next]_vars
  PROVE  SapInv'
<1>1. CASE UNCHANGED vars
  BY Zenon, <1>1, OutsideStep DEF vars, memory, told
<1>2. CASE RIL_register_socket
  BY Zenon, <1>2, ClientStep
<1>3. ASSUME NEW s \in Slots, ClientDies(s) \/ ClientRestarts(s) \/ setCallback(s)
      PROVE  SapInv'
  BY Zenon, <1>3, ClientStep
<1>4. ASSUME NEW s \in Slots, NEW id \in Methods, NEW p \in Points, Request(s, id, p)
      PROVE  SapInv'
  BY Zenon, <1>4, RequestStep
<1>5. ASSUME NEW s \in Slots, NEW w \in Workers, NEW id \in {"DISCONNECT", "STATUS", "ERROR_RESP"},
             NEW msg \in Messages, onUnsolicitedResponse(w, s, id, msg)
      PROVE  SapInv'
  BY Zenon, <1>5, UnsolicitedStep DEF Unsolicited
<1>6. CASE Hidl
  BY Zenon, <1>6, HidlStep
<1>7. ASSUME NEW r \in Requests, Completes(r) PROVE SapInv'
  BY Zenon, <1>7, CompletesStep
<1>8. ASSUME NEW w \in Workers, Answering(w) PROVE SapInv'
  BY Zenon, <1>8, AnsweringStep
<1> QED BY Zenon, <1>1, <1>2, <1>3, <1>4, <1>5, <1>6, <1>7, <1>8 DEF Next
-----------------------------------------------------------------------------
(* The theorems *)

\* The blocks that the invariant accounts for are the ones the property is about.
LEMMA SapInvMemory == SapInv => SapMemorySound
<1> SUFFICES ASSUME SapInv PROVE SapMemorySound
  BY Zenon
<1>1. \A r \in Made : Pending(r) => InHeap(r, "request") /\ InHeap(r, "msg")
  BY Zenon DEF SapInv, Blocks, RequestBlocks, MsgBlocks
<1>2. \A r \in Made : Pending(r) => Of(r, {"request", "msg"}) \subseteq heap
  <2>1. ASSUME NEW r, InHeap(r, "request"), InHeap(r, "msg")
        PROVE  Of(r, {"request", "msg"}) \subseteq heap
    BY <2>1 DEF Of, InHeap
  <2> QED BY Zenon, <1>1, <2>1
<1>3. \A r \in vendor : r \in Made /\ Pending(r)
  BY Zenon DEF SapInv, SapTypeOK, Queued
<1>4. \A s \in Slots : \A r \in Range(queue[s]) : r \in Made /\ Pending(r)
  BY Zenon DEF SapInv, Queues, Pending
<1>5. SapTokensValid
  BY Zenon, <1>2, <1>3, <1>4 DEF SapTokensValid, Pending
<1>6. ASSUME NEW r \in Made, ~ Pending(r), r # hidl.r, \A w \in Workers : worker[w].r # r
      PROVE  heap \cap Of(r, {"msg", "buffer", "payload", "request"}) = {}
  <2>1. \A b \in {"msg", "buffer", "payload", "request"} : ~ InHeap(r, b)
    BY Zenon, <1>6 DEF SapInv, Blocks, RequestBlocks, MsgBlocks, PayloadBlocks
  <2> QED BY <2>1 DEF InHeap, Of
<1>7. SapBlocksReclaimed
  BY Zenon, <1>6 DEF SapBlocksReclaimed, Pending, Made, SapInv, Blocks, KnownBlocks
<1> QED BY Zenon, <1>5, <1>7 DEF SapMemorySound

\* The invariant holds throughout; fairness plays no part in it.
LEMMA SpecSapInv == Spec => []SapInv
<1>1. Init => SapInv
  BY Zenon, InitSapInv
<1>2. SapInv /\ [Next]_vars => SapInv'
  BY Zenon, NextSapInv
<1> HIDE DEF Init, Next, vars, SapInv, Fairness
<1> QED BY <1>1, <1>2, PTL DEF Spec

\* Whatever the number of slots, requests and vendor threads and wherever a method
\* fails, the requests in pendingResponseQueue and the tokens of the vendor library are
\* allocated, no block is freed twice, and a request that is over has left none behind
\* except an APDU's command.
THEOREM SapBlocksAreSound == Spec => []SapMemorySound
BY SpecSapInv, SapInvMemory, PTL

\* Whatever the number of slots, requests and vendor threads, the client gets at most
\* one answer to a request, from the callback of its method, a success exactly when the
\* vendor library reported one.
THEOREM SapClientIsToldTheTruth == Spec => []SapAnswersTrue
<1>1. SapInv => SapAnswersTrue
  BY Zenon DEF SapInv, Counts, Truth, SapAnswersTrue
<1> QED BY <1>1, SpecSapInv, PTL
=============================================================================
