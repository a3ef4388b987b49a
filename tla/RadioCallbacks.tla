--------------------------- MODULE RadioCallbacks ---------------------------
(***************************************************************************)
(* How hal/libril/ril_service.cpp shares the framework's callback objects  *)
(* between threads.  Vendor threads deliver responses and indications      *)
(* through them under the read lock; the one HIDL thread installs new ones *)
(* under the write lock (setResponseFunctions) and then sends the initial  *)
(* indications.  A thread whose call fails because the client process is   *)
(* dead gives its read lock up, takes the write lock and removes the       *)
(* callbacks, unless the counter says that somebody replaced them.  Two    *)
(* paths call the callbacks without the read lock: the resent NITZ time    *)
(* and sendErrorResponse.  getRadioServiceRwlock compares 0-based slots    *)
(* with 2, 3, 4, so with two SIMs every service uses the same lock.        *)
(***************************************************************************)
EXTENDS Integers, Sequences, FiniteSets

CONSTANTS Services,    \* RadioImpl and OemHookImpl objects
          Radio,       \* the ones that are RadioImpl
          Clients,     \* incarnations of the framework process, in the order they start
          Vendor,      \* threads of the vendor library
          Binder,      \* the HIDL thread: configureRpcThreadpool(1)
          None,        \* no client, no thread
          MaxMessages, \* bound on what the vendor sends
          MaxNitz      \* bound on the NITZ messages among it

ASSUME BoundAssumption == MaxMessages \in Nat /\ MaxNitz \in Nat
ASSUME NameAssumption == Radio \subseteq Services /\ None \notin Clients \cup Vendor \cup {Binder}
ASSUME ClientAssumption == Clients \subseteq Nat
ASSUME ThreadAssumption == IsFiniteSet(Vendor) /\ Binder \notin Vendor

Threads == Vendor \cup {Binder}

VARIABLES
  cb,       \* cb[s]: the client whose callbacks are installed, or None
  counter,  \* mCounterRadio, mCounterOemHook
  lock,     \* radioServiceRwlock: [readers, writer]
  alive,    \* clients whose process is alive
  gone,     \* clients that have died
  run,      \* run[th]: [pc, msg, num, svc, target, saved, todo], see IdleThread
  nitz,     \* s_lastNITZTimeData: number of the message, 0 for NULL
  received, \* history: number of the last NITZ message
  sent,     \* messages the vendor has sent so far
  stray     \* history: a call made without the read lock has failed

vars == <<cb, counter, lock, alive, gone, run, nitz, received, sent, stray>>

\* A thread: its place, the message it is sending (num numbers the NITZ ones),
\* the service and the client it calls, the counter checkReturnStatus noted,
\* and the messages that follow.
IdleThread == [pc |-> "idle", msg |-> "none", num |-> 0, svc |-> None, target |-> None,
               saved |-> 0, todo |-> <<>>]

Init ==
  /\ cb = [s \in Services |-> None]
  /\ counter = [s \in Services |-> 0]
  /\ lock = [readers |-> 0, writer |-> None]
  /\ alive = {}
  /\ gone = {}
  /\ run = [th \in Threads |-> IdleThread]
  /\ nitz = 0
  /\ received = 0
  /\ sent = 0
  /\ stray = FALSE
-----------------------------------------------------------------------------
(* pthread_rwlock_t *)

CanRead == lock.writer = None
CanWrite == lock.writer = None /\ lock.readers = 0
ReadLocked == [lock EXCEPT !.readers = @ + 1]
WriteLocked(th) == [lock EXCEPT !.writer = th]

\* pthread_rwlock_unlock ends the caller's write lock, or else one read lock,
\* whoever took it; if there is none it fails, and the assert is compiled out.
Unlocked(th) ==
  IF lock.writer = th THEN [lock EXCEPT !.writer = None]
  ELSE IF lock.writer = None /\ lock.readers > 0 THEN [lock EXCEPT !.readers = @ - 1]
  ELSE lock

Goto(th, l) == run' = [run EXCEPT ![th].pc = l]

\* The messages whose sender takes no read lock.
Bare == {"resend", "error"}

\* What a thread does after its message: the next one, or nothing.
Finished(r) ==
  IF r.todo = <<>> THEN IdleThread
  ELSE [IdleThread EXCEPT !.pc = "start", !.msg = Head(r.todo), !.svc = r.svc, !.todo = Tail(r.todo)]
-----------------------------------------------------------------------------
(* Delivering one message *)

\* RIL_onRequestComplete, RIL_onRequestAck or send_unsolResponse is called.
VendorSends(th, s, m) ==
  /\ run[th].pc = "idle"
  /\ sent < MaxMessages
  /\ sent' = sent + 1
  /\ m = "nitz" => received < MaxNitz /\ s \in Radio
  /\ received' = IF m = "nitz" THEN received + 1 ELSE received
  /\ run' = [run EXCEPT ![th] = [IdleThread EXCEPT !.pc = "start", !.msg = m, !.svc = s,
                                                   !.num = received']]
  /\ UNCHANGED <<cb, counter, lock, alive, gone, nitz, stray>>

\* The read lock is taken before the response function is called ...
TakeReadLock(th) ==
  /\ run[th].pc = "start"
  /\ run[th].msg \notin Bare
  /\ CanRead
  /\ lock' = ReadLocked
  /\ Goto(th, "call")
  /\ UNCHANGED <<cb, counter, alive, gone, nitz, received, sent, stray>>

\* ... but not by resendLastNITZTimeData, which does nothing without a cached
\* message, nor by sendErrorResponse.
StartBare(th) ==
  /\ run[th].pc = "start"
  /\ run[th].msg \in Bare
  /\ run' = IF run[th].msg = "resend" /\ nitz = 0
              THEN [run EXCEPT ![th] = Finished(run[th])]
              ELSE [run EXCEPT ![th].pc = "call", ![th].num = nitz]
  /\ UNCHANGED <<cb, counter, lock, alive, gone, nitz, received, sent, stray>>

\* The response function looks at the callback object and calls it.
Call(th) ==
  /\ run[th].pc = "call"
  /\ LET c == cb[run[th].svc] IN
     run' = [run EXCEPT ![th].target = c, ![th].pc = IF c = None THEN "missing" ELSE "calling"]
  /\ UNCHANGED <<cb, counter, lock, alive, gone, nitz, received, sent, stray>>

\* The call arrives at a live client.
CallOk(th) ==
  /\ run[th].pc = "calling"
  /\ run[th].target \in alive
  /\ Goto(th, "return")
  /\ UNCHANGED <<cb, counter, lock, alive, gone, nitz, received, sent, stray>>

\* The client is dead: checkReturnStatus notes the counter ...
CallFails(th) ==
  /\ run[th].pc = "calling"
  /\ run[th].target \notin alive
  /\ run' = [run EXCEPT ![th].saved = counter[run[th].svc], ![th].pc = "noted"]
  /\ stray' = (stray \/ run[th].msg \in Bare)
  /\ UNCHANGED <<cb, counter, lock, alive, gone, nitz, received, sent>>

\* ... releases the read lock ...
ReleaseRead(th) ==
  /\ run[th].pc = "noted"
  /\ lock' = Unlocked(th)
  /\ Goto(th, "wantWrite")
  /\ UNCHANGED <<cb, counter, alive, gone, nitz, received, sent, stray>>

\* ... acquires the write lock ...
TakeWriteLock(th) ==
  /\ run[th].pc = "wantWrite"
  /\ CanWrite
  /\ lock' = WriteLocked(th)
  /\ Goto(th, "reset")
  /\ UNCHANGED <<cb, counter, alive, gone, nitz, received, sent, stray>>

\* ... removes the callbacks if they have not been replaced, releases the
\* write lock ...
ResetCallbacks(th) ==
  LET s == run[th].svc
      same == counter[s] = run[th].saved
  IN
  /\ run[th].pc = "reset"
  /\ cb' = IF same THEN [cb EXCEPT ![s] = None] ELSE cb
  /\ counter' = IF same THEN [counter EXCEPT ![s] = @ + 1] ELSE counter
  /\ lock' = Unlocked(th)
  /\ Goto(th, "wantRead")
  /\ UNCHANGED <<alive, gone, nitz, received, sent, stray>>

\* Faulty variant of RetakeReadLock: the read lock is not taken again.
RetakeReadLock_Skip(th) ==
  /\ run[th].pc = "wantRead"
  /\ Goto(th, "return")
  /\ UNCHANGED <<cb, counter, lock, alive, gone, nitz, received, sent, stray>>

\* ... and takes the read lock again for its caller.
RetakeReadLock(th) ==
  /\ run[th].pc = "wantRead"
  /\ CanRead
  /\ lock' = ReadLocked
  /\ Goto(th, "return")
  /\ UNCHANGED <<cb, counter, alive, gone, nitz, received, sent, stray>>

\* Faulty variant of SenderReturns: an early return, without a callback object,
\* that keeps the lock.
SenderReturns_Early(th) ==
  LET r == run[th] IN
  /\ r.pc \in {"return", "missing"}
  /\ r.msg \notin Bare
  /\ lock' = IF r.pc = "missing" THEN lock ELSE Unlocked(th)
  /\ run' = [run EXCEPT ![th] = IF r.pc = "missing" /\ r.msg = "nitz"
                                  THEN [r EXCEPT !.pc = "store"] ELSE Finished(r)]
  /\ UNCHANGED <<cb, counter, alive, gone, nitz, received, sent, stray>>

\* The response function has returned: the sender releases the read lock.  A
\* NITZ message for which there was no callback object is kept.
SenderReturns(th) ==
  LET r == run[th] IN
  /\ r.pc \in {"return", "missing"}
  /\ r.msg \notin Bare
  /\ lock' = Unlocked(th)
  /\ run' = [run EXCEPT ![th] = IF r.pc = "missing" /\ r.msg = "nitz"
                                  THEN [r EXCEPT !.pc = "store"] ELSE Finished(r)]
  /\ UNCHANGED <<cb, counter, alive, gone, nitz, received, sent, stray>>

\* The end of send_unsolResponse for such a NITZ message.
StoreNitz(th) ==
  /\ run[th].pc = "store"
  /\ nitz' = run[th].num
  /\ run' = [run EXCEPT ![th] = Finished(run[th])]
  /\ UNCHANGED <<cb, counter, lock, alive, gone, received, sent, stray>>

\* A sender without a read lock has none to release.  resendLastNITZTimeData
\* frees the cached message if there was a callback object.
BareReturns(th) ==
  LET r == run[th] IN
  /\ r.pc \in {"return", "missing"}
  /\ r.msg \in Bare
  /\ nitz' = IF r.msg = "resend" /\ r.pc = "return" THEN 0 ELSE nitz
  /\ run' = [run EXCEPT ![th] = Finished(r)]
  /\ UNCHANGED <<cb, counter, lock, alive, gone, received, sent, stray>>

Deliver(th) ==
  \/ TakeReadLock(th) \/ StartBare(th) \/ Call(th) \/ CallOk(th) \/ CallFails(th)
  \/ ReleaseRead(th) \/ TakeWriteLock(th) \/ ResetCallbacks(th) \/ RetakeReadLock(th)
  \/ SenderReturns(th) \/ StoreNitz(th) \/ BareReturns(th)
-----------------------------------------------------------------------------
(* The HIDL thread *)

\* A new client process calls setResponseFunctions.
Connect(c, s) ==
  /\ run[Binder].pc = "idle"
  /\ c \notin gone /\ \A d \in Clients : d < c => d \in gone
  /\ alive \subseteq {c}
  /\ cb[s] # c
  /\ alive' = alive \cup {c}
  /\ run' = [run EXCEPT ![Binder] = [IdleThread EXCEPT !.pc = "connect", !.svc = s, !.target = c]]
  /\ UNCHANGED <<cb, counter, lock, gone, nitz, received, sent, stray>>

\* Faulty variant of setResponseFunctions: the counter is not raised.
setResponseFunctions_NoCount ==
  LET r == run[Binder] IN
  /\ r.pc = "connect"
  /\ CanWrite
  /\ cb' = [cb EXCEPT ![r.svc] = r.target]
  /\ run' = [run EXCEPT ![Binder] = IF r.svc \in Radio
               THEN Finished([r EXCEPT !.todo = <<"ind", "ind", "resend">>]) ELSE IdleThread]
  /\ UNCHANGED <<counter, lock, alive, gone, nitz, received, sent, stray>>

\* Faulty variant of setResponseFunctions: without the write lock.
setResponseFunctions_NoLock ==
  LET r == run[Binder] IN
  /\ r.pc = "connect"
  /\ cb' = [cb EXCEPT ![r.svc] = r.target]
  /\ counter' = [counter EXCEPT ![r.svc] = @ + 1]
  /\ run' = [run EXCEPT ![Binder] = IF r.svc \in Radio
               THEN Finished([r EXCEPT !.todo = <<"ind", "ind", "resend">>]) ELSE IdleThread]
  /\ UNCHANGED <<lock, alive, gone, nitz, received, sent, stray>>

\* setResponseFunctions under the write lock; RadioImpl goes on with
\* onNewCommandConnect: RIL_CONNECTED, RADIO_STATE_CHANGED, the last NITZ time.
setResponseFunctions ==
  LET r == run[Binder] IN
  /\ r.pc = "connect"
  /\ CanWrite
  /\ cb' = [cb EXCEPT ![r.svc] = r.target]
  /\ counter' = [counter EXCEPT ![r.svc] = @ + 1]
  /\ run' = [run EXCEPT ![Binder] = IF r.svc \in Radio
               THEN Finished([r EXCEPT !.todo = <<"ind", "ind", "resend">>]) ELSE IdleThread]
  /\ UNCHANGED <<lock, alive, gone, nitz, received, sent, stray>>

\* A request that the HIDL thread answers itself: sendErrorResponse.
RequestFails(s) ==
  /\ run[Binder].pc = "idle"
  /\ cb[s] \in alive
  /\ sent < MaxMessages
  /\ sent' = sent + 1
  /\ run' = [run EXCEPT ![Binder] = [IdleThread EXCEPT !.pc = "start", !.msg = "error", !.svc = s]]
  /\ UNCHANGED <<cb, counter, lock, alive, gone, nitz, received, stray>>

ClientDies(c) ==
  /\ c \in alive
  /\ alive' = alive \ {c}
  /\ gone' = gone \cup {c}
  /\ UNCHANGED <<cb, counter, lock, run, nitz, received, sent, stray>>

Done ==
  /\ \A th \in Threads : run[th].pc = "idle"
  /\ UNCHANGED vars

Next ==
  \/ \E th \in Threads : Deliver(th)
  \/ \E th \in Vendor, s \in Services, m \in {"ind", "nitz"} : VendorSends(th, s, m)
  \/ \E c \in Clients, s \in Services : Connect(c, s)
  \/ setResponseFunctions
  \/ \E s \in Services : RequestFails(s)
  \/ \E c \in Clients : ClientDies(c)
  \/ Done

Spec == Init /\ [][Next]_vars

\* Every thread that can go on does; clients come, die and send as they like.
Fairness == (\A th \in Threads : WF_vars(Deliver(th))) /\ WF_vars(setResponseFunctions)

FairSpec == Spec /\ Fairness
-----------------------------------------------------------------------------
\* The program points between taking and releasing the read lock.
Reading(th) ==
  /\ run[th].msg \notin Bare
  /\ run[th].pc \in {"call", "calling", "missing", "noted", "return"}

Thread ==
  [pc : {"idle", "start", "call", "calling", "missing", "noted", "wantWrite", "reset",
         "wantRead", "return", "store", "connect"},
   msg : {"none", "ind", "nitz", "resend", "error"},
   num : 0 .. MaxNitz, svc : Services \cup {None}, target : Clients \cup {None},
   saved : Nat, todo : Seq({"ind", "resend"})]

\* Types of the variables.
TypeOK ==
  /\ cb \in [Services -> Clients \cup {None}]
  /\ counter \in [Services -> Nat]
  /\ lock \in [readers : Nat, writer : Threads \cup {None}]
  /\ alive \subseteq Clients
  /\ gone \subseteq Clients
  /\ run \in [Threads -> Thread]
  /\ nitz \in 0 .. MaxNitz
  /\ received \in 0 .. MaxNitz
  /\ sent \in 0 .. MaxMessages
  /\ stray \in BOOLEAN

\* checkReturnStatus hands the read lock back to its caller: the lock counts
\* exactly the threads that are between lock and unlock, whatever fails, until
\* checkReturnStatus runs for a caller that had no read lock.
LockBalanced ==
  ~ stray => /\ lock.readers = Cardinality({th \in Threads : Reading(th)})
             /\ \A th \in Threads : run[th].pc = "reset" <=> lock.writer = th

\* The callback object a thread is calling under the read lock stays installed
\* until the thread gives the lock up: neither setResponseFunctions nor another
\* thread's checkReturnStatus replaces it in the middle of the call, and the lock
\* stays balanced when calls fail.
CallbackStable ==
  /\ TypeOK /\ LockBalanced
  /\ ~ stray => \A th \in Threads : Reading(th) /\ run[th].pc \in {"calling", "noted"}
                                     => cb[run[th].svc] = run[th].target

\* "note the current counter to avoid overwriting updates made by another
\* thread before write lock is acquired" (ril_service.cpp:798): checkReturnStatus
\* removes only callbacks of a client that is dead.
ResetsOnlyDead ==
  [][\A s \in Services : cb[s] # None /\ cb'[s] = None => cb[s] \notin alive]_vars

\* A client that comes back can install its callbacks: the HIDL thread gets the
\* write lock and finishes, whichever calls under the read lock failed before.
ConnectReturns == (run[Binder].pc # "idle") ~> (run[Binder].pc = "idle" \/ stray)

=============================================================================
