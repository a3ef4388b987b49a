------------------------ MODULE RadioCallbacksProofs ------------------------
(***************************************************************************)
(* Proofs of the safety properties of RadioCallbacks for any number of     *)
(* services, clients, messages and threads of the vendor library.          *)
(***************************************************************************)
EXTENDS RadioCallbacks, FiniteSetTheorems, TLAPS

Readers == {th \in Threads : Reading(th)}

\* What the program counters say about the other locals: vendor threads take the
\* read lock for every message and do nothing else.
Places ==
  /\ \A th \in Threads : run[th].pc # "idle" => run[th].svc \in Services
  /\ \A th \in Vendor : run[th].msg \notin Bare /\ run[th].todo = <<>> /\ run[th].pc # "connect"
  /\ run[Binder].pc = "connect" => run[Binder].target \in alive \cup gone

\* The writer is the thread that is about to reset callbacks, and it is alone.
Writing ==
  /\ \A th \in Threads : run[th].pc = "reset" <=> lock.writer = th
  /\ lock.writer # None => lock.readers = 0

\* The HIDL thread has given a read lock up that it did not have, and will take one.
Borrowing == run[Binder].msg \in Bare /\ run[Binder].pc \in {"wantWrite", "reset", "wantRead"}

\* Until a call without the read lock fails the lock counts the readers exactly;
\* afterwards it misses one at most, and only while the HIDL thread borrows it.
Counting ==
  /\ lock.readers + (IF Borrowing THEN 1 ELSE 0) >= Cardinality(Readers)
  /\ ~ stray => /\ lock.readers = Cardinality(Readers)
                /\ \A th \in Threads :
                     run[th].pc \in {"noted", "wantWrite", "reset", "wantRead"} => run[th].msg \notin Bare

\* Dead clients do not come back, and installed callbacks belong to a client.
Lives ==
  /\ alive \cap gone = {}
  /\ \A s \in Services : cb[s] # None => cb[s] \in alive \cup gone

\* The object a thread calls is installed or has been removed; one that failed and
\* whose counter is still the same is not that of a living client.
Targets ==
  /\ \A th \in Threads : run[th].pc = "calling" => cb[run[th].svc] \in {run[th].target, None}
  /\ \A th \in Threads : run[th].pc = "calling" => run[th].target \in alive \cup gone
  /\ \A th \in Threads : run[th].pc \in {"noted", "wantWrite", "reset"} =>
       /\ run[th].saved <= counter[run[th].svc]
       /\ run[th].saved = counter[run[th].svc] => cb[run[th].svc] \in gone \cup {None}

Stable ==
  ~ stray => \A th \in Threads : Reading(th) /\ run[th].pc \in {"calling", "noted"}
                                   => cb[run[th].svc] = run[th].target

\* The inductive invariant.
IInv == TypeOK /\ Places /\ Writing /\ Counting /\ Lives /\ Targets /\ Stable

-----------------------------------------------------------------------------
\* The threads that deliver messages and the HIDL thread are finitely many.
LEMMA ThreadsFinite == IsFiniteSet(Threads)
  BY Zenon, ThreadAssumption, FS_AddElement DEF Threads

\* A step of one thread changes the number of readers by its own change.
LEMMA ReadersCounted ==
  ASSUME NEW th \in Threads, \A u \in Threads \ {th} : run'[u] = run[u]
  PROVE  /\ Cardinality(Readers) \in Nat
         /\ Reading(th) => Cardinality(Readers) > 0
         /\ (Reading(th)' <=> Reading(th)) => Cardinality(Readers)' = Cardinality(Readers)
         /\ Reading(th)' /\ ~ Reading(th) => Cardinality(Readers)' = Cardinality(Readers) + 1
         /\ ~ Reading(th)' /\ Reading(th) => Cardinality(Readers)' = Cardinality(Readers) - 1
<1>1. IsFiniteSet(Readers)
  BY Zenon, ThreadsFinite, FS_Subset, Readers \subseteq Threads DEF Readers
<1>2. \A u \in Threads \ {th} : Reading(u)' <=> Reading(u)
  BY Zenon DEF Reading
<1>3. Cardinality(Readers) \in Nat
  BY Zenon, <1>1, FS_CardinalityType
<1>4. ASSUME Reading(th) PROVE Cardinality(Readers) > 0
  BY <1>1, <1>3, <1>4, FS_EmptySet DEF Readers
<1>5. ASSUME Reading(th)' <=> Reading(th) PROVE Cardinality(Readers)' = Cardinality(Readers)
  <2>1. Readers' = Readers
    BY Zenon, <1>2, <1>5 DEF Readers
  <2> QED BY Zenon, <2>1
<1>6. ASSUME Reading(th)', ~ Reading(th) PROVE Cardinality(Readers)' = Cardinality(Readers) + 1
  <2>1. Readers' = Readers \cup {th} /\ th \notin Readers
    BY Zenon, <1>2, <1>6 DEF Readers
  <2> QED BY Zenon, <2>1, <1>1, FS_AddElement
<1>7. ASSUME ~ Reading(th)', Reading(th) PROVE Cardinality(Readers)' = Cardinality(Readers) - 1
  <2>1. Readers' = Readers \ {th} /\ th \in Readers
    BY Zenon, <1>2, <1>7 DEF Readers
  <2> QED BY Zenon, <2>1, <1>1, FS_RemoveElement
<1> QED BY Zenon, <1>3, <1>4, <1>5, <1>6, <1>7

\* A thread that reads is counted.
LEMMA ReaderCounted ==
  ASSUME NEW th \in Threads, Reading(th)
  PROVE  Cardinality(Readers) > 0 /\ Cardinality(Readers) \in Nat
<1>1. IsFiniteSet(Readers)
  BY Zenon, ThreadsFinite, FS_Subset, Readers \subseteq Threads DEF Readers
<1> QED BY <1>1, FS_CardinalityType, FS_EmptySet DEF Readers

\* Before the first client no lock is held and no callback is installed.
LEMMA InitIInv == Init => IInv
<1> SUFFICES ASSUME Init PROVE IInv
  BY Zenon
<1>1. TypeOK
  <2>1. IdleThread \in Thread
    BY BoundAssumption DEF IdleThread, Thread
  <2>2. lock \in [readers : Nat, writer : Threads \cup {None}] /\ stray \in BOOLEAN
    BY Zenon DEF Init
  <2> QED BY <2>1, <2>2, BoundAssumption DEF Init, TypeOK
<1>2. \A th \in Threads : run[th] = IdleThread
  BY Zenon DEF Init
<1>3. Readers = {}
  BY <1>2 DEF Readers, Reading, IdleThread
<1>4. Counting
  BY <1>2, <1>3, FS_EmptySet DEF Counting, Init, IdleThread, Borrowing, Bare, Threads
<1>5. Places
  BY <1>2 DEF Places, IdleThread, Threads, Bare
<1>6. Writing /\ Targets /\ Stable
  BY Zenon, <1>2, NameAssumption DEF Writing, Targets, Stable, IdleThread, Init, Threads, Reading
<1>7. Lives
  BY Zenon DEF Lives, Init
<1> QED BY Zenon, <1>1, <1>4, <1>5, <1>6, <1>7 DEF IInv

\* Where a thread may go after its message.
LEMMA FinishedThread ==
  ASSUME NEW r \in Thread
  PROVE  /\ Finished(r) \in Thread
         /\ Finished(r).pc \in {"idle", "start"}
         /\ Finished(r).pc # "idle" => Finished(r).svc = r.svc
         /\ r.todo = <<>> => Finished(r) = IdleThread
<1>1. IdleThread \in Thread
  BY BoundAssumption DEF IdleThread, Thread
<1>2. CASE r.todo = <<>>
  BY Zenon, <1>1, <1>2 DEF Finished, IdleThread
<1>3. CASE r.todo # <<>>
  <2>1. r.todo \in Seq({"ind", "resend"})
    BY Zenon DEF Thread
  <2>2. Head(r.todo) \in {"ind", "resend"} /\ Tail(r.todo) \in Seq({"ind", "resend"})
    BY <1>3, <2>1
  <2>3. Finished(r) = [IdleThread EXCEPT !.pc = "start", !.msg = Head(r.todo), !.svc = r.svc, !.todo = Tail(r.todo)]
    BY Zenon, <1>3 DEF Finished
  <2> QED BY <1>1, <1>3, <2>2, <2>3, Zenon DEF Thread, IdleThread
<1> QED BY Zenon, <1>2, <1>3


\* Going to another program point changes nothing else.
LEMMA GotoThread ==
  ASSUME TypeOK, NEW th \in Threads,
         NEW l \in {"call", "return", "wantWrite", "reset", "wantRead"}, Goto(th, l)
  PROVE  /\ run' \in [Threads -> Thread]
         /\ \A u \in Threads \ {th} : run'[u] = run[u]
         /\ run'[th].pc = l
         /\ run'[th].msg = run[th].msg
         /\ run'[th].svc = run[th].svc
         /\ run'[th].target = run[th].target
         /\ run'[th].saved = run[th].saved
         /\ run'[th].todo = run[th].todo
<1>1. run[th] \in Thread /\ run \in [Threads -> Thread]
  BY Zenon DEF TypeOK
<1>2. run'[th] = [run[th] EXCEPT !.pc = l] /\ \A u \in Threads \ {th} : run'[u] = run[u]
  BY Zenon, <1>1 DEF Goto
<1>3. /\ run'[th] \in Thread
      /\ run'[th].pc = l
      /\ run'[th].msg = run[th].msg
      /\ run'[th].svc = run[th].svc
      /\ run'[th].target = run[th].target
      /\ run'[th].saved = run[th].saved
      /\ run'[th].todo = run[th].todo
  BY Zenon, <1>1, <1>2 DEF Thread
<1>4. run' \in [Threads -> Thread]
  BY Zenon, <1>1, <1>2, <1>3 DEF Goto
<1> QED BY Zenon, <1>2, <1>3, <1>4

-----------------------------------------------------------------------------
(* One lemma for each action: it keeps the inductive invariant. *)

\* A sender takes the read lock: no writer holds it.
LEMMA TakeReadLockStep ==
  ASSUME IInv, NEW th \in Threads, TakeReadLock(th)
  PROVE  IInv'
<1> DEFINE r == run[th]
<1>1. /\ run' \in [Threads -> Thread] /\ \A u \in Threads \ {th} : run'[u] = run[u]
      /\ run'[th].pc = "call" /\ run'[th].msg = r.msg /\ run'[th].svc = r.svc
      /\ run'[th].target = r.target /\ run'[th].saved = r.saved /\ run'[th].todo = r.todo
  BY Zenon, GotoThread DEF IInv, TakeReadLock
<1>2. r \in Thread /\ r.pc = "start" /\ r.msg \notin Bare
  BY Zenon DEF IInv, TypeOK, TakeReadLock
<1>3. /\ lock' \in [readers : Nat, writer : Threads \cup {None}]
      /\ lock.writer = None /\ lock'.writer = None /\ lock'.readers = lock.readers + 1
      /\ lock.readers \in Nat
  BY DEF IInv, TypeOK, TakeReadLock, CanRead, ReadLocked
<1>4. UNCHANGED <<cb, counter, alive, gone, nitz, received, sent, stray>>
  BY Zenon DEF TakeReadLock
<1>5. TypeOK'
  BY Zenon, <1>1, <1>3, <1>4 DEF IInv, TypeOK
<1>6. Places'
  BY Zenon, <1>1, <1>2, <1>4 DEF IInv, Places, Threads
<1>7. Writing'
  BY <1>1, <1>2, <1>3, NameAssumption DEF IInv, Writing, Threads
<1>8. Counting'
  <2>1. Cardinality(Readers)' = Cardinality(Readers) + 1 /\ Cardinality(Readers) \in Nat
    BY Zenon, <1>1, <1>2, ReadersCounted DEF Reading
  <2>2. Borrowing' <=> Borrowing
    BY Zenon, <1>1, <1>2 DEF Borrowing, Threads
  <2>3. lock'.readers + (IF Borrowing' THEN 1 ELSE 0) >= Cardinality(Readers)'
    BY <1>3, <2>1, <2>2 DEF IInv, Counting
  <2>4. ~ stray' => lock'.readers = Cardinality(Readers)'
    BY Zenon, <1>3, <1>4, <2>1 DEF IInv, Counting
  <2> QED BY Zenon, <1>1, <1>2, <1>4, <2>3, <2>4 DEF IInv, Counting
<1>9. Lives' /\ Targets'
  BY <1>1, <1>2, <1>4 DEF IInv, Lives, Targets
<1>10. Stable'
  BY <1>1, <1>2, <1>4 DEF IInv, Stable, Reading
<1> QED BY Zenon, <1>5, <1>6, <1>7, <1>8, <1>9, <1>10 DEF IInv

\* resendLastNITZTimeData and sendErrorResponse begin without the lock.
LEMMA StartBareStep ==
  ASSUME IInv, NEW th \in Threads, StartBare(th)
  PROVE  IInv'
<1> DEFINE r == run[th]
<1>1. r \in Thread /\ r.pc = "start" /\ r.msg \in Bare
  BY Zenon DEF IInv, TypeOK, StartBare
<1>2. UNCHANGED <<cb, counter, lock, alive, gone, nitz, received, sent, stray>>
  BY Zenon DEF StartBare
<1>3. th = Binder
  BY Zenon, <1>1 DEF IInv, Places, Threads
<1>4. /\ run' \in [Threads -> Thread]
      /\ \A u \in Threads \ {th} : run'[u] = run[u]
      /\ run'[th].pc \in {"idle", "start", "call"}
      /\ run'[th].pc = "call" => run'[th].msg = r.msg
      /\ run'[th].pc # "idle" => run'[th].svc = r.svc
  <2>1. CASE r.msg = "resend" /\ nitz = 0
    <3>1. run' = [run EXCEPT ![th] = Finished(r)]
      BY Zenon, <2>1 DEF StartBare
    <3> QED BY Zenon, <1>1, <3>1, FinishedThread DEF IInv, TypeOK
  <2>2. CASE ~ (r.msg = "resend" /\ nitz = 0)
    <3>1. run' = [run EXCEPT ![th].pc = "call", ![th].num = nitz]
      BY Zenon, <2>2 DEF StartBare
    <3>2. run'[th] = [r EXCEPT !.pc = "call", !.num = nitz]
      BY Zenon, <3>1 DEF IInv, TypeOK
    <3>3. run'[th] \in Thread /\ run'[th].pc = "call" /\ run'[th].msg = r.msg /\ run'[th].svc = r.svc
      BY <1>1, <3>2, Zenon DEF IInv, TypeOK, Thread
    <3>4. run' \in [Threads -> Thread] /\ \A u \in Threads \ {th} : run'[u] = run[u]
      BY Zenon, <3>1, <3>2, <3>3 DEF IInv, TypeOK
    <3> QED BY Zenon, <3>3, <3>4
  <2> QED BY Zenon, <2>1, <2>2
<1>5. TypeOK'
  BY Zenon, <1>2, <1>4 DEF IInv, TypeOK
<1>6. Places' /\ Writing'
  BY <1>1, <1>2, <1>3, <1>4, ThreadAssumption DEF IInv, Places, Writing, Threads
<1>7. Counting'
  <2>1. ~ Reading(th) /\ ~ Reading(th)'
    BY Zenon, <1>1, <1>4 DEF Reading
  <2>2. Cardinality(Readers)' = Cardinality(Readers)
    BY Zenon, <1>4, <2>1, ReadersCounted
  <2>3. ~ Borrowing' /\ ~ Borrowing
    BY Zenon, <1>1, <1>3, <1>4 DEF Borrowing
  <2> QED BY Zenon, <1>1, <1>2, <1>4, <2>2, <2>3 DEF IInv, Counting
<1>8. Lives' /\ Targets'
  BY <1>1, <1>2, <1>4 DEF IInv, Lives, Targets
<1>9. Stable'
  BY Zenon, <1>1, <1>2, <1>4 DEF IInv, Stable, Reading
<1> QED BY Zenon, <1>5, <1>6, <1>7, <1>8, <1>9 DEF IInv

\* A response function reads the callback object it will call.
LEMMA CallStep ==
  ASSUME IInv, NEW th \in Threads, Call(th)
  PROVE  IInv'
<1> DEFINE r == run[th]
           c == cb[r.svc]
           l == IF c = None THEN "missing" ELSE "calling"
<1>1. r \in Thread /\ r.pc = "call" /\ r.svc \in Services /\ c \in Clients \cup {None}
  BY Zenon DEF IInv, TypeOK, Call, Places
<1>2. UNCHANGED <<cb, counter, lock, alive, gone, nitz, received, sent, stray>>
  BY Zenon DEF Call
<1>3. run' = [run EXCEPT ![th].target = c, ![th].pc = l]
  BY Zenon DEF Call
<1>4. run'[th] = [r EXCEPT !.target = c, !.pc = l]
  BY Zenon, <1>3 DEF IInv, TypeOK
<1>5. run'[th] \in Thread
  BY Zenon, <1>1, <1>4 DEF Thread
<1>6. /\ run'[th].pc = l /\ run'[th].msg = r.msg /\ run'[th].svc = r.svc
      /\ run'[th].target = c /\ run'[th].todo = r.todo
  BY Zenon, <1>1, <1>4 DEF Thread
<1>7. /\ run' \in [Threads -> Thread] /\ \A u \in Threads \ {th} : run'[u] = run[u]
  BY Zenon, <1>3, <1>4, <1>5 DEF IInv, TypeOK
<1> HIDE DEF c, l
<1>l. l \in {"missing", "calling"} /\ (l = "calling" => c # None)
  BY Zenon DEF l
<1>8. TypeOK'
  BY Zenon, <1>2, <1>7 DEF IInv, TypeOK
<1>9. Places' /\ Writing'
  BY <1>1, <1>2, <1>6, <1>7, <1>l, ThreadAssumption DEF IInv, Places, Writing, Threads
<1>10. Counting'
  <2>1. Reading(th) <=> Reading(th)'
    BY Zenon, <1>1, <1>6, <1>l DEF Reading
  <2>2. Cardinality(Readers)' = Cardinality(Readers)
    BY Zenon, <1>7, <2>1, ReadersCounted
  <2>3. Borrowing' <=> Borrowing
    BY Zenon, <1>1, <1>6, <1>7, <1>l DEF Borrowing, Threads
  <2> QED BY Zenon, <1>1, <1>2, <1>6, <1>7, <1>l, <2>2, <2>3 DEF IInv, Counting
<1>11. Lives' /\ Targets'
  <2>1. c # None => c \in alive \cup gone
    BY Zenon, <1>1 DEF c, IInv, Lives
  <2>2. cb'[run'[th].svc] = c
    BY Zenon, <1>2, <1>6 DEF c
  <2> QED BY <1>1, <1>2, <1>6, <1>7, <1>l, <2>1, <2>2 DEF IInv, Lives, Targets
<1>12. Stable'
  <2>1. cb'[run'[th].svc] = c
    BY <1>2, <1>6 DEF c
  <2> QED BY Zenon, <1>1, <1>2, <1>6, <1>7, <2>1 DEF IInv, Stable, Reading
<1> QED BY <1>8, <1>9, <1>10, <1>11, <1>12 DEF IInv

\* The call arrives at a live client.
LEMMA CallOkStep ==
  ASSUME IInv, NEW th \in Threads, CallOk(th)
  PROVE  IInv'
<1> DEFINE r == run[th]
<1>1. /\ run' \in [Threads -> Thread] /\ \A u \in Threads \ {th} : run'[u] = run[u]
      /\ run'[th].pc = "return" /\ run'[th].msg = r.msg /\ run'[th].svc = r.svc
      /\ run'[th].target = r.target /\ run'[th].saved = r.saved /\ run'[th].todo = r.todo
  BY Zenon, GotoThread DEF IInv, CallOk
<1>2. r \in Thread /\ r.pc = "calling"
  BY Zenon DEF IInv, TypeOK, CallOk
<1>3. UNCHANGED <<cb, counter, lock, alive, gone, nitz, received, sent, stray>>
  BY Zenon DEF CallOk
<1>4. TypeOK'
  BY Zenon, <1>1, <1>3 DEF IInv, TypeOK
<1>5. Places' /\ Writing'
  BY <1>1, <1>2, <1>3, ThreadAssumption DEF IInv, Places, Writing, Threads
<1>6. Counting'
  <2>1. Cardinality(Readers)' = Cardinality(Readers)
    BY Zenon, <1>1, <1>2, ReadersCounted DEF Reading
  <2>2. Borrowing' <=> Borrowing
    BY Zenon, <1>1, <1>2 DEF Borrowing, Threads
  <2> QED BY Zenon, <1>1, <1>2, <1>3, <2>1, <2>2 DEF IInv, Counting
<1>7. Lives' /\ Targets'
  BY <1>1, <1>2, <1>3 DEF IInv, Lives, Targets
<1>8. Stable'
  BY <1>1, <1>2, <1>3 DEF IInv, Stable, Reading
<1> QED BY <1>4, <1>5, <1>6, <1>7, <1>8 DEF IInv

\* The client is dead: checkReturnStatus notes the counter.
LEMMA CallFailsStep ==
  ASSUME IInv, NEW th \in Threads, CallFails(th)
  PROVE  IInv'
<1> DEFINE r == run[th]
           n == counter[r.svc]
<1>1. /\ r \in Thread /\ r.pc = "calling" /\ r.svc \in Services /\ n \in Nat
      /\ r.target \notin alive
  BY Zenon DEF IInv, TypeOK, CallFails, Places
<1>2. UNCHANGED <<cb, counter, lock, alive, gone, nitz, received, sent>>
  BY Zenon DEF CallFails
<1>3. stray' \in BOOLEAN /\ (stray => stray') /\ (r.msg \in Bare => stray')
  BY Zenon DEF CallFails, IInv, TypeOK
<1>4. run'[th] = [r EXCEPT !.saved = n, !.pc = "noted"] /\ \A u \in Threads \ {th} : run'[u] = run[u]
  BY Zenon DEF IInv, TypeOK, CallFails
<1>5. /\ run'[th] \in Thread
      /\ run'[th].pc = "noted" /\ run'[th].msg = r.msg /\ run'[th].svc = r.svc
      /\ run'[th].target = r.target /\ run'[th].saved = n /\ run'[th].todo = r.todo
  BY Zenon, <1>1, <1>4 DEF Thread
<1>6. run' \in [Threads -> Thread] /\ \A u \in Threads \ {th} : run'[u] = run[u]
  BY Zenon, <1>4, <1>5 DEF IInv, TypeOK, CallFails
<1> HIDE DEF n
<1>7. TypeOK'
  BY Zenon, <1>2, <1>3, <1>6 DEF IInv, TypeOK
<1>8. Places' /\ Writing'
  BY <1>1, <1>2, <1>5, <1>6, ThreadAssumption DEF IInv, Places, Writing, Threads
<1>9. Counting'
  <2>1. Cardinality(Readers)' = Cardinality(Readers)
    BY Zenon, <1>1, <1>5, <1>6, ReadersCounted DEF Reading
  <2>2. Borrowing' <=> Borrowing
    BY Zenon, <1>1, <1>5, <1>6 DEF Borrowing, Threads
  <2> QED BY Zenon, <1>1, <1>2, <1>3, <1>5, <1>6, <2>1, <2>2 DEF IInv, Counting
<1>10. Lives' /\ Targets'
  <2>1. n = counter'[r.svc] /\ n <= n
    BY <1>1, <1>2 DEF n
  <2>2. cb[r.svc] \in gone \cup {None}
    BY Zenon, <1>1 DEF IInv, Targets
  <2> QED BY <1>1, <1>2, <1>5, <1>6, <2>1, <2>2 DEF IInv, Lives, Targets
<1>11. Stable'
  BY <1>1, <1>2, <1>3, <1>5, <1>6 DEF IInv, Stable, Reading
<1> QED BY <1>7, <1>8, <1>9, <1>10, <1>11 DEF IInv

\* A thread that gives its own read lock up leaves the count right.
LEMMA ReaderUnlocks ==
  ASSUME IInv, NEW th \in Threads, Reading(th), ~ Reading(th)', lock' = Unlocked(th),
         stray' = stray, Borrowing' <=> Borrowing,
         \A u \in Threads \ {th} : run'[u] = run[u]
  PROVE  /\ lock' \in [readers : Nat, writer : Threads \cup {None}]
         /\ lock'.writer = lock.writer
         /\ lock'.writer # None => lock'.readers = 0
         /\ lock'.readers + (IF Borrowing' THEN 1 ELSE 0) >= Cardinality(Readers)'
         /\ ~ stray' => lock'.readers = Cardinality(Readers)'
<1>1. lock \in [readers : Nat, writer : Threads \cup {None}] /\ lock.writer # th
  BY Zenon DEF IInv, TypeOK, Writing, Reading
<1>2. /\ Cardinality(Readers) \in Nat /\ Cardinality(Readers) > 0
      /\ Cardinality(Readers)' = Cardinality(Readers) - 1
  BY Zenon, ReadersCounted
<1>3. /\ lock.writer # None => lock.readers = 0
      /\ lock.readers + (IF Borrowing THEN 1 ELSE 0) >= Cardinality(Readers)
      /\ ~ stray => lock.readers = Cardinality(Readers)
  BY Zenon DEF IInv, Writing, Counting
<1>4. CASE lock.writer = None /\ lock.readers > 0
  <2>1. lock' = [lock EXCEPT !.readers = @ - 1]
    BY Zenon, <1>1, <1>4 DEF Unlocked
  <2>2. /\ lock' \in [readers : Nat, writer : Threads \cup {None}]
        /\ lock'.writer = lock.writer /\ lock'.readers = lock.readers - 1
    BY <1>1, <1>4, <2>1
  <2> QED BY <1>1, <1>2, <1>3, <1>4, <2>2
<1>5. CASE ~ (lock.writer = None /\ lock.readers > 0)
  <2>1. lock' = lock
    BY Zenon, <1>1, <1>5 DEF Unlocked
  <2>2. lock.readers = 0
    BY <1>1, <1>3, <1>5
  <2> QED BY <1>1, <1>2, <1>3, <2>1, <2>2
<1> QED BY Zenon, <1>4, <1>5

\* checkReturnStatus gives up the read lock of its caller.
LEMMA ReleaseReadStep ==
  ASSUME IInv, NEW th \in Threads, ReleaseRead(th)
  PROVE  IInv'
<1> DEFINE r == run[th]
<1>1. /\ run' \in [Threads -> Thread] /\ \A u \in Threads \ {th} : run'[u] = run[u]
      /\ run'[th].pc = "wantWrite" /\ run'[th].msg = r.msg /\ run'[th].svc = r.svc
      /\ run'[th].target = r.target /\ run'[th].saved = r.saved /\ run'[th].todo = r.todo
  BY Zenon, GotoThread DEF IInv, ReleaseRead
<1>2. r \in Thread /\ r.pc = "noted"
  BY Zenon DEF IInv, TypeOK, ReleaseRead
<1>3. UNCHANGED <<cb, counter, alive, gone, nitz, received, sent, stray>> /\ lock' = Unlocked(th)
  BY Zenon DEF ReleaseRead
<1>4. /\ lock' \in [readers : Nat, writer : Threads \cup {None}]
      /\ lock'.writer = lock.writer
      /\ lock'.writer # None => lock'.readers = 0
      /\ lock'.readers + (IF Borrowing' THEN 1 ELSE 0) >= Cardinality(Readers)'
      /\ ~ stray' => lock'.readers = Cardinality(Readers)'
  <2>1. CASE r.msg \notin Bare
    <3>1. Reading(th) /\ ~ Reading(th)'
      BY Zenon, <1>1, <1>2, <2>1 DEF Reading
    <3>2. Borrowing' <=> Borrowing
      BY Zenon, <1>1, <1>2, <2>1 DEF Borrowing, Threads
    <3> QED BY Zenon, <1>1, <1>3, <3>1, <3>2, ReaderUnlocks
  <2>2. CASE r.msg \in Bare
    <3>1. th = Binder /\ stray /\ lock.writer # th
      BY Zenon, <1>2, <2>2 DEF IInv, Places, Counting, Writing, Threads
    <3>2. Borrowing' /\ ~ Borrowing
      BY Zenon, <1>1, <1>2, <2>2, <3>1 DEF Borrowing
    <3>3. Cardinality(Readers)' = Cardinality(Readers) /\ Cardinality(Readers) \in Nat
      BY Zenon, <1>1, <1>2, <2>2, ReadersCounted DEF Reading
    <3>4. /\ lock \in [readers : Nat, writer : Threads \cup {None}]
          /\ lock.writer # None => lock.readers = 0
          /\ lock.readers >= Cardinality(Readers)
      BY <3>2 DEF IInv, TypeOK, Writing, Counting
    <3>5. CASE lock.writer = None /\ lock.readers > 0
      <4>1. lock' = [lock EXCEPT !.readers = @ - 1]
        BY Zenon, <1>3, <3>1, <3>5 DEF Unlocked
      <4>2. /\ lock' \in [readers : Nat, writer : Threads \cup {None}]
            /\ lock'.writer = lock.writer /\ lock'.readers = lock.readers - 1
        BY <3>4, <3>5, <4>1
      <4> QED BY <1>3, <3>1, <3>2, <3>3, <3>4, <3>5, <4>2
    <3>6. CASE ~ (lock.writer = None /\ lock.readers > 0)
      <4>1. lock' = lock
        BY Zenon, <1>3, <3>1, <3>6 DEF Unlocked
      <4> QED BY <1>3, <3>1, <3>2, <3>3, <3>4, <4>1
    <3> QED BY Zenon, <3>5, <3>6
  <2> QED BY Zenon, <2>1, <2>2
<1>5. TypeOK'
  BY Zenon, <1>1, <1>3, <1>4 DEF IInv, TypeOK
<1>6. Places' /\ Writing'
  BY <1>1, <1>2, <1>3, <1>4, ThreadAssumption DEF IInv, Places, Writing, Threads
<1>7. Counting'
  BY Zenon, <1>1, <1>2, <1>3, <1>4 DEF IInv, Counting
<1>8. Lives' /\ Targets'
  BY <1>1, <1>2, <1>3 DEF IInv, Lives, Targets
<1>9. Stable'
  BY <1>1, <1>2, <1>3 DEF IInv, Stable, Reading
<1> QED BY <1>5, <1>6, <1>7, <1>8, <1>9 DEF IInv

\* checkReturnStatus takes the write lock: no reader is left.
LEMMA TakeWriteLockStep ==
  ASSUME IInv, NEW th \in Threads, TakeWriteLock(th)
  PROVE  IInv'
<1> DEFINE r == run[th]
<1>1. /\ run' \in [Threads -> Thread] /\ \A u \in Threads \ {th} : run'[u] = run[u]
      /\ run'[th].pc = "reset" /\ run'[th].msg = r.msg /\ run'[th].svc = r.svc
      /\ run'[th].target = r.target /\ run'[th].saved = r.saved /\ run'[th].todo = r.todo
  BY Zenon, GotoThread DEF IInv, TakeWriteLock
<1>2. r \in Thread /\ r.pc = "wantWrite"
  BY Zenon DEF IInv, TypeOK, TakeWriteLock
<1>3. UNCHANGED <<cb, counter, alive, gone, nitz, received, sent, stray>>
  BY Zenon DEF TakeWriteLock
<1>4. /\ lock' \in [readers : Nat, writer : Threads \cup {None}]
      /\ lock'.writer = th /\ lock'.readers = lock.readers /\ lock.writer = None /\ lock.readers = 0
  BY Zenon DEF IInv, TypeOK, TakeWriteLock, CanWrite, WriteLocked
<1>5. TypeOK'
  BY Zenon, <1>1, <1>3, <1>4 DEF IInv, TypeOK
<1>6. Places' /\ Writing'
  <2>1. Places'
    BY Zenon, <1>1, <1>2, <1>3, ThreadAssumption DEF IInv, Places, Threads
  <2>2. \A u \in Threads \ {th} : run[u].pc # "reset"
    BY Zenon, <1>4, NameAssumption DEF IInv, Writing, Threads
  <2>3. Writing'
    BY Zenon, <1>1, <1>4, <2>2 DEF Writing
  <2> QED BY Zenon, <2>1, <2>3
<1>7. Counting'
  <2>1. Cardinality(Readers)' = Cardinality(Readers)
    BY Zenon, <1>1, <1>2, ReadersCounted DEF Reading
  <2>2. Borrowing' <=> Borrowing
    BY Zenon, <1>1, <1>2 DEF Borrowing, Threads
  <2> QED BY <1>1, <1>2, <1>3, <1>4, <2>1, <2>2 DEF IInv, Counting
<1>8. Lives' /\ Targets'
  BY <1>1, <1>2, <1>3 DEF IInv, Lives, Targets
<1>9. Stable'
  BY <1>1, <1>2, <1>3 DEF IInv, Stable, Reading
<1> QED BY <1>5, <1>6, <1>7, <1>8, <1>9 DEF IInv

\* checkReturnStatus removes the callbacks unless the counter has moved.
LEMMA ResetCallbacksStep ==
  ASSUME IInv, NEW th \in Threads, ResetCallbacks(th)
  PROVE  IInv'
<1> DEFINE r == run[th]
<1>1. /\ run' \in [Threads -> Thread] /\ \A u \in Threads \ {th} : run'[u] = run[u]
      /\ run'[th].pc = "wantRead" /\ run'[th].msg = r.msg /\ run'[th].svc = r.svc
      /\ run'[th].target = r.target /\ run'[th].saved = r.saved /\ run'[th].todo = r.todo
  BY Zenon, GotoThread DEF IInv, ResetCallbacks
<1>2. r \in Thread /\ r.pc = "reset" /\ r.svc \in Services
  BY Zenon DEF IInv, TypeOK, Places, ResetCallbacks
<1>3. UNCHANGED <<alive, gone, nitz, received, sent, stray>>
  BY Zenon DEF ResetCallbacks
<1>4. /\ lock' \in [readers : Nat, writer : Threads \cup {None}]
      /\ lock'.writer = None /\ lock'.readers = lock.readers /\ lock.writer = th /\ lock.readers = 0
  <2>1. lock.writer = th /\ lock.readers = 0
    BY Zenon, <1>2, NameAssumption DEF IInv, Writing, Threads
  <2>2. lock' = [lock EXCEPT !.writer = None]
    BY Zenon, <2>1 DEF ResetCallbacks, Unlocked
  <2> QED BY Zenon, <2>1, <2>2 DEF IInv, TypeOK
<1>5. /\ cb' \in [Services -> Clients \cup {None}] /\ counter' \in [Services -> Nat]
      /\ \A s \in Services :
           \/ cb'[s] = cb[s] /\ counter'[s] = counter[s]
           \/ cb'[s] = None /\ counter'[s] = counter[s] + 1
  BY <1>2 DEF IInv, TypeOK, ResetCallbacks
<1>6. TypeOK'
  BY Zenon, <1>1, <1>3, <1>4, <1>5 DEF IInv, TypeOK
<1>7. Places' /\ Writing'
  <2>1. Places'
    BY Zenon, <1>1, <1>2, <1>3, ThreadAssumption DEF IInv, Places, Threads
  <2>2. \A u \in Threads \ {th} : run[u].pc # "reset"
    BY Zenon, <1>4, NameAssumption DEF IInv, Writing, Threads
  <2>3. Writing'
    BY Zenon, <1>1, <1>4, <2>2, NameAssumption DEF Writing, Threads
  <2> QED BY <2>1, <2>3
<1>8. Counting'
  <2>1. Cardinality(Readers)' = Cardinality(Readers)
    BY Zenon, <1>1, <1>2, ReadersCounted DEF Reading
  <2>2. Borrowing' <=> Borrowing
    BY Zenon, <1>1, <1>2 DEF Borrowing, Threads
  <2> QED BY Zenon, <1>1, <1>2, <1>3, <1>4, <2>1, <2>2 DEF IInv, Counting
<1>9. Lives'
  BY Zenon, <1>3, <1>5 DEF IInv, Lives
<1>10. Targets'
  <2>1. \A u \in Threads : run'[u].pc = "calling" =>
          cb'[run'[u].svc] \in {run'[u].target, None} /\ run'[u].target \in alive' \cup gone'
    BY <1>1, <1>3, <1>5 DEF IInv, Targets, Places
  <2>2. ASSUME NEW u \in Threads, run'[u].pc \in {"noted", "wantWrite", "reset"}
        PROVE  /\ run'[u].saved <= counter'[run'[u].svc]
               /\ run'[u].saved = counter'[run'[u].svc] => cb'[run'[u].svc] \in gone' \cup {None}
    <3>1. /\ u # th /\ run'[u] = run[u] /\ run[u].svc \in Services /\ run[u].saved \in Nat
          /\ counter[run[u].svc] \in Nat
      BY Zenon, <1>1, <2>2 DEF IInv, TypeOK, Places, Thread
    <3>2. /\ run[u].saved <= counter[run[u].svc]
          /\ run[u].saved = counter[run[u].svc] => cb[run[u].svc] \in gone \cup {None}
      BY Zenon, <2>2, <3>1 DEF IInv, Targets
    <3> QED BY <1>3, <1>5, <3>1, <3>2
  <2> QED BY Zenon, <2>1, <2>2 DEF Targets
<1>11. Stable'
  <2>1. ASSUME ~ stray', NEW u \in Threads, Reading(u)' PROVE FALSE
    <3>1. u # th /\ Reading(u)
      BY Zenon, <1>1, <2>1 DEF Reading
    <3> QED BY <1>3, <1>4, <2>1, <3>1, ReaderCounted DEF IInv, Counting
  <2> QED BY Zenon, <2>1 DEF Stable
<1> QED BY Zenon, <1>6, <1>7, <1>8, <1>9, <1>10, <1>11 DEF IInv

\* checkReturnStatus takes the read lock back for its caller.
LEMMA RetakeReadLockStep ==
  ASSUME IInv, NEW th \in Threads, RetakeReadLock(th)
  PROVE  IInv'
<1> DEFINE r == run[th]
<1>1. /\ run' \in [Threads -> Thread] /\ \A u \in Threads \ {th} : run'[u] = run[u]
      /\ run'[th].pc = "return" /\ run'[th].msg = r.msg /\ run'[th].svc = r.svc
      /\ run'[th].target = r.target /\ run'[th].saved = r.saved /\ run'[th].todo = r.todo
  BY Zenon, GotoThread DEF IInv, RetakeReadLock
<1>2. r \in Thread /\ r.pc = "wantRead"
  BY Zenon DEF IInv, TypeOK, RetakeReadLock
<1>3. UNCHANGED <<cb, counter, alive, gone, nitz, received, sent, stray>>
  BY Zenon DEF RetakeReadLock
<1>4. /\ lock' \in [readers : Nat, writer : Threads \cup {None}] /\ lock.readers \in Nat
      /\ lock.writer = None /\ lock'.writer = None /\ lock'.readers = lock.readers + 1
  BY DEF IInv, TypeOK, RetakeReadLock, CanRead, ReadLocked
<1>5. TypeOK'
  BY Zenon, <1>1, <1>3, <1>4 DEF IInv, TypeOK
<1>6. Places'
  BY Zenon, <1>1, <1>2, <1>3, ThreadAssumption DEF IInv, Places, Threads
<1>7. Writing'
  BY <1>1, <1>2, <1>4, NameAssumption DEF IInv, Writing, Threads
<1>8. Counting'
  <2>1. CASE r.msg \notin Bare
    <3>1. Cardinality(Readers)' = Cardinality(Readers) + 1 /\ Cardinality(Readers) \in Nat
      BY Zenon, <1>1, <1>2, <2>1, ReadersCounted DEF Reading
    <3>2. Borrowing' <=> Borrowing
      BY Zenon, <1>1, <1>2, <2>1 DEF Borrowing, Threads
    <3>3. lock'.readers + (IF Borrowing' THEN 1 ELSE 0) >= Cardinality(Readers)'
      BY <1>4, <3>1, <3>2 DEF IInv, Counting
    <3>4. ~ stray' => lock'.readers = Cardinality(Readers)'
      BY Zenon, <1>3, <1>4, <3>1 DEF IInv, Counting
    <3> QED BY Zenon, <1>1, <1>2, <1>3, <3>3, <3>4 DEF IInv, Counting
  <2>2. CASE r.msg \in Bare
    <3>1. th = Binder /\ stray
      BY Zenon, <1>2, <2>2 DEF IInv, Places, Counting, Threads
    <3>2. Borrowing /\ ~ Borrowing'
      BY Zenon, <1>1, <1>2, <2>2, <3>1 DEF Borrowing
    <3>3. Cardinality(Readers)' = Cardinality(Readers) /\ Cardinality(Readers) \in Nat
      BY Zenon, <1>1, <1>2, <2>2, ReadersCounted DEF Reading
    <3>4. lock.readers + 1 >= Cardinality(Readers)
      BY Zenon, <3>2 DEF IInv, Counting
    <3> QED BY <1>3, <1>4, <3>1, <3>2, <3>3, <3>4 DEF Counting
  <2> QED BY Zenon, <2>1, <2>2
<1>9. Lives' /\ Targets'
  BY <1>1, <1>2, <1>3 DEF IInv, Lives, Targets
<1>10. Stable'
  BY <1>1, <1>2, <1>3 DEF IInv, Stable, Reading
<1> QED BY <1>5, <1>6, <1>7, <1>8, <1>9, <1>10 DEF IInv

\* A sender releases its read lock.
LEMMA SenderReturnsStep ==
  ASSUME IInv, NEW th \in Threads, SenderReturns(th)
  PROVE  IInv'
<1> DEFINE r == run[th]
           q == IF r.pc = "missing" /\ r.msg = "nitz" THEN [r EXCEPT !.pc = "store"] ELSE Finished(r)
<1>1. r \in Thread /\ r.pc \in {"return", "missing"} /\ r.msg \notin Bare /\ r.svc \in Services
  BY Zenon DEF IInv, TypeOK, Places, SenderReturns
<1>2. UNCHANGED <<cb, counter, alive, gone, nitz, received, sent, stray>> /\ lock' = Unlocked(th)
  BY Zenon DEF SenderReturns
<1>3. run' = [run EXCEPT ![th] = q]
  BY Zenon DEF SenderReturns
<1>4. /\ q \in Thread /\ q.pc \in {"store", "idle", "start"} /\ (q.pc # "idle" => q.svc = r.svc)
      /\ r.todo = <<>> => q.todo = <<>> /\ q.msg \notin Bare
  <2>1. CASE r.pc = "missing" /\ r.msg = "nitz"
    <3>1. q = [r EXCEPT !.pc = "store"]
      BY Zenon, <2>1
    <3> QED BY Zenon, <1>1, <2>1, <3>1 DEF Thread
  <2>2. CASE ~ (r.pc = "missing" /\ r.msg = "nitz")
    <3>1. q = Finished(r)
      BY Zenon, <2>2
    <3> QED BY <1>1, <3>1, FinishedThread DEF IdleThread, Bare
  <2> QED BY Zenon, <2>1, <2>2
<1> HIDE DEF q
<1>5. run' \in [Threads -> Thread] /\ run'[th] = q /\ \A u \in Threads \ {th} : run'[u] = run[u]
  BY Zenon, <1>3, <1>4 DEF IInv, TypeOK
<1>6. /\ lock' \in [readers : Nat, writer : Threads \cup {None}]
      /\ lock'.writer = lock.writer
      /\ lock'.writer # None => lock'.readers = 0
      /\ lock'.readers + (IF Borrowing' THEN 1 ELSE 0) >= Cardinality(Readers)'
      /\ ~ stray' => lock'.readers = Cardinality(Readers)'
  <2>1. Reading(th) /\ ~ Reading(th)'
    BY Zenon, <1>1, <1>4, <1>5 DEF Reading
  <2>2. Borrowing' <=> Borrowing
    BY Zenon, <1>1, <1>4, <1>5 DEF Borrowing, Threads
  <2> QED BY Zenon, <1>2, <1>5, <2>1, <2>2, ReaderUnlocks
<1>7. TypeOK'
  BY Zenon, <1>2, <1>5, <1>6 DEF IInv, TypeOK
<1>8. Places'
  BY Zenon, <1>1, <1>2, <1>4, <1>5, ThreadAssumption DEF IInv, Places, Threads
<1>9. Writing'
  BY <1>1, <1>4, <1>5, <1>6 DEF IInv, Writing
<1>10. Counting'
  BY Zenon, <1>2, <1>4, <1>5, <1>6 DEF IInv, Counting
<1>11. Lives' /\ Targets'
  BY Zenon, <1>2, <1>4, <1>5 DEF IInv, Lives, Targets
<1>12. Stable'
  BY Zenon, <1>2, <1>4, <1>5 DEF IInv, Stable, Reading
<1> QED BY <1>7, <1>8, <1>9, <1>10, <1>11, <1>12 DEF IInv

\* A thread that holds no lock and goes to a place where it needs none.
LEMMA OutsideStep ==
  ASSUME IInv, NEW th \in Threads, NEW q \in Thread,
         run' = [run EXCEPT ![th] = q],
         \/ run[th].pc \in {"idle", "start", "store", "connect"}
         \/ run[th].pc \in {"missing", "return"} /\ run[th].msg \in Bare,
         q.pc \in {"idle", "start"},
         q.pc # "idle" => q.svc \in Services,
         th \in Vendor => q.todo = <<>> /\ q.msg \notin Bare,
         nitz' \in 0 .. MaxNitz, received' \in 0 .. MaxNitz, sent' \in 0 .. MaxMessages,
         UNCHANGED <<cb, counter, lock, alive, gone, stray>>
  PROVE  IInv'
<1>1. run' \in [Threads -> Thread] /\ run'[th] = q /\ \A u \in Threads \ {th} : run'[u] = run[u]
  BY Zenon DEF IInv, TypeOK
<1>2. TypeOK'
  BY Zenon, <1>1 DEF IInv, TypeOK
<1>3. Places'
  BY Zenon, <1>1, ThreadAssumption DEF IInv, Places, Threads
<1>4. Writing'
  BY Zenon, <1>1 DEF IInv, Writing
<1>5. Counting'
  <2>1. Cardinality(Readers)' = Cardinality(Readers)
    BY Zenon, <1>1, ReadersCounted DEF Reading
  <2>2. Borrowing' <=> Borrowing
    BY Zenon, <1>1 DEF Borrowing, Threads
  <2> QED BY Zenon, <1>1, <2>1, <2>2 DEF IInv, Counting
<1>6. Lives' /\ Targets'
  BY <1>1 DEF IInv, Lives, Targets
<1>7. Stable'
  BY Zenon, <1>1 DEF IInv, Stable, Reading
<1> QED BY Zenon, <1>2, <1>3, <1>4, <1>5, <1>6, <1>7 DEF IInv

\* send_unsolResponse keeps a NITZ message that had no callback object.
LEMMA StoreNitzStep ==
  ASSUME IInv, NEW th \in Threads, StoreNitz(th)
  PROVE  IInv'
<1>1. run[th] \in Thread /\ run[th].pc = "store" /\ run[th].svc \in Services
  BY Zenon DEF IInv, TypeOK, Places, StoreNitz
<1>2. nitz' \in 0 .. MaxNitz /\ received' \in 0 .. MaxNitz /\ sent' \in 0 .. MaxMessages
  BY Zenon, <1>1 DEF IInv, TypeOK, Thread, StoreNitz
<1>3. th \in Vendor => Finished(run[th]).todo = <<>> /\ Finished(run[th]).msg \notin Bare
  BY <1>1, FinishedThread DEF IInv, Places, IdleThread, Bare
<1> QED BY Zenon, <1>1, <1>2, <1>3, FinishedThread, OutsideStep DEF StoreNitz

\* A sender without a read lock is done.
LEMMA BareReturnsStep ==
  ASSUME IInv, NEW th \in Threads, BareReturns(th)
  PROVE  IInv'
<1>1. /\ run[th] \in Thread /\ run[th].pc \in {"missing", "return"} /\ run[th].msg \in Bare
      /\ run[th].svc \in Services
  BY Zenon DEF IInv, TypeOK, Places, BareReturns
<1>2. nitz' \in 0 .. MaxNitz /\ received' \in 0 .. MaxNitz /\ sent' \in 0 .. MaxMessages
  BY BoundAssumption DEF IInv, TypeOK, BareReturns
<1>3. th \in Vendor => Finished(run[th]).todo = <<>> /\ Finished(run[th]).msg \notin Bare
  BY Zenon, <1>1 DEF IInv, Places
<1> QED BY Zenon, <1>1, <1>2, <1>3, FinishedThread, OutsideStep DEF BareReturns

\* The vendor library completes a request or sends an indication.
LEMMA VendorSendsStep ==
  ASSUME IInv, NEW th \in Vendor, NEW s \in Services, NEW m \in {"ind", "nitz"}, VendorSends(th, s, m)
  PROVE  IInv'
<1> DEFINE q == [IdleThread EXCEPT !.pc = "start", !.msg = m, !.svc = s, !.num = received']
<1>1. received' \in 0 .. MaxNitz /\ sent' \in 0 .. MaxMessages /\ nitz' \in 0 .. MaxNitz
  BY BoundAssumption DEF IInv, TypeOK, VendorSends
<1>2. q \in Thread /\ q.pc = "start" /\ q.svc = s /\ q.msg = m /\ q.todo = <<>>
  <2>1. IdleThread \in Thread /\ IdleThread.todo = <<>>
    BY BoundAssumption DEF IdleThread, Thread
  <2> QED BY Zenon, <1>1, <2>1 DEF Thread
<1>3. th \in Threads /\ run[th].pc = "idle" /\ run' = [run EXCEPT ![th] = q] /\ m \notin Bare
  BY Zenon DEF VendorSends, Threads, Bare
<1>4. UNCHANGED <<cb, counter, lock, alive, gone, stray>>
  BY Zenon DEF VendorSends
<1> HIDE DEF q
<1> QED BY Zenon, <1>1, <1>2, <1>3, <1>4, OutsideStep

\* The HIDL thread answers a request itself.
LEMMA RequestFailsStep ==
  ASSUME IInv, NEW s \in Services, RequestFails(s)
  PROVE  IInv'
<1> DEFINE q == [IdleThread EXCEPT !.pc = "start", !.msg = "error", !.svc = s]
<1>1. received' \in 0 .. MaxNitz /\ sent' \in 0 .. MaxMessages /\ nitz' \in 0 .. MaxNitz
  BY BoundAssumption DEF IInv, TypeOK, RequestFails
<1>2. q \in Thread /\ q.pc = "start" /\ q.svc = s
  <2>1. IdleThread \in Thread
    BY BoundAssumption DEF IdleThread, Thread
  <2> QED BY Zenon, <2>1 DEF Thread
<1>3. Binder \in Threads /\ Binder \notin Vendor /\ run[Binder].pc = "idle" /\ run' = [run EXCEPT ![Binder] = q]
  BY Zenon, ThreadAssumption DEF RequestFails, Threads
<1>4. UNCHANGED <<cb, counter, lock, alive, gone, stray>>
  BY Zenon DEF RequestFails
<1> HIDE DEF q
<1> QED BY Zenon, <1>1, <1>2, <1>3, <1>4, OutsideStep

\* A new client calls setResponseFunctions.
LEMMA ConnectStep ==
  ASSUME IInv, NEW c \in Clients, NEW s \in Services, Connect(c, s)
  PROVE  IInv'
<1> DEFINE q == [IdleThread EXCEPT !.pc = "connect", !.svc = s, !.target = c]
<1>1. q \in Thread /\ q.pc = "connect" /\ q.svc = s /\ q.target = c /\ q.msg = "none"
  <2>1. IdleThread \in Thread /\ IdleThread.msg = "none"
    BY BoundAssumption DEF IdleThread, Thread
  <2> QED BY Zenon, <2>1 DEF Thread
<1> HIDE DEF q
<1>2. /\ Binder \in Threads /\ Binder \notin Vendor
      /\ run' \in [Threads -> Thread] /\ run'[Binder] = q
      /\ \A u \in Threads \ {Binder} : run'[u] = run[u]
  BY Zenon, <1>1, ThreadAssumption DEF Connect, Threads, IInv, TypeOK, q
<1>3. run[Binder].pc = "idle" /\ c \notin gone /\ alive' = alive \cup {c}
  BY Zenon DEF Connect
<1>4. UNCHANGED <<cb, counter, lock, gone, nitz, received, sent, stray>>
  BY Zenon DEF Connect
<1>5. TypeOK'
  BY Zenon, <1>2, <1>3, <1>4 DEF IInv, TypeOK
<1>6. Places' /\ Writing'
  BY <1>1, <1>2, <1>3, <1>4 DEF IInv, Places, Writing, Threads
<1>7. Counting'
  <2>1. Cardinality(Readers)' = Cardinality(Readers)
    BY Zenon, <1>1, <1>2, <1>3, ReadersCounted DEF Reading
  <2>2. ~ Borrowing' /\ ~ Borrowing
    BY Zenon, <1>1, <1>2, <1>3 DEF Borrowing
  <2> QED BY Zenon, <1>1, <1>2, <1>4, <2>1, <2>2 DEF IInv, Counting
<1>8. Lives' /\ Targets'
  BY <1>1, <1>2, <1>3, <1>4 DEF IInv, Lives, Targets
<1>9. Stable'
  BY Zenon, <1>1, <1>2, <1>4 DEF IInv, Stable, Reading
<1> QED BY Zenon, <1>5, <1>6, <1>7, <1>8, <1>9 DEF IInv

\* setResponseFunctions replaces the callbacks under the write lock and moves the counter.
LEMMA setResponseFunctionsStep ==
  ASSUME IInv, setResponseFunctions
  PROVE  IInv'
<1> DEFINE r == run[Binder]
           t == [r EXCEPT !.todo = <<"ind", "ind", "resend">>]
           q == IF r.svc \in Radio THEN Finished(t) ELSE IdleThread
<1>1. /\ Binder \in Threads /\ Binder \notin Vendor /\ r \in Thread /\ r.pc = "connect"
      /\ r.svc \in Services /\ r.target \in alive \cup gone
  BY Zenon, ThreadAssumption DEF setResponseFunctions, IInv, TypeOK, Places, Threads
<1>2. q \in Thread /\ q.pc \in {"idle", "start"} /\ (q.pc # "idle" => q.svc = r.svc)
  <2>1. CASE r.svc \in Radio
    <3>1. <<"ind", "ind", "resend">> \in Seq({"ind", "resend"})
      OBVIOUS
    <3>2. t \in Thread /\ t.svc = r.svc
      BY Zenon, <1>1, <3>1 DEF Thread
    <3> HIDE DEF t
    <3>3. q = Finished(t)
      BY Zenon, <2>1
    <3> QED BY Zenon, <3>2, <3>3, FinishedThread
  <2>2. CASE r.svc \notin Radio
    <3>1. q = IdleThread
      BY Zenon, <2>2
    <3>2. IdleThread \in Thread /\ IdleThread.pc = "idle"
      BY BoundAssumption DEF IdleThread, Thread
    <3> HIDE DEF q
    <3> QED BY Zenon, <3>1, <3>2
  <2> QED BY Zenon, <2>1, <2>2
<1> HIDE DEF q
<1>3. run' \in [Threads -> Thread] /\ run'[Binder] = q /\ \A u \in Threads \ {Binder} : run'[u] = run[u]
  BY Zenon, <1>1, <1>2 DEF setResponseFunctions, IInv, TypeOK, q
<1>4. UNCHANGED <<lock, alive, gone, nitz, received, sent, stray>>
  BY Zenon DEF setResponseFunctions
<1>5. /\ cb' \in [Services -> Clients \cup {None}] /\ counter' \in [Services -> Nat]
      /\ cb'[r.svc] = r.target /\ counter'[r.svc] = counter[r.svc] + 1
      /\ \A s \in Services \ {r.svc} : cb'[s] = cb[s] /\ counter'[s] = counter[s]
  <2>1. cb' = [cb EXCEPT ![r.svc] = r.target] /\ counter' = [counter EXCEPT ![r.svc] = @ + 1]
    BY Zenon DEF setResponseFunctions
  <2> QED BY <1>1, <2>1 DEF IInv, TypeOK, Thread
<1>6. ~ Borrowing /\ ~ Borrowing'
  BY Zenon, <1>1, <1>2, <1>3 DEF Borrowing
<1>7. \A u \in Threads : ~ Reading(u)
  <2>1. lock.readers = 0 /\ lock.readers \in Nat
    BY Zenon DEF setResponseFunctions, CanWrite, IInv, TypeOK
  <2>2. lock.readers >= Cardinality(Readers)
    BY <1>6, <2>1 DEF IInv, Counting
  <2> QED BY <2>1, <2>2, ReaderCounted
<1>8. lock.writer = None
  BY Zenon DEF setResponseFunctions, CanWrite
<1>9. \A u \in Threads \ {Binder} : run[u].pc \notin {"calling", "noted", "reset"}
  BY Zenon, <1>1, <1>7, <1>8, NameAssumption DEF IInv, Writing, Places, Reading, Threads
<1>10. TypeOK'
  BY Zenon, <1>3, <1>4, <1>5 DEF IInv, TypeOK
<1>11. Places' /\ Writing'
  BY <1>1, <1>2, <1>3, <1>4 DEF IInv, Places, Writing, Threads
<1>12. Counting'
  <2>1. Cardinality(Readers)' = Cardinality(Readers)
    BY Zenon, <1>1, <1>2, <1>3, ReadersCounted DEF Reading
  <2> QED BY Zenon, <1>2, <1>3, <1>4, <1>6, <2>1 DEF IInv, Counting
<1>13. Lives'
  BY Zenon, <1>1, <1>4, <1>5 DEF IInv, Lives
<1>14. Targets'
  <2>1. \A u \in Threads : run'[u].pc # "calling"
    BY Zenon, <1>2, <1>3, <1>9
  <2>2. ASSUME NEW u \in Threads, run'[u].pc \in {"noted", "wantWrite", "reset"}
        PROVE  /\ run'[u].saved <= counter'[run'[u].svc]
               /\ run'[u].saved = counter'[run'[u].svc] => cb'[run'[u].svc] \in gone' \cup {None}
    <3>1. u # Binder /\ run'[u] = run[u] /\ run[u].svc \in Services
      BY Zenon, <1>2, <1>3, <2>2 DEF IInv, Places
    <3>2. run[u].saved \in Nat /\ counter[run[u].svc] \in Nat
      BY Zenon, <3>1 DEF IInv, TypeOK, Thread
    <3>3. /\ run[u].saved <= counter[run[u].svc]
          /\ run[u].saved = counter[run[u].svc] => cb[run[u].svc] \in gone \cup {None}
      BY Zenon, <2>2, <3>1 DEF IInv, Targets
    <3>4. CASE run[u].svc = r.svc
      BY <1>5, <3>1, <3>2, <3>3, <3>4
    <3>5. CASE run[u].svc # r.svc
      BY <1>4, <1>5, <3>1, <3>3, <3>5
    <3> QED BY Zenon, <3>4, <3>5
  <2> QED BY Zenon, <2>1, <2>2 DEF Targets
<1>15. Stable'
  BY Zenon, <1>2, <1>3, <1>9 DEF Stable
<1> QED BY Zenon, <1>10, <1>11, <1>12, <1>13, <1>14, <1>15 DEF IInv

\* A client process ends.
LEMMA ClientDiesStep ==
  ASSUME IInv, NEW c \in Clients, ClientDies(c)
  PROVE  IInv'
<1>1. /\ alive' = alive \ {c} /\ gone' = gone \cup {c} /\ c \in alive
      /\ UNCHANGED <<cb, counter, lock, run, nitz, received, sent, stray>>
  BY Zenon DEF ClientDies
<1>2. Readers' = Readers /\ (Borrowing' <=> Borrowing)
  BY Zenon, <1>1 DEF Readers, Reading, Borrowing
<1>3. TypeOK' /\ Places' /\ Writing'
  BY Zenon, <1>1 DEF IInv, TypeOK, Places, Writing
<1>4. Counting'
  BY Zenon, <1>1, <1>2 DEF IInv, Counting
<1>5. Lives' /\ Targets' /\ Stable'
  BY Zenon, <1>1 DEF IInv, Lives, Targets, Stable, Reading
<1> QED BY Zenon, <1>3, <1>4, <1>5 DEF IInv

\* A step that changes nothing.
LEMMA StutterStep ==
  ASSUME IInv, UNCHANGED vars
  PROVE  IInv'
<1>1. UNCHANGED <<cb, counter, lock, alive, gone, run, nitz, received, sent, stray>>
  BY Zenon DEF vars
<1>2. Readers' = Readers /\ (Borrowing' <=> Borrowing)
  BY Zenon, <1>1 DEF Readers, Reading, Borrowing
<1>3. TypeOK' /\ Places' /\ Writing' /\ Counting'
  BY Zenon, <1>1, <1>2 DEF IInv, TypeOK, Places, Writing, Counting
<1>4. Lives' /\ Targets' /\ Stable'
  BY Zenon, <1>1 DEF IInv, Lives, Targets, Stable, Reading
<1> QED BY Zenon, <1>3, <1>4 DEF IInv

-----------------------------------------------------------------------------
\* Every step keeps the inductive invariant.
LEMMA NextIInv == IInv /\ [Next]_vars => IInv'
<1> SUFFICES ASSUME IInv, [Next]_vars PROVE IInv'
  BY Zenon
<1>1. ASSUME NEW th \in Threads, Deliver(th) PROVE IInv'
  BY Zenon, <1>1, TakeReadLockStep, StartBareStep, CallStep, CallOkStep, CallFailsStep,
     ReleaseReadStep, TakeWriteLockStep, ResetCallbacksStep, RetakeReadLockStep,
     SenderReturnsStep, StoreNitzStep, BareReturnsStep DEF Deliver
<1>2. CASE Done \/ UNCHANGED vars
  BY Zenon, <1>2, StutterStep DEF Done
<1> QED
  BY Zenon, <1>1, <1>2, VendorSendsStep, ConnectStep, setResponseFunctionsStep, RequestFailsStep,
     ClientDiesStep DEF Next

\* The inductive invariant holds in every state of the specification.
THEOREM Invariance == Spec => []IInv
<1>1. Init => IInv
  BY Zenon, InitIInv
<1>2. IInv /\ [Next]_vars => IInv'
  BY Zenon, NextIInv
<1> QED BY <1>1, <1>2, PTL DEF Spec

\* For any number of services, clients, vendor threads and messages: while no call
\* without the read lock has failed, the lock of ril_service.cpp counts exactly the
\* threads between lock and unlock, and the callback object of a call under the read
\* lock is not replaced before the thread gives the lock up.
THEOREM CallbacksStayInstalled == Spec => []CallbackStable
<1>1. IInv => CallbackStable
  BY Zenon DEF IInv, CallbackStable, LockBalanced, Counting, Writing, Stable, Readers
<1> QED BY <1>1, Invariance, PTL

\* A step that removes callbacks is ResetCallbacks of the thread whose call failed,
\* and the client is dead: also with calls without the read lock.
LEMMA StepResetsOnlyDead ==
  IInv /\ [Next]_vars => \A s \in Services : cb[s] # None /\ cb'[s] = None => cb[s] \notin alive
<1> SUFFICES ASSUME IInv, [Next]_vars, NEW s \in Services, cb[s] # None, cb'[s] = None
             PROVE  cb[s] \notin alive
  BY Zenon
<1>1. ASSUME NEW th \in Threads, ResetCallbacks(th) PROVE cb[s] \notin alive
  <2>1. run[th].pc = "reset" /\ run[th].svc \in Services
    BY Zenon, <1>1 DEF ResetCallbacks, IInv, Places
  <2>2. s = run[th].svc /\ run[th].saved = counter[s]
    BY Zenon, <1>1, <2>1 DEF ResetCallbacks, IInv, TypeOK
  <2>3. cb[s] \in gone \cup {None}
    BY Zenon, <2>1, <2>2 DEF IInv, Targets
  <2> QED BY Zenon, <2>3 DEF IInv, Lives
<1>2. ASSUME setResponseFunctions PROVE FALSE
  <2>1. /\ run[Binder].target \in alive \cup gone /\ run[Binder].svc \in Services
        /\ cb' = [cb EXCEPT ![run[Binder].svc] = run[Binder].target]
    BY Zenon, <1>2 DEF setResponseFunctions, IInv, Places, Threads
  <2>2. run[Binder].target # None
    BY Zenon, <2>1, NameAssumption DEF IInv, TypeOK
  <2> QED BY Zenon, <2>1, <2>2 DEF IInv, TypeOK
<1>3. CASE cb' = cb
  BY Zenon, <1>3
<1>4. ASSUME NEW th \in Threads, Deliver(th) PROVE ResetCallbacks(th) \/ cb' = cb
  BY Zenon, <1>4 DEF Deliver, TakeReadLock, StartBare, Call, CallOk, CallFails, ReleaseRead, TakeWriteLock,
     RetakeReadLock, SenderReturns, StoreNitz, BareReturns
<1> QED
  BY Zenon, <1>1, <1>2, <1>3, <1>4 DEF Next, VendorSends, Connect, RequestFails, ClientDies, Done, vars

\* checkReturnStatus removes only callbacks of a client that is dead, whichever
\* threads it races with: the counter it noted under the read lock is enough, for
\* any number of threads and clients.
THEOREM OnlyDeadAreReset == Spec => ResetsOnlyDead
<1>1. IInv /\ [Next]_vars
        => [\A s \in Services : cb[s] # None /\ cb'[s] = None => cb[s] \notin alive]_vars
  BY Zenon, StepResetsOnlyDead
<1> QED BY <1>1, Invariance, PTL DEF Spec, ResetsOnlyDead

=============================================================================
