--------------------------- MODULE MultiHalProofs ---------------------------
(***************************************************************************)
(* Proofs about MultiHal for every number of sub-HALs, every queue         *)
(* capacity, every handle map and every number of events.                  *)
(***************************************************************************)
EXTENDS MultiHal, TLAPS

(* What the operations of SensorEventQueue do to the positions of a queue.
   Position i (from 1) of a queue is the slot SlotAt(Q, i); positions
   1 .. mSize are readable. *)

\* Reduction modulo c of a sum that wraps at most once, as in the index
\* arithmetic of SensorEventQueue.cpp and of poll()'s round robin.
LEMMA WrapOnce ==
  ASSUME NEW c \in Nat \ {0}, NEW a \in Nat, a < 2 * c
  PROVE  a % c = IF a < c THEN a ELSE a - c
<1>1. CASE a < c
  BY <1>1
<1>2. CASE a >= c
  BY <1>2, Z3
<1> QED
  BY <1>1, <1>2

\* A slot number is what (mStart + i - 1) % mCapacity says it is.
LEMMA SlotAtValue ==
  ASSUME NEW R, NEW Q \in QueueType(R), NEW i \in 1 .. mCapacity
  PROVE  /\ SlotAt(Q, i) = IF Q.mStart + i - 1 < mCapacity
                             THEN Q.mStart + i - 1
                             ELSE Q.mStart + i - 1 - mCapacity
         /\ SlotAt(Q, i) \in Slots
<1>1. /\ Q.mStart \in 0 .. mCapacity - 1
      /\ mCapacity \in Nat \ {0}
  BY Zenon, CapacityAssumption DEF QueueType, Slots
<1>2. Q.mStart + i - 1 \in Nat /\ Q.mStart + i - 1 < 2 * mCapacity
  BY <1>1
<1>3. SlotAt(Q, i) = IF Q.mStart + i - 1 < mCapacity
                       THEN Q.mStart + i - 1
                       ELSE Q.mStart + i - 1 - mCapacity
  <2> DEFINE s == Q.mStart + i - 1
  <2>1. s \in Nat /\ s < 2 * mCapacity
    BY Zenon, <1>2
  <2>2. SlotAt(Q, i) = s % mCapacity
    BY Zenon DEF SlotAt
  <2> HIDE DEF s
  <2>3. s % mCapacity = IF s < mCapacity THEN s ELSE s - mCapacity
    BY Zenon, <1>1, <2>1, WrapOnce
  <2> QED
    BY <1>1, <2>2, <2>3 DEF s
<1> QED
  BY <1>1, <1>3 DEF Slots

\* Different positions are different slots.
LEMMA SlotAtInjective ==
  ASSUME NEW R, NEW Q \in QueueType(R),
         NEW i \in 1 .. mCapacity, NEW j \in 1 .. mCapacity,
         SlotAt(Q, i) = SlotAt(Q, j)
  PROVE  i = j
<1>1. Q.mStart \in 0 .. mCapacity - 1 /\ mCapacity \in Nat \ {0}
  BY Zenon, CapacityAssumption DEF QueueType, Slots
<1> QED
  BY <1>1, SlotAtValue

\* While there is room, writing starts at the position after the last
\* readable one.
LEMMA FirstWritableValue ==
  ASSUME NEW R, NEW Q \in QueueType(R), Q.mSize # mCapacity
  PROVE  /\ Q.mSize + 1 \in 1 .. mCapacity
         /\ FirstWritable(Q) = SlotAt(Q, Q.mSize + 1)
         /\ FirstWritable(Q) \in Slots
<1>1. /\ Q.mStart \in 0 .. mCapacity - 1
      /\ Q.mSize \in 0 .. mCapacity
      /\ mCapacity \in Nat \ {0}
  BY Zenon, CapacityAssumption DEF QueueType, Slots
<1>2. Q.mSize + 1 \in 1 .. mCapacity
  BY <1>1
<1>3. Q.mStart + Q.mSize = Q.mStart + (Q.mSize + 1) - 1
  BY <1>1
<1>4. FirstWritable(Q) = SlotAt(Q, Q.mSize + 1)
  BY Zenon, <1>3 DEF FirstWritable, SlotAt
<1> QED
  BY Zenon, <1>2, <1>4, SlotAtValue

\* getWritableRegion on a queue with room returns at least one slot, stays
\* inside the array and inside the free positions (SensorEventQueue.h:44-47).
THEOREM RegionFits ==
  ASSUME NEW R, NEW Q \in QueueType(R), Q.mSize # mCapacity
  PROVE  LET n == getWritableRegion(Q, mCapacity) IN
         /\ n \in 1 .. mCapacity
         /\ FirstWritable(Q) + n <= mCapacity
         /\ Q.mSize + n <= mCapacity
<1>1. /\ Q.mStart \in 0 .. mCapacity - 1
      /\ Q.mSize \in 0 .. mCapacity - 1
      /\ mCapacity \in Nat \ {0}
  BY CapacityAssumption DEF QueueType, Slots
<1>2. FirstWritable(Q) = IF Q.mStart + Q.mSize < mCapacity
                           THEN Q.mStart + Q.mSize
                           ELSE Q.mStart + Q.mSize - mCapacity
  <2>1. Q.mStart + Q.mSize \in Nat /\ Q.mStart + Q.mSize < 2 * mCapacity
    BY <1>1
  <2> QED
    BY <1>1, <2>1, WrapOnce DEF FirstWritable
<1>3. getWritableRegion(Q, mCapacity) =
        LastWritable(Q, mCapacity) - FirstWritable(Q) + 1
  BY <1>1 DEF getWritableRegion
<1>4. LastWritable(Q, mCapacity) =
        IF FirstWritable(Q) < Q.mStart THEN Q.mStart - 1 ELSE mCapacity - 1
  BY <1>1, <1>2 DEF LastWritable
<1> QED
  BY <1>1, <1>2, <1>3, <1>4

\* The j-th slot of a region that starts at FirstWritable and does not pass
\* the end of the array is the j-th free position.
LEMMA RegionSlot ==
  ASSUME NEW R, NEW Q \in QueueType(R), NEW j \in Nat,
         FirstWritable(Q) + j < mCapacity, Q.mSize + j < mCapacity
  PROVE  /\ Q.mSize + 1 + j \in 1 .. mCapacity
         /\ FirstWritable(Q) + j = SlotAt(Q, Q.mSize + 1 + j)
<1>1. /\ Q.mStart \in 0 .. mCapacity - 1
      /\ Q.mSize \in 0 .. mCapacity - 1
      /\ mCapacity \in Nat \ {0}
  BY CapacityAssumption DEF QueueType, Slots
<1>2. Q.mSize + 1 \in 1 .. mCapacity /\ Q.mSize + 1 + j \in 1 .. mCapacity
  BY <1>1
<1>3. FirstWritable(Q) = SlotAt(Q, Q.mSize + 1)
  BY <1>1, FirstWritableValue
<1> QED
  BY <1>1, <1>2, <1>3, SlotAtValue

\* dequeue shifts the positions down by one and leaves the write position.
LEMMA DequeueShifts ==
  ASSUME NEW R, NEW Q \in QueueType(R), Q.mSize # 0
  PROVE  /\ dequeue(Q) \in QueueType(R)
         /\ dequeue(Q).mSize = Q.mSize - 1
         /\ dequeue(Q).mData = Q.mData
         /\ FirstWritable(dequeue(Q)) = FirstWritable(Q)
         /\ \A i \in 1 .. mCapacity - 1 : SlotAt(dequeue(Q), i) = SlotAt(Q, i + 1)
<1> DEFINE D == dequeue(Q)
<1>1. /\ Q.mStart \in 0 .. mCapacity - 1
      /\ Q.mSize \in 1 .. mCapacity
      /\ mCapacity \in Nat \ {0}
      /\ Q.mData \in [Slots -> R \cup {Garbage}]
  BY CapacityAssumption DEF QueueType, Slots
<1>2. D = [mStart |-> (Q.mStart + 1) % mCapacity, mSize |-> Q.mSize - 1,
           mData |-> Q.mData]
  BY Zenon DEF dequeue, QueueType
<1>3. (Q.mStart + 1) % mCapacity = IF Q.mStart + 1 < mCapacity THEN Q.mStart + 1 ELSE 0
  <2> DEFINE s == Q.mStart + 1
  <2>1. s \in Nat /\ s <= mCapacity /\ s < 2 * mCapacity
    BY <1>1
  <2> HIDE DEF s
  <2>2. s % mCapacity = IF s < mCapacity THEN s ELSE s - mCapacity
    BY Zenon, <1>1, <2>1, WrapOnce
  <2>3. s % mCapacity = IF s < mCapacity THEN s ELSE 0
    BY <1>1, <2>1, <2>2
  <2> QED
    BY Zenon, <2>3 DEF s
<1>4. D \in QueueType(R)
  BY <1>1, <1>2, <1>3 DEF QueueType, Slots
<1>5. FirstWritable(D) = FirstWritable(Q)
  <2>1. FirstWritable(D) = (D.mStart + D.mSize) % mCapacity
    BY Zenon DEF FirstWritable
  <2>2. CASE Q.mStart + 1 < mCapacity
    <3>1. D.mStart = Q.mStart + 1 /\ D.mSize = Q.mSize - 1
      BY <1>2, <1>3, <2>2
    <3>2. D.mStart + D.mSize = Q.mStart + Q.mSize
      BY <1>1, <3>1
    <3> QED
      BY Zenon, <2>1, <3>2 DEF FirstWritable
  <2>3. CASE Q.mStart + 1 = mCapacity
    <3>0. D.mStart = 0 /\ D.mSize = Q.mSize - 1
      BY <1>1, <1>2, <1>3, <2>3
    <3>1. D.mStart + D.mSize = Q.mSize - 1 /\ Q.mSize - 1 < mCapacity
      BY <1>1, <3>0
    <3>2. Q.mStart + Q.mSize = Q.mSize - 1 + mCapacity
      BY <1>1, <2>3
    <3>3. (Q.mSize - 1) % mCapacity = Q.mSize - 1
      BY <1>1, WrapOnce
    <3>4. (Q.mSize - 1 + mCapacity) % mCapacity = Q.mSize - 1
      BY <1>1, WrapOnce
    <3> QED
      BY Zenon, <2>1, <3>1, <3>2, <3>3, <3>4 DEF FirstWritable
  <2> QED
    BY <1>1, <2>2, <2>3
<1>6. ASSUME NEW i \in 1 .. mCapacity - 1
      PROVE  SlotAt(D, i) = SlotAt(Q, i + 1)
  <2>1. i \in 1 .. mCapacity /\ i + 1 \in 1 .. mCapacity
    BY <1>1
  <2>2. SlotAt(D, i) = IF D.mStart + i - 1 < mCapacity
                         THEN D.mStart + i - 1 ELSE D.mStart + i - 1 - mCapacity
    BY Zenon, <1>4, <2>1, SlotAtValue
  <2>3. SlotAt(Q, i + 1) = IF Q.mStart + (i + 1) - 1 < mCapacity
                             THEN Q.mStart + (i + 1) - 1
                             ELSE Q.mStart + (i + 1) - 1 - mCapacity
    BY Zenon, <2>1, SlotAtValue
  <2>4. D.mStart = IF Q.mStart + 1 < mCapacity THEN Q.mStart + 1 ELSE 0
    BY <1>2, <1>3
  <2> QED
    BY <1>1, <2>1, <2>2, <2>3, <2>4
<1>7. D.mSize = Q.mSize - 1 /\ D.mData = Q.mData
  BY <1>2
<1> QED
  BY Zenon, <1>4, <1>5, <1>6, <1>7
-----------------------------------------------------------------------------
(* The inductive invariant of MultiHal *)

\* The state of one sub-HAL's queue and writer.  Positions mSize + 1 ... are
\* the ones the sub-HAL is writing; they start at buffer[q].
QueueInv(q) ==
  LET Q == queue[q] IN
  /\ taken[q] + Q.mSize = produced[q]
  /\ \A i \in 1 .. Q.mSize :
       /\ Q.mData[SlotAt(Q, i)] \in Event
       /\ Q.mData[SlotAt(Q, i)].seq = taken[q] + i
  /\ writerPC[q] \in {"polling", "mark"} =>
       /\ buffer[q] = FirstWritable(Q)
       /\ bufferSize[q] >= 1
       /\ buffer[q] + bufferSize[q] <= mCapacity
       /\ Q.mSize + bufferSize[q] <= mCapacity
       /\ eventsPolled[q] <= bufferSize[q]
       /\ produced[q] + eventsPolled[q] <= MaxEvents
       /\ \A j \in 1 .. eventsPolled[q] :
            /\ Q.mData[SlotAt(Q, Q.mSize + j)] \in Event
            /\ Q.mData[SlotAt(Q, Q.mSize + j)].seq = produced[q] + j
  /\ writerPC[q] = "waitSpace" => Q.mSize = mCapacity

\* The state of poll(): the last `empties' queues of the scan are still empty,
\* since marking events needs the mutex that poll() holds.
ReaderInv ==
  /\ readerPC # "idle" => maxReads \in MaxReads
  /\ readerPC = "scan" =>
       \A k \in 1 .. empties :
         queue[(nextReadIndex + queueCount - k) % queueCount].mSize = 0
  /\ waiting_for_data <=> readerPC \in {"wait", "woken"}
  /\ readerPC \in {"wait", "woken"} => data = <<>>
  /\ readerPC = "idle" => data = <<>> /\ empties = 0

IInv ==
  /\ TypeOK
  /\ \A q \in Queues : QueueInv(q)
  /\ ReaderInv
  /\ NoMissedData

\* The constants of the index arithmetic.
LEMMA Constants ==
  /\ mCapacity \in Nat \ {0}
  /\ queueCount \in Nat \ {0}
  /\ MaxEvents \in Nat
  /\ MaxReads \subseteq Nat \ {0}
  /\ Queues = 0 .. queueCount - 1
  /\ Slots = 0 .. mCapacity - 1
BY Zenon, CapacityAssumption, QueueCountAssumption, MaxEventsAssumption, MaxReadsAssumption
   DEF Queues, Slots

\* A remainder is an index.
LEMMA ModRange ==
  ASSUME NEW c \in Nat \ {0}, NEW a \in Nat
  PROVE  a % c \in 0 .. c - 1
OBVIOUS

\* What poll() adds for one event is at most one well-typed event.
LEMMA DeliveredType ==
  ASSUME NEW e \in Event, NEW q \in Queues
  PROVE  Delivered(e, q) \in Seq(CopiedEvent)
<1>1. get_global_handle(q, e.handle) \in Int
  BY HandleAssumption DEF get_global_handle
<1>2. copy_event_remap_handle(e, q) \in CopiedEvent
  BY <1>1 DEF copy_event_remap_handle, CopiedEvent, Event
<1> QED
  BY <1>2 DEF Delivered

\* A queue whose state and whose writer's state do not change keeps QueueInv.
LEMMA QueueInvFrame ==
  ASSUME NEW q \in Queues, QueueInv(q),
         queue'[q] = queue[q], writerPC'[q] = writerPC[q], buffer'[q] = buffer[q],
         bufferSize'[q] = bufferSize[q], eventsPolled'[q] = eventsPolled[q],
         produced'[q] = produced[q], taken'[q] = taken[q]
  PROVE  QueueInv(q)'
BY Zenon DEF QueueInv

\* Before the sub-HALs write, the queues are empty and poll() has not been called.
LEMMA InitIInv == Init => IInv
<1> SUFFICES ASSUME Init PROVE IInv
  BY Zenon
<1>1. NewQueue \in QueueType(Event)
  BY Constants DEF NewQueue, QueueType
<1>2. TypeOK
  <2>1. queue \in [Queues -> QueueType(Event)]
    BY Zenon, <1>1 DEF Init
  <2>2. waiting_for_data \in BOOLEAN
    BY Zenon DEF Init
  <2>3. /\ writerPC \in [Queues -> {"lock", "waitSpace", "polling", "mark"}]
        /\ readerPC \in {"idle", "scan", "wait", "woken"}
        /\ data \in Seq(CopiedEvent)
    BY DEF Init
  <2>4. /\ buffer \in [Queues -> Slots]
        /\ bufferSize \in [Queues -> 0 .. mCapacity]
        /\ eventsPolled \in [Queues -> 0 .. mCapacity]
        /\ produced \in [Queues -> 0 .. MaxEvents]
        /\ taken \in [Queues -> 0 .. MaxEvents]
        /\ maxReads \in MaxReads \cup {0}
        /\ empties \in 0 .. queueCount
        /\ nextReadIndex \in Queues
    BY Constants DEF Init
  <2> QED
    BY Zenon, <2>1, <2>2, <2>3, <2>4 DEF TypeOK
<1>3. ASSUME NEW q \in Queues PROVE QueueInv(q)
  BY Constants DEF Init, QueueInv, NewQueue
<1>4. ReaderInv /\ NoMissedData
  BY Zenon DEF Init, ReaderInv, NoMissedData
<1> QED
  BY Zenon, <1>2, <1>3, <1>4 DEF IInv

\* A writer goes to sleep only on a full queue.
LEMMA WaitForSpaceStep ==
  ASSUME IInv, NEW q \in Queues, WaitForSpace(q)
  PROVE  IInv'
<1> USE DEF WaitForSpace
<1>1. TypeOK'
  BY Zenon DEF IInv, TypeOK, readerVars
<1>2. QueueInv(q)'
  BY Zenon DEF IInv, TypeOK, QueueInv
<1>3. ASSUME NEW r \in Queues, r # q PROVE QueueInv(r)'
  BY Zenon, <1>3, QueueInvFrame DEF IInv, TypeOK, readerVars
<1>4. ReaderInv' /\ NoMissedData'
  BY Zenon DEF IInv, ReaderInv, NoMissedData, readerVars
<1> QED
  BY Zenon, <1>1, <1>2, <1>3, <1>4 DEF IInv

\* A writer that wakes up re-tests the queue under the mutex.
LEMMA SpuriousWriterStep ==
  ASSUME IInv, NEW q \in Queues, SpuriousWriterWakeup(q)
  PROVE  IInv'
<1> USE DEF SpuriousWriterWakeup
<1>1. TypeOK'
  BY Zenon DEF IInv, TypeOK, readerVars
<1>2. QueueInv(q)'
  BY Zenon DEF IInv, TypeOK, QueueInv
<1>3. ASSUME NEW r \in Queues, r # q PROVE QueueInv(r)'
  BY Zenon, <1>3, QueueInvFrame DEF IInv, TypeOK, readerVars
<1>4. ReaderInv' /\ NoMissedData'
  BY Zenon DEF IInv, ReaderInv, NoMissedData, readerVars
<1> QED
  BY Zenon, <1>1, <1>2, <1>3, <1>4 DEF IInv

\* Returning from the sub-HAL keeps the region.
LEMMA PollReturnsStep ==
  ASSUME IInv, NEW q \in Queues, PollReturns(q)
  PROVE  IInv'
<1> USE DEF PollReturns
<1>1. TypeOK'
  BY Zenon DEF IInv, TypeOK, readerVars
<1>2. QueueInv(q)'
  BY Zenon DEF IInv, TypeOK, QueueInv
<1>3. ASSUME NEW r \in Queues, r # q PROVE QueueInv(r)'
  BY Zenon, <1>3, QueueInvFrame DEF IInv, TypeOK, readerVars
<1>4. ReaderInv' /\ NoMissedData'
  BY Zenon DEF IInv, ReaderInv, NoMissedData, readerVars
<1> QED
  BY Zenon, <1>1, <1>2, <1>3, <1>4 DEF IInv

\* A failed poll() gives the region back.
LEMMA PollFailsStep ==
  ASSUME IInv, NEW q \in Queues, PollFails(q)
  PROVE  IInv'
<1> USE DEF PollFails, EndIteration
<1>1. TypeOK'
  <2>0. 0 \in Slots /\ 0 \in 0 .. mCapacity /\ 1 .. mCapacity \subseteq 0 .. mCapacity
    BY Constants
  <2>1. /\ writerPC' \in [Queues -> {"lock", "waitSpace", "polling", "mark"}]
        /\ buffer' \in [Queues -> Slots]
        /\ bufferSize' \in [Queues -> 0 .. mCapacity]
        /\ eventsPolled' \in [Queues -> 0 .. mCapacity]
    BY Zenon, <2>0 DEF IInv, TypeOK
  <2>2. UNCHANGED <<queue, readerVars, waiting_for_data, produced, taken>>
    BY Zenon
  <2> QED
    BY Zenon, <2>1, <2>2 DEF IInv, TypeOK, readerVars
<1>2. QueueInv(q)'
  BY Zenon DEF IInv, TypeOK, QueueInv
<1>3. ASSUME NEW r \in Queues, r # q PROVE QueueInv(r)'
  BY Zenon, <1>3, QueueInvFrame DEF IInv, TypeOK
<1>4. ReaderInv' /\ NoMissedData'
  BY Zenon DEF IInv, ReaderInv, NoMissedData, readerVars
<1> QED
  BY Zenon, <1>1, <1>2, <1>3, <1>4 DEF IInv

\* A new region fits into the free positions of the queue (RegionFits).
LEMMA GetRegionStep ==
  ASSUME IInv, NEW q \in Queues, GetRegion(q)
  PROVE  IInv'
<1> USE DEF GetRegion
<1> DEFINE n == getWritableRegion(queue[q], mCapacity)
<1>0. queue[q] \in QueueType(Event) /\ queue[q].mSize # mCapacity
  BY Zenon DEF IInv, TypeOK
<1>1. /\ n \in 1 .. mCapacity
      /\ FirstWritable(queue[q]) + n <= mCapacity
      /\ queue[q].mSize + n <= mCapacity
      /\ FirstWritable(queue[q]) \in Slots
  BY Zenon, <1>0, RegionFits, FirstWritableValue
<1>2. TypeOK'
  <2>0. 0 \in Slots /\ 0 \in 0 .. mCapacity /\ 1 .. mCapacity \subseteq 0 .. mCapacity
    BY Constants
  <2>1. /\ writerPC' \in [Queues -> {"lock", "waitSpace", "polling", "mark"}]
        /\ buffer' \in [Queues -> Slots]
        /\ bufferSize' \in [Queues -> 0 .. mCapacity]
        /\ eventsPolled' \in [Queues -> 0 .. mCapacity]
    BY Zenon, <1>1, <2>0 DEF IInv, TypeOK
  <2>2. UNCHANGED <<queue, readerVars, waiting_for_data, produced, taken>>
    BY Zenon
  <2> QED
    BY Zenon, <2>1, <2>2 DEF IInv, TypeOK, readerVars
<1>3. /\ queue' = queue /\ produced' = produced /\ taken' = taken
      /\ writerPC'[q] = "polling"
      /\ buffer'[q] = FirstWritable(queue[q])
      /\ bufferSize'[q] = n
      /\ eventsPolled'[q] = 0
      /\ produced[q] \in 0 .. MaxEvents
  BY Zenon DEF IInv, TypeOK
<1>4. QueueInv(q)'
  <2>1. QueueInv(q)
    BY Zenon DEF IInv
  <2> HIDE DEF n, GetRegion
  <2> QED
    BY <1>1, <1>3, <2>1, Constants DEF QueueInv
<1>5. ASSUME NEW r \in Queues, r # q PROVE QueueInv(r)'
  BY Zenon, <1>5, QueueInvFrame DEF IInv, TypeOK
<1>6. ReaderInv' /\ NoMissedData'
  BY Zenon DEF IInv, ReaderInv, NoMissedData, readerVars
<1> QED
  BY Zenon, <1>2, <1>4, <1>5, <1>6 DEF IInv

\* The sub-HAL's unlocked write hits the first free position after the ones
\* it has already written, so no readable record changes.
LEMMA DeviceWritesStep ==
  ASSUME IInv, NEW q \in Queues, DeviceWrites(q)
  PROVE  IInv'
<1> DEFINE Q == queue[q]
           n == eventsPolled[q]
           s == buffer[q] + n
<1>1. /\ Q \in QueueType(Event)
      /\ n \in 0 .. mCapacity
      /\ buffer[q] \in Slots
      /\ bufferSize[q] \in 0 .. mCapacity
      /\ produced[q] \in 0 .. MaxEvents
      /\ taken[q] \in 0 .. MaxEvents
  BY Zenon DEF IInv, TypeOK
<1>2. /\ writerPC[q] = "polling"
      /\ n < bufferSize[q]
      /\ produced[q] + n < MaxEvents
      /\ eventsPolled' = [eventsPolled EXCEPT ![q] = n + 1]
      /\ UNCHANGED <<writerPC, buffer, bufferSize, readerVars, waiting_for_data,
                     produced, taken>>
  <2>1. Reports[q] \in 0 .. MaxEvents
    BY Zenon, ReportsAssumption
  <2>2. /\ writerPC[q] = "polling"
        /\ n < bufferSize[q]
        /\ produced[q] + n < Reports[q]
        /\ eventsPolled' = [eventsPolled EXCEPT ![q] = n + 1]
        /\ UNCHANGED <<writerPC, buffer, bufferSize, readerVars, waiting_for_data,
                       produced, taken>>
    BY Zenon DEF DeviceWrites, IInv, TypeOK
  <2> HIDE DEF n
  <2>3. produced[q] + n < MaxEvents
    BY <1>1, <2>1, <2>2, Constants
  <2> QED
    BY Zenon, <2>2, <2>3
<1>3. PICK e : /\ e \in Event
               /\ e.seq = produced[q] + (n + 1)
               /\ queue' = [queue EXCEPT ![q] = writeSlot(Q, s, e)]
  <2>1. PICK meta \in BOOLEAN, h \in LocalHandle :
          queue' = [queue EXCEPT ![q] =
            writeSlot(Q, s, [seq |-> produced[q] + n + 1, meta |-> meta, handle |-> h])]
    BY Zenon DEF DeviceWrites, IInv, TypeOK
  <2>2. produced[q] \in Nat /\ n \in Nat /\ produced[q] + n < MaxEvents /\ MaxEvents \in Nat
    BY <1>1, <1>2, Constants
  <2> HIDE DEF n
  <2>3. produced[q] + n + 1 \in 1 .. MaxEvents /\ produced[q] + n + 1 = produced[q] + (n + 1)
    BY <2>2
  <2> QED
    BY Zenon, <2>1, <2>3 DEF Event
<1>4. QueueInv(q)
  BY Zenon DEF IInv
<1>5. /\ Q.mStart \in Slots
      /\ Q.mSize \in 0 .. mCapacity
      /\ Q.mData \in [Slots -> Event \cup {Garbage}]
      /\ buffer[q] = FirstWritable(Q)
      /\ buffer[q] + bufferSize[q] <= mCapacity
      /\ Q.mSize + bufferSize[q] <= mCapacity
  BY Zenon, <1>1, <1>2, <1>4 DEF QueueInv, QueueType
<1> HIDE DEF Q, n, s
<1>6. /\ Q.mSize + 1 + n \in 1 .. mCapacity
      /\ s = SlotAt(Q, Q.mSize + 1 + n)
      /\ s \in Slots
  <2>0. /\ n \in Nat /\ buffer[q] \in Nat /\ bufferSize[q] \in Nat /\ Q.mSize \in Nat
        /\ mCapacity \in Nat
    BY <1>1, <1>5, Constants
  <2>a. n < bufferSize[q] /\ buffer[q] + bufferSize[q] <= mCapacity /\ Q.mSize + bufferSize[q] <= mCapacity
    BY Zenon, <1>2, <1>5
  <2>1. buffer[q] + n < mCapacity /\ Q.mSize + n < mCapacity /\ n \in Nat
    BY <2>0, <2>a
  <2>2. FirstWritable(Q) + n < mCapacity
    BY Zenon, <1>5, <2>1
  <2>3. /\ Q.mSize + 1 + n \in 1 .. mCapacity
        /\ FirstWritable(Q) + n = SlotAt(Q, Q.mSize + 1 + n)
    BY Zenon, <1>1, <2>1, <2>2, RegionSlot
  <2>4. s \in Slots
    BY <1>1, <2>1, Constants DEF s
  <2> QED
    BY Zenon, <1>5, <2>3, <2>4 DEF s
<1>7. queue'[q] = [mStart |-> Q.mStart, mSize |-> Q.mSize,
                   mData |-> [Q.mData EXCEPT ![s] = e]]
  <2>1. queue'[q] = writeSlot(Q, s, e)
    BY Zenon, <1>3 DEF IInv, TypeOK
  <2> QED
    BY Zenon, <1>1, <2>1 DEF writeSlot, QueueType
<1>8. queue'[q] \in QueueType(Event)
  BY <1>3, <1>5, <1>6, <1>7 DEF QueueType
<1>9. TypeOK'
  <2>1. queue' \in [Queues -> QueueType(Event)]
    BY Zenon, <1>3, <1>8 DEF IInv, TypeOK
  <2>2. n + 1 \in 0 .. mCapacity
    BY <1>1, <1>2, Constants
  <2>3. eventsPolled' \in [Queues -> 0 .. mCapacity]
    BY Zenon, <1>2, <2>2 DEF IInv, TypeOK
  <2> QED
    BY Zenon, <1>2, <2>1, <2>3 DEF IInv, TypeOK, readerVars
<1>10. QueueInv(q)'
  <2> DEFINE P == queue'[q]
  <2>1. /\ eventsPolled'[q] = n + 1
        /\ P.mSize = Q.mSize /\ P.mStart = Q.mStart /\ P.mData = [Q.mData EXCEPT ![s] = e]
        /\ writerPC'[q] = writerPC[q] /\ buffer'[q] = buffer[q]
        /\ bufferSize'[q] = bufferSize[q] /\ produced'[q] = produced[q]
        /\ taken'[q] = taken[q]
    BY <1>2, <1>7 DEF IInv, TypeOK
  <2>2. \A i : SlotAt(P, i) = SlotAt(Q, i)
    BY Zenon, <2>1 DEF SlotAt
  <2>3. FirstWritable(P) = FirstWritable(Q)
    BY Zenon, <2>1 DEF FirstWritable
  <2> HIDE DEF P
  <2>0. Q.mSize \in Nat /\ n \in Nat /\ Q.mSize + 1 + n <= mCapacity /\ mCapacity \in Nat
    BY <1>1, <1>5, <1>6, Constants
  <2>4. ASSUME NEW i \in 1 .. Q.mSize + n
        PROVE  P.mData[SlotAt(P, i)] = Q.mData[SlotAt(Q, i)]
    <3>1. i \in 1 .. mCapacity /\ i # Q.mSize + 1 + n
      BY <2>0
    <3>2. SlotAt(Q, i) # s /\ SlotAt(Q, i) \in Slots
      BY Zenon, <1>1, <1>6, <3>1, SlotAtInjective, SlotAtValue
    <3> QED
      BY Zenon, <1>5, <2>1, <2>2, <3>2
  <2>5. P.mData[SlotAt(P, Q.mSize + (n + 1))] = e
    <3>1. Q.mSize + (n + 1) = Q.mSize + 1 + n
      BY <2>0
    <3> QED
      BY <1>5, <1>6, <2>1, <2>2, <3>1
  <2>6. ASSUME NEW i \in 1 .. P.mSize
        PROVE  P.mData[SlotAt(P, i)] \in Event /\ P.mData[SlotAt(P, i)].seq = taken[q] + i
    <3>0. i \in 1 .. Q.mSize
      BY Zenon, <2>1
    <3>1. i \in 1 .. Q.mSize + n
      BY <2>0, <3>0
    <3>2. Q.mData[SlotAt(Q, i)] \in Event /\ Q.mData[SlotAt(Q, i)].seq = taken[q] + i
      BY Zenon, <1>4, <3>0 DEF QueueInv, Q
    <3> QED
      BY Zenon, <2>4, <3>1, <3>2
  <2>7. ASSUME NEW j \in 1 .. n + 1
        PROVE  /\ P.mData[SlotAt(P, P.mSize + j)] \in Event
               /\ P.mData[SlotAt(P, P.mSize + j)].seq = produced[q] + j
    <3>1. CASE j = n + 1
      BY Zenon, <1>3, <2>1, <2>5, <3>1
    <3>2. CASE j \in 1 .. n
      <4>1. Q.mSize + j \in 1 .. Q.mSize + n
        BY <1>1, <1>5, <3>2
      <4>2. /\ Q.mData[SlotAt(Q, Q.mSize + j)] \in Event
            /\ Q.mData[SlotAt(Q, Q.mSize + j)].seq = produced[q] + j
        BY Zenon, <1>2, <1>4, <3>2 DEF QueueInv, Q, n
      <4> QED
        BY <2>1, <2>4, <4>1, <4>2
    <3> QED
      BY <1>1, <3>1, <3>2
  <2>8. /\ taken[q] + P.mSize = produced[q] /\ bufferSize[q] >= 1
        /\ n + 1 <= bufferSize[q] /\ produced[q] + (n + 1) <= MaxEvents
    <3>1. taken[q] + Q.mSize = produced[q]
      BY Zenon, <1>4 DEF QueueInv, Q
    <3> QED
      BY <1>1, <1>2, <2>1, <3>1, Constants
  <2>9. P.mSize + bufferSize[q] <= mCapacity
    BY Zenon, <1>5, <2>1
  <2> QED
    BY Zenon, <1>2, <1>5, <2>1, <2>3, <2>6, <2>7, <2>8, <2>9 DEF QueueInv, P
<1>11. ASSUME NEW r \in Queues, r # q PROVE QueueInv(r)'
  BY Zenon, <1>2, <1>3, <1>11, QueueInvFrame DEF IInv, TypeOK
<1>12. \A r \in Queues : queue'[r].mSize = queue[r].mSize
  BY <1>3, <1>7 DEF IInv, TypeOK, Q
<1>13. ReaderInv' /\ NoMissedData'
  <2>1. NoMissedData'
    BY Zenon, <1>2, <1>12 DEF IInv, NoMissedData, readerVars
  <2>2. ReaderInv'
    <3>1. ASSUME readerPC = "scan", NEW k \in 1 .. empties
          PROVE  queue'[(nextReadIndex + queueCount - k) % queueCount].mSize = 0
      <4>1. (nextReadIndex + queueCount - k) % queueCount \in Queues
        <5>1. nextReadIndex \in 0 .. queueCount - 1 /\ empties \in 0 .. queueCount
          BY Zenon, Constants DEF IInv, TypeOK
        <5>2. nextReadIndex + queueCount - k \in Nat
          BY <5>1, Constants
        <5> QED
          BY Zenon, <5>2, Constants, ModRange
      <4> QED
        BY Zenon, <1>12, <3>1, <4>1 DEF IInv, ReaderInv
    <3> QED
      BY Zenon, <1>2, <3>1 DEF IInv, ReaderInv, readerVars
  <2> QED
    BY Zenon, <2>1, <2>2
<1> QED
  BY Zenon, <1>9, <1>10, <1>11, <1>13 DEF IInv

\* Marking makes the written positions readable, and wakes a waiting poll().
LEMMA MarkWrittenStep ==
  ASSUME IInv, NEW q \in Queues, MarkWritten(q)
  PROVE  IInv'
<1> DEFINE Q == queue[q]
           n == eventsPolled[q]
           P == queue'[q]
<1>1. /\ Q \in QueueType(Event)
      /\ n \in 0 .. mCapacity
      /\ bufferSize[q] \in 0 .. mCapacity
      /\ produced[q] \in 0 .. MaxEvents
      /\ taken[q] \in 0 .. MaxEvents
      /\ writerPC[q] = "mark"
      /\ QueueInv(q)
  BY Zenon DEF IInv, TypeOK, MarkWritten
<1>2. /\ queue' = [queue EXCEPT ![q] = markAsWritten(Q, n)]
      /\ produced' = [produced EXCEPT ![q] = produced[q] + n]
      /\ writerPC' = [writerPC EXCEPT ![q] = "lock"]
      /\ buffer' = [buffer EXCEPT ![q] = 0]
      /\ bufferSize' = [bufferSize EXCEPT ![q] = 0]
      /\ eventsPolled' = [eventsPolled EXCEPT ![q] = 0]
      /\ UNCHANGED <<maxReads, data, empties, nextReadIndex, waiting_for_data, taken>>
  BY Zenon DEF IInv, TypeOK, MarkWritten, EndIteration
<1>3. /\ Q.mSize \in Nat /\ n \in Nat /\ produced[q] \in Nat /\ taken[q] \in Nat
      /\ Q.mSize + n <= mCapacity
      /\ produced[q] + n <= MaxEvents
      /\ taken[q] + Q.mSize = produced[q]
  <2> DEFINE b == bufferSize[q]
  <2>1. /\ Q.mSize \in 0 .. mCapacity
        /\ Q.mSize + b <= mCapacity
        /\ n <= b
        /\ produced[q] + n <= MaxEvents
        /\ taken[q] + Q.mSize = produced[q]
    BY Zenon, <1>1 DEF QueueInv, QueueType
  <2>2. /\ Q.mSize \in Nat /\ b \in Nat /\ n \in Nat /\ mCapacity \in Nat
        /\ produced[q] \in Nat /\ taken[q] \in Nat
    BY <1>1, <2>1, Constants
  <2> HIDE DEF b, n, Q
  <2>3. Q.mSize + n <= mCapacity
    BY <2>1, <2>2
  <2> QED
    BY Zenon, <2>1, <2>2, <2>3
<1>4. P = [mStart |-> Q.mStart, mSize |-> Q.mSize + n, mData |-> Q.mData]
  <2>1. P = markAsWritten(Q, n)
    BY Zenon, <1>2 DEF IInv, TypeOK
  <2> QED
    BY Zenon, <1>1, <2>1 DEF markAsWritten, QueueType
<1> HIDE DEF P, Q, n
<1>5. P \in QueueType(Event)
  <2>1. Q.mSize + n \in 0 .. mCapacity
    BY <1>3, Constants
  <2> QED
    BY Zenon, <1>1, <1>4, <2>1 DEF QueueType
<1>6. TypeOK'
  <2>1. queue' \in [Queues -> QueueType(Event)]
    BY Zenon, <1>2, <1>5 DEF IInv, TypeOK, P
  <2>2. produced[q] + n \in 0 .. MaxEvents
    BY <1>3, Constants
  <2>3. produced' \in [Queues -> 0 .. MaxEvents]
    BY Zenon, <1>2, <2>2 DEF IInv, TypeOK
  <2>4. 0 \in Slots /\ 0 \in 0 .. mCapacity
    BY Constants
  <2>5. /\ writerPC' \in [Queues -> {"lock", "waitSpace", "polling", "mark"}]
        /\ buffer' \in [Queues -> Slots]
        /\ bufferSize' \in [Queues -> 0 .. mCapacity]
        /\ eventsPolled' \in [Queues -> 0 .. mCapacity]
    BY Zenon, <1>2, <2>4 DEF IInv, TypeOK
  <2>6. readerPC' \in {"idle", "scan", "wait", "woken"}
    BY Zenon DEF IInv, TypeOK, MarkWritten
  <2> QED
    BY Zenon, <1>2, <2>1, <2>3, <2>5, <2>6 DEF IInv, TypeOK
<1>7. QueueInv(q)'
  <2>1. \A i : SlotAt(P, i) = SlotAt(Q, i)
    BY Zenon, <1>4 DEF SlotAt
  <2>2. ASSUME NEW i \in 1 .. P.mSize
        PROVE  P.mData[SlotAt(P, i)] \in Event /\ P.mData[SlotAt(P, i)].seq = taken[q] + i
    <3>1. P.mData[SlotAt(P, i)] = Q.mData[SlotAt(Q, i)] /\ P.mSize = Q.mSize + n
      BY Zenon, <1>4, <2>1
    <3>2. CASE i \in 1 .. Q.mSize
      BY Zenon, <1>1, <3>1, <3>2 DEF QueueInv, Q
    <3>3. CASE i \in Q.mSize + 1 .. Q.mSize + n
      <4>1. /\ i - Q.mSize \in 1 .. n
            /\ Q.mSize + (i - Q.mSize) = i
            /\ produced[q] + (i - Q.mSize) = taken[q] + i
        BY <1>3, <3>3
      <4>2. /\ Q.mData[SlotAt(Q, Q.mSize + (i - Q.mSize))] \in Event
            /\ Q.mData[SlotAt(Q, Q.mSize + (i - Q.mSize))].seq = produced[q] + (i - Q.mSize)
        BY Zenon, <1>1, <4>1 DEF QueueInv, Q, n
      <4> QED
        BY Zenon, <3>1, <4>1, <4>2
    <3> QED
      BY <1>3, <3>1, <3>2, <3>3
  <2>3. /\ taken'[q] = taken[q] /\ produced'[q] = produced[q] + n /\ writerPC'[q] = "lock"
        /\ P.mSize = Q.mSize + n
    BY Zenon, <1>2, <1>4 DEF IInv, TypeOK
  <2>4. taken[q] + (Q.mSize + n) = produced[q] + n
    BY <1>3
  <2> QED
    BY Zenon, <2>2, <2>3, <2>4 DEF QueueInv, P
<1>8. ASSUME NEW r \in Queues, r # q PROVE QueueInv(r)'
  BY Zenon, <1>2, <1>8, QueueInvFrame DEF IInv, TypeOK
<1>9. ReaderInv' /\ NoMissedData'
  BY <1>2 DEF IInv, TypeOK, ReaderInv, NoMissedData, MarkWritten, MutexFree
<1> QED
  BY <1>6, <1>7, <1>8, <1>9 DEF IInv

\* poll() starts with an empty scan.
LEMMA PollCalledStep == ASSUME IInv, PollCalled PROVE IInv'
<1>1. PICK m \in MaxReads : maxReads' = m
  BY Zenon DEF PollCalled
<1>2. /\ readerPC = "idle" /\ readerPC' = "scan"
      /\ UNCHANGED <<queue, writerVars, data, empties, nextReadIndex,
                     waiting_for_data, produced, taken>>
  BY Zenon DEF PollCalled
<1>3. TypeOK'
  BY Zenon, <1>1, <1>2 DEF IInv, TypeOK, writerVars
<1>4. ASSUME NEW r \in Queues PROVE QueueInv(r)'
  BY Zenon, <1>2, QueueInvFrame DEF IInv, TypeOK, writerVars
<1>5. empties' = 0
  BY Zenon, <1>2 DEF IInv, ReaderInv
<1>6. ReaderInv' /\ NoMissedData'
  BY <1>1, <1>2, <1>5 DEF IInv, ReaderInv, NoMissedData
<1> QED
  BY Zenon, <1>3, <1>4, <1>6 DEF IInv

\* One step back from the successor of n is n; k steps back are k - 1 from n.
LEMMA StepBack ==
  ASSUME NEW n \in Queues, NEW k \in 1 .. queueCount
  PROVE  /\ (n + 1) % queueCount \in Queues
         /\ (((n + 1) % queueCount) + queueCount - k) % queueCount =
              IF k = 1 THEN n ELSE (n + queueCount - (k - 1)) % queueCount
<1> DEFINE c == queueCount
           m == (n + 1) % c
           a == m + c - k
           b == n + c - (k - 1)
<1>1. c \in Nat \ {0} /\ n \in 0 .. c - 1 /\ k \in 1 .. c
  BY Zenon, Constants
<1>2. m = IF n + 1 < c THEN n + 1 ELSE 0
  <2> DEFINE d == n + 1
  <2>1. d \in Nat /\ d < 2 * c /\ d <= c
    BY <1>1
  <2> HIDE DEF d
  <2>2. d % c = IF d < c THEN d ELSE d - c
    BY Zenon, <1>1, <2>1, WrapOnce
  <2> QED
    BY <1>1, <2>1, <2>2 DEF d
<1> HIDE DEF m
<1>3. a \in Nat /\ a < 2 * c /\ (k # 1 => b \in Nat /\ b < 2 * c)
  BY <1>1, <1>2
<1> HIDE DEF a, b
<1>4. a % c = IF a < c THEN a ELSE a - c
  BY Zenon, <1>1, <1>3, WrapOnce
<1>5. k # 1 => b % c = IF b < c THEN b ELSE b - c
  BY Zenon, <1>1, <1>3, WrapOnce
<1>6. a % c = IF k = 1 THEN n ELSE b % c
  <2>1. CASE k = 1
    BY <1>1, <1>2, <1>4, <2>1 DEF a
  <2>2. CASE k # 1
    BY <1>1, <1>2, <1>4, <1>5, <2>2 DEF a, b
  <2> QED
    BY Zenon, <2>1, <2>2
<1>7. m \in Queues
  BY <1>1, <1>2, Constants
<1> QED
  BY Zenon, <1>6, <1>7 DEF a, b, m, c

\* An empty queue extends the run of empty queues behind the scan.
LEMMA ScanEmptyStep == ASSUME IInv, ScanEmpty PROVE IInv'
<1> DEFINE n == nextReadIndex
<1>1. /\ readerPC = "scan" /\ empties < queueCount
      /\ queue[n].mSize = 0
      /\ empties' = empties + 1
      /\ nextReadIndex' = (n + 1) % queueCount
      /\ UNCHANGED <<queue, writerVars, readerPC, maxReads, data, waiting_for_data,
                     produced, taken>>
      /\ n \in Queues /\ empties \in 0 .. queueCount
  BY Zenon DEF ScanEmpty, Scanning, IInv, TypeOK
<1>2. nextReadIndex' \in Queues /\ empties' \in 0 .. queueCount
  <2>1. 1 \in 1 .. queueCount
    BY Constants
  <2> QED
    BY <1>1, <2>1, StepBack, Constants
<1>3. TypeOK'
  BY Zenon, <1>1, <1>2 DEF IInv, TypeOK, writerVars
<1>4. ASSUME NEW r \in Queues PROVE QueueInv(r)'
  BY Zenon, <1>1, QueueInvFrame DEF IInv, TypeOK, writerVars
<1>5. ASSUME NEW k \in 1 .. empties'
      PROVE  queue'[(nextReadIndex' + queueCount - k) % queueCount].mSize = 0
  <2>1. k \in 1 .. queueCount /\ (k # 1 => k - 1 \in 1 .. empties)
    BY <1>1, Constants
  <2>2. (nextReadIndex' + queueCount - k) % queueCount =
          IF k = 1 THEN n ELSE (n + queueCount - (k - 1)) % queueCount
    BY Zenon, <1>1, <2>1, StepBack
  <2>3. k # 1 => queue[(n + queueCount - (k - 1)) % queueCount].mSize = 0
    BY Zenon, <1>1, <2>1 DEF IInv, ReaderInv
  <2> QED
    BY Zenon, <1>1, <2>2, <2>3
<1>6. ReaderInv' /\ NoMissedData'
  BY Zenon, <1>1, <1>5 DEF IInv, ReaderInv, NoMissedData
<1> QED
  BY Zenon, <1>3, <1>4, <1>6 DEF IInv

\* Position 1 of a queue is the slot peek() reads.
LEMMA PeekIsFirst ==
  ASSUME NEW R, NEW Q \in QueueType(R)
  PROVE  peek(Q) = Q.mData[SlotAt(Q, 1)]
<1>1. 1 \in 1 .. mCapacity /\ Q.mStart \in 0 .. mCapacity - 1 /\ mCapacity \in Nat
  BY Constants DEF QueueType
<1>2. SlotAt(Q, 1) = IF Q.mStart + 1 - 1 < mCapacity
                       THEN Q.mStart + 1 - 1 ELSE Q.mStart + 1 - 1 - mCapacity
  BY Zenon, <1>1, SlotAtValue
<1>3. SlotAt(Q, 1) = Q.mStart
  BY <1>1, <1>2
<1> QED
  BY Zenon, <1>3 DEF peek

\* poll() takes the oldest event of a queue; the writer's region is untouched
\* and a writer that slept on the full queue is woken.
LEMMA ScanEventStep == ASSUME IInv, ScanEvent PROVE IInv'
<1>0. PICK q \in Queues : q = nextReadIndex
  BY Zenon DEF IInv, TypeOK
<1> DEFINE Q == queue[q]
           P == queue'[q]
<1>1. /\ readerPC = "scan" /\ Q.mSize # 0
      /\ empties' = 0
      /\ data' = data \o Delivered(peek(Q), q)
      /\ queue' = [queue EXCEPT ![q] = dequeue(Q)]
      /\ writerPC' = IF Q.mSize = mCapacity /\ writerPC[q] = "waitSpace"
                       THEN [writerPC EXCEPT ![q] = "lock"] ELSE writerPC
      /\ taken' = [taken EXCEPT ![q] = taken[q] + 1]
      /\ nextReadIndex' = (q + 1) % queueCount
      /\ UNCHANGED <<buffer, bufferSize, eventsPolled, readerPC, maxReads,
                     waiting_for_data, produced>>
  BY Zenon, <1>0 DEF ScanEvent, Scanning, IInv, TypeOK
<1>2. /\ q \in Queues
      /\ Q \in QueueType(Event)
      /\ produced[q] \in 0 .. MaxEvents
      /\ taken[q] \in 0 .. MaxEvents
      /\ bufferSize[q] \in 0 .. mCapacity
      /\ eventsPolled[q] \in 0 .. mCapacity
      /\ QueueInv(q)
  BY Zenon DEF IInv, TypeOK
<1>3. /\ P = dequeue(Q)
      /\ P \in QueueType(Event)
      /\ P.mSize = Q.mSize - 1
      /\ P.mData = Q.mData
      /\ FirstWritable(P) = FirstWritable(Q)
      /\ \A i \in 1 .. mCapacity - 1 : SlotAt(P, i) = SlotAt(Q, i + 1)
  <2>1. P = dequeue(Q)
    BY Zenon, <1>1, <1>2 DEF IInv, TypeOK
  <2> QED
    BY Zenon, <1>1, <1>2, <2>1, DequeueShifts
<1> HIDE DEF P
<1>4. /\ Q.mSize \in Nat /\ Q.mSize >= 1 /\ Q.mSize <= mCapacity /\ mCapacity \in Nat
      /\ produced[q] \in Nat /\ taken[q] \in Nat /\ MaxEvents \in Nat
      /\ produced[q] <= MaxEvents
      /\ taken[q] + Q.mSize = produced[q]
  <2>1. Q.mSize \in 0 .. mCapacity /\ taken[q] + Q.mSize = produced[q]
    BY Zenon, <1>2 DEF QueueInv, QueueType
  <2>2. mCapacity \in Nat /\ MaxEvents \in Nat /\ Q.mSize # 0
    BY Zenon, <1>1, Constants
  <2>3. produced[q] \in 0 .. MaxEvents /\ taken[q] \in 0 .. MaxEvents
    BY Zenon, <1>2
  <2> HIDE DEF Q
  <2> QED
    BY <2>1, <2>2, <2>3
<1> HIDE DEF Q
<1>5. TypeOK'
  <2>1. queue' \in [Queues -> QueueType(Event)]
    BY Zenon, <1>1, <1>3 DEF IInv, TypeOK, P
  <2>2. taken' \in [Queues -> 0 .. MaxEvents]
    <3>1. taken[q] + 1 \in 0 .. MaxEvents
      BY <1>4
    <3> QED
      BY Zenon, <1>1, <3>1 DEF IInv, TypeOK
  <2>3. data' \in Seq(CopiedEvent)
    <3>1. 1 \in 1 .. Q.mSize
      BY <1>4
    <3>2. peek(Q) \in Event
      BY Zenon, <1>2, <3>1, PeekIsFirst DEF QueueInv, Q
    <3>3. Delivered(peek(Q), q) \in Seq(CopiedEvent) /\ data \in Seq(CopiedEvent)
      BY Zenon, <1>2, <3>2, DeliveredType DEF IInv, TypeOK
    <3> QED
      BY <1>1, <3>3
  <2>4. nextReadIndex' \in Queues /\ empties' \in 0 .. queueCount
    <3>1. 1 \in 1 .. queueCount /\ 0 \in 0 .. queueCount
      BY Constants
    <3> QED
      BY Zenon, <1>1, <1>2, <3>1, StepBack
  <2>5. writerPC' \in [Queues -> {"lock", "waitSpace", "polling", "mark"}]
    BY Zenon, <1>1 DEF IInv, TypeOK
  <2> QED
    BY Zenon, <1>1, <2>1, <2>2, <2>3, <2>4, <2>5 DEF IInv, TypeOK
<1>6. QueueInv(q)'
  <2>1. ASSUME NEW i \in 1 .. P.mSize
        PROVE  P.mData[SlotAt(P, i)] \in Event /\ P.mData[SlotAt(P, i)].seq = taken[q] + 1 + i
    <3>1. i \in 1 .. mCapacity - 1 /\ i + 1 \in 1 .. Q.mSize
      BY <1>3, <1>4
    <3>2. /\ Q.mData[SlotAt(Q, i + 1)] \in Event
          /\ Q.mData[SlotAt(Q, i + 1)].seq = taken[q] + (i + 1)
      BY Zenon, <1>2, <3>1 DEF QueueInv, Q
    <3>3. taken[q] + (i + 1) = taken[q] + 1 + i
      BY <1>4
    <3> QED
      BY Zenon, <1>3, <3>1, <3>2, <3>3
  <2>2. ASSUME writerPC[q] \in {"polling", "mark"}, NEW j \in 1 .. eventsPolled[q]
        PROVE  /\ P.mData[SlotAt(P, P.mSize + j)] \in Event
               /\ P.mData[SlotAt(P, P.mSize + j)].seq = produced[q] + j
    <3>1. /\ Q.mSize + bufferSize[q] <= mCapacity /\ eventsPolled[q] <= bufferSize[q]
          /\ Q.mData[SlotAt(Q, Q.mSize + j)] \in Event
          /\ Q.mData[SlotAt(Q, Q.mSize + j)].seq = produced[q] + j
      BY Zenon, <1>2, <2>2 DEF QueueInv, Q
    <3>2. P.mSize + j \in 1 .. mCapacity - 1 /\ P.mSize + j + 1 = Q.mSize + j
      BY <1>2, <1>3, <1>4, <3>1
    <3> QED
      BY Zenon, <1>3, <3>1, <3>2
  <2>3. /\ taken'[q] = taken[q] + 1
        /\ buffer'[q] = buffer[q] /\ bufferSize'[q] = bufferSize[q]
        /\ eventsPolled'[q] = eventsPolled[q] /\ produced'[q] = produced[q]
        /\ writerPC'[q] = IF Q.mSize = mCapacity /\ writerPC[q] = "waitSpace"
                            THEN "lock" ELSE writerPC[q]
    BY Zenon, <1>1, <1>2 DEF IInv, TypeOK
  <2>4. taken[q] + 1 + P.mSize = produced[q]
    BY <1>3, <1>4
  <2>5. ASSUME writerPC[q] \in {"polling", "mark"}
        PROVE  /\ buffer[q] = FirstWritable(P)
               /\ bufferSize[q] >= 1
               /\ buffer[q] + bufferSize[q] <= mCapacity
               /\ P.mSize + bufferSize[q] <= mCapacity
               /\ eventsPolled[q] <= bufferSize[q]
               /\ produced[q] + eventsPolled[q] <= MaxEvents
    <3>1. /\ buffer[q] = FirstWritable(Q)
          /\ bufferSize[q] >= 1
          /\ buffer[q] + bufferSize[q] <= mCapacity
          /\ Q.mSize + bufferSize[q] <= mCapacity
          /\ eventsPolled[q] <= bufferSize[q]
          /\ produced[q] + eventsPolled[q] <= MaxEvents
      BY Zenon, <1>2, <2>5 DEF QueueInv, Q
    <3>2. P.mSize + bufferSize[q] <= mCapacity
      BY SMTT(30), <1>2, <1>3, <1>4, <3>1
    <3> QED
      BY Zenon, <1>3, <3>1, <3>2
  <2>6. writerPC[q] = "waitSpace" => Q.mSize = mCapacity
    BY SMTT(30), <1>2 DEF QueueInv, Q
  <2>7. writerPC'[q] \in {"polling", "mark"} => writerPC[q] \in {"polling", "mark"}
    BY Zenon, <2>3
  <2>8. writerPC'[q] # "waitSpace"
    BY Zenon, <2>3, <2>6
  <2> QED
    BY Zenon, <2>1, <2>2, <2>3, <2>4, <2>5, <2>7, <2>8 DEF QueueInv, P
<1>7. ASSUME NEW r \in Queues, r # q PROVE QueueInv(r)'
  BY Zenon, <1>1, <1>7, QueueInvFrame DEF IInv, TypeOK
<1>8. ReaderInv' /\ NoMissedData'
  BY <1>1 DEF IInv, ReaderInv, NoMissedData
<1> QED
  BY Zenon, <1>5, <1>6, <1>7, <1>8 DEF IInv

\* queueCount consecutive empty queues are all the queues.
LEMMA WaitForDataStep == ASSUME IInv, WaitForData PROVE IInv'
<1> DEFINE n == nextReadIndex
           c == queueCount
<1>1. /\ readerPC = "scan" /\ readerPC' = "wait" /\ waiting_for_data' = TRUE
      /\ ~Scanning /\ Len(data) = 0
      /\ UNCHANGED <<queue, writerVars, maxReads, data, empties, nextReadIndex,
                     produced, taken>>
      /\ data \in Seq(CopiedEvent)
      /\ n \in Queues /\ empties \in 0 .. c /\ maxReads \in MaxReads
  BY Zenon DEF WaitForData, eventsRead, IInv, TypeOK, ReaderInv
<1>2. data = <<>>
  BY <1>1
<1>3. empties = c
  BY <1>1, Constants DEF Scanning, eventsRead
<1>4. ASSUME NEW q \in Queues PROVE queue[q].mSize = 0
  <2>1. c \in Nat \ {0} /\ n \in 0 .. c - 1 /\ q \in 0 .. c - 1
    BY Zenon, <1>1, Constants
  <2> DEFINE k == IF q < n THEN n - q ELSE n + c - q
             d == n + c - k
  <2> HIDE DEF n
  <2>2. k \in 1 .. c /\ d \in Nat /\ d < 2 * c /\ (q < n => d = q + c) /\ (~(q < n) => d = q)
    BY <2>1
  <2>3. d % c = q
    <3> HIDE DEF d
    <3>1. d % c = IF d < c THEN d ELSE d - c
      BY Zenon, <2>1, <2>2, WrapOnce
    <3> QED
      BY <2>1, <2>2, <3>1
  <2>4. queue[d % c].mSize = 0
    BY Zenon, <1>1, <1>3, <2>2 DEF IInv, ReaderInv, n
  <2> QED
    BY Zenon, <2>3, <2>4
<1>5. TypeOK'
  BY Zenon, <1>1 DEF IInv, TypeOK, writerVars
<1>6. ASSUME NEW r \in Queues PROVE QueueInv(r)'
  BY Zenon, <1>1, QueueInvFrame DEF IInv, TypeOK, writerVars
<1>7. NoMissedData'
  BY Zenon, <1>1, <1>4 DEF NoMissedData
<1>8. ReaderInv'
  BY Zenon, <1>1, <1>2 DEF IInv, ReaderInv
<1> QED
  BY Zenon, <1>5, <1>6, <1>7, <1>8 DEF IInv

\* A wakeup that nobody signalled leaves poll() in its wait loop.
LEMMA SpuriousReaderStep == ASSUME IInv, SpuriousReaderWakeup PROVE IInv'
<1> USE DEF SpuriousReaderWakeup
<1>1. TypeOK'
  BY Zenon DEF IInv, TypeOK, writerVars
<1>2. ASSUME NEW r \in Queues PROVE QueueInv(r)'
  BY Zenon, QueueInvFrame DEF IInv, TypeOK, writerVars
<1>3. ReaderInv' /\ NoMissedData'
  BY Zenon DEF IInv, ReaderInv, NoMissedData
<1> QED
  BY Zenon, <1>1, <1>2, <1>3 DEF IInv

\* After a wait the scan starts over with no empty queue seen.
LEMMA ScanAgainStep == ASSUME IInv, ScanAgain PROVE IInv'
<1> USE DEF ScanAgain
<1>1. TypeOK'
  <2>1. empties' \in 0 .. queueCount
    BY Constants
  <2> QED
    BY Zenon, <2>1 DEF IInv, TypeOK, writerVars
<1>2. ASSUME NEW r \in Queues PROVE QueueInv(r)'
  BY Zenon, QueueInvFrame DEF IInv, TypeOK, writerVars
<1>3. ReaderInv' /\ NoMissedData'
  BY DEF IInv, ReaderInv, NoMissedData
<1> QED
  BY Zenon, <1>1, <1>2, <1>3 DEF IInv

\* poll() returns the events it has copied.
LEMMA PollDoneStep == ASSUME IInv, PollDone PROVE IInv'
<1> USE DEF PollDone
<1>1. TypeOK'
  <2>1. empties' \in 0 .. queueCount
    BY Constants
  <2>2. data' \in Seq(CopiedEvent)
    OBVIOUS
  <2> QED
    BY Zenon, <2>1, <2>2 DEF IInv, TypeOK, writerVars
<1>2. ASSUME NEW r \in Queues PROVE QueueInv(r)'
  BY Zenon, QueueInvFrame DEF IInv, TypeOK, writerVars
<1>3. ReaderInv' /\ NoMissedData'
  BY Zenon DEF IInv, ReaderInv, NoMissedData
<1> QED
  BY Zenon, <1>1, <1>2, <1>3 DEF IInv

\* A step that changes nothing.
LEMMA StutterStep == ASSUME IInv, UNCHANGED vars PROVE IInv'
<1> USE DEF vars, writerVars, readerVars
<1>1. TypeOK'
  BY Zenon DEF IInv, TypeOK
<1>2. ASSUME NEW r \in Queues PROVE QueueInv(r)'
  BY SMTT(30), QueueInvFrame DEF IInv
<1>3. ReaderInv' /\ NoMissedData'
  BY Zenon DEF IInv, ReaderInv, NoMissedData
<1> QED
  BY Zenon, <1>1, <1>2, <1>3 DEF IInv

\* IInv is inductive: it holds initially and every step of a writer, of a
\* sub-HAL and of poll() preserves it.
THEOREM Invariance == Spec => []IInv
<1>1. Init => IInv
  BY Zenon, InitIInv
<1>2. ASSUME IInv, [Next]_vars PROVE IInv'
  <2>1. ASSUME NEW q \in Queues, Writer(q) \/ Device(q) \/ SpuriousWriterWakeup(q)
        PROVE  IInv'
    BY Zenon, <1>2, <2>1, WaitForSpaceStep, GetRegionStep, PollReturnsStep, MarkWrittenStep,
       DeviceWritesStep, PollFailsStep, SpuriousWriterStep DEF Writer, Device
  <2>2. CASE PollCalled
    BY Zenon, <1>2, <2>2, PollCalledStep
  <2>3. CASE Reader
    BY Zenon, <1>2, <2>3, ScanEmptyStep, ScanEventStep, WaitForDataStep, ScanAgainStep,
       PollDoneStep DEF Reader
  <2>4. CASE SpuriousReaderWakeup
    BY <1>2, <2>4, SpuriousReaderStep
  <2>5. CASE UNCHANGED vars
    BY Zenon, <1>2, <2>5, StutterStep
  <2> QED
    BY Zenon, <1>2, <2>1, <2>2, <2>3, <2>4, <2>5 DEF Next
<1> QED
  BY <1>1, <1>2, PTL DEF Spec
-----------------------------------------------------------------------------
(* What the invariant says to a reader of the code *)

\* A slot of a writer's region is a position behind the readable records.
LEMMA RegionSlots ==
  ASSUME IInv, NEW q \in Queues, writerPC[q] \in {"polling", "mark"},
         NEW s \in buffer[q] .. buffer[q] + bufferSize[q] - 1
  PROVE  s \in Slots /\ s \notin ReadableSlots(queue[q])
<1> DEFINE Q == queue[q]
           j == s - buffer[q]
<1>1. /\ Q \in QueueType(Event)
      /\ buffer[q] \in 0 .. mCapacity - 1 /\ bufferSize[q] \in 0 .. mCapacity
      /\ mCapacity \in Nat /\ Q.mSize \in 0 .. mCapacity
      /\ buffer[q] = FirstWritable(Q)
      /\ buffer[q] + bufferSize[q] <= mCapacity
      /\ Q.mSize + bufferSize[q] <= mCapacity
  BY Zenon, Constants DEF IInv, TypeOK, QueueInv, QueueType
<1> HIDE DEF Q
<1>2. /\ s \in Slots /\ j \in Nat
      /\ buffer[q] + j < mCapacity /\ Q.mSize + j < mCapacity /\ buffer[q] + j = s
  <2> DEFINE b == buffer[q]
             n == bufferSize[q]
  <2>1. b \in Nat /\ n \in Nat /\ Q.mSize \in Nat /\ s \in b .. b + n - 1
    BY <1>1
  <2> HIDE DEF b, n
  <2>2. s \in Nat /\ s >= b /\ s < b + n
    BY <2>1
  <2>3. b + n <= mCapacity /\ Q.mSize + n <= mCapacity /\ mCapacity \in Nat
    BY Zenon, <1>1 DEF b, n
  <2>4. s - b \in Nat /\ b + (s - b) = s /\ s < mCapacity /\ Q.mSize + (s - b) < mCapacity
    BY <2>1, <2>2, <2>3
  <2> QED
    BY <2>2, <2>3, <2>4 DEF b, Slots
<1> HIDE DEF j
<1>3. Q.mSize + 1 + j \in 1 .. mCapacity /\ s = SlotAt(Q, Q.mSize + 1 + j)
  BY Zenon, <1>1, <1>2, RegionSlot
<1>4. ASSUME NEW i \in 1 .. Q.mSize PROVE SlotAt(Q, i) # s
  <2>1. i \in 1 .. mCapacity /\ i # Q.mSize + 1 + j
    BY <1>1, <1>2
  <2> QED
    BY Zenon, <1>1, <1>3, <2>1, SlotAtInjective
<1> QED
  BY Zenon, <1>2, <1>4 DEF ReadableSlots, Q

\* TypeOK holds of the threads of multihal.cpp for all constants.
THEOREM TypeCorrect == Spec => []TypeOK
BY Invariance, PTL DEF IInv

\* The region a sub-HAL writes to without queue_mutex never overlaps the
\* records poll() may read.
THEOREM RegionPrivacy == Spec => []RegionIsPrivate
<1>1. ASSUME IInv PROVE RegionIsPrivate
  <2> SUFFICES ASSUME NEW q \in Queues, writerPC[q] \in {"polling", "mark"}
               PROVE  LET region == buffer[q] .. buffer[q] + bufferSize[q] - 1 IN
                      /\ bufferSize[q] > 0
                      /\ region \subseteq Slots
                      /\ region \cap ReadableSlots(queue[q]) = {}
    BY Zenon DEF RegionIsPrivate
  <2>1. bufferSize[q] > 0
    <3>1. bufferSize[q] >= 1 /\ bufferSize[q] \in Nat
      BY SMTT(30), <1>1, Constants DEF IInv, TypeOK, QueueInv
    <3> QED
      BY <3>1
  <2> QED
    BY Zenon, <1>1, <2>1, RegionSlots
<1> QED
  BY <1>1, Invariance, PTL

\* No queue loses, duplicates or reorders events.
THEOREM QueueOrder == Spec => []FifoOrder
<1>1. ASSUME IInv PROVE FifoOrder
  BY Zenon, <1>1 DEF IInv, QueueInv, FifoOrder, Contents
<1> QED
  BY <1>1, Invariance, PTL

\* Neither condition variable misses a wakeup.
THEOREM NoMissedWakeup == Spec => [](NoMissedData /\ NoMissedSpace)
<1>1. ASSUME IInv PROVE NoMissedData /\ NoMissedSpace
  BY Zenon, <1>1 DEF IInv, QueueInv, NoMissedSpace
<1> QED
  BY <1>1, Invariance, PTL

\* Records change only through writeSlot in a region: DeviceWrites is the only
\* step that changes an array, at one slot that is not readable.
LEMMA DataChange ==
  ASSUME IInv, [Next]_vars, NEW q \in Queues
  PROVE  \/ queue'[q].mData = queue[q].mData
         \/ /\ DeviceWrites(q)
            /\ queue'[q].mSize = queue[q].mSize /\ queue'[q].mStart = queue[q].mStart
            /\ \A s \in ReadableSlots(queue[q]) : queue'[q].mData[s] = queue[q].mData[s]
<1> DEFINE Same == queue'[q].mData = queue[q].mData
<1>1. /\ queue \in [Queues -> QueueType(Event)] /\ queue[q] \in QueueType(Event)
      /\ DOMAIN queue = Queues
  BY Zenon DEF IInv, TypeOK
<1>2. CASE queue' = queue
  BY Zenon, <1>2
<1>3. ASSUME NEW r \in Queues, MarkWritten(r) PROVE Same
  <2>1. queue' = [queue EXCEPT ![r] = markAsWritten(queue[r], eventsPolled[r])]
    BY Zenon, <1>3 DEF MarkWritten
  <2>2. markAsWritten(queue[r], eventsPolled[r]).mData = queue[r].mData
    BY Zenon, <1>1 DEF markAsWritten, QueueType
  <2> QED
    BY Zenon, <1>1, <2>1, <2>2
<1>4. ASSUME ScanEvent PROVE Same
  <2>1. PICK r \in Queues : r = nextReadIndex
    BY Zenon DEF IInv, TypeOK
  <2>2. queue' = [queue EXCEPT ![r] = dequeue(queue[r])] /\ queue[r].mSize # 0
    BY Zenon, <1>4, <2>1 DEF ScanEvent
  <2>3. dequeue(queue[r]).mData = queue[r].mData
    BY Zenon, <1>1, <2>2, DequeueShifts
  <2> QED
    BY Zenon, <1>1, <2>2, <2>3
<1>5. ASSUME NEW r \in Queues, DeviceWrites(r), r # q PROVE Same
  BY Zenon, <1>1, <1>5 DEF DeviceWrites
<1>6. ASSUME DeviceWrites(q)
      PROVE  /\ queue'[q].mSize = queue[q].mSize /\ queue'[q].mStart = queue[q].mStart
             /\ \A s \in ReadableSlots(queue[q]) : queue'[q].mData[s] = queue[q].mData[s]
  <2> DEFINE t == buffer[q] + eventsPolled[q]
  <2>1. PICK e : queue' = [queue EXCEPT ![q] = writeSlot(queue[q], t, e)]
    BY Zenon, <1>6 DEF DeviceWrites
  <2>2. queue'[q] = writeSlot(queue[q], t, e)
    BY Zenon, <1>1, <2>1
  <2>3. t \in buffer[q] .. buffer[q] + bufferSize[q] - 1
    <3>1. /\ buffer[q] \in 0 .. mCapacity - 1 /\ bufferSize[q] \in 0 .. mCapacity
          /\ eventsPolled[q] \in 0 .. mCapacity /\ eventsPolled[q] < bufferSize[q]
          /\ mCapacity \in Nat
      BY Zenon, <1>6, Constants DEF IInv, TypeOK, DeviceWrites
    <3> QED
      BY <3>1
  <2>4. t \notin ReadableSlots(queue[q])
    BY Zenon, <1>6, <2>3, RegionSlots DEF DeviceWrites
  <2> HIDE DEF t
  <2>5. queue'[q] = [mStart |-> queue[q].mStart, mSize |-> queue[q].mSize,
                     mData |-> [queue[q].mData EXCEPT ![t] = e]]
    BY Zenon, <1>1, <2>2 DEF writeSlot, QueueType
  <2>6. ASSUME NEW s \in ReadableSlots(queue[q])
        PROVE  queue'[q].mData[s] = queue[q].mData[s]
    <3>1. queue[q].mData \in [Slots -> Event \cup {Garbage}]
      BY Zenon, <1>1 DEF QueueType
    <3>2. s # t
      BY Zenon, <2>4
    <3>3. s \in Slots
      <4>1. PICK i \in 1 .. queue[q].mSize : s = SlotAt(queue[q], i)
        BY Zenon DEF ReadableSlots
      <4>2. i \in 1 .. mCapacity
        BY <1>1, Constants DEF QueueType
      <4> QED
        BY Zenon, <1>1, <4>1, <4>2, SlotAtValue
    <3> QED
      BY <2>5, <3>1, <3>2, <3>3
  <2> QED
    BY <2>5, <2>6
<1>7. CASE Next
  BY Zenon, <1>2, <1>3, <1>4, <1>5, <1>6, <1>7
     DEF Next, Writer, Device, Reader, WaitForSpace, GetRegion, PollReturns, PollFails,
         SpuriousWriterWakeup, PollCalled, ScanEmpty, WaitForData, ScanAgain, PollDone,
         SpuriousReaderWakeup
<1> QED
  BY Zenon, <1>2, <1>7 DEF vars

\* No step of any thread overwrites a record poll() may read.
THEOREM RecordsStable == Spec => ReadableIsStable
<1>1. ASSUME IInv, [Next]_vars, NEW q \in Queues,
             NEW s \in ReadableSlots(queue[q]) \cap ReadableSlots(queue[q])'
      PROVE  queue[q]'.mData[s] = queue[q].mData[s]
  BY Zenon, <1>1, DataChange
<1>2. ASSUME IInv, [Next]_vars
      PROVE  [\A q \in Queues :
                \A slot \in ReadableSlots(queue[q]) \cap ReadableSlots(queue[q])' :
                  queue[q]'.mData[slot] = queue[q].mData[slot]]_vars
  BY Zenon, <1>1, <1>2
<1> QED
  BY <1>2, Invariance, PTL DEF Spec, ReadableIsStable
-----------------------------------------------------------------------------
(* MultiHal implements SensorStream *)

\* The abstract FIFO of a queue is a sequence of mSize records.
LEMMA ContentsSeq ==
  ASSUME NEW Q \in QueueType(Event)
  PROVE  /\ Contents(Q) \in Seq(Event \cup {Garbage})
         /\ Len(Contents(Q)) = Q.mSize
         /\ \A i \in 1 .. Q.mSize : Contents(Q)[i] = Q.mData[SlotAt(Q, i)]
<1>1. Q.mSize \in Nat /\ Q.mSize <= mCapacity /\ mCapacity \in Nat
      /\ Q.mData \in [Slots -> Event \cup {Garbage}]
  BY Constants DEF QueueType
<1>2. ASSUME NEW i \in 1 .. Q.mSize PROVE Q.mData[SlotAt(Q, i)] \in Event \cup {Garbage}
  <2>1. i \in 1 .. mCapacity
    BY <1>1
  <2> QED
    BY Zenon, <1>1, <2>1, SlotAtValue
<1>3. Contents(Q) \in [1 .. Q.mSize -> Event \cup {Garbage}]
  BY Zenon, <1>2 DEF Contents
<1> QED
  BY <1>1, <1>3 DEF Contents

\* Taking the oldest record is Tail on the abstract FIFO.
LEMMA DequeueIsTail ==
  ASSUME NEW Q \in QueueType(Event), Q.mSize # 0
  PROVE  /\ Contents(Q) # <<>>
         /\ Head(Contents(Q)) = peek(Q)
         /\ Contents(dequeue(Q)) = Tail(Contents(Q))
<1> DEFINE D == dequeue(Q)
           c == Contents(Q)
           d == Contents(D)
<1>1. /\ D \in QueueType(Event) /\ D.mSize = Q.mSize - 1 /\ D.mData = Q.mData
      /\ \A i \in 1 .. mCapacity - 1 : SlotAt(D, i) = SlotAt(Q, i + 1)
  BY Zenon, DequeueShifts
<1>2. Q.mSize \in Nat /\ Q.mSize >= 1 /\ Q.mSize <= mCapacity /\ mCapacity \in Nat
  BY Constants DEF QueueType
<1>3. /\ c \in Seq(Event \cup {Garbage}) /\ Len(c) = Q.mSize
      /\ \A i \in 1 .. Q.mSize : c[i] = Q.mData[SlotAt(Q, i)]
  BY Zenon, ContentsSeq
<1>4. /\ d \in Seq(Event \cup {Garbage}) /\ Len(d) = D.mSize
      /\ \A i \in 1 .. D.mSize : d[i] = D.mData[SlotAt(D, i)]
  BY Zenon, <1>1, ContentsSeq
<1> HIDE DEF c, d, D
<1>5. c # <<>> /\ Head(c) = c[1] /\ 1 \in 1 .. Q.mSize
  BY <1>2, <1>3
<1>6. Tail(c) \in Seq(Event \cup {Garbage}) /\ Len(Tail(c)) = Len(c) - 1
      /\ \A i \in 1 .. Len(Tail(c)) : Tail(c)[i] = c[i + 1]
  BY <1>3, <1>5
<1>7. ASSUME NEW i \in 1 .. Len(d) PROVE d[i] = Tail(c)[i]
  <2>1. i \in 1 .. D.mSize /\ i \in 1 .. mCapacity - 1 /\ i + 1 \in 1 .. Q.mSize
        /\ i \in 1 .. Len(Tail(c))
    BY <1>1, <1>2, <1>3, <1>4, <1>6
  <2> QED
    BY Zenon, <1>1, <1>3, <1>4, <1>6, <2>1
<1>8. Len(d) = Len(Tail(c))
  BY Zenon, <1>1, <1>3, <1>4, <1>6
<1>9. d = Tail(c)
  BY <1>4, <1>6, <1>7, <1>8
<1> QED
  BY Zenon, <1>3, <1>5, <1>9, PeekIsFirst DEF c, d, D

\* Two queues with the same readable records have the same abstract FIFO.
LEMMA SameContents ==
  ASSUME NEW Q, NEW P, P.mSize = Q.mSize, P.mStart = Q.mStart,
         \A s \in ReadableSlots(Q) : P.mData[s] = Q.mData[s]
  PROVE  Contents(P) = Contents(Q)
<1>1. \A i \in 1 .. Q.mSize : P.mData[SlotAt(P, i)] = Q.mData[SlotAt(Q, i)]
  BY DEF ReadableSlots, SlotAt
<1> QED
  BY Zenon, <1>1 DEF Contents

pendingBar == [q \in Queues |-> Contents(queue[q])]

\* Marking n > 0 events is one abstract report.
LEMMA MarkIsReport ==
  ASSUME IInv, NEW q \in Queues, MarkWritten(q), eventsPolled[q] # 0
  PROVE  Stream!Report(q)
<1> DEFINE Q == queue[q]
           n == eventsPolled[q]
           P == queue'[q]
<1>1. Q \in QueueType(Event) /\ IInv' /\ queue' \in [Queues -> QueueType(Event)]
  BY Zenon, MarkWrittenStep DEF IInv, TypeOK
<1>2. queue' = [queue EXCEPT ![q] = markAsWritten(Q, n)] /\ data' = data
  BY Zenon DEF MarkWritten
<1>3. P = [mStart |-> Q.mStart, mSize |-> Q.mSize + n, mData |-> Q.mData]
  BY Zenon, <1>1, <1>2 DEF IInv, TypeOK, markAsWritten, QueueType
<1>4. P \in QueueType(Event) /\ Q.mSize \in Nat /\ n \in Nat /\ n >= 1
      /\ P.mSize \in 0 .. mCapacity /\ mCapacity \in Nat
  <2>1. n \in 0 .. mCapacity /\ Q.mSize \in 0 .. mCapacity
    BY Zenon, <1>1 DEF IInv, TypeOK, QueueType
  <2>2. P \in QueueType(Event)
    BY Zenon, <1>1
  <2>3. P.mSize \in 0 .. mCapacity
    BY Zenon, <2>2 DEF QueueType
  <2> QED
    BY SMTT(30), <2>1, <2>2, <2>3, Constants
<1> HIDE DEF P, Q, n
<1>5. /\ Len(Contents(P)) = Q.mSize + n /\ Len(Contents(Q)) = Q.mSize
      /\ \A i \in 1 .. Q.mSize : Contents(Q)[i] = Q.mData[SlotAt(Q, i)]
      /\ \A i \in 1 .. Q.mSize + n : Contents(P)[i] = P.mData[SlotAt(P, i)]
  BY Zenon, <1>1, <1>3, <1>4, ContentsSeq DEF Q
<1>6. Len(Contents(P)) \in Len(Contents(Q)) + 1 .. mCapacity
  BY <1>3, <1>4, <1>5
<1>7. ASSUME NEW i \in 1 .. Len(Contents(Q)) PROVE Contents(P)[i] = Contents(Q)[i]
  <2>1. i \in 1 .. Q.mSize /\ i \in 1 .. Q.mSize + n
    BY <1>4, <1>5
  <2> QED
    BY Zenon, <1>3, <1>5, <2>1 DEF SlotAt
<1>8. pendingBar' = [pendingBar EXCEPT ![q] = Contents(P)]
  <2>1. \A r \in Queues : r # q => queue'[r] = queue[r]
    BY Zenon, <1>2 DEF IInv, TypeOK
  <2> QED
    BY Zenon, <2>1 DEF pendingBar, P
<1>9. pendingBar[q] = Contents(Q) /\ pendingBar'[q] = Contents(P)
  BY Zenon, <1>8 DEF pendingBar, Q
<1> QED
  BY Zenon, <1>2, <1>6, <1>7, <1>8, <1>9 DEF Stream!Report, pendingBar

\* Dequeuing a record is one abstract take.
LEMMA ScanIsTake ==
  ASSUME IInv, ScanEvent
  PROVE  \E q \in Queues : Stream!Take(q)
<1>1. PICK q \in Queues : q = nextReadIndex
  BY DEF IInv, TypeOK
<1> DEFINE Q == queue[q]
<1>2. /\ Q \in QueueType(Event) /\ Q.mSize # 0
      /\ queue' = [queue EXCEPT ![q] = dequeue(Q)]
      /\ data' = data \o Delivered(peek(Q), q)
  BY Zenon, <1>1 DEF IInv, TypeOK, ScanEvent
<1>3. /\ Contents(Q) # <<>> /\ Head(Contents(Q)) = peek(Q)
      /\ Contents(dequeue(Q)) = Tail(Contents(Q))
  BY Zenon, <1>2, DequeueIsTail
<1>4. queue'[q] = dequeue(Q) /\ \A r \in Queues : r # q => queue'[r] = queue[r]
  BY Zenon, <1>2 DEF IInv, TypeOK
<1>5. pendingBar[q] = Contents(Q)
  BY Zenon DEF pendingBar
<1>6. pendingBar' = [pendingBar EXCEPT ![q] = Tail(pendingBar[q])]
  BY Zenon, <1>3, <1>4, <1>5 DEF pendingBar
<1>7. Stream!Take(q)
  BY Zenon, <1>2, <1>3, <1>5, <1>6 DEF Stream!Take, pendingBar, Stream!Delivered, Delivered,
     Stream!copy_event_remap_handle, copy_event_remap_handle,
     Stream!get_global_handle, get_global_handle
<1> QED
  BY Zenon, <1>7

\* A step that keeps the queues' records and poll()'s output is a stutter.
LEMMA WriteIsStutter ==
  ASSUME IInv, NEW q \in Queues, DeviceWrites(q)
  PROVE  UNCHANGED <<pendingBar, data>>
<1>1. data' = data
  BY Zenon DEF DeviceWrites, readerVars
<1>2. \A r \in Queues : r # q => queue'[r] = queue[r]
  BY Zenon DEF DeviceWrites, IInv, TypeOK
<1>3. Contents(queue'[q]) = Contents(queue[q])
  <2>1. [Next]_vars
    BY Zenon DEF Next, Device
  <2>2. CASE queue'[q].mData = queue[q].mData
    <3>1. PICK e : queue'[q] = writeSlot(queue[q], buffer[q] + eventsPolled[q], e)
      BY Zenon DEF DeviceWrites, IInv, TypeOK
    <3>2. queue'[q].mSize = queue[q].mSize /\ queue'[q].mStart = queue[q].mStart
      BY <3>1 DEF writeSlot, IInv, TypeOK, QueueType
    <3> QED
      BY Zenon, <2>2, <3>2, SameContents
  <2> QED
    BY Zenon, <2>1, <2>2, DataChange, SameContents
<1> QED
  BY Zenon, <1>1, <1>2, <1>3 DEF pendingBar

\* The threads of multihal.cpp with their circular buffers, their shared mutex
\* and their condition variables implement the bounded FIFOs of SensorStream:
\* poll() returns the reported events of each sub-HAL in order, each once.
THEOREM Refinement == Spec => RefinesStream
<1>1. Init => Stream!Init
  <2> SUFFICES ASSUME Init PROVE Stream!Init
    OBVIOUS
  <2>1. ASSUME NEW q \in Queues PROVE Contents(queue[q]) = <<>>
    <3>1. queue[q] = NewQueue /\ queue[q].mSize = 0
      BY Zenon DEF Init, NewQueue
    <3>2. queue[q] \in QueueType(Event)
      BY Zenon, InitIInv DEF IInv, TypeOK
    <3>3. Contents(queue[q]) \in Seq(Event \cup {Garbage}) /\ Len(Contents(queue[q])) = 0
      BY Zenon, <3>1, <3>2, ContentsSeq
    <3> QED
      BY <3>3
  <2> QED
    BY Zenon, <2>1 DEF Stream!Init, Init, Stream!Queues, Queues
<1>2. ASSUME IInv, [Next]_vars PROVE [Stream!Next]_<<pendingBar, data>>
  <2>1. CASE UNCHANGED <<queue, data>>
    BY Zenon, <2>1 DEF pendingBar
  <2>2. ASSUME NEW q \in Queues, MarkWritten(q) PROVE [Stream!Next]_<<pendingBar, data>>
    <3>1. CASE eventsPolled[q] # 0
      BY Zenon, <1>2, <2>2, <3>1, MarkIsReport DEF Stream!Next, Stream!Queues, Queues
    <3>2. CASE eventsPolled[q] = 0
      <4>1. queue' = [queue EXCEPT ![q] = markAsWritten(queue[q], 0)] /\ data' = data
        BY Zenon, <2>2, <3>2 DEF MarkWritten
      <4>2. queue[q] \in QueueType(Event) /\ queue[q].mSize + 0 = queue[q].mSize
        BY <1>2 DEF IInv, TypeOK, QueueType
      <4>3. markAsWritten(queue[q], 0) = queue[q]
        BY Zenon, <4>2 DEF markAsWritten, QueueType
      <4>4. queue' = queue
        BY Zenon, <1>2, <4>1, <4>3 DEF IInv, TypeOK
      <4> QED
        BY Zenon, <4>1, <4>4, <2>1
    <3> QED
      BY Zenon, <3>1, <3>2
  <2>3. ASSUME NEW q \in Queues, DeviceWrites(q) PROVE [Stream!Next]_<<pendingBar, data>>
    BY Zenon, <1>2, <2>3, WriteIsStutter
  <2>4. CASE ScanEvent
    BY Zenon, <1>2, <2>4, ScanIsTake DEF Stream!Next, Stream!Queues, Queues
  <2>5. CASE PollDone
    <3>1. data # <<>> /\ data' = <<>> /\ pendingBar' = pendingBar
      BY <2>5 DEF PollDone, eventsRead, pendingBar
    <3> QED
      BY Zenon, <3>1 DEF Stream!Next, Stream!Return, pendingBar
  <2>6. CASE Next
    BY Zenon, <2>1, <2>2, <2>3, <2>4, <2>5, <2>6
       DEF Next, Writer, Device, Reader, WaitForSpace, GetRegion, PollReturns, PollFails,
           SpuriousWriterWakeup, PollCalled, ScanEmpty, WaitForData, ScanAgain,
           SpuriousReaderWakeup, readerVars
  <2> QED
    BY Zenon, <1>2, <2>1, <2>6 DEF vars, readerVars
<1> QED
  BY <1>1, <1>2, Invariance, PTL DEF Spec, RefinesStream, Stream!Spec, pendingBar
=============================================================================
