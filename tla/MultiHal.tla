------------------------------ MODULE MultiHal ------------------------------
(***************************************************************************)
(* The event path of hal/sensors/multihal.cpp: one writerTask thread per   *)
(* sub-HAL fills that sub-HAL's queue, and poll() merges the queues round  *)
(* robin.  queue_mutex is shared by all queues.  A writer's two critical   *)
(* sections are one step each; between them the sub-HAL writes records     *)
(* into the queue WITHOUT the mutex, one slot per step.  poll() keeps the  *)
(* mutex while it scans (readerPC = "scan") and looks at one queue per     *)
(* step, so unlocked writes interleave with its copies.                    *)
(***************************************************************************)
EXTENDS SensorHandles, SensorEventQueue

CONSTANTS MaxReads,         \* the values poll() is called with
          Reports           \* bound: the number of events each sub-HAL reports

ASSUME MaxReadsAssumption == MaxReads \subseteq Nat \ {0}
ASSUME ReportsAssumption == Reports \in [Queues -> 0 .. MaxEvents]

VARIABLES
  queue,            \* queue[q]: the SensorEventQueue of sub-HAL q
  writerPC,         \* "lock", "waitSpace", "polling" or "mark"
  buffer,           \* buffer[q]: first slot given to the sub-HAL's poll()
  bufferSize,       \* bufferSize[q]: length of that region
  eventsPolled,     \* eventsPolled[q]: records the sub-HAL has written there
  readerPC,         \* "idle", "scan", "wait" or "woken"
  maxReads,         \* the argument of the poll() in progress
  data,             \* the events poll() has copied out so far
  empties,          \* consecutive empty queues seen by the scan
  nextReadIndex,
  waiting_for_data,
  produced,         \* history: events q has marked as written
  taken             \* history: events poll() has dequeued from q

writerVars == <<writerPC, buffer, bufferSize, eventsPolled>>
readerVars == <<readerPC, maxReads, data, empties, nextReadIndex>>
vars == <<queue, writerVars, readerVars, waiting_for_data, produced, taken>>

eventsRead == Len(data)

\* pthread_mutex_lock(&queue_mutex) succeeds unless poll() is scanning.
MutexFree == readerPC # "scan"

Init ==
  /\ queue = [q \in Queues |-> NewQueue]
  /\ writerPC = [q \in Queues |-> "lock"]
  /\ buffer = [q \in Queues |-> 0]
  /\ bufferSize = [q \in Queues |-> 0]
  /\ eventsPolled = [q \in Queues |-> 0]
  /\ readerPC = "idle"
  /\ maxReads = 0
  /\ data = <<>>
  /\ empties = 0
  /\ nextReadIndex = 0
  /\ waiting_for_data = FALSE
  /\ produced = [q \in Queues |-> 0]
  /\ taken = [q \in Queues |-> 0]
-----------------------------------------------------------------------------
(* writerTask *)

\* waitForSpace found the queue full: pthread_cond_wait releases the mutex.
WaitForSpace(q) ==
  /\ writerPC[q] = "lock"
  /\ MutexFree
  /\ queue[q].mSize = mCapacity
  /\ writerPC' = [writerPC EXCEPT ![q] = "waitSpace"]
  /\ UNCHANGED <<queue, buffer, bufferSize, eventsPolled, readerVars,
                 waiting_for_data, produced, taken>>

\* POSIX lets pthread_cond_wait return without a signal; the loop re-tests.
SpuriousWriterWakeup(q) ==
  /\ writerPC[q] = "waitSpace"
  /\ writerPC' = [writerPC EXCEPT ![q] = "lock"]
  /\ UNCHANGED <<queue, buffer, bufferSize, eventsPolled, readerVars,
                 waiting_for_data, produced, taken>>

\* There is space: take a region, unlock, and enter the sub-HAL's poll().
GetRegion(q) ==
  /\ writerPC[q] = "lock"
  /\ MutexFree
  /\ queue[q].mSize # mCapacity
  /\ writerPC' = [writerPC EXCEPT ![q] = "polling"]
  /\ buffer' = [buffer EXCEPT ![q] = FirstWritable(queue[q])]
  /\ bufferSize' = [bufferSize EXCEPT ![q] = getWritableRegion(queue[q], mCapacity)]
  /\ eventsPolled' = [eventsPolled EXCEPT ![q] = 0]
  /\ UNCHANGED <<queue, readerVars, waiting_for_data, produced, taken>>

\* The sub-HAL writes its next event into the region.  No lock is held.
DeviceWrites(q) ==
  /\ writerPC[q] = "polling"
  /\ eventsPolled[q] < bufferSize[q]
  /\ produced[q] + eventsPolled[q] < Reports[q]
  /\ \E meta \in BOOLEAN, h \in LocalHandle :
       LET e == [seq |-> produced[q] + eventsPolled[q] + 1, meta |-> meta, handle |-> h] IN
       queue' = [queue EXCEPT ![q] = writeSlot(@, buffer[q] + eventsPolled[q], e)]
  /\ eventsPolled' = [eventsPolled EXCEPT ![q] = @ + 1]
  /\ UNCHANGED <<writerPC, buffer, bufferSize, readerVars, waiting_for_data,
                 produced, taken>>

\* The sub-HAL's poll() returns the number of events it wrote.
PollReturns(q) ==
  /\ writerPC[q] = "polling"
  /\ eventsPolled[q] > 0
  /\ writerPC' = [writerPC EXCEPT ![q] = "mark"]
  /\ UNCHANGED <<queue, buffer, bufferSize, eventsPolled, readerVars,
                 waiting_for_data, produced, taken>>

\* The locals of one iteration of the writer's loop are dead after it.
EndIteration(q) ==
  /\ writerPC' = [writerPC EXCEPT ![q] = "lock"]
  /\ buffer' = [buffer EXCEPT ![q] = 0]
  /\ bufferSize' = [bufferSize EXCEPT ![q] = 0]
  /\ eventsPolled' = [eventsPolled EXCEPT ![q] = 0]

\* It returns 0 or an error: nothing is marked and the loop starts over.
PollFails(q) ==
  /\ writerPC[q] = "polling"
  /\ EndIteration(q)
  /\ UNCHANGED <<queue, readerVars, waiting_for_data, produced, taken>>

\* Faulty variant of MarkWritten: the broadcast is missing.
MarkWritten_NoBroadcast(q) ==
  /\ writerPC[q] = "mark"
  /\ MutexFree
  /\ queue' = [queue EXCEPT ![q] = markAsWritten(@, eventsPolled[q])]
  /\ produced' = [produced EXCEPT ![q] = @ + eventsPolled[q]]
  /\ EndIteration(q)
  /\ UNCHANGED <<readerVars, waiting_for_data, taken>>

\* Second critical section: markAsWritten and, if poll() waits, the broadcast.
MarkWritten(q) ==
  /\ writerPC[q] = "mark"
  /\ MutexFree
  /\ queue' = [queue EXCEPT ![q] = markAsWritten(@, eventsPolled[q])]
  /\ produced' = [produced EXCEPT ![q] = @ + eventsPolled[q]]
  /\ EndIteration(q)
  /\ readerPC' = IF waiting_for_data /\ readerPC = "wait" THEN "woken" ELSE readerPC
  /\ UNCHANGED <<maxReads, data, empties, nextReadIndex, waiting_for_data, taken>>
-----------------------------------------------------------------------------
(* sensors_poll_context_t::poll *)

\* The framework calls poll(data, count).
PollCalled ==
  /\ readerPC = "idle"
  /\ \E n \in MaxReads : maxReads' = n
  /\ readerPC' = "scan"
  /\ UNCHANGED <<queue, writerVars, data, empties, nextReadIndex, waiting_for_data,
                 produced, taken>>

Scanning == readerPC = "scan" /\ empties < queueCount /\ eventsRead < maxReads

\* The scan meets an empty queue.
ScanEmpty ==
  /\ Scanning
  /\ queue[nextReadIndex].mSize = 0
  /\ empties' = empties + 1
  /\ nextReadIndex' = (nextReadIndex + 1) % queueCount
  /\ UNCHANGED <<queue, writerVars, readerPC, maxReads, data, waiting_for_data,
                 produced, taken>>

\* Faulty variant of ScanEvent: dequeue() never signals the waiting writer.
ScanEvent_NoSignal ==
  LET q == nextReadIndex IN
  /\ Scanning
  /\ queue[q].mSize # 0
  /\ empties' = 0
  /\ data' = data \o Delivered(peek(queue[q]), q)
  /\ queue' = [queue EXCEPT ![q] = dequeue(@)]
  /\ taken' = [taken EXCEPT ![q] = @ + 1]
  /\ nextReadIndex' = (nextReadIndex + 1) % queueCount
  /\ UNCHANGED <<writerVars, readerPC, maxReads, waiting_for_data, produced>>

\* Faulty variant of ScanEvent: the read index moves before the event is copied.
ScanEvent_IndexFirst ==
  LET q == nextReadIndex
      next == (nextReadIndex + 1) % queueCount
  IN
  /\ Scanning
  /\ queue[q].mSize # 0
  /\ empties' = 0
  /\ data' = data \o Delivered(peek(queue[q]), next)
  /\ queue' = [queue EXCEPT ![q] = dequeue(@)]
  /\ writerPC' = IF queue[q].mSize = mCapacity /\ writerPC[q] = "waitSpace"
                   THEN [writerPC EXCEPT ![q] = "lock"]
                   ELSE writerPC
  /\ taken' = [taken EXCEPT ![q] = @ + 1]
  /\ nextReadIndex' = next
  /\ UNCHANGED <<buffer, bufferSize, eventsPolled, readerPC, maxReads,
                 waiting_for_data, produced>>

\* The scan copies one event, unless its sensor field became -1, and dequeues
\* it.  dequeue() wakes the writer that waits for space if the queue was full.
ScanEvent ==
  LET q == nextReadIndex IN
  /\ Scanning
  /\ queue[q].mSize # 0
  /\ empties' = 0
  /\ data' = data \o Delivered(peek(queue[q]), q)
  /\ queue' = [queue EXCEPT ![q] = dequeue(@)]
  /\ writerPC' = IF queue[q].mSize = mCapacity /\ writerPC[q] = "waitSpace"
                   THEN [writerPC EXCEPT ![q] = "lock"]
                   ELSE writerPC
  /\ taken' = [taken EXCEPT ![q] = @ + 1]
  /\ nextReadIndex' = (nextReadIndex + 1) % queueCount
  /\ UNCHANGED <<buffer, bufferSize, eventsPolled, readerPC, maxReads,
                 waiting_for_data, produced>>

\* All queues were empty: pthread_cond_wait releases the mutex.
WaitForData ==
  /\ readerPC = "scan"
  /\ ~Scanning
  /\ eventsRead = 0
  /\ readerPC' = "wait"
  /\ waiting_for_data' = TRUE
  /\ UNCHANGED <<queue, writerVars, maxReads, data, empties, nextReadIndex,
                 produced, taken>>

SpuriousReaderWakeup ==
  /\ readerPC = "wait"
  /\ readerPC' = "woken"
  /\ UNCHANGED <<queue, writerVars, maxReads, data, empties, nextReadIndex,
                 waiting_for_data, produced, taken>>

\* The reader has the mutex again and starts another scan.
ScanAgain ==
  /\ readerPC = "woken"
  /\ readerPC' = "scan"
  /\ waiting_for_data' = FALSE
  /\ empties' = 0
  /\ UNCHANGED <<queue, writerVars, maxReads, data, nextReadIndex, produced, taken>>

\* poll() unlocks and returns eventsRead events; its locals start afresh.
PollDone ==
  /\ readerPC = "scan"
  /\ ~Scanning
  /\ eventsRead # 0
  /\ readerPC' = "idle"
  /\ maxReads' = 0
  /\ data' = <<>>
  /\ empties' = 0
  /\ UNCHANGED <<queue, writerVars, nextReadIndex, waiting_for_data, produced, taken>>
-----------------------------------------------------------------------------
Writer(q) ==
  \/ WaitForSpace(q)
  \/ GetRegion(q)
  \/ PollReturns(q)
  \/ MarkWritten(q)

Device(q) == DeviceWrites(q) \/ PollFails(q)

Reader == ScanEmpty \/ ScanEvent \/ WaitForData \/ ScanAgain \/ PollDone

Next ==
  \/ \E q \in Queues : Writer(q) \/ Device(q) \/ SpuriousWriterWakeup(q)
  \/ PollCalled
  \/ Reader
  \/ SpuriousReaderWakeup

Spec == Init /\ [][Next]_vars

(***************************************************************************)
(* Fairness.  The reader runs when it can; the framework's poll loop calls  *)
(* poll() again; a sub-HAL that has written events returns from poll().    *)
(* A writer that finds the mutex free again and again eventually gets it   *)
(* (strong fairness: the mutex is released by every poll()).  Sub-HALs are *)
(* not forced to report events.                                            *)
(***************************************************************************)
Fairness ==
  /\ WF_vars(Reader)
  /\ WF_vars(PollCalled)
  /\ \A q \in Queues :
       /\ SF_vars(GetRegion(q))
       /\ WF_vars(PollReturns(q))
       /\ SF_vars(MarkWritten(q))

FairSpec == Spec /\ Fairness
-----------------------------------------------------------------------------
CopiedEvent == [seq : 1 .. MaxEvents, from : Queues, meta : BOOLEAN,
                sensor : Int, metaSensor : Int]

\* Types of the variables, and the ranges of the scan counters.
TypeOK ==
  /\ queue \in [Queues -> QueueType(Event)]
  /\ writerPC \in [Queues -> {"lock", "waitSpace", "polling", "mark"}]
  /\ buffer \in [Queues -> Slots]
  /\ bufferSize \in [Queues -> 0 .. mCapacity]
  /\ eventsPolled \in [Queues -> 0 .. mCapacity]
  /\ readerPC \in {"idle", "scan", "wait", "woken"}
  /\ maxReads \in MaxReads \cup {0}
  /\ data \in Seq(CopiedEvent)
  /\ empties \in 0 .. queueCount
  /\ nextReadIndex \in Queues
  /\ waiting_for_data \in BOOLEAN
  /\ produced \in [Queues -> 0 .. MaxEvents]
  /\ taken \in [Queues -> 0 .. MaxEvents]

\* While a sub-HAL writes without the mutex (writerTask's device->poll), its
\* region is non-empty, lies inside mData and shares no slot with the records
\* poll() may read, however many records poll() has dequeued since the region
\* was computed: the thread-safety claim of SensorEventQueue.h:29-31.
RegionIsPrivate ==
  \A q \in Queues : writerPC[q] \in {"polling", "mark"} =>
    LET region == buffer[q] .. buffer[q] + bufferSize[q] - 1 IN
    /\ bufferSize[q] > 0
    /\ region \subseteq Slots
    /\ region \cap ReadableSlots(queue[q]) = {}

\* Each queue holds exactly the events its sub-HAL has reported and poll() has
\* not yet taken, in the order they were reported: none is lost, duplicated or
\* reordered when the circular buffer wraps.
FifoOrder ==
  \A q \in Queues :
    /\ taken[q] + queue[q].mSize = produced[q]
    /\ \A i \in 1 .. queue[q].mSize : Contents(queue[q])[i].seq = taken[q] + i

\* poll() sleeps on data_available_cond only while every queue is empty: no
\* writer marks events between poll()'s scan and its wait without waking it.
NoMissedData ==
  readerPC = "wait" => \A q \in Queues : queue[q].mSize = 0

\* A writer sleeps on mSpaceAvailableCondition only while its queue is full,
\* although dequeue() broadcasts only when it takes from a full queue.
NoMissedSpace ==
  \A q \in Queues : writerPC[q] = "waitSpace" => queue[q].mSize = mCapacity

\* No step overwrites a record that is readable before and after the step.
ReadableIsStable ==
  [][\A q \in Queues :
       \A slot \in ReadableSlots(queue[q]) \cap ReadableSlots(queue[q])' :
         queue[q]'.mData[slot] = queue[q].mData[slot]]_vars

\* Every reported event is eventually taken by poll(), which may be scanning,
\* about to sleep or asleep when writerTask marks it.
EveryEventTaken ==
  \A q \in Queues : \A n \in 1 .. MaxEvents : (produced[q] >= n) ~> (taken[q] >= n)

\* A writer that waits for space is eventually back in its sub-HAL's poll().
WriterResumes ==
  \A q \in Queues : (writerPC[q] = "waitSpace") ~> (writerPC[q] = "polling")

\* The threads, the shared mutex, the circular buffers and the two condition
\* variables implement the bounded FIFOs of SensorStream.
Stream == INSTANCE SensorStream WITH
            Bound <- mCapacity,
            pending <- [q \in Queues |-> Contents(queue[q])],
            batch <- data
RefinesStream == Stream!Spec
=============================================================================
