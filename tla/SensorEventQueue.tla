-------------------------- MODULE SensorEventQueue --------------------------
(***************************************************************************)
(* The fixed-size circular queue of hal/sensors/SensorEventQueue.cpp, as   *)
(* operators on a record [mStart, mSize, mData].  mData is indexed from 0, *)
(* like the C++ array.  The condition variable mSpaceAvailableCondition    *)
(* belongs to the threads that wait on it and is modelled in MultiHal.     *)
(***************************************************************************)
EXTENDS Integers, Sequences

CONSTANTS mCapacity,    \* length of the array mData
          Garbage       \* what a slot holds before it is first written

ASSUME CapacityAssumption == mCapacity \in Nat \ {0}

Slots == 0 .. mCapacity - 1

\* The queues of records taken from the set Record.
QueueType(Record) ==
  [mStart : Slots, mSize : 0 .. mCapacity, mData : [Slots -> Record \cup {Garbage}]]

\* The constructor.  mData is default-initialised: its contents are not defined.
NewQueue == [mStart |-> 0, mSize |-> 0, mData |-> [i \in Slots |-> Garbage]]

\* First slot after the last readable record.
FirstWritable(Q) == (Q.mStart + Q.mSize) % mCapacity

\* Faulty variant of LastWritable: the readable region does not stop the region.
LastWritable_NoReadableTest(Q, requestedLength) ==
  LET wanted == FirstWritable(Q) + requestedLength - 1
  IN  IF wanted > mCapacity - 1 THEN mCapacity - 1 ELSE wanted

(***************************************************************************)
(* getWritableRegion(requestedLength, out): the region is contiguous, it   *)
(* stops at the end of the array and before the readable region.  Only its *)
(* length is returned here; it starts at FirstWritable(Q).                 *)
(***************************************************************************)
LastWritable(Q, requestedLength) ==
  LET first  == FirstWritable(Q)
      wanted == first + requestedLength - 1
      atEnd  == IF wanted > mCapacity - 1 THEN mCapacity - 1 ELSE wanted
  IN  IF first < Q.mStart /\ atEnd >= Q.mStart THEN Q.mStart - 1 ELSE atEnd

getWritableRegion(Q, requestedLength) ==
  IF Q.mSize = mCapacity \/ requestedLength <= 0
    THEN 0
    ELSE LastWritable(Q, requestedLength) - FirstWritable(Q) + 1

\* A sub-HAL's poll() writes one record through the pointer it was given.
writeSlot(Q, slot, event) == [Q EXCEPT !.mData[slot] = event]

markAsWritten(Q, count) == [Q EXCEPT !.mSize = @ + count]

\* peek() is defined only on a non-empty queue; callers test mSize first.
peek(Q) == Q.mData[Q.mStart]

\* Faulty variant of dequeue: the start does not move.
dequeue_KeepStart(Q) == IF Q.mSize = 0 THEN Q ELSE [Q EXCEPT !.mSize = @ - 1]

dequeue(Q) ==
  IF Q.mSize = 0
    THEN Q
    ELSE [Q EXCEPT !.mSize = @ - 1, !.mStart = (@ + 1) % mCapacity]

\* The readable slots, and the records in them, oldest first.
SlotAt(Q, i) == (Q.mStart + i - 1) % mCapacity
ReadableSlots(Q) == {SlotAt(Q, i) : i \in 1 .. Q.mSize}
Contents(Q) == [i \in 1 .. Q.mSize |-> Q.mData[SlotAt(Q, i)]]
=============================================================================
