---------------------------- MODULE SensorStream ----------------------------
(***************************************************************************)
(* What the sensors multi-HAL promises its caller, without threads, locks, *)
(* arrays or condition variables: every sub-HAL has a bounded FIFO of      *)
(* reported events, and poll() returns a batch made of events taken from   *)
(* the heads of those FIFOs.                                               *)
(***************************************************************************)
EXTENDS SensorHandles, Sequences

CONSTANT Bound      \* events a sub-HAL may report before one is taken

VARIABLES pending,  \* pending[q]: events q has reported and poll() has not taken
          batch     \* output of the poll() in progress

Init ==
  /\ pending = [q \in Queues |-> <<>>]
  /\ batch = <<>>

\* Sub-HAL q reports one or more events: they join the end of its FIFO.
Report(q) ==
  /\ Len(pending'[q]) \in Len(pending[q]) + 1 .. Bound
  /\ \A i \in 1 .. Len(pending[q]) : pending'[q][i] = pending[q][i]
  /\ pending' = [pending EXCEPT ![q] = pending'[q]]
  /\ batch' = batch

\* The oldest event of q is taken and, unless its handle is unknown, returned.
Take(q) ==
  /\ pending[q] # <<>>
  /\ pending' = [pending EXCEPT ![q] = Tail(@)]
  /\ batch' = batch \o Delivered(Head(pending[q]), q)

\* poll() hands a non-empty batch to its caller; the next one starts afresh.
Return ==
  /\ batch # <<>>
  /\ batch' = <<>>
  /\ pending' = pending

Next == Return \/ \E q \in Queues : Report(q) \/ Take(q)

Spec == Init /\ [][Next]_<<pending, batch>>
=============================================================================
