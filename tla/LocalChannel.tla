---------------------------- MODULE LocalChannel ----------------------------
(***************************************************************************)
(* com.crp.ether.LocalChannel and the sends of a local photon, with each   *)
(* call on the LockFreeQ below taken as one step (LockFreeQ.tla has their  *)
(* steps, and shows that the two ends never meet in one array).            *)
(*                                                                         *)
(* A channel is the run of arrays from the one the consumer is in (or will *)
(* start with) to the one the producer is in.                              *)
(***************************************************************************)
EXTENDS Naturals, Sequences

CONSTANTS QSize,    \* slots of an array
          NQueues   \* arrays of the queue

ASSUME QueueAssumption == QSize \in Nat \ {0} /\ NQueues \in Nat \ {0, 1}

\* produced, consumed: the end has claimed its first array.
NewChannel == [arrays |-> << >>, produced |-> FALSE, consumed |-> FALSE]

Own(ch) == ch.arrays[Len(ch.arrays)]

\* Mutant: one array is never used.
AnyFreeButOne(ch) == Len(ch.arrays) < NQueues - 1
AnyFree(ch) == Len(ch.arrays) < NQueues

\* The producer leaves its array, if the next one is free.
Flush(ch) ==
  IF ch.produced /\ Own(ch) # << >> /\ AnyFree(ch)
  THEN [ch EXCEPT !.arrays = Append(@, << >>)]
  ELSE ch

Fits(ch) == ch.produced /\ Len(Own(ch)) < QSize
CanSend(ch) == Fits(ch) \/ AnyFree(ch)

Add(ch, m) ==
  IF Fits(ch)
  THEN [ch EXCEPT !.arrays[Len(ch.arrays)] = Append(@, m)]
  ELSE [ch EXCEPT !.arrays = Append(@, <<m>>), !.produced = TRUE]

\* Where CanSend: sendMessageNoFail tries again until then.
Send(ch, m) == Flush(Add(ch, m))

\* The array the consumer reads next: never the one the producer is in.
NextRead(ch) == IF ch.consumed /\ ch.arrays[1] = << >> THEN 2 ELSE 1

CanReceive(ch) ==
  \/ ch.consumed /\ ch.arrays[1] # << >>
  \/ Len(ch.arrays) > NextRead(ch)

Received(ch) == Head(ch.arrays[NextRead(ch)])

Receive(ch) ==
  LET rest == SubSeq(ch.arrays, NextRead(ch), Len(ch.arrays))
  IN [ch EXCEPT !.arrays = [rest EXCEPT ![1] = Tail(@)], !.consumed = TRUE]

\* Nothing is pending before the consumer's first receive, whatever was sent.
AnyPendingData(ch) ==
  ch.consumed /\ (ch.arrays[1] # << >> \/ Len(ch.arrays) # 2)
=============================================================================
