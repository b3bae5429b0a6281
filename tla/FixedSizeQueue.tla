--------------------------- MODULE FixedSizeQueue ---------------------------
(***************************************************************************)
(* com.crp.common.FixedSizeQueue: a circular array with a front index and  *)
(* a count.  A get leaves its item in the array, so slots outside the      *)
(* window keep stale items that must never be seen again.                  *)
(***************************************************************************)
EXTENDS Integers, Sequences

CONSTANTS Items,   \* objects that are queued
          Size,    \* inpSize
          Null     \* null, returned when the queue is empty

ASSUME SizeAssumption == Size \in Nat /\ Size > 0
ASSUME NullAssumption == Null \notin Items

VARIABLES array, front, count,
          out      \* what the last getElemFromQ returned

vars == <<array, front, count, out>>

Slots == 0 .. Size - 1

\* initialize fills the array with fresh objects nobody asked for.
Init == /\ array = [s \in Slots |-> Null]
        /\ front = 0
        /\ count = 0
        /\ out = Null

IsFull  == count = Size
IsEmpty == count = 0

\* Mutant: the insertion point forgets the front.
AddToQAtCount(o) == /\ ~IsFull
                    /\ array' = [array EXCEPT ![count] = o]
                    /\ count' = count + 1
                    /\ UNCHANGED <<front, out>>

\* Adds o behind the last item; a full queue refuses it.
AddToQ(o) == /\ ~IsFull
             /\ array' = [array EXCEPT ![(front + count) % Size] = o]
             /\ count' = count + 1
             /\ UNCHANGED <<front, out>>

\* Mutant: the front is not wrapped around.
GetElemFromQNoWrap == /\ ~IsEmpty
                      /\ out' = array[front]
                      /\ count' = count - 1
                      /\ front' = front + 1
                      /\ UNCHANGED array

GetElemFromQ == /\ ~IsEmpty
                /\ out' = array[front]
                /\ count' = count - 1
                /\ front' = (front + 1) % Size
                /\ UNCHANGED array

GetNull == /\ IsEmpty
           /\ out' = Null
           /\ UNCHANGED <<array, front, count>>

Next == (\E o \in Items : AddToQ(o)) \/ GetElemFromQ \/ GetNull

Spec == Init /\ [][Next]_vars

-----------------------------------------------------------------------------
\* The asserts of addToQ (lines 82 and 83) and the types of the fields.
TypeOK == /\ array \in [Slots -> Items \cup {Null}]
          /\ front \in Slots
          /\ count \in 0 .. Size
          /\ out \in Items \cup {Null}

\* The window of count items that starts at front is the queue.
Contents == [k \in 1 .. count |-> array[(front + k - 1) % Size]]

\* The circular array is a bounded queue: items come out in the order they
\* went in, each once, whatever the wrap-around of front and insertion point.
Queue == INSTANCE BoundedQueue WITH items <- Contents
QueueSpec == Queue!Spec
=============================================================================
