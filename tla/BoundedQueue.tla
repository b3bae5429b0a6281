---------------------------- MODULE BoundedQueue ----------------------------
(* A queue of at most Size items: what FixedSizeQueue stands for.          *)
EXTENDS Integers, Sequences

CONSTANTS Items, Size, Null

VARIABLES items,   \* the queue, head first
          out      \* what the last get returned

Init == items = <<>> /\ out = Null

Put(o) == /\ Len(items) < Size
          /\ items' = Append(items, o)
          /\ UNCHANGED out

Get == /\ items # <<>>
       /\ out' = Head(items)
       /\ items' = Tail(items)

GetNothing == /\ items = <<>>
              /\ out' = Null
              /\ UNCHANGED items

Next == (\E o \in Items : Put(o)) \/ Get \/ GetNothing

Spec == Init /\ [][Next]_<<items, out>>
=============================================================================
