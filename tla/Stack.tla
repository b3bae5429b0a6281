------------------------------- MODULE Stack -------------------------------
(* What LockFreeStack promises: each push and each pop happens at once.     *)
EXTENDS Sequences

CONSTANTS Threads, Items, Null

VARIABLES stack,   \* top first
          out      \* what each thread's last pop returned

Init == stack = <<>> /\ out = [t \in Threads |-> Null]

Push(i) == /\ stack' = <<i>> \o stack
           /\ UNCHANGED out

Pop(t) == /\ stack # <<>>
          /\ stack' = Tail(stack)
          /\ out' = [out EXCEPT ![t] = Head(stack)]

PopNothing(t) == /\ stack = <<>>
                 /\ out' = [out EXCEPT ![t] = Null]
                 /\ UNCHANGED stack

Next == \/ \E i \in Items : Push(i)
        \/ \E t \in Threads : Pop(t) \/ PopNothing(t)

Spec == Init /\ [][Next]_<<stack, out>>
=============================================================================
