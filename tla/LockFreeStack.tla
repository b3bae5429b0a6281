--------------------------- MODULE LockFreeStack ---------------------------
(***************************************************************************)
(* com.crp.common.LockFreeStack: a linked stack whose top is read and      *)
(* replaced by compare-and-set.  It carries the replies of a lock free     *)
(* queue and the free lists of the memory manager.  The garbage collector  *)
(* never recycles an Item while a thread can still compare with it, so     *)
(* every push allocates an Item that no thread has seen before.            *)
(*                                                                         *)
(* inpSize bounds nothing: push never overflows.                           *)
(***************************************************************************)
EXTENDS Integers, Sequences

CONSTANTS Threads,
          Null,
          MaxItems    \* bound: pushes

ASSUME NullAssumption == Null \notin Nat
ASSUME BoundAssumption == MaxItems \in Nat

Items == 1 .. MaxItems

VARIABLES top,         \* an Item or Null
          next,        \* the next field of each Item
          allocated,   \* number of Items allocated
          pc,          \* where each thread stands in push or pop
          newVal,      \* local: the Item to be pushed, or the new top
          oldVal,      \* local: the top it read
          out          \* what the thread's last pop returned

vars == <<top, next, allocated, pc, newVal, oldVal, out>>

Init == /\ top = Null
        /\ next = [i \in Items |-> Null]
        /\ allocated = 0
        /\ pc = [t \in Threads |-> "idle"]
        /\ newVal = [t \in Threads |-> Null]
        /\ oldVal = [t \in Threads |-> Null]
        /\ out = [t \in Threads |-> Null]

Goto(t, at) == pc' = [pc EXCEPT ![t] = at]

Forget(t) == /\ newVal' = [newVal EXCEPT ![t] = Null]
             /\ oldVal' = [oldVal EXCEPT ![t] = Null]

-----------------------------------------------------------------------------
(* push                                                                    *)

Push(t) == /\ pc[t] = "idle" /\ allocated < MaxItems
           /\ allocated' = allocated + 1
           /\ newVal' = [newVal EXCEPT ![t] = allocated + 1]
           /\ Goto(t, "pushGet")
           /\ UNCHANGED <<top, next, oldVal, out>>

\* Mutant: the new Item is linked on the first turn of the loop only.
PushGetOnce(t) == /\ pc[t] = "pushGet"
                  /\ oldVal' = [oldVal EXCEPT ![t] = top]
                  /\ next' = [next EXCEPT ![newVal[t]] = IF @ = Null THEN top ELSE @]
                  /\ Goto(t, "pushCas")
                  /\ UNCHANGED <<top, allocated, newVal, out>>

\* The Item is still private: linking it needs no step of its own.
PushGet(t) == /\ pc[t] = "pushGet"
              /\ oldVal' = [oldVal EXCEPT ![t] = top]
              /\ next' = [next EXCEPT ![newVal[t]] = top]
              /\ Goto(t, "pushCas")
              /\ UNCHANGED <<top, allocated, newVal, out>>

\* Mutant: a failed compare-and-set is retried without reading the top again.
PushCasBlind(t) == /\ pc[t] = "pushCas" /\ top = oldVal[t]
                   /\ top' = newVal[t]
                   /\ Goto(t, "idle") /\ Forget(t)
                   /\ UNCHANGED <<next, allocated, out>>

PushCas(t) == /\ pc[t] = "pushCas"
              /\ \/ /\ top = oldVal[t]
                    /\ top' = newVal[t]
                    /\ Goto(t, "idle") /\ Forget(t)
                 \/ /\ top # oldVal[t]
                    /\ Goto(t, "pushGet")
                    /\ UNCHANGED <<top, newVal, oldVal>>
              /\ UNCHANGED <<next, allocated, out>>

-----------------------------------------------------------------------------
(* pop                                                                     *)

\* An empty stack throws CRP_COMMON_ERROR_002; next is immutable by now.
PopGet(t) == /\ pc[t] \in {"idle", "popGet"}
             /\ \/ /\ top = Null
                   /\ out' = [out EXCEPT ![t] = Null]
                   /\ Goto(t, "idle") /\ Forget(t)
                \/ /\ top # Null
                   /\ oldVal' = [oldVal EXCEPT ![t] = top]
                   /\ newVal' = [newVal EXCEPT ![t] = next[top]]
                   /\ Goto(t, "popCas")
                   /\ UNCHANGED out
             /\ UNCHANGED <<top, next, allocated>>

PopCas(t) == /\ pc[t] = "popCas"
             /\ \/ /\ top = oldVal[t]
                   /\ top' = newVal[t]
                   /\ out' = [out EXCEPT ![t] = oldVal[t]]
                   /\ Goto(t, "idle") /\ Forget(t)
                \/ /\ top # oldVal[t]
                   /\ Goto(t, "popGet")
                   /\ UNCHANGED <<top, newVal, oldVal, out>>
             /\ UNCHANGED <<next, allocated>>

Next == \E t \in Threads :
          Push(t) \/ PushGet(t) \/ PushCas(t) \/ PopGet(t) \/ PopCas(t)

Spec == Init /\ [][Next]_vars

\* A thread inside push or pop is scheduled again.
Inside(t) == /\ pc[t] # "idle"
             /\ PushGet(t) \/ PushCas(t) \/ PopGet(t) \/ PopCas(t)
FairSpec == Spec /\ \A t \in Threads : WF_vars(Inside(t))

-----------------------------------------------------------------------------
\* The Items reachable from the top, in order.
From[i \in Items] == IF next[i] = Null THEN <<i>> ELSE <<i>> \o From[next[i]]
Chain == IF top = Null THEN <<>> ELSE From[top]

\* push and pop take effect at once, at their compare-and-set, whatever the
\* other threads do between the read of the top and it: no Item is lost, none
\* is popped twice.
Abstract == INSTANCE Stack WITH stack <- Chain
Linearizable == Abstract!Spec

\* Lock freedom: a thread only repeats its loop because another one succeeded,
\* so that with finitely many pushes every call returns.
CallsReturn == \A t \in Threads : pc[t] # "idle" ~> pc[t] = "idle"
=============================================================================
