---------------------------- MODULE ContextGroup ----------------------------
(***************************************************************************)
(* The contexts of a thread: its owner creates contexts, adds objects to   *)
(* them and deletes them, while others read the group as JSON.  One status *)
(* word is to keep them apart.                                             *)
(*                                                                         *)
(* A continue in a do-while loop goes on with the loop's condition: what a *)
(* call read of the status before the loop is never read again, and its    *)
(* compare-and-set succeeds whenever the status is that value.             *)
(***************************************************************************)
EXTENDS Integers

CONSTANTS Owner, Readers, \* threads
          Slots,          \* length of crpCtxList (64 in the code)
          MaxObjects,     \* bound: objects of a context
          None

Threads == {Owner} \cup Readers
Free == 0
Reading == 1
Writing == 2
Ctx == 0 .. Slots - 1

VARIABLES cgStatus, crpCtxList, ctxCounter,
          pc, op, oldVal, \* of a thread: place, call, oldVal of the call
          at,             \* context of the call, or loop index of toJSON
          fails           \* threads whose call failed on an assertion or a null

group == <<cgStatus, crpCtxList, ctxCounter>>
vars == <<group, pc, op, oldVal, at, fails>>

\* A slot is None or the number of objects in its context.
Init == /\ cgStatus = Free /\ ctxCounter = 0
        /\ crpCtxList = [i \in Ctx |-> None]
        /\ pc = [t \in Threads |-> "idle"] /\ op = [t \in Threads |-> None]
        /\ oldVal = [t \in Threads |-> Free] /\ at = [t \in Threads |-> 0]
        /\ fails = {}

Goto(t, l) == pc' = [pc EXCEPT ![t] = l]
NewVal(t) == IF op[t] = "toJSON" THEN Reading ELSE Writing

Call(t, o, i) ==
  /\ pc[t] = "idle" /\ t \notin fails
  /\ op' = [op EXCEPT ![t] = o] /\ at' = [at EXCEPT ![t] = i]
  /\ oldVal' = [oldVal EXCEPT ![t] = cgStatus]
  \* Another write pending: the call throws.
  /\ IF o \in {"create", "add"} /\ cgStatus = Writing
     THEN UNCHANGED pc
     ELSE Goto(t, "try")
  /\ UNCHANGED <<group, fails>>

\* Bound: no context more than slots.
CreateContext == ctxCounter < Slots /\ Call(Owner, "create", 0)
AddObject(i) == /\ crpCtxList[i] # None /\ crpCtxList[i] < MaxObjects
                /\ Call(Owner, "add", i)
DeleteContext(i) == crpCtxList[i] # None /\ Call(Owner, "delete", i)
ToJSON(t) == t \in Readers /\ Call(t, "toJSON", 0)

\* The compare-and-set; one that fails is tried again and changes nothing.
Take(t) ==
  /\ pc[t] = "try" /\ cgStatus = oldVal[t]
  /\ cgStatus' = NewVal(t)
  /\ Goto(t, op[t])
  /\ UNCHANGED <<crpCtxList, ctxCounter, op, oldVal, at, fails>>

\* The first slot that is empty, if there is one.
StoreContext ==
  /\ pc[Owner] = "create"
  /\ crpCtxList' =
       [i \in Ctx |-> IF /\ crpCtxList[i] = None
                         /\ \A j \in 0 .. i - 1 : crpCtxList[j] # None
                      THEN 0 ELSE crpCtxList[i]]
  /\ Goto(Owner, "count")
  /\ UNCHANGED <<cgStatus, ctxCounter, op, oldVal, at, fails>>

StoreObject ==
  /\ pc[Owner] = "add"
  /\ crpCtxList' = [crpCtxList EXCEPT ![at[Owner]] = @ + 1]
  /\ Goto(Owner, "leave")
  /\ UNCHANGED <<cgStatus, ctxCounter, op, oldVal, at, fails>>

ClearContext ==
  /\ pc[Owner] = "delete"
  /\ crpCtxList' = [crpCtxList EXCEPT ![at[Owner]] = None]
  /\ Goto(Owner, "count")
  /\ UNCHANGED <<cgStatus, ctxCounter, op, oldVal, at, fails>>

Count ==
  /\ pc[Owner] = "count"
  /\ ctxCounter' = IF op[Owner] = "create" THEN ctxCounter + 1 ELSE ctxCounter - 1
  /\ Goto(Owner, "leave")
  /\ UNCHANGED <<cgStatus, crpCtxList, op, oldVal, at, fails>>

\* One turn of the loop of toJSON; an empty slot is dereferenced all the same,
\* and nobody resets the status then.
ReadContext(t) ==
  /\ pc[t] = "toJSON"
  /\ IF at[t] >= ctxCounter
     THEN Goto(t, "leave") /\ UNCHANGED <<at, fails>>
     ELSE IF crpCtxList[at[t]] = None
     THEN Goto(t, "idle") /\ fails' = fails \cup {t} /\ UNCHANGED at
     ELSE at' = [at EXCEPT ![t] = @ + 1] /\ UNCHANGED <<pc, fails>>
  /\ UNCHANGED <<group, op, oldVal>>

Leave(t) ==
  /\ pc[t] = "leave"
  /\ cgStatus' = Free
  /\ fails' = IF cgStatus = NewVal(t) THEN fails ELSE fails \cup {t}
  /\ Goto(t, "idle")
  /\ UNCHANGED <<crpCtxList, ctxCounter, op, oldVal, at>>

Next == \/ CreateContext \/ (\E i \in Ctx : AddObject(i) \/ DeleteContext(i))
        \/ StoreContext \/ StoreObject \/ ClearContext \/ Count
        \/ \E t \in Threads : ToJSON(t) \/ Take(t) \/ ReadContext(t) \/ Leave(t)

Spec == Init /\ [][Next]_vars

-----------------------------------------------------------------------------
Inside(t) == pc[t] \notin {"idle", "try"}

\* Read and write operations on the contexts are thread safe: nobody else is
\* inside of the group while its owner changes it.
ThreadSafe == Inside(Owner) => \A t \in Readers : ~Inside(t)
=============================================================================
