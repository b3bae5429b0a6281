--------------------------- MODULE MemoryManager ---------------------------
(***************************************************************************)
(* com.crp.memmgr: the blocks of MemoryManager and the free lists of       *)
(* FreeSpaceManager.  Threads create blocks concurrently while they run    *)
(* and free, when they shut down, the blocks of their own bitmap.          *)
(*                                                                         *)
(* usedSpaceIndex packs the last index and the used space into one long,   *)
(* so that one compare-and-set reserves both: here a record that changes   *)
(* as a whole.  A free list is a lock free stack (module LockFreeStack     *)
(* shows that push and pop are atomic); an atomic add is one step.  The    *)
(* bitmap of a thread is only touched by that thread.  Its                 *)
(* usedSpaceForThisThrd, the sum of the sizes in it, is left out.          *)
(***************************************************************************)
EXTENDS Integers, Sequences, FiniteSetsExt

CONSTANTS Threads,    \* registered threads
          Kinds,      \* subset of {"bytes", "pool"}: what they ask for
          Sizes,      \* inpBlockSize
          Total,      \* totalMemory
          MaxBlocks,  \* MAX_MEM_BLOCKS_IN_MEM_MGR
          Null

ASSUME KindAssumption == Kinds \subseteq {"bytes", "pool"}
ASSUME SizeAssumption == Sizes \subseteq Nat \ {0} /\ IsFiniteSet(Sizes) /\ Sizes # {}
ASSUME LimitAssumption == Total \in Nat /\ MaxBlocks \in Nat \ {0}
ASSUME ThreadAssumption == IsFiniteSet(Threads) /\ Threads # {} /\ Null \notin Threads

Requests == [kind : Kinds, size : Sizes]
Indexes  == 0 .. MaxBlocks - 1
Blocks   == [kind : Kinds, size : Sizes, owner : Threads]

ASSUME NullAssumption == Null \notin Blocks \cup Seq(Indexes) \cup Indexes

\* generateKeyForMemoryBlock: an object pool's key is its factory's name.
KeyUnsized(r) == <<r.kind, 0>>   \* mutant: byte blocks lose their size too
Key(r) == IF r.kind = "bytes" THEN <<r.kind, r.size>> ELSE <<r.kind, 0>>
Keys   == {<<k, s>> : k \in Kinds, s \in Sizes \cup {0}}

VARIABLES
  usedSpaceIndex,  \* [index, space]
  mBlocks,         \* index -> [kind, size, owner], or Null
  fsMap,           \* key -> stack of free indexes, or Null: no entry yet
  freeSpace,
  bitmap,          \* thread -> indexes it has to free (bsIndexForThisThrd)
  pc, req, temp,   \* where a thread stands, its request, what it read
  block,           \* local: the index it popped, or is freeing
  holds            \* history: indexes a thread may use

vars == <<usedSpaceIndex, mBlocks, fsMap, freeSpace, bitmap,
          pc, req, temp, block, holds>>

\* Where a thread stands: in createMemoryBlock, in freeMe, or in neither.
Points == {"running", "lookup", "popped", "get", "cas", "publish",
           "putIfAbsent", "push", "count", "freed", "finished"}

Zero == [index |-> 0, space |-> 0]

Init == /\ usedSpaceIndex = Zero
        /\ mBlocks = [i \in Indexes |-> Null]
        /\ fsMap = [k \in Keys |-> Null]
        /\ freeSpace = 0
        /\ bitmap = [t \in Threads |-> {}]
        /\ pc = [t \in Threads |-> "running"]
        /\ req = [t \in Threads |-> Null]
        /\ temp = [t \in Threads |-> Zero]
        /\ block = [t \in Threads |-> Null]
        /\ holds = [t \in Threads |-> {}]

Goto(t, at) == pc' = [pc EXCEPT ![t] = at]

\* The call is over, with a block or with an exception.
Return(t) == /\ Goto(t, "running")
             /\ req' = [req EXCEPT ![t] = Null]
             /\ temp' = [temp EXCEPT ![t] = Zero]
             /\ block' = [block EXCEPT ![t] = Null]

-----------------------------------------------------------------------------
(* createMemoryBlock                                                       *)

\* The new block object is built and the used space read, before the lookup.
Create(t, r) ==
  /\ pc[t] = "running"
  /\ req' = [req EXCEPT ![t] = r]
  /\ temp' = [temp EXCEPT ![t] = usedSpaceIndex]
  /\ Goto(t, "lookup")
  /\ UNCHANGED <<usedSpaceIndex, mBlocks, fsMap, freeSpace, bitmap, block, holds>>

HasFree(r) == fsMap[Key(r)] \notin {Null, <<>>}

PopFree(t) ==
  /\ pc[t] = "lookup" /\ HasFree(req[t])
  /\ block' = [block EXCEPT ![t] = Head(fsMap[Key(req[t])])]
  /\ fsMap' = [fsMap EXCEPT ![Key(req[t])] = Tail(@)]
  /\ Goto(t, "popped")
  /\ UNCHANGED <<usedSpaceIndex, mBlocks, freeSpace, bitmap, req, temp, holds>>

\* Mutant: the free space is left as it was.
ReuseUncounted(t) ==
  /\ pc[t] = "popped"
  /\ holds' = [holds EXCEPT ![t] = @ \cup {block[t]}]
  /\ Return(t)
  /\ UNCHANGED <<usedSpaceIndex, mBlocks, fsMap, freeSpace, bitmap>>

\* The popped block is returned as it is, with its old owner.
Reuse(t) ==
  /\ pc[t] = "popped"
  /\ freeSpace' = freeSpace - req[t].size
  /\ holds' = [holds EXCEPT ![t] = @ \cup {block[t]}]
  /\ Return(t)
  /\ UNCHANGED <<usedSpaceIndex, mBlocks, fsMap, bitmap>>

\* Mutant: the request is not compared with the total memory.
CheckSpaceNever(t) ==
  /\ pc[t] = "lookup" /\ ~HasFree(req[t])
  /\ Goto(t, "get") /\ UNCHANGED <<req, temp, block>>
  /\ UNCHANGED <<usedSpaceIndex, mBlocks, fsMap, freeSpace, bitmap, holds>>

\* The space is checked against the value read before the lookup.
CheckSpace(t) ==
  /\ pc[t] = "lookup" /\ ~HasFree(req[t])
  /\ IF temp[t].space + req[t].size > Total
     THEN Return(t)
     ELSE Goto(t, "get") /\ UNCHANGED <<req, temp, block>>
  /\ UNCHANGED <<usedSpaceIndex, mBlocks, fsMap, freeSpace, bitmap, holds>>

\* Mutant: the table is never found full.
GetUnbounded(t) ==
  /\ pc[t] = "get"
  /\ temp' = [temp EXCEPT ![t] = usedSpaceIndex]
  /\ Goto(t, "cas") /\ UNCHANGED <<req, block>>
  /\ UNCHANGED <<usedSpaceIndex, mBlocks, fsMap, freeSpace, bitmap, holds>>

\* The loop: read, give up when the table is full, compare and set.
Get(t) ==
  /\ pc[t] = "get"
  /\ IF usedSpaceIndex.index = MaxBlocks - 1
     THEN Return(t)
     ELSE /\ temp' = [temp EXCEPT ![t] = usedSpaceIndex]
          /\ Goto(t, "cas")
          /\ UNCHANGED <<req, block>>
  /\ UNCHANGED <<usedSpaceIndex, mBlocks, fsMap, freeSpace, bitmap, holds>>

\* incrMemBlockIndex, but for the first block, whose index is 0.
Reserved(u, size) == [index |-> IF u = Zero THEN 0 ELSE u.index + 1,
                      space |-> u.space + size]

\* Mutant: the value is set without a comparison.
CasBlind(t) ==
  /\ pc[t] = "cas"
  /\ usedSpaceIndex' = Reserved(temp[t], req[t].size)
  /\ temp' = [temp EXCEPT ![t] = usedSpaceIndex']
  /\ Goto(t, "publish")
  /\ UNCHANGED <<mBlocks, fsMap, freeSpace, bitmap, req, block, holds>>

\* Mutant: a failed compare-and-set does not read the value again.
CasStale(t) ==
  /\ pc[t] = "cas" /\ usedSpaceIndex = temp[t]
  /\ usedSpaceIndex' = Reserved(temp[t], req[t].size)
  /\ temp' = [temp EXCEPT ![t] = usedSpaceIndex']
  /\ Goto(t, "publish")
  /\ UNCHANGED <<mBlocks, fsMap, freeSpace, bitmap, req, block, holds>>

Cas(t) ==
  /\ pc[t] = "cas"
  /\ IF usedSpaceIndex = temp[t]
     THEN /\ usedSpaceIndex' = Reserved(temp[t], req[t].size)
          /\ temp' = [temp EXCEPT ![t] = usedSpaceIndex']
          /\ Goto(t, "publish")
     ELSE Goto(t, "get") /\ UNCHANGED <<usedSpaceIndex, temp>>
  /\ UNCHANGED <<mBlocks, fsMap, freeSpace, bitmap, req, block, holds>>

\* setIndexes, then the block enters the table and the thread's bitmap.
Publish(t) ==
  /\ pc[t] = "publish"
  /\ LET i == temp[t].index
     IN  /\ mBlocks' = [mBlocks EXCEPT ![i] =
              [kind |-> req[t].kind, size |-> req[t].size, owner |-> t]]
         /\ bitmap' = [bitmap EXCEPT ![t] = @ \cup {i}]
         /\ holds' = [holds EXCEPT ![t] = @ \cup {i}]
  /\ Return(t)
  /\ UNCHANGED <<usedSpaceIndex, fsMap, freeSpace>>

-----------------------------------------------------------------------------
(* shutdownCompleted: freeMemoryBlocks, then the thread is FINISHED.       *)

\* Mutant: the bit of the freed block stays set.
FreeMeKeepsBit(t) ==
  /\ pc[t] \in {"running", "freed"} /\ bitmap[t] # {}
  /\ LET i == Min(bitmap[t])
     IN  /\ holds' = [holds EXCEPT ![t] = @ \ {i}]
         /\ block' = [block EXCEPT ![t] = i]
         /\ Goto(t, IF fsMap[Key(mBlocks[i])] = Null THEN "putIfAbsent" ELSE "push")
  /\ UNCHANGED <<usedSpaceIndex, mBlocks, fsMap, freeSpace, bitmap, req, temp>>

\* freeMe on the next block of the bitmap, up to the lookup of its key.
FreeMe(t) ==
  /\ pc[t] \in {"running", "freed"} /\ bitmap[t] # {}
  /\ LET i == Min(bitmap[t])
     IN  /\ bitmap' = [bitmap EXCEPT ![mBlocks[i].owner] = @ \ {i}]
         /\ holds' = [holds EXCEPT ![t] = @ \ {i}]
         /\ block' = [block EXCEPT ![t] = i]
         /\ Goto(t, IF fsMap[Key(mBlocks[i])] = Null THEN "putIfAbsent" ELSE "push")
  /\ UNCHANGED <<usedSpaceIndex, mBlocks, fsMap, freeSpace, req, temp>>

\* The first block of a key opens its stack, and is not pushed on it.
PutIfAbsent(t) ==
  /\ pc[t] = "putIfAbsent"
  /\ LET k == Key(mBlocks[block[t]])
     IN  fsMap' = [fsMap EXCEPT ![k] = IF @ = Null THEN <<>> ELSE @]
  /\ Goto(t, "count")
  /\ UNCHANGED <<usedSpaceIndex, mBlocks, freeSpace, bitmap, req, temp, block, holds>>

PushFree(t) ==
  /\ pc[t] = "push"
  /\ LET k == Key(mBlocks[block[t]])
     IN  fsMap' = [fsMap EXCEPT ![k] = <<block[t]>> \o @]
  /\ Goto(t, "count")
  /\ UNCHANGED <<usedSpaceIndex, mBlocks, freeSpace, bitmap, req, temp, block, holds>>

CountFree(t) ==
  /\ pc[t] = "count"
  /\ freeSpace' = freeSpace + mBlocks[block[t]].size
  /\ block' = [block EXCEPT ![t] = Null]
  /\ Goto(t, "freed")
  /\ UNCHANGED <<usedSpaceIndex, mBlocks, fsMap, bitmap, req, temp, holds>>

Finish(t) ==
  /\ pc[t] \in {"running", "freed"} /\ bitmap[t] = {}
  /\ Goto(t, "finished")
  /\ UNCHANGED <<usedSpaceIndex, mBlocks, fsMap, freeSpace, bitmap, req, temp, block, holds>>

-----------------------------------------------------------------------------
Inside(t) ==
  \/ PopFree(t) \/ Reuse(t) \/ CheckSpace(t) \/ Get(t) \/ Cas(t) \/ Publish(t)
  \/ PutIfAbsent(t) \/ PushFree(t) \/ CountFree(t)

Next == \E t \in Threads :
          \/ \E r \in Requests : Create(t, r)
          \/ FreeMe(t) \/ Finish(t)
          \/ Inside(t)

Spec == Init /\ [][Next]_vars

\* A thread inside a call is scheduled again.
FairSpec == Spec /\ \A t \in Threads : WF_vars(Inside(t))

-----------------------------------------------------------------------------
(* Properties.                                                             *)

Listed  == UNION {Range(fsMap[k]) : k \in {l \in Keys : fsMap[l] # Null}}
Created == {i \in Indexes : mBlocks[i] # Null}
At(points) == {t \in Threads : pc[t] \in points}

\* The space of some of the blocks, or of some of the requests.
Space(of, S) == MapThenSumSet(LAMBDA x : of[x].size, S)

\* Every variable keeps its type (fields of MemoryManager, FreeSpaceManager).
TypeOK ==
  /\ usedSpaceIndex \in [index : Indexes, space : Nat]
  /\ mBlocks \in [Indexes -> {Null} \cup Blocks]
  /\ fsMap \in [Keys -> {Null} \cup Seq(Indexes)]
  /\ freeSpace \in Int
  /\ bitmap \in [Threads -> SUBSET Indexes]
  /\ holds \in [Threads -> SUBSET Indexes]
  /\ pc \in [Threads -> Points]
  /\ req \in [Threads -> {Null} \cup Requests]
  /\ temp \in [Threads -> [index : Indexes, space : Nat]]
  /\ block \in [Threads -> {Null} \cup Indexes]

\* Two threads never use the same block, and a block that is in use, or on
\* its way to or from a list, is on no list, however creations and frees
\* interleave.
Moving == At({"popped", "push", "putIfAbsent"})
Mine(t) == holds[t] \cup (IF t \in Moving THEN {block[t]} ELSE {})

Exclusive ==
  /\ \A t, u \in Threads : t # u => Mine(t) \cap Mine(u) = {}
  /\ \A t \in Threads : Mine(t) \cap Listed = {}
  /\ \A k, l \in Keys : k # l /\ Null \notin {fsMap[k], fsMap[l]} =>
                          Range(fsMap[k]) \cap Range(fsMap[l]) = {}

\* The packed word is right: the space is that of the blocks in the table or
\* about to enter it, which are exactly the indexes up to the current one.
Accounting ==
  LET entering == At({"publish"})
      indexes  == Created \cup {temp[t].index : t \in entering}
  IN  /\ usedSpaceIndex.space = Space(mBlocks, Created) + Space(req, entering)
      /\ usedSpaceIndex # Zero => indexes = 0 .. usedSpaceIndex.index
      /\ Cardinality(indexes) = Cardinality(Created) + Cardinality(entering)

\* The check is made on a stale value: every other thread can get past it
\* with one more request, but no more than that.
BoundedOvercommit ==
  usedSpaceIndex.space <= Total + (Cardinality(Threads) - 1) * Max(Sizes)

\* A byte block that is reused has the size that was asked for.
BytesFit ==
  \A t \in At({"popped"}) :
    req[t].kind = "bytes" => mBlocks[block[t]].size = req[t].size

\* The free space is that of the blocks that were freed and not taken again,
\* once no thread is halfway: exact as long as there are only byte blocks (a
\* reused pool is counted with the size asked for, not with its own).
FreeSpaceExact ==
  /\ At({"popped", "push", "putIfAbsent", "count"}) = {}
  /\ \A i \in Created : mBlocks[i].kind = "bytes"
  =>
    LET used == UNION {holds[t] : t \in Threads}
    IN  freeSpace = Space(mBlocks, Created \ used)

\* Lock freedom: a creation only loops because another one succeeded, and the
\* table is finite, so every call returns.
CallsReturn ==
  \A t \in Threads : req[t] # Null ~> req[t] = Null
=============================================================================
