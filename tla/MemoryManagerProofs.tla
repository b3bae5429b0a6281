------------------------ MODULE MemoryManagerProofs ------------------------
(***************************************************************************)
(* The invariant of MemoryManager, for any number of threads, any sizes    *)
(* and any table.  A block is in one place at a time: used by a thread, in *)
(* the hands of one that moves it to or from a list, on the list of its    *)
(* key, or lost.                                                           *)
(***************************************************************************)
EXTENDS MemoryManager, SequenceTheorems, FiniteSetTheorems,
        WellFoundedInduction, TLAPS

-----------------------------------------------------------------------------
(* The invariant.                                                          *)

\* A thread inside createMemoryBlock has a request.
Requested ==
  \A t \in At({"lookup", "popped", "get", "cas", "publish"}) : req[t] \in Requests

\* What a thread read and what it has won in the compare-and-set: an index of
\* its own, above which nothing was published.
Reservations ==
  /\ \A t \in At({"cas"}) : temp[t].index # MaxBlocks - 1
  /\ \A i \in Created : i <= usedSpaceIndex.index /\ usedSpaceIndex.space > 0
  /\ \A t \in At({"publish"}) :
       /\ temp[t].index <= usedSpaceIndex.index /\ usedSpaceIndex.space > 0
       /\ mBlocks[temp[t].index] = Null
  /\ \A t, u \in At({"publish"}) : t # u => temp[t].index # temp[u].index

\* The block in a thread's hands was created; until it is on the list, its
\* former user does not use it, and what it pushes it on is a list.
Hands ==
  /\ \A t \in Moving \cup At({"count"}) : block[t] \in Created
  /\ \A t \in Moving : block[t] \notin holds[t]
  /\ \A t \in At({"push"}) : fsMap[Key(mBlocks[block[t]])] # Null

\* A thread's bitmap has blocks that it created and uses.
Bitmaps ==
  \A t \in Threads :
    /\ holds[t] \subseteq Created
    /\ bitmap[t] \subseteq holds[t]
    /\ \A i \in bitmap[t] : mBlocks[i].owner = t

\* A list has blocks of its key, each once.
Lists ==
  \A k \in Keys : fsMap[k] # Null =>
    /\ \A j \in DOMAIN fsMap[k] :
         fsMap[k][j] \in Created /\ Key(mBlocks[fsMap[k][j]]) = k
    /\ \A i, j \in DOMAIN fsMap[k] : fsMap[k][i] = fsMap[k][j] => i = j

\* No block is in two hands, nor in a hand and on a list.
Apart ==
  /\ \A t, u \in Threads : t # u => Mine(t) \cap Mine(u) = {}
  /\ \A t \in Threads : Mine(t) \cap Listed = {}

\* A block that is being reused is of the key that was asked for.
Fits == \A t \in At({"popped"}) : Key(mBlocks[block[t]]) = Key(req[t])

IInv == /\ TypeOK /\ Requested /\ Reservations /\ Hands /\ Bitmaps
        /\ Lists /\ Apart /\ Fits

-----------------------------------------------------------------------------
(* Data.                                                                   *)

\* A set of indexes that is not empty has a least element.
LEMMA Lowest == ASSUME NEW T \in SUBSET Indexes, T # {}
                PROVE  Min(T) \in T
<1>1. T \subseteq Nat
  BY DEF Indexes
<1>2. PICK x \in T : \A y \in T : ~(<<y, x>> \in OpToRel(<, Nat))
  BY <1>1, NatLessThanWellFounded, WFMin
<1>3. \A y \in T : ~(y < x)
  BY <1>1, <1>2, Zenon DEF OpToRel
<1>4. \A y \in T : x <= y
  BY <1>1, <1>3
<1> QED BY <1>4, Zenon DEF Min

\* Requests and blocks have a key.
LEMMA KeyType == \A r \in Requests \cup Blocks : Key(r) \in Keys
BY DEF Key, Keys, Requests, Blocks

\* What is in the table.
LEMMA CreatedType == ASSUME TypeOK
                     PROVE  \A i \in Created : i \in Indexes /\ mBlocks[i] \in Blocks
BY DEF TypeOK, Created

\* The elements of a list after a pop.
LEMMA Popped == ASSUME NEW s \in Seq(Indexes), s # << >>
                PROVE  /\ Head(s) = s[1] /\ 1 \in DOMAIN s
                       /\ Tail(s) \in Seq(Indexes)
                       /\ \A j \in DOMAIN Tail(s) :
                            /\ j \in Nat \ {0} /\ j + 1 \in DOMAIN s
                            /\ Tail(s)[j] = s[j + 1]
OBVIOUS

\* The elements of a list after a push.
LEMMA Pushed == ASSUME NEW s \in Seq(Indexes), NEW x \in Indexes
                PROVE  /\ <<x>> \o s \in Seq(Indexes)
                       /\ \A j \in DOMAIN (<<x>> \o s) :
                            \/ j = 1 /\ (<<x>> \o s)[j] = x
                            \/ /\ j \in Nat /\ j > 1 /\ j - 1 \in DOMAIN s
                               /\ (<<x>> \o s)[j] = s[j - 1]
OBVIOUS

\* A block is listed if it is an element of a list.
LEMMA Listing == ASSUME NEW i
                 PROVE  i \in Listed <=>
                          \E k \in Keys : fsMap[k] # Null
                                          /\ \E j \in DOMAIN fsMap[k] : fsMap[k][j] = i
BY DEF Listed, Range

-----------------------------------------------------------------------------
(* Initial states and types.                                               *)

\* The invariant holds at the start.
LEMMA Start == Init => IInv
<1> SUFFICES ASSUME Init PROVE IInv
  OBVIOUS
<1>1. 0 \in Indexes
  BY LimitAssumption DEF Indexes
<1>2. TypeOK
  BY <1>1 DEF Init, TypeOK, Points, Zero
<1>3. Created = {} /\ Listed = {}
  BY DEF Init, Created, Listed
<1>4. \A t \in Threads : Mine(t) = {}
  BY DEF Init, Mine, Moving, At
<1>5. Requested /\ Reservations /\ Hands /\ Fits
  BY <1>3 DEF Init, Requested, Reservations, Hands, Fits, At, Moving
<1>6. Bitmaps /\ Lists /\ Apart
  BY <1>3, <1>4 DEF Init, Bitmaps, Lists, Apart
<1> QED BY <1>2, <1>5, <1>6 DEF IInv

\* The reservation stays in the table and above all others.
LEMMA Reserving ==
  ASSUME IInv, NEW t \in Threads, pc[t] = "cas", usedSpaceIndex = temp[t],
         NEW u, u = Reserved(temp[t], req[t].size)
  PROVE  /\ u \in [index : Indexes, space : Nat]
         /\ u.space > 0
         /\ u.index >= usedSpaceIndex.index
         /\ usedSpaceIndex.space > 0 => u.index > usedSpaceIndex.index
<1>1. req[t] \in Requests /\ temp[t].index # MaxBlocks - 1
  BY DEF IInv, Requested, Reservations, At
<1>2. req[t].size \in Nat \ {0}
  BY <1>1, SizeAssumption DEF Requests
<1>3. temp[t] \in [index : Indexes, space : Nat]
  BY DEF IInv, TypeOK
<1>4. CASE temp[t] = Zero
  BY <1>2, <1>3, <1>4, LimitAssumption DEF Reserved, Zero, Indexes
<1>5. CASE temp[t] # Zero
  <2>1. u = [index |-> temp[t].index + 1, space |-> temp[t].space + req[t].size]
    BY <1>5 DEF Reserved
  <2>2. temp[t].index \in Nat /\ temp[t].index + 1 \in Indexes
    BY <1>1, <1>3, LimitAssumption DEF Indexes
  <2>3. temp[t].space \in Nat /\ temp[t].space + req[t].size \in Nat \ {0}
    BY <1>2, <1>3
  <2> QED BY <2>1, <2>2, <2>3
<1> QED BY <1>4, <1>5

\* Every step keeps the types.
LEMMA TypeStep == IInv /\ [Next]_vars => TypeOK'
<1> SUFFICES ASSUME IInv, [Next]_vars PROVE TypeOK'
  OBVIOUS
<1> USE DEF Goto, Points
<1>0. TypeOK /\ 0 \in Indexes
  BY LimitAssumption DEF IInv, Indexes
<1>z. Zero \in [index : Indexes, space : Nat]
  BY <1>0 DEF Zero
<1>1. CASE UNCHANGED vars
  BY <1>0, <1>1 DEF vars, TypeOK
<1>2. ASSUME NEW t \in Threads, NEW r \in Requests, Create(t, r) PROVE TypeOK'
  BY <1>0, <1>2 DEF Create, TypeOK
<1>3. ASSUME NEW t \in Threads, PopFree(t) PROVE TypeOK'
  <2>1. req[t] \in Requests /\ Key(req[t]) \in Keys
    BY <1>3, KeyType DEF PopFree, IInv, Requested, At
  <2>2. fsMap[Key(req[t])] \in Seq(Indexes) /\ fsMap[Key(req[t])] # << >>
    BY <1>0, <1>3, <2>1 DEF PopFree, HasFree, TypeOK
  <2>3. Head(fsMap[Key(req[t])]) \in Indexes /\ Tail(fsMap[Key(req[t])]) \in Seq(Indexes)
    BY <2>2
  <2> QED BY <1>0, <1>3, <2>3 DEF PopFree, TypeOK
<1>4. ASSUME NEW t \in Threads, Reuse(t) PROVE TypeOK'
  <2>1. req[t] \in Requests /\ block[t] \in Indexes
    BY <1>4, CreatedType DEF Reuse, IInv, Requested, Hands, Moving, At
  <2>2. req[t].size \in Nat
    BY <2>1, SizeAssumption DEF Requests
  <2>3. freeSpace' \in Int
    BY <1>0, <1>4, <2>2 DEF Reuse, TypeOK
  <2> QED BY <1>0, <1>z, <1>4, <2>1, <2>3 DEF Reuse, Return, TypeOK
<1>5. ASSUME NEW t \in Threads, CheckSpace(t) PROVE TypeOK'
  <2>1. CASE Return(t)
    BY <1>0, <1>z, <1>5, <2>1 DEF CheckSpace, Return, TypeOK
  <2>2. CASE Goto(t, "get") /\ UNCHANGED <<req, temp, block>>
    BY <1>0, <1>5, <2>2 DEF CheckSpace, TypeOK
  <2> QED BY <1>5, <2>1, <2>2 DEF CheckSpace
<1>6. ASSUME NEW t \in Threads, Get(t) PROVE TypeOK'
  <2>1. CASE Return(t)
    BY <1>0, <1>z, <1>6, <2>1 DEF Get, Return, TypeOK
  <2>2. CASE /\ temp' = [temp EXCEPT ![t] = usedSpaceIndex]
             /\ Goto(t, "cas") /\ UNCHANGED <<req, block>>
    BY <1>0, <1>6, <2>2 DEF Get, TypeOK
  <2> QED BY <1>6, <2>1, <2>2 DEF Get
<1>7. ASSUME NEW t \in Threads, Cas(t) PROVE TypeOK'
  <2>1. usedSpaceIndex' \in [index : Indexes, space : Nat]
    BY <1>0, <1>7, Reserving DEF Cas, TypeOK
  <2>2. temp' \in [Threads -> [index : Indexes, space : Nat]]
    BY <1>0, <1>7, <2>1 DEF Cas, TypeOK
  <2> QED BY <1>0, <1>7, <2>1, <2>2 DEF Cas, TypeOK
<1>8. ASSUME NEW t \in Threads, Publish(t) PROVE TypeOK'
  <2>1. req[t] \in Requests /\ temp[t].index \in Indexes
    BY <1>0, <1>8 DEF Publish, IInv, Requested, At, TypeOK
  <2>2. [kind |-> req[t].kind, size |-> req[t].size, owner |-> t] \in Blocks
    BY <2>1 DEF Requests, Blocks
  <2> QED BY <1>0, <1>z, <1>8, <2>1, <2>2 DEF Publish, Return, TypeOK
<1>9. ASSUME NEW t \in Threads, FreeMe(t) PROVE TypeOK'
  <2>1. Min(bitmap[t]) \in Indexes
    BY <1>0, <1>9, Lowest DEF FreeMe, TypeOK
  <2> QED BY <1>0, <1>9, <2>1 DEF FreeMe, TypeOK
<1>10. ASSUME NEW t \in Threads, PutIfAbsent(t) PROVE TypeOK'
  <2>1. \A k \in Keys : fsMap'[k] \in {Null} \cup Seq(Indexes)
    BY <1>0, <1>10 DEF PutIfAbsent, TypeOK
  <2>2. fsMap' = [k \in Keys |-> fsMap'[k]]
    BY <1>0, <1>10 DEF PutIfAbsent, TypeOK
  <2>3. fsMap' \in [Keys -> {Null} \cup Seq(Indexes)]
    BY <2>1, <2>2
  <2> QED BY <1>0, <1>10, <2>3 DEF PutIfAbsent, TypeOK
<1>11. ASSUME NEW t \in Threads, PushFree(t) PROVE TypeOK'
  <2>1. block[t] \in Created
    BY <1>11 DEF PushFree, IInv, Hands, Moving, At
  <2>2. block[t] \in Indexes /\ Key(mBlocks[block[t]]) \in Keys
    BY <1>0, <2>1, CreatedType, KeyType
  <2>3. fsMap[Key(mBlocks[block[t]])] \in Seq(Indexes)
    BY <1>0, <1>11, <2>2 DEF PushFree, IInv, Hands, At, TypeOK
  <2> QED BY <1>0, <1>11, <2>2, <2>3 DEF PushFree, TypeOK
<1>12. ASSUME NEW t \in Threads, CountFree(t) PROVE TypeOK'
  <2>1. mBlocks[block[t]] \in Blocks
    BY <1>0, <1>12, CreatedType DEF CountFree, IInv, Hands, At
  <2>2. freeSpace' \in Int
    BY <1>0, <1>12, <2>1, SizeAssumption DEF CountFree, TypeOK, Blocks
  <2> QED BY <1>0, <1>12, <2>2 DEF CountFree, TypeOK
<1>13. ASSUME NEW t \in Threads, Finish(t) PROVE TypeOK'
  BY <1>0, <1>13 DEF Finish, TypeOK
<1> QED BY <1>1, <1>2, <1>3, <1>4, <1>5, <1>6, <1>7, <1>8, <1>9, <1>10, <1>11,
           <1>12, <1>13 DEF Next, Inside

-----------------------------------------------------------------------------
(* Steps that leave the table, the lists and what threads use alone.       *)

\* The lists are as before and nobody gets hold of a block.
LEMMA QuietApart ==
  ASSUME Apart, fsMap' = fsMap, \A u \in Threads : Mine(u)' \subseteq Mine(u)
  PROVE  Apart'
<1>1. Listed' = Listed
  BY DEF Listed
<1> QED BY <1>1 DEF Apart

\* The other threads are where they were.
Others(t) == \A u \in Threads \ {t} :
  pc'[u] = pc[u] /\ req'[u] = req[u] /\ temp'[u] = temp[u] /\ block'[u] = block[u]

\* A step that only moves a thread between points where nothing is claimed.
LEMMA Local ==
  ASSUME IInv, NEW t \in Threads, Others(t),
         UNCHANGED <<mBlocks, fsMap, bitmap, holds>>,
         pc'[t] \in {"running", "lookup", "get", "cas", "publish", "freed", "finished"},
         TypeOK', Requested', Reservations'
  PROVE  IInv'
<1>1. Created' = Created
  BY DEF Created
<1>2. Hands'
  BY <1>1 DEF IInv, Hands, Moving, At, Others
<1>3. Bitmaps' /\ Lists'
  BY <1>1 DEF IInv, Bitmaps, Lists
<1>4. \A u \in Threads : Mine(u)' \subseteq Mine(u)
  BY DEF Mine, Moving, At, Others
<1>5. Apart'
  BY <1>4, QuietApart DEF IInv
<1>6. Fits'
  BY DEF IInv, Fits, At, Others
<1> QED BY <1>2, <1>3, <1>5, <1>6 DEF IInv

\* Nothing is reserved or published.
LEMMA SameReservations ==
  ASSUME IInv, NEW t \in Threads, Others(t), UNCHANGED <<mBlocks, usedSpaceIndex>>,
         pc'[t] \notin {"cas", "publish"}
  PROVE  Reservations'
<1>1. Created' = Created
  BY DEF Created
<1> QED BY <1>1 DEF IInv, Reservations, At, Others

\* A new request.
LEMMA CreateStep == ASSUME IInv, TypeOK', NEW t \in Threads, NEW r \in Requests,
                           Create(t, r)
                    PROVE  IInv'
<1> USE DEF Create, Goto
<1>1. Others(t) /\ pc'[t] = "lookup" /\ req'[t] = r
  BY DEF IInv, TypeOK, Others
<1>2. Requested'
  BY <1>1 DEF IInv, Requested, At, Others
<1> QED BY <1>1, <1>2, Local, SameReservations

\* The check of the space read earlier.
LEMMA CheckSpaceStep == ASSUME IInv, TypeOK', NEW t \in Threads, CheckSpace(t)
                        PROVE  IInv'
<1> USE DEF Goto
<1>0. pc[t] = "lookup" /\ req[t] \in Requests /\ TypeOK
  BY DEF CheckSpace, IInv, Requested, At
<1>1. /\ Others(t) /\ pc'[t] \in {"running", "get"}
      /\ pc'[t] = "get" => req'[t] = req[t]
  <2>1. CASE Return(t)
    BY <1>0, <2>1 DEF Return, TypeOK, Others
  <2>2. CASE Goto(t, "get") /\ UNCHANGED <<req, temp, block>>
    BY <1>0, <2>2 DEF TypeOK, Others
  <2> QED BY <2>1, <2>2 DEF CheckSpace
<1>2. Requested'
  BY <1>0, <1>1 DEF IInv, Requested, At, Others
<1> QED BY <1>1, <1>2, Local, SameReservations DEF CheckSpace

\* The read in the loop: the full test bounds what the next step reserves.
LEMMA GetStep == ASSUME IInv, TypeOK', NEW t \in Threads, Get(t)
                 PROVE  IInv'
<1> USE DEF Goto
<1>0. pc[t] = "get" /\ req[t] \in Requests /\ TypeOK
  BY DEF Get, IInv, Requested, At
<1>1. /\ Others(t) /\ pc'[t] \in {"running", "cas"}
      /\ pc'[t] = "cas" => req'[t] = req[t] /\ temp'[t].index # MaxBlocks - 1
  <2>1. CASE Return(t)
    BY <1>0, <2>1 DEF Return, TypeOK, Others
  <2>2. CASE /\ usedSpaceIndex.index # MaxBlocks - 1
             /\ temp' = [temp EXCEPT ![t] = usedSpaceIndex]
             /\ Goto(t, "cas") /\ UNCHANGED <<req, block>>
    BY <1>0, <2>2 DEF TypeOK, Others
  <2> QED BY <2>1, <2>2 DEF Get
<1>2. Requested'
  BY <1>0, <1>1 DEF IInv, Requested, At, Others
<1>3. Reservations'
  <2>1. Created' = Created
    BY DEF Get, Created
  <2> QED BY <1>1, <2>1 DEF Get, IInv, Reservations, At, Others
<1> QED BY <1>1, <1>2, <1>3, Local DEF Get

\* The compare-and-set: what is reserved is above everything published.
LEMMA CasStep == ASSUME IInv, TypeOK', NEW t \in Threads, Cas(t)
                 PROVE  IInv'
<1> USE DEF Goto
<1>0. pc[t] = "cas" /\ req[t] \in Requests /\ TypeOK
  BY DEF Cas, IInv, Requested, At
<1>1. /\ Others(t) /\ pc'[t] \in {"get", "publish"} /\ req' = req
      /\ Created' = Created
  BY <1>0 DEF Cas, TypeOK, Others, Created
<1>2. Requested'
  BY <1>0, <1>1 DEF IInv, Requested, At, Others
<1>3. CASE usedSpaceIndex # temp[t]
  <2>1. UNCHANGED usedSpaceIndex /\ pc'[t] = "get"
    BY <1>0, <1>3 DEF Cas, TypeOK
  <2>2. Reservations'
    BY <1>1, <2>1, SameReservations DEF Cas
  <2> QED BY <1>1, <1>2, <2>2, Local DEF Cas
<1>4. CASE usedSpaceIndex = temp[t]
  <2>1. /\ usedSpaceIndex' = Reserved(temp[t], req[t].size)
        /\ temp'[t] = usedSpaceIndex' /\ pc'[t] = "publish"
    BY <1>0, <1>4 DEF Cas, TypeOK
  <2>2. /\ usedSpaceIndex'.index \in Nat /\ usedSpaceIndex'.space > 0
        /\ usedSpaceIndex.index \in Nat
        /\ usedSpaceIndex'.index >= usedSpaceIndex.index
        /\ usedSpaceIndex.space > 0 => usedSpaceIndex'.index > usedSpaceIndex.index
    BY <1>0, <1>4, <2>1, Reserving DEF TypeOK, Indexes
  <2>3. \A i \in Created : i <= usedSpaceIndex'.index /\ i # usedSpaceIndex'.index
    <3> TAKE i \in Created
    <3>1. i \in Nat /\ i <= usedSpaceIndex.index /\ usedSpaceIndex.space > 0
      BY DEF IInv, Reservations, Created, Indexes
    <3> QED BY <2>2, <3>1
  <2>4. \A u \in At({"publish"}) :
          temp[u].index <= usedSpaceIndex'.index /\ temp[u].index # usedSpaceIndex'.index
    <3> TAKE u \in At({"publish"})
    <3>1. /\ temp[u].index \in Nat /\ temp[u].index <= usedSpaceIndex.index
          /\ usedSpaceIndex.space > 0
      BY <1>0 DEF IInv, Reservations, TypeOK, At, Indexes
    <3> QED BY <2>2, <3>1
  <2>5. mBlocks'[temp'[t].index] = Null
    <3>1. temp'[t].index \in Indexes /\ temp'[t].index \notin Created
      BY <2>1, <2>3 DEF TypeOK
    <3> QED BY <3>1 DEF Cas, Created
  <2>6. /\ \A u \in At({"cas"})' : u # t /\ u \in At({"cas"}) /\ temp'[u] = temp[u]
        /\ \A u \in At({"publish"})' :
             u = t \/ (u \in At({"publish"}) /\ temp'[u] = temp[u])
    <3>1. \A u \in Threads : u # t => pc'[u] = pc[u] /\ temp'[u] = temp[u]
      BY <1>1 DEF Others
    <3>2. pc'[t] # "cas"
      BY <2>1
    <3> QED BY <3>1, <3>2 DEF At
  <2>7. Reservations'
    <3>1. \A u \in At({"cas"})' : temp'[u].index # MaxBlocks - 1
      BY <2>6 DEF IInv, Reservations
    <3>2. \A i \in Created' : i <= usedSpaceIndex'.index /\ usedSpaceIndex'.space > 0
      BY <1>1, <2>2, <2>3
    <3>3. \A u \in At({"publish"})' :
            /\ temp'[u].index <= usedSpaceIndex'.index /\ usedSpaceIndex'.space > 0
            /\ mBlocks'[temp'[u].index] = Null
      BY <2>1, <2>2, <2>4, <2>5, <2>6 DEF Cas, IInv, Reservations
    <3>4. \A u, v \in At({"publish"})' : u # v => temp'[u].index # temp'[v].index
      BY <2>1, <2>4, <2>6 DEF IInv, Reservations
    <3> QED BY <3>1, <3>2, <3>3, <3>4 DEF Reservations
  <2> QED BY <1>1, <1>2, <2>1, <2>7, Local DEF Cas
<1> QED BY <1>3, <1>4

\* The freed block is counted.
LEMMA CountFreeStep == ASSUME IInv, TypeOK', NEW t \in Threads, CountFree(t)
                       PROVE  IInv'
<1>1. Others(t) /\ pc'[t] = "freed"
  BY DEF CountFree, Goto, IInv, TypeOK, Others
<1>2. Requested'
  BY <1>1 DEF IInv, Requested, At, Others
<1> QED BY <1>1, <1>2, Local, SameReservations DEF CountFree

\* The thread is done.
LEMMA FinishStep == ASSUME IInv, TypeOK', NEW t \in Threads, Finish(t)
                    PROVE  IInv'
<1>1. Others(t) /\ pc'[t] = "finished"
  BY DEF Finish, Goto, IInv, TypeOK, Others
<1>2. Requested'
  BY <1>1 DEF IInv, Requested, At, Others
<1> QED BY <1>1, <1>2, Local, SameReservations DEF Finish

-----------------------------------------------------------------------------
(* Steps that move a block.                                                *)

\* The popped block leaves its list for the hands of one thread.
LEMMA PopFreeStep == ASSUME IInv, TypeOK', NEW t \in Threads, PopFree(t)
                     PROVE  IInv'
<1> DEFINE k == Key(req[t])
           s == fsMap[k]
<1>0. TypeOK /\ pc[t] = "lookup" /\ req[t] \in Requests /\ k \in Keys
  BY KeyType DEF PopFree, IInv, Requested, At
<1>1. s \in Seq(Indexes) /\ s # << >> /\ s # Null
  BY <1>0 DEF PopFree, HasFree, TypeOK
<1>2. /\ Others(t) /\ pc'[t] = "popped" /\ req' = req
      /\ block'[t] = s[1] /\ Created' = Created /\ 1 \in DOMAIN s
  <2>1. Head(s) = s[1] /\ 1 \in DOMAIN s
    BY <1>1, Popped
  <2> QED BY <1>0, <2>1 DEF PopFree, Goto, TypeOK, Others, Created
<1>3. fsMap' \in [Keys -> {Null} \cup Seq(Indexes)] /\ fsMap'[k] = Tail(s)
      /\ \A l \in Keys : l # k => fsMap'[l] = fsMap[l]
  BY <1>0 DEF PopFree, TypeOK
<1>4. Tail(s) # Null
  BY <1>1, Popped, NullAssumption
<1>5. s[1] \in Created /\ Key(mBlocks[s[1]]) = k /\ s[1] \in Listed
  BY <1>0, <1>1, <1>2, Listing DEF IInv, Lists
<1>6. \A j \in DOMAIN Tail(s) : /\ j \in Nat \ {0} /\ j + 1 \in DOMAIN s
                                /\ Tail(s)[j] = s[j + 1]
  BY <1>1, Popped
<1>7. Requested' /\ Reservations'
  <2>1. Requested'
    BY <1>0, <1>2 DEF IInv, Requested, At, Others
  <2> QED BY <1>2, <2>1, SameReservations DEF PopFree
<1>8. Lists'
  <2>1. ASSUME NEW l \in Keys, fsMap'[l] # Null
        PROVE  /\ \A j \in DOMAIN fsMap'[l] :
                    fsMap'[l][j] \in Created' /\ Key(mBlocks'[fsMap'[l][j]]) = l
               /\ \A i, j \in DOMAIN fsMap'[l] : fsMap'[l][i] = fsMap'[l][j] => i = j
    <3>1. CASE l = k
      <4>1. \A j \in DOMAIN s : s[j] \in Created /\ Key(mBlocks[s[j]]) = k
        BY <1>0, <1>1 DEF IInv, Lists
      <4>2. \A i, j \in DOMAIN s : s[i] = s[j] => i = j
        BY <1>0, <1>1 DEF IInv, Lists
      <4>3. \A i, j \in DOMAIN Tail(s) : Tail(s)[i] = Tail(s)[j] => i = j
        <5> SUFFICES ASSUME NEW i \in DOMAIN Tail(s), NEW j \in DOMAIN Tail(s),
                            Tail(s)[i] = Tail(s)[j]
                     PROVE  i = j
          OBVIOUS
        <5>1. i + 1 = j + 1
          BY <1>6, <4>2
        <5> QED BY <1>6, <5>1
      <4>4. \A j \in DOMAIN Tail(s) : Tail(s)[j] \in Created /\ Key(mBlocks[Tail(s)[j]]) = k
        BY <1>6, <4>1
      <4> HIDE DEF k, s
      <4> QED BY <1>2, <1>3, <3>1, <4>3, <4>4 DEF PopFree
    <3>2. CASE l # k
      <4>1. fsMap'[l] = fsMap[l] /\ mBlocks' = mBlocks
        BY <1>3, <3>2 DEF PopFree
      <4> QED BY <1>2, <2>1, <4>1 DEF IInv, Lists
    <3> QED BY <3>1, <3>2
  <2> QED BY <2>1 DEF Lists
<1>9. Listed' \subseteq Listed \ {s[1]}
  <2> SUFFICES ASSUME NEW i \in Listed' PROVE i \in Listed /\ i # s[1]
    OBVIOUS
  <2>1. PICK l \in Keys : fsMap'[l] # Null /\ \E j \in DOMAIN fsMap'[l] : fsMap'[l][j] = i
    BY DEF Listed, Range
  <2>2. CASE l = k
    <3>1. PICK j \in DOMAIN Tail(s) : Tail(s)[j] = i
      BY <1>3, <2>1, <2>2
    <3>2. j + 1 \in DOMAIN s /\ s[j + 1] = i /\ j + 1 # 1
      BY <1>6, <3>1
    <3>3. \A a, b \in DOMAIN s : s[a] = s[b] => a = b
      BY <1>0, <1>1 DEF IInv, Lists
    <3> QED BY <1>0, <1>1, <1>2, <3>2, <3>3, Listing
  <2>3. CASE l # k
    <3>1. PICK j \in DOMAIN fsMap[l] : fsMap[l] # Null /\ fsMap[l][j] = i
      BY <1>3, <2>1, <2>3
    <3>2. Key(mBlocks[i]) = l
      BY <3>1 DEF IInv, Lists
    <3> QED BY <1>5, <2>3, <3>1, <3>2, Listing
  <2> QED BY <2>2, <2>3
<1>10. /\ Mine(t)' = Mine(t) \cup {s[1]}
       /\ \A u \in Threads \ {t} : Mine(u)' = Mine(u)
  <2>1. holds' = holds /\ t \in Moving' /\ t \notin Moving
    BY <1>0, <1>2 DEF PopFree, Moving, At
  <2>2. \A u \in Threads \ {t} : u \in Moving' <=> u \in Moving
    BY <1>2 DEF Moving, At, Others
  <2> QED BY <1>2, <2>1, <2>2 DEF Mine, Others
<1>11. Apart'
  BY <1>5, <1>9, <1>10 DEF IInv, Apart
<1>12. Hands'
  <2>1. holds' = holds /\ mBlocks' = mBlocks
    BY DEF PopFree
  <2>2. s[1] \notin holds[t]
    BY <1>5 DEF IInv, Apart, Mine
  <2>3. \A u \in At({"push"})' : u # t /\ u \in At({"push"}) /\ block'[u] = block[u]
    BY <1>2 DEF At, Others
  <2>4. \A u \in At({"push"}) : block[u] \in Created /\ Key(mBlocks[block[u]]) \in Keys
                               /\ fsMap[Key(mBlocks[block[u]])] # Null
    BY <1>0, CreatedType, KeyType DEF IInv, Hands, Moving, At
  <2>5. \A u \in At({"push"})' : fsMap'[Key(mBlocks'[block'[u]])] # Null
    BY <1>3, <1>4, <2>1, <2>3, <2>4
  <2>6. \A u \in Moving' \cup At({"count"})' : block'[u] \in Created'
    BY <1>2, <1>5 DEF IInv, Hands, Moving, At, Others
  <2>7. \A u \in Moving' : block'[u] \notin holds'[u]
    BY <1>2, <2>1, <2>2 DEF IInv, Hands, Moving, At, Others
  <2> QED BY <2>5, <2>6, <2>7 DEF Hands
<1>13. Bitmaps'
  BY <1>2 DEF PopFree, IInv, Bitmaps
<1>14. Fits'
  <2>1. \A u \in At({"popped"})' : u = t \/ (u \in At({"popped"}) /\ block'[u] = block[u])
    BY <1>2 DEF At, Others
  <2> QED BY <1>2, <1>5, <2>1 DEF PopFree, IInv, Fits
<1> QED BY <1>7, <1>8, <1>11, <1>12, <1>13, <1>14 DEF IInv

\* The popped block gets its new user.
LEMMA ReuseStep == ASSUME IInv, TypeOK', NEW t \in Threads, Reuse(t)
                   PROVE  IInv'
<1>0. TypeOK /\ t \in Moving /\ pc[t] = "popped" /\ block[t] \in Created
  BY DEF Reuse, IInv, Hands, Moving, At
<1>1. Others(t) /\ pc'[t] = "running" /\ Created' = Created
  BY <1>0 DEF Reuse, Return, Goto, TypeOK, Others, Created
<1>2. /\ mBlocks' = mBlocks /\ fsMap' = fsMap /\ bitmap' = bitmap
      /\ holds'[t] = holds[t] \cup {block[t]}
      /\ \A u \in Threads \ {t} : holds'[u] = holds[u]
  BY <1>0 DEF Reuse, TypeOK
<1>3. t \notin Moving' /\ \A u \in Threads \ {t} : u \in Moving' <=> u \in Moving
  BY <1>1 DEF Moving, At, Others
<1>4. Requested' /\ Reservations'
  <2>1. Requested'
    BY <1>1 DEF IInv, Requested, At, Others
  <2> QED BY <1>1, <2>1, SameReservations DEF Reuse
<1>5. Hands'
  <2>1. \A u \in Moving' \cup At({"count", "push"})' :
          u # t /\ holds'[u] = holds[u] /\ block'[u] = block[u] /\ pc'[u] = pc[u]
    BY <1>1, <1>2 DEF Moving, At, Others
  <2> QED BY <1>1, <1>2, <2>1 DEF IInv, Hands, Moving, At
<1>6. Bitmaps' /\ Lists'
  BY <1>0, <1>1, <1>2 DEF IInv, Bitmaps, Lists
<1>7. Apart'
  <2>1. \A u \in Threads : Mine(u)' \subseteq Mine(u)
    BY <1>0, <1>1, <1>2, <1>3 DEF Mine, Others
  <2> QED BY <1>2, <2>1, QuietApart DEF IInv
<1>8. Fits'
  BY <1>1, <1>2 DEF IInv, Fits, At, Others
<1> QED BY <1>4, <1>5, <1>6, <1>7, <1>8 DEF IInv

\* The new block enters the table, at an index nobody else has.
LEMMA PublishStep == ASSUME IInv, TypeOK', NEW t \in Threads, Publish(t)
                     PROVE  IInv'
<1> DEFINE i == temp[t].index
           b == [kind |-> req[t].kind, size |-> req[t].size, owner |-> t]
<1>0. /\ TypeOK /\ pc[t] = "publish" /\ i \in Indexes /\ mBlocks[i] = Null
      /\ i <= usedSpaceIndex.index /\ usedSpaceIndex.space > 0
      /\ b \in Blocks /\ b # Null /\ b.owner = t
  <2>1. TypeOK /\ pc[t] = "publish" /\ req[t] \in Requests
    BY DEF Publish, IInv, Requested, At
  <2>2. b \in Blocks /\ b.owner = t
    BY <2>1 DEF Requests, Blocks
  <2> QED BY <2>1, <2>2, NullAssumption DEF IInv, Reservations, At, TypeOK
<1>1. /\ Others(t) /\ pc'[t] = "running"
      /\ fsMap' = fsMap /\ usedSpaceIndex' = usedSpaceIndex
      /\ mBlocks' = [mBlocks EXCEPT ![i] = b]
      /\ bitmap'[t] = bitmap[t] \cup {i} /\ holds'[t] = holds[t] \cup {i}
      /\ \A u \in Threads \ {t} : holds'[u] = holds[u] /\ bitmap'[u] = bitmap[u]
  BY <1>0 DEF Publish, Return, Goto, TypeOK, Others
<1> HIDE DEF b
<1>2. /\ mBlocks'[i] = b /\ \A j \in Indexes \ {i} : mBlocks'[j] = mBlocks[j]
  BY <1>0, <1>1 DEF TypeOK
<1>3. Created' = Created \cup {i} /\ i \notin Created
      /\ \A j \in Created : mBlocks'[j] = mBlocks[j]
  BY <1>0, <1>2 DEF Created
<1>4. /\ At({"publish"})' = At({"publish"}) \ {t} /\ At({"cas"})' = At({"cas"})
      /\ \A u \in At({"publish", "cas"})' : temp'[u] = temp[u] /\ temp[u].index \in Indexes
      /\ Moving' = Moving /\ t \notin Moving /\ At({"count"})' = At({"count"})
      /\ t \notin At({"count"})
      /\ \A u \in Moving \cup At({"count"}) : block'[u] = block[u] /\ holds'[u] = holds[u]
      /\ At({"push"})' = At({"push"}) /\ t \notin At({"push"})
  BY <1>0, <1>1 DEF Moving, At, Others, TypeOK
<1>5. Requested'
  BY <1>1 DEF IInv, Requested, At, Others
<1>6. Reservations'
  <2>1. \A u \in At({"cas"})' : temp'[u].index # MaxBlocks - 1
    BY <1>4 DEF IInv, Reservations, At
  <2>2. \A j \in Created' : j <= usedSpaceIndex'.index /\ usedSpaceIndex'.space > 0
    BY <1>0, <1>1, <1>3 DEF IInv, Reservations
  <2>3. \A u \in At({"publish"})' : temp[u].index # i /\ temp'[u] = temp[u]
          /\ temp[u].index \in Indexes /\ u \in At({"publish"})
    BY <1>0, <1>4 DEF IInv, Reservations, At
  <2>4. \A u \in At({"publish"})' :
          /\ temp'[u].index <= usedSpaceIndex'.index /\ usedSpaceIndex'.space > 0
          /\ mBlocks'[temp'[u].index] = Null
    BY <1>1, <1>2, <2>3 DEF IInv, Reservations
  <2>5. \A u, v \in At({"publish"})' : u # v => temp'[u].index # temp'[v].index
    BY <2>3 DEF IInv, Reservations
  <2> QED BY <2>1, <2>2, <2>4, <2>5 DEF Reservations
<1>7. Hands'
  <2>1. \A u \in Moving' \cup At({"count"})' : block'[u] \in Created'
    BY <1>3, <1>4 DEF IInv, Hands
  <2>2. \A u \in Moving' : block'[u] \notin holds'[u]
    BY <1>4 DEF IInv, Hands
  <2>3. \A u \in At({"push"})' : fsMap'[Key(mBlocks'[block'[u]])] # Null
    <3> TAKE u \in At({"push"})'
    <3>1. u \in At({"push"}) /\ u \in Moving
      BY <1>4 DEF Moving, At
    <3>2. block'[u] = block[u] /\ block[u] \in Created
      BY <1>4, <3>1 DEF IInv, Hands
    <3> QED BY <1>1, <1>3, <3>1, <3>2 DEF IInv, Hands
  <2> QED BY <2>1, <2>2, <2>3 DEF Hands
<1>8. Bitmaps'
  <2> SUFFICES ASSUME NEW u \in Threads
               PROVE  /\ holds'[u] \subseteq Created' /\ bitmap'[u] \subseteq holds'[u]
                      /\ \A j \in bitmap'[u] : mBlocks'[j].owner = u
    BY DEF Bitmaps
  <2>1. /\ holds[u] \subseteq Created /\ bitmap[u] \subseteq holds[u]
        /\ \A j \in bitmap[u] : mBlocks[j].owner = u
    BY DEF IInv, Bitmaps
  <2>2. CASE u = t
    BY <1>0, <1>1, <1>2, <1>3, <2>1, <2>2
  <2>3. CASE u # t
    BY <1>1, <1>3, <2>1, <2>3
  <2> QED BY <2>2, <2>3
<1>9. Lists'
  <2> SUFFICES ASSUME NEW l \in Keys, fsMap[l] # Null
               PROVE  /\ \A j \in DOMAIN fsMap[l] :
                           fsMap[l][j] \in Created' /\ Key(mBlocks'[fsMap[l][j]]) = l
                      /\ \A a, c \in DOMAIN fsMap[l] : fsMap[l][a] = fsMap[l][c] => a = c
    BY <1>1 DEF Lists
  <2> QED BY <1>3 DEF IInv, Lists
<1>10. Listed' = Listed /\ i \notin Listed
  <2>1. Listed' = Listed
    BY <1>1 DEF Listed
  <2>2. i \notin Listed
    BY <1>3, Listing DEF IInv, Lists
  <2> QED BY <2>1, <2>2
<1>11. Apart'
  <2>1. /\ Mine(t)' = Mine(t) \cup {i}
        /\ \A u \in Threads \ {t} : Mine(u)' = Mine(u)
    BY <1>1, <1>4 DEF Mine, Others
  <2>2. \A u \in Threads : Mine(u) \subseteq Created
    BY DEF IInv, Bitmaps, Hands, Mine
  <2> QED BY <1>3, <1>10, <2>1, <2>2 DEF IInv, Apart
<1>12. Fits'
  <2>1. \A u \in At({"popped"})' : u \in At({"popped"}) /\ u \in Moving /\ u # t
                                   /\ block'[u] = block[u] /\ req'[u] = req[u]
    BY <1>1 DEF Moving, At, Others
  <2> QED BY <1>3, <2>1 DEF IInv, Fits, Hands
<1> QED BY <1>5, <1>6, <1>7, <1>8, <1>9, <1>11, <1>12 DEF IInv

\* The lowest block of the bitmap leaves its user.
LEMMA FreeMeStep == ASSUME IInv, TypeOK', NEW t \in Threads, FreeMe(t)
                    PROVE  IInv'
<1> DEFINE i == Min(bitmap[t])
<1>0. /\ TypeOK /\ pc[t] \in {"running", "freed"}
      /\ i \in bitmap[t] /\ i \in holds[t] /\ i \in Created /\ mBlocks[i].owner = t
  <2>1. TypeOK /\ i \in bitmap[t]
    BY Lowest DEF FreeMe, IInv, TypeOK
  <2> QED BY <2>1 DEF FreeMe, IInv, Bitmaps
<1>1. /\ Others(t) /\ Created' = Created
      /\ mBlocks' = mBlocks /\ fsMap' = fsMap /\ block'[t] = i
      /\ pc'[t] \in {"putIfAbsent", "push"}
      /\ pc'[t] = "push" => fsMap[Key(mBlocks[i])] # Null
      /\ bitmap'[t] = bitmap[t] \ {i} /\ holds'[t] = holds[t] \ {i}
      /\ \A u \in Threads \ {t} : bitmap'[u] = bitmap[u] /\ holds'[u] = holds[u]
  BY <1>0 DEF FreeMe, Goto, TypeOK, Others, Created
<1> HIDE DEF i
<1>2. /\ t \in Moving' /\ t \notin Moving
      /\ \A u \in Threads \ {t} : u \in Moving' <=> u \in Moving
  BY <1>0, <1>1 DEF Moving, At, Others
<1>3. Requested' /\ Reservations'
  <2>1. Requested'
    BY <1>1 DEF IInv, Requested, At, Others
  <2> QED BY <1>1, <2>1, SameReservations DEF FreeMe
<1>4. Hands'
  <2>1. \A u \in Moving' \cup At({"count"})' :
          u = t \/ /\ u \in Moving \cup At({"count"}) /\ (u \in Moving' => u \in Moving)
                   /\ block'[u] = block[u] /\ holds'[u] = holds[u]
    <3> TAKE u \in Moving' \cup At({"count"})'
    <3>1. u \in Threads
      BY DEF Moving, At
    <3>2. CASE u # t
      <4>1. pc'[u] = pc[u] /\ block'[u] = block[u] /\ holds'[u] = holds[u]
        BY <1>1, <3>1, <3>2 DEF Others
      <4>2. u \in At({"count"})' => u \in At({"count"})
        BY <3>1, <4>1 DEF At
      <4> QED BY <1>2, <3>1, <3>2, <4>1, <4>2
    <3> QED BY <3>2
  <2>2. \A u \in At({"push"})' :
          u = t \/ (u \in At({"push"}) /\ block'[u] = block[u])
    BY <1>1 DEF At, Others
  <2>3. t \notin At({"count"})' /\ (t \in At({"push"})' => pc'[t] = "push")
    BY <1>1 DEF At
  <2>4. \A u \in Moving' \cup At({"count"})' : block'[u] \in Created'
    BY <1>0, <1>1, <2>1 DEF IInv, Hands
  <2>5. \A u \in Moving' : block'[u] \notin holds'[u]
    BY <1>0, <1>1, <2>1 DEF IInv, Hands
  <2>6. \A u \in At({"push"})' : fsMap'[Key(mBlocks'[block'[u]])] # Null
    BY <1>1, <2>2, <2>3 DEF IInv, Hands
  <2> QED BY <2>4, <2>5, <2>6 DEF Hands
<1>5. Bitmaps' /\ Lists'
  BY <1>1 DEF IInv, Bitmaps, Lists
<1>6. Apart'
  <2>1. \A u \in Threads : Mine(u)' \subseteq Mine(u)
    BY <1>0, <1>1, <1>2 DEF Mine, Others
  <2> QED BY <1>1, <2>1, QuietApart DEF IInv
<1>7. Fits'
  BY <1>1 DEF IInv, Fits, At, Others
<1> QED BY <1>3, <1>4, <1>5, <1>6, <1>7 DEF IInv

\* The first block of a key opens its list and is lost.
LEMMA PutIfAbsentStep == ASSUME IInv, TypeOK', NEW t \in Threads, PutIfAbsent(t)
                         PROVE  IInv'
<1> DEFINE k == Key(mBlocks[block[t]])
<1>0. /\ TypeOK /\ pc[t] = "putIfAbsent" /\ block[t] \in Created /\ k \in Keys
      /\ t \in Moving
  <2>1. TypeOK /\ pc[t] = "putIfAbsent" /\ block[t] \in Created /\ t \in Moving
    BY DEF PutIfAbsent, IInv, Hands, Moving, At
  <2> QED BY <2>1, CreatedType, KeyType
<1>1. /\ Others(t) /\ Created' = Created /\ pc'[t] = "count"
      /\ mBlocks' = mBlocks /\ holds' = holds /\ bitmap' = bitmap /\ block' = block
  BY <1>0 DEF PutIfAbsent, Goto, TypeOK, Others, Created
<1>2. \A l \in Keys : \/ fsMap'[l] = fsMap[l]
                      \/ fsMap[l] = Null /\ fsMap'[l] = << >>
  BY <1>0 DEF PutIfAbsent, TypeOK
<1>3. << >> # Null
  BY NullAssumption, EmptySeq
<1>4. t \notin Moving' /\ \A u \in Threads \ {t} : u \in Moving' <=> u \in Moving
  BY <1>1 DEF Moving, At, Others
<1>5. Requested' /\ Reservations'
  <2>1. Requested'
    BY <1>1 DEF IInv, Requested, At, Others
  <2> QED BY <1>1, <2>1, SameReservations DEF PutIfAbsent
<1>6. Hands'
  <2>1. \A u \in Moving' \cup At({"count"})' : u \in Moving \cup At({"count"})
    BY <1>0, <1>1 DEF Moving, At, Others
  <2>2. \A u \in Moving' : u \in Moving
    BY <1>0, <1>1 DEF Moving, At, Others
  <2>3. \A u \in At({"push"})' : u \in At({"push"}) /\ u \in Moving
    BY <1>1 DEF Moving, At, Others
  <2>4. \A u \in At({"push"})' : fsMap'[Key(mBlocks[block[u]])] # Null
    <3> TAKE u \in At({"push"})'
    <3>1. block[u] \in Created /\ fsMap[Key(mBlocks[block[u]])] # Null
      BY <2>3 DEF IInv, Hands
    <3>2. Key(mBlocks[block[u]]) \in Keys
      BY <1>0, <3>1, CreatedType, KeyType
    <3> QED BY <1>2, <1>3, <3>1, <3>2
  <2> QED BY <1>1, <2>1, <2>2, <2>4 DEF IInv, Hands
<1>7. Bitmaps'
  BY <1>1 DEF IInv, Bitmaps
<1>8. Lists'
  <2> SUFFICES ASSUME NEW l \in Keys, fsMap'[l] # Null
               PROVE  /\ \A j \in DOMAIN fsMap'[l] :
                           fsMap'[l][j] \in Created /\ Key(mBlocks[fsMap'[l][j]]) = l
                      /\ \A a, c \in DOMAIN fsMap'[l] : fsMap'[l][a] = fsMap'[l][c] => a = c
    BY <1>1 DEF Lists
  <2>1. CASE fsMap'[l] = fsMap[l]
    BY <2>1 DEF IInv, Lists
  <2>2. CASE fsMap'[l] = << >>
    BY <2>2
  <2> QED BY <1>2, <2>1, <2>2
<1>9. Listed' \subseteq Listed
  <2> SUFFICES ASSUME NEW i \in Listed' PROVE i \in Listed
    OBVIOUS
  <2>1. PICK l \in Keys : fsMap'[l] # Null /\ \E j \in DOMAIN fsMap'[l] : fsMap'[l][j] = i
    BY DEF Listed, Range
  <2>2. fsMap'[l] = fsMap[l]
    BY <1>2, <2>1
  <2> QED BY <2>1, <2>2, Listing
<1>10. Apart'
  <2>1. \A u \in Threads : Mine(u)' \subseteq Mine(u)
    BY <1>1, <1>4 DEF Mine
  <2> QED BY <1>9, <2>1 DEF IInv, Apart
<1>11. Fits'
  BY <1>1 DEF IInv, Fits, At, Others
<1> QED BY <1>5, <1>6, <1>7, <1>8, <1>10, <1>11 DEF IInv

\* The freed block goes to the head of the list of its key.
LEMMA PushFreeStep == ASSUME IInv, TypeOK', NEW t \in Threads, PushFree(t)
                      PROVE  IInv'
<1> DEFINE b == block[t]
           k == Key(mBlocks[b])
           s == fsMap[k]
<1>0. /\ TypeOK /\ pc[t] = "push" /\ t \in Moving /\ k \in Keys
      /\ b \in Created /\ b \in Indexes /\ b \notin holds[t]
      /\ s # Null /\ s \in Seq(Indexes)
  <2>1. TypeOK /\ pc[t] = "push" /\ t \in Moving
    BY DEF PushFree, IInv, Moving, At
  <2>2. b \in Created /\ b \notin holds[t] /\ s # Null
    BY <2>1 DEF IInv, Hands, At
  <2>3. k \in Keys /\ b \in Indexes
    BY <2>1, <2>2, CreatedType, KeyType
  <2> QED BY <2>1, <2>2, <2>3 DEF TypeOK
<1>1. /\ Others(t) /\ Created' = Created /\ pc'[t] = "count"
      /\ mBlocks' = mBlocks /\ holds' = holds /\ bitmap' = bitmap /\ block' = block
  BY <1>0 DEF PushFree, Goto, TypeOK, Others, Created
<1>2. fsMap'[k] = <<b>> \o s /\ \A l \in Keys : l # k => fsMap'[l] = fsMap[l]
  BY <1>0 DEF PushFree, TypeOK
<1>3. /\ <<b>> \o s # Null
      /\ \A j \in DOMAIN (<<b>> \o s) :
           \/ j = 1 /\ (<<b>> \o s)[j] = b
           \/ /\ j \in Nat /\ j > 1 /\ j - 1 \in DOMAIN s
              /\ (<<b>> \o s)[j] = s[j - 1]
  BY <1>0, Pushed, NullAssumption
<1>4. /\ \A j \in DOMAIN s : s[j] \in Created /\ Key(mBlocks[s[j]]) = k /\ s[j] # b
      /\ \A a, c \in DOMAIN s : s[a] = s[c] => a = c
  <2>1. b \notin Listed
    BY <1>0 DEF IInv, Apart, Mine
  <2> QED BY <1>0, <2>1, Listing DEF IInv, Lists
<1>5. Requested' /\ Reservations'
  <2>1. Requested'
    BY <1>1 DEF IInv, Requested, At, Others
  <2> QED BY <1>1, <2>1, SameReservations DEF PushFree
<1>6. Hands'
  <2>1. \A u \in Moving' \cup At({"count"})' : u \in Moving \cup At({"count"})
    BY <1>0, <1>1 DEF Moving, At, Others
  <2>2. \A u \in Moving' : u \in Moving
    BY <1>0, <1>1 DEF Moving, At, Others
  <2>3. \A u \in At({"push"})' : u \in At({"push"}) /\ u \in Moving
    BY <1>1 DEF Moving, At, Others
  <2>4. \A u \in At({"push"})' : fsMap'[Key(mBlocks[block[u]])] # Null
    <3> TAKE u \in At({"push"})'
    <3>1. block[u] \in Created /\ fsMap[Key(mBlocks[block[u]])] # Null
      BY <2>3 DEF IInv, Hands
    <3>2. Key(mBlocks[block[u]]) \in Keys
      BY <1>0, <3>1, CreatedType, KeyType
    <3> QED BY <1>2, <1>3, <3>1, <3>2
  <2> QED BY <1>1, <2>1, <2>2, <2>4 DEF IInv, Hands
<1>7. Bitmaps'
  BY <1>1 DEF IInv, Bitmaps
<1>8. Lists'
  <2> SUFFICES ASSUME NEW l \in Keys, fsMap'[l] # Null
               PROVE  /\ \A j \in DOMAIN fsMap'[l] :
                           fsMap'[l][j] \in Created /\ Key(mBlocks[fsMap'[l][j]]) = l
                      /\ \A a, c \in DOMAIN fsMap'[l] : fsMap'[l][a] = fsMap'[l][c] => a = c
    BY <1>1 DEF Lists
  <2>1. CASE l # k
    BY <1>2, <2>1 DEF IInv, Lists
  <2>2. CASE l = k
    <3> DEFINE n == <<b>> \o s
    <3>1. /\ fsMap'[k] = n
          /\ \A j \in DOMAIN n :
               \/ j = 1 /\ n[j] = b
               \/ j \in Nat /\ j > 1 /\ j - 1 \in DOMAIN s /\ n[j] = s[j - 1]
      BY <1>2, <1>3
    <3> HIDE DEF n
    <3>2. \A j \in DOMAIN n : n[j] \in Created /\ Key(mBlocks[n[j]]) = k
      BY <1>0, <1>4, <3>1
    <3>3. \A a, c \in DOMAIN n : n[a] = n[c] => a = c
      <4> SUFFICES ASSUME NEW a \in DOMAIN n, NEW c \in DOMAIN n, n[a] = n[c]
                   PROVE  a = c
        OBVIOUS
      <4>1. CASE a = 1 \/ c = 1
        BY <1>4, <3>1, <4>1
      <4>2. CASE a # 1 /\ c # 1
        <5>1. /\ a \in Nat /\ a - 1 \in DOMAIN s /\ n[a] = s[a - 1]
              /\ c \in Nat /\ c - 1 \in DOMAIN s /\ n[c] = s[c - 1]
          BY <3>1, <4>2
        <5>2. a - 1 = c - 1
          BY <1>4, <5>1
        <5> QED BY <5>1, <5>2
      <4> QED BY <4>1, <4>2
    <3> QED BY <2>2, <3>1, <3>2, <3>3
  <2> QED BY <2>1, <2>2
<1>9. Listed' \subseteq Listed \cup {b}
  <2> SUFFICES ASSUME NEW i \in Listed', i # b PROVE i \in Listed
    OBVIOUS
  <2>1. PICK l \in Keys : fsMap'[l] # Null /\ \E j \in DOMAIN fsMap'[l] : fsMap'[l][j] = i
    BY DEF Listed, Range
  <2>2. CASE l = k
    <3>1. PICK j \in DOMAIN (<<b>> \o s) : (<<b>> \o s)[j] = i
      BY <1>2, <2>1, <2>2
    <3>2. j - 1 \in DOMAIN s /\ s[j - 1] = i
      BY <1>3, <3>1
    <3> QED BY <1>0, <3>2, Listing
  <2>3. CASE l # k
    BY <1>2, <2>1, <2>3, Listing
  <2> QED BY <2>2, <2>3
<1>10. Apart'
  <2>1. /\ Mine(t) = Mine(t)' \cup {b} /\ b \notin Mine(t)'
        /\ \A u \in Threads \ {t} : Mine(u)' = Mine(u)
    <3>1. t \notin Moving' /\ \A u \in Threads \ {t} : u \in Moving' <=> u \in Moving
      BY <1>1 DEF Moving, At, Others
    <3> QED BY <1>0, <1>1, <3>1 DEF Mine
  <2> QED BY <1>9, <2>1 DEF IInv, Apart
<1>11. Fits'
  BY <1>1 DEF IInv, Fits, At, Others
<1> QED BY <1>5, <1>6, <1>7, <1>8, <1>10, <1>11 DEF IInv

-----------------------------------------------------------------------------
(* One user for a block.                                                   *)

\* Every step keeps the invariant.
LEMMA Step == IInv /\ [Next]_vars => IInv'
<1> SUFFICES ASSUME IInv, [Next]_vars PROVE IInv'
  OBVIOUS
<1>1. TypeOK'
  BY TypeStep
<1>2. CASE UNCHANGED vars
  BY <1>2 DEF vars, IInv, TypeOK, Requested, Reservations, Hands, Bitmaps, Lists,
       Apart, Fits, Mine, Moving, At, Listed, Created
<1>3. CASE Next
  BY <1>1, <1>3, CreateStep, PopFreeStep, ReuseStep, CheckSpaceStep, GetStep,
     CasStep, PublishStep, FreeMeStep, PutIfAbsentStep, PushFreeStep,
     CountFreeStep, FinishStep DEF Next, Inside
<1> QED BY <1>2, <1>3

\* In every execution of createMemoryBlock and freeMe by any number of threads
\* a block is in one place and the reservations are distinct.
THEOREM Invariant == Spec => []IInv
<1> QED BY Start, Step, PTL DEF Spec

\* The index of the table never leaves it: the full test comes before every
\* reservation, also a repeated one (MemoryManager.java:460).
THEOREM TypeCorrect == Spec => []TypeOK
<1>1. IInv => TypeOK
  BY DEF IInv
<1> QED BY <1>1, Invariant, PTL

\* For any number of threads, sizes and blocks: no block has two users, and a
\* block in use or on its way to or from a list is on no list.
THEOREM OneUser == Spec => []Exclusive
<1>1. IInv => Exclusive
  <2> SUFFICES ASSUME IInv PROVE Exclusive
    OBVIOUS
  <2>1. ASSUME NEW k \in Keys, NEW l \in Keys, k # l, Null \notin {fsMap[k], fsMap[l]}
        PROVE  Range(fsMap[k]) \cap Range(fsMap[l]) = {}
    BY <2>1 DEF IInv, Lists, Range
  <2> QED BY <2>1 DEF IInv, Apart, Exclusive
<1> QED BY <1>1, Invariant, PTL

\* A byte block that is reused has the size that was asked for, whatever other
\* threads push and pop (FreeSpaceManager.java:73-97).
THEOREM ReuseFits == Spec => []BytesFit
<1>1. IInv => BytesFit
  <2> SUFFICES ASSUME IInv, NEW t \in At({"popped"}), req[t].kind = "bytes"
               PROVE  mBlocks[block[t]].size = req[t].size
    BY DEF BytesFit
  <2>1. Key(mBlocks[block[t]]) = Key(req[t])
    BY DEF IInv, Fits
  <2>2. Key(req[t]) = <<"bytes", req[t].size>>
    BY DEF Key
  <2>3. Key(mBlocks[block[t]])[1] = "bytes" /\ Key(mBlocks[block[t]])[2] = req[t].size
    BY <2>1, <2>2
  <2>4. mBlocks[block[t]].kind = "bytes"
    <3>1. Key(mBlocks[block[t]])[1] = mBlocks[block[t]].kind
      BY DEF Key
    <3> QED BY <2>3, <3>1
  <2> QED BY <2>3, <2>4 DEF Key
<1> QED BY <1>1, Invariant, PTL

-----------------------------------------------------------------------------
(* Sums over finite sets.                                                  *)

\* A set of numbers that is not empty has a least element.
LEMMA Least == ASSUME NEW T \in SUBSET Nat, T # {}
               PROVE  \E x \in T : \A y \in T : x <= y
<1>1. PICK x \in T : \A y \in T : ~(<<y, x>> \in OpToRel(<, Nat))
  BY NatLessThanWellFounded, WFMin
<1>2. \A y \in T : ~(y < x)
  BY <1>1, Zenon DEF OpToRel
<1> QED BY <1>2

\* The sum of a function over a set, and the recursion that computes it.
SumOver(f, S) == MapThenSumSet(LAMBDA x : f[x], S)
Pick(S) == CHOOSE x \in S : TRUE
Sums(f, S, g) == g = [s \in SUBSET S |-> IF s = {} THEN 0
                                         ELSE f[Pick(s)] + g[s \ {Pick(s)}]]

\* One element less.
LEMMA Picked == ASSUME NEW S, S # {}, IsFiniteSet(S)
                PROVE  /\ Pick(S) \in S
                       /\ IsFiniteSet(S \ {Pick(S)})
                       /\ Cardinality(S) \in Nat
                       /\ Cardinality(S \ {Pick(S)}) \in Nat
                       /\ Cardinality(S \ {Pick(S)}) < Cardinality(S)
<1>1. Pick(S) \in S
  BY DEF Pick
<1>2. /\ IsFiniteSet(S \ {Pick(S)}) /\ Cardinality(S) \in Nat
      /\ Cardinality(S \ {Pick(S)}) = Cardinality(S) - 1
  BY <1>1, FS_RemoveElement, FS_CardinalityType
<1>3. Cardinality(S \ {Pick(S)}) \in Nat
  BY <1>2, FS_CardinalityType
<1> QED BY <1>1, <1>2, <1>3

\* Two computations agree where both are defined.
LEMMA SumsAgree ==
  ASSUME NEW f, NEW A, NEW B, NEW g, NEW h, Sums(f, A, g), Sums(f, B, h),
         NEW S, S \subseteq A, S \subseteq B, IsFiniteSet(S)
  PROVE  g[S] = h[S]
<1> DEFINE Bad == {n \in Nat : \E T \in SUBSET S : IsFiniteSet(T) /\ Cardinality(T) = n /\ g[T] # h[T]}
<1>1. Bad = {}
  <2> SUFFICES ASSUME Bad # {} PROVE FALSE
    OBVIOUS
  <2>1. PICK n \in Bad : \A l \in Bad : n <= l
    BY Least
  <2>2. PICK T \in SUBSET S : IsFiniteSet(T) /\ Cardinality(T) = n /\ g[T] # h[T]
    OBVIOUS
  <2>3. T \in SUBSET A /\ T \in SUBSET B
    OBVIOUS
  <2>4. T # {}
    BY <2>2, <2>3, Zenon DEF Sums
  <2> DEFINE R == T \ {Pick(T)}
  <2>5. g[T] = f[Pick(T)] + g[R] /\ h[T] = f[Pick(T)] + h[R]
    BY <2>3, <2>4, Zenon DEF Sums
  <2>6. R \in SUBSET S /\ IsFiniteSet(R) /\ Cardinality(R) \in Nat /\ Cardinality(R) < n
    BY <2>2, <2>4, Picked
  <2>7. g[R] = h[R]
    BY <2>1, <2>6
  <2> QED BY <2>2, <2>5, <2>7
<1> QED BY <1>1, FS_CardinalityType

\* There is a computation for every finite set.
LEMMA SumsExist ==
  ASSUME NEW f, NEW S, IsFiniteSet(S)
  PROVE  \E g : Sums(f, S, g)
<1> DEFINE Bad == {n \in Nat : \E T \in SUBSET S : Cardinality(T) = n /\ ~\E g : Sums(f, T, g)}
<1>1. Bad = {}
  <2> SUFFICES ASSUME Bad # {} PROVE FALSE
    OBVIOUS
  <2>1. PICK n \in Bad : \A l \in Bad : n <= l
    BY Least
  <2>2. PICK T \in SUBSET S : Cardinality(T) = n /\ ~\E g : Sums(f, T, g)
    OBVIOUS
  <2>3. IsFiniteSet(T)
    BY FS_Subset
  <2>4. ASSUME NEW U \in SUBSET T, U # T
        PROVE  IsFiniteSet(U) /\ \E g : Sums(f, U, g)
    <3>1. IsFiniteSet(U) /\ Cardinality(U) < Cardinality(T) /\ Cardinality(U) \in Nat
      BY <2>3, <2>4, FS_Subset, FS_CardinalityType
    <3> QED BY <3>1, <2>1, <2>2
  <2> DEFINE v == [U \in SUBSET T |-> (CHOOSE g : Sums(f, U, g))[U]]
             c == Pick(T)
             g == [s \in SUBSET T |-> IF s = {} THEN 0
                                      ELSE f[Pick(s)] + v[s \ {Pick(s)}]]
  <2>5. ASSUME NEW U \in SUBSET T, U # T, NEW W \in SUBSET U, NEW h, Sums(f, U, h)
        PROVE  v[W] = h[W]
    <3>1. W # T /\ W \in SUBSET T
      BY <2>5
    <3>2. IsFiniteSet(W) /\ \E k : Sums(f, W, k)
      BY <3>1, <2>4
    <3>3. PICK k : k = CHOOSE j : Sums(f, W, j)
      OBVIOUS
    <3>4. Sums(f, W, k) /\ v[W] = k[W]
      BY <3>1, <3>2, <3>3, Zenon
    <3> QED BY <3>2, <3>4, <2>5, SumsAgree
  <2>6. ASSUME NEW s \in SUBSET T, s # {}
        PROVE  v[s \ {Pick(s)}] = g[s \ {Pick(s)}]
    <3>1. Pick(s) \in s
      BY <2>6 DEF Pick
    <3> DEFINE r == s \ {Pick(s)}
    <3>2. r \in SUBSET T /\ r # T
      BY <3>1
    <3>3. PICK h : Sums(f, r, h)
      BY <3>2, <2>4
    <3>4. v[r] = h[r]
      BY <3>2, <3>3, <2>5
    <3>5. CASE r = {}
      BY <3>3, <3>4, <3>5, <3>2, Zenon DEF Sums
    <3>6. CASE r # {}
      <4>1. h[r] = f[Pick(r)] + h[r \ {Pick(r)}]
        BY <3>3, <3>6, Zenon DEF Sums
      <4>2. h[r \ {Pick(r)}] = v[r \ {Pick(r)}]
        BY <3>2, <3>3, <2>5
      <4>3. g[r] = f[Pick(r)] + v[r \ {Pick(r)}]
        BY <3>2, <3>6, Zenon
      <4> QED BY <3>4, <4>1, <4>2, <4>3
    <3> QED BY <3>5, <3>6
  <2>7. Sums(f, T, g)
    <3> DEFINE k == [s \in SUBSET T |-> IF s = {} THEN 0 ELSE f[Pick(s)] + g[s \ {Pick(s)}]]
    <3>1. ASSUME NEW s \in SUBSET T
          PROVE  g[s] = k[s]
      <4>1. CASE s = {}
        BY <4>1, Zenon
      <4>2. CASE s # {}
        <5>1. g[s] = f[Pick(s)] + v[s \ {Pick(s)}]
          BY <4>2, Zenon
        <5> HIDE DEF g, v
        <5>2. k[s] = f[Pick(s)] + g[s \ {Pick(s)}]
          BY <4>2, Zenon
        <5> QED BY <5>1, <5>2, <4>2, <2>6, Zenon
      <4> QED BY <4>1, <4>2
    <3>2. g = [s \in SUBSET T |-> g[s]] /\ k = [s \in SUBSET T |-> k[s]]
      OBVIOUS
    <3> HIDE DEF g, v, k
    <3>3. g = k
      BY <3>1, <3>2
    <3> QED BY <3>3, Zenon DEF Sums, k
  <2> QED BY <2>2, <2>7
<1>2. Cardinality(S) \in Nat
  BY FS_CardinalityType
<1> QED BY <1>1, <1>2

\* MapThenSumSet is that computation.
LEMMA SumIs == ASSUME NEW f, NEW S, IsFiniteSet(S)
               PROVE  \E g : Sums(f, S, g) /\ SumOver(f, S) = g[S]
<1>1. SumOver(f, S) = (CHOOSE g : Sums(f, S, g))[S]
  BY Zenon DEF SumOver, MapThenSumSet, MapThenFoldSet, Sums, Pick
<1>2. PICK h : h = CHOOSE g : Sums(f, S, g)
  OBVIOUS
<1>3. Sums(f, S, h)
  BY <1>2, SumsExist, Zenon
<1> QED BY <1>1, <1>2, <1>3

\* Nothing adds up to 0.
LEMMA SumEmpty == ASSUME NEW f PROVE SumOver(f, {}) = 0
<1>1. PICK g : Sums(f, {}, g) /\ SumOver(f, {}) = g[{}]
  BY SumIs, FS_EmptySet
<1>2. g[{}] = 0
  BY <1>1, Zenon DEF Sums
<1> QED BY <1>1, <1>2

\* The recursion of MapThenSumSet, one step.
LEMMA SumPick ==
  ASSUME NEW f, NEW S, IsFiniteSet(S), S # {}
  PROVE  SumOver(f, S) = f[Pick(S)] + SumOver(f, S \ {Pick(S)})
<1> DEFINE R == S \ {Pick(S)}
<1>1. PICK g : Sums(f, S, g) /\ SumOver(f, S) = g[S]
  BY SumIs
<1>2. PICK h : Sums(f, R, h) /\ SumOver(f, R) = h[R]
  BY SumIs, Picked
<1>3. g[S] = f[Pick(S)] + g[R]
  BY <1>1, Zenon DEF Sums
<1>4. R \subseteq S /\ R \subseteq R /\ IsFiniteSet(R)
  BY Picked
<1>5. g[R] = h[R]
  BY <1>1, <1>2, <1>4, SumsAgree
<1> QED BY <1>1, <1>2, <1>3, <1>5

\* The sum of natural numbers is one.
LEMMA SumNat ==
  ASSUME NEW S, IsFiniteSet(S), NEW f, \A x \in S : f[x] \in Nat
  PROVE  SumOver(f, S) \in Nat
<1> DEFINE Bad == {n \in Nat : \E T \in SUBSET S :
                     Cardinality(T) = n /\ SumOver(f, T) \notin Nat}
<1>1. Bad = {}
  <2> SUFFICES ASSUME Bad # {} PROVE FALSE
    OBVIOUS
  <2>1. PICK n \in Bad : \A l \in Bad : n <= l
    BY Least
  <2>2. PICK T \in SUBSET S : Cardinality(T) = n /\ SumOver(f, T) \notin Nat
    OBVIOUS
  <2>3. T # {} /\ IsFiniteSet(T)
    <3>1. SumOver(f, {}) \in Nat
      BY SumEmpty
    <3> QED BY <2>2, <3>1, FS_Subset
  <2> DEFINE R == T \ {Pick(T)}
  <2>4. SumOver(f, T) = f[Pick(T)] + SumOver(f, R)
    BY <2>3, SumPick
  <2>5. Pick(T) \in S /\ R \in SUBSET S /\ Cardinality(R) \in Nat /\ Cardinality(R) < n
    BY <2>2, <2>3, Picked
  <2>6. SumOver(f, R) \in Nat
    BY <2>1, <2>5
  <2> HIDE DEF R
  <2>7. f[Pick(T)] \in Nat
    BY <2>5
  <2> QED BY <2>2, <2>4, <2>6, <2>7
<1> QED BY <1>1, FS_CardinalityType

\* It depends on the values in the set only.
LEMMA SumSame ==
  ASSUME NEW S, IsFiniteSet(S), NEW f, NEW h, \A x \in S : f[x] = h[x]
  PROVE  SumOver(f, S) = SumOver(h, S)
<1> DEFINE Bad == {n \in Nat : \E T \in SUBSET S :
                     Cardinality(T) = n /\ SumOver(f, T) # SumOver(h, T)}
<1>1. Bad = {}
  <2> SUFFICES ASSUME Bad # {} PROVE FALSE
    OBVIOUS
  <2>1. PICK n \in Bad : \A l \in Bad : n <= l
    BY Least
  <2>2. PICK T \in SUBSET S : Cardinality(T) = n /\ SumOver(f, T) # SumOver(h, T)
    OBVIOUS
  <2>3. T # {} /\ IsFiniteSet(T)
    BY <2>2, SumEmpty, FS_Subset
  <2> DEFINE R == T \ {Pick(T)}
  <2>4. SumOver(f, T) = f[Pick(T)] + SumOver(f, R) /\ SumOver(h, T) = h[Pick(T)] + SumOver(h, R)
    BY <2>3, SumPick
  <2>5. Pick(T) \in S /\ R \in SUBSET S /\ Cardinality(R) \in Nat /\ Cardinality(R) < n
    BY <2>2, <2>3, Picked
  <2>6. SumOver(f, R) = SumOver(h, R) /\ f[Pick(T)] = h[Pick(T)]
    BY <2>1, <2>5
  <2> QED BY <2>2, <2>4, <2>6
<1> QED BY <1>1, FS_CardinalityType

\* A new element adds its value, wherever the recursion meets it.
LEMMA SumAdd ==
  ASSUME NEW S, IsFiniteSet(S), NEW x, x \notin S,
         NEW f, \A y \in S \cup {x} : f[y] \in Nat
  PROVE  SumOver(f, S \cup {x}) = f[x] + SumOver(f, S)
<1> DEFINE Bad == {n \in Nat : \E T \in SUBSET (S \cup {x}), z \in S \cup {x} :
                     z \notin T /\ Cardinality(T) = n
                     /\ SumOver(f, T \cup {z}) # f[z] + SumOver(f, T)}
<1>1. Bad = {}
  <2> SUFFICES ASSUME Bad # {} PROVE FALSE
    OBVIOUS
  <2>1. PICK n \in Bad : \A l \in Bad : n <= l
    BY Least
  <2>2. PICK T \in SUBSET (S \cup {x}), z \in S \cup {x} :
                     z \notin T /\ Cardinality(T) = n
                     /\ SumOver(f, T \cup {z}) # f[z] + SumOver(f, T)
    OBVIOUS
  <2> DEFINE U == T \cup {z}
             c == Pick(U)
             R == T \ {c}
  <2>3. IsFiniteSet(T) /\ IsFiniteSet(U) /\ U # {}
    BY FS_AddElement, FS_Subset
  <2>4. c \in U /\ SumOver(f, U) = f[c] + SumOver(f, U \ {c})
    BY <2>3, Picked, SumPick
  <2>5. c # z /\ c \in T
    BY <2>2, <2>4
  <2>6. U \ {c} = R \cup {z} /\ T = R \cup {c} /\ z \notin R /\ c \notin R
        /\ R \in SUBSET (S \cup {x}) /\ c \in S \cup {x}
    BY <2>2, <2>5
  <2>7. Cardinality(R) = n - 1 /\ Cardinality(R) \in Nat /\ IsFiniteSet(R)
    BY <2>2, <2>3, <2>5, FS_RemoveElement, FS_CardinalityType
  <2> HIDE DEF U, c, R
  <2>8. Cardinality(R) \notin Bad
    <3>1. n \in Nat
      OBVIOUS
    <3> HIDE DEF Bad
    <3> QED BY <2>1, <2>7, <3>1
  <2>9. SumOver(f, R \cup {z}) = f[z] + SumOver(f, R) /\ SumOver(f, R \cup {c}) = f[c] + SumOver(f, R)
    BY <2>6, <2>7, <2>8
  <2>10. f[c] \in Nat /\ f[z] \in Nat /\ SumOver(f, R) \in Nat
    BY <2>6, <2>7, SumNat
  <2> QED BY <2>2, <2>4, <2>6, <2>9, <2>10 DEF U
<1>2. Cardinality(S) \in Nat /\ Cardinality(S) \notin Bad
  BY <1>1, FS_CardinalityType
<1> QED BY <1>2

\* Space is the sum of the sizes.
LEMMA SpaceSum == ASSUME NEW b, NEW S, IsFiniteSet(S)
                  PROVE  Space(b, S) = SumOver([x \in S |-> b[x].size], S)
<1> DEFINE f == [x \in S |-> b[x].size]
           Rec(g) == g = [s \in SUBSET S |-> IF s = {} THEN 0
                            ELSE b[Pick(s)].size + g[s \ {Pick(s)}]]
<1>1. Space(b, S) = (CHOOSE g : Rec(g))[S]
  BY Zenon DEF Space, MapThenSumSet, MapThenFoldSet, Pick
<1>2. ASSUME NEW g PROVE Rec(g) <=> Sums(f, S, g)
  <2>1. \A s \in SUBSET S : s # {} => f[Pick(s)] = b[Pick(s)].size
    BY DEF Pick
  <2> HIDE DEF f
  <2>2. [s \in SUBSET S |-> IF s = {} THEN 0 ELSE b[Pick(s)].size + g[s \ {Pick(s)}]]
        = [s \in SUBSET S |-> IF s = {} THEN 0 ELSE f[Pick(s)] + g[s \ {Pick(s)}]]
    BY <2>1
  <2> QED BY <2>2, Zenon DEF Sums
<1>3. PICK h : Sums(f, S, h) /\ SumOver(f, S) = h[S]
  BY SumIs
<1>4. PICK k : k = CHOOSE g : Rec(g)
  OBVIOUS
<1> HIDE DEF f, Rec
<1>5. Sums(f, S, k)
  BY <1>2, <1>3, <1>4, Zenon
<1>6. k[S] = h[S]
  BY <1>3, <1>5, SumsAgree
<1> QED BY <1>1, <1>3, <1>4, <1>6 DEF f

\* The space only depends on the sizes of the members.
LEMMA SpaceSame ==
  ASSUME NEW S, IsFiniteSet(S), NEW a, NEW b, \A x \in S : a[x].size = b[x].size
  PROVE  Space(a, S) = Space(b, S)
<1>1. [x \in S |-> a[x].size] = [x \in S |-> b[x].size]
  OBVIOUS
<1> QED BY <1>1, SpaceSum

\* The space is a number.
LEMMA SpaceNat ==
  ASSUME NEW S, IsFiniteSet(S), NEW b, \A x \in S : b[x].size \in Nat
  PROVE  Space(b, S) \in Nat
<1>1. \A x \in S : [y \in S |-> b[y].size][x] \in Nat
  OBVIOUS
<1> QED BY <1>1, SpaceSum, SumNat

\* One more member adds its size.
LEMMA SpaceAdd ==
  ASSUME NEW S, IsFiniteSet(S), NEW z, z \notin S,
         NEW b, \A x \in S \cup {z} : b[x].size \in Nat
  PROVE  Space(b, S \cup {z}) = b[z].size + Space(b, S)
<1> DEFINE T == S \cup {z}
           f == [x \in T |-> b[x].size]
           h == [x \in S |-> b[x].size]
<1>1. f[z] = b[z].size /\ \A x \in T : f[x] \in Nat
  OBVIOUS
<1>2. \A x \in S : f[x] = h[x]
  OBVIOUS
<1> HIDE DEF f, h
<1>3. SumOver(f, T) = f[z] + SumOver(f, S)
  BY <1>1, SumAdd
<1>4. SumOver(f, S) = SumOver(h, S)
  BY <1>2, SumSame
<1>5. IsFiniteSet(T)
  BY FS_AddElement
<1>6. Space(b, T) = SumOver(f, T) /\ Space(b, S) = SumOver(h, S)
  BY <1>5, SpaceSum DEF f, h
<1> QED BY <1>1, <1>3, <1>4, <1>6

\* No member, no space.
LEMMA SpaceEmpty == ASSUME NEW b PROVE Space(b, {}) = 0
BY SumEmpty, SpaceSum, FS_EmptySet

-----------------------------------------------------------------------------
(* The bound on the overcommitment.                                        *)

\* The largest size.
LEMMA Largest == Max(Sizes) \in Sizes /\ \A x \in Sizes : x <= Max(Sizes)
<1> DEFINE HasMax(T) == \E x \in T : \A y \in T : x >= y
           Bad == {n \in Nat : \E T \in SUBSET Sizes :
                     T # {} /\ Cardinality(T) = n /\ ~HasMax(T)}
<1>1. Sizes \subseteq Nat /\ IsFiniteSet(Sizes) /\ Sizes # {}
  BY SizeAssumption
<1>2. Bad = {}
  <2> SUFFICES ASSUME Bad # {} PROVE FALSE
    OBVIOUS
  <2>1. PICK n \in Bad : \A l \in Bad : n <= l
    BY Least
  <2>2. PICK T \in SUBSET Sizes : T # {} /\ Cardinality(T) = n /\ ~HasMax(T)
    OBVIOUS
  <2>3. IsFiniteSet(T)
    BY <1>1, FS_Subset
  <2> DEFINE x == Pick(T)
             R == T \ {x}
  <2>4. x \in T /\ R \in SUBSET Sizes /\ Cardinality(R) \in Nat /\ Cardinality(R) < n
    BY <2>2, <2>3, Picked
  <2>5. R # {}
    <3>1. R = {} => T = {x}
      BY <2>4
    <3>2. x \in Nat
      BY <2>4, <1>1
    <3> HIDE DEF x
    <3>3. HasMax({x})
      BY <3>2
    <3> QED BY <2>2, <3>1, <3>3
  <2>6. HasMax(R)
    <3> HIDE DEF HasMax
    <3> QED BY <2>1, <2>4, <2>5
  <2>7. PICK m \in R : \A y \in R : m >= y
    BY <2>6
  <2>8. x \in Nat /\ m \in Nat /\ \A y \in T : y = x \/ y \in R
    BY <2>4, <2>7, <1>1
  <2>9. HasMax(T)
    BY <2>4, <2>7, <2>8, <1>1
  <2> QED BY <2>2, <2>9
<1>3. HasMax(Sizes)
  BY <1>1, <1>2, FS_CardinalityType
<1>4. Max(Sizes) \in Sizes /\ \A y \in Sizes : Max(Sizes) >= y
  BY <1>3, Zenon DEF Max
<1> QED BY <1>1, <1>4

\* Two facts about products that the solver needs.
LEMMA Products ==
  ASSUME NEW k \in Int, NEW m \in Nat
  PROVE  /\ k * m \in Int
         /\ (k - 1) * m = k * m - m
         /\ k >= 0 => k * m >= 0
OBVIOUS

\* A product grows with its first factor.
LEMMA ProductsUp ==
  ASSUME NEW j \in Int, NEW k \in Int, j <= k, NEW m \in Nat
  PROVE  j * m <= k * m
OBVIOUS

\* The threads that will reserve unless they find a free block or the table
\* full: they have passed the check, or will.
Passed == {t \in Threads :
             \/ pc[t] \in {"get", "cas"}
             \/ pc[t] = "lookup" /\ temp[t].space + req[t].size <= Total}

Limit == Total + (Cardinality(Threads) - 1) * Max(Sizes)

\* The last of them to read the used space saw room for its own request; the
\* others ask for the largest size at most.
Commitment ==
  /\ usedSpaceIndex.space <= Limit
  /\ Passed # {} =>
       \E t \in Passed :
         usedSpaceIndex.space + req[t].size + (Cardinality(Passed) - 1) * Max(Sizes)
           <= Limit

\* The numbers in a commitment.
LEMMA Amounts ==
  ASSUME TypeOK, Requested
  PROVE  /\ Total \in Nat /\ Max(Sizes) \in Nat /\ usedSpaceIndex.space \in Nat
         /\ IsFiniteSet(Passed) /\ Cardinality(Passed) \in Nat
         /\ Cardinality(Passed) <= Cardinality(Threads)
         /\ Cardinality(Threads) \in Nat /\ Limit \in Int
         /\ \A t \in Passed : /\ req[t].size \in Nat /\ req[t].size > 0
                              /\ req[t].size <= Max(Sizes)
<1>1. Total \in Nat /\ Max(Sizes) \in Nat /\ usedSpaceIndex.space \in Nat
  BY Largest, SizeAssumption, LimitAssumption DEF TypeOK
<1>2. IsFiniteSet(Threads) /\ Passed \in SUBSET Threads
  BY ThreadAssumption DEF Passed
<1>3. /\ IsFiniteSet(Passed) /\ Cardinality(Passed) \in Nat
      /\ Cardinality(Passed) <= Cardinality(Threads)
      /\ Cardinality(Threads) \in Nat
  BY <1>2, FS_Subset, FS_CardinalityType
<1>4. Limit \in Int
  BY <1>1, <1>3 DEF Limit
<1>5. ASSUME NEW t \in Passed PROVE req[t].size \in Sizes
  BY DEF Passed, Requested, At, Requests
<1>6. \A x \in Sizes : x \in Nat /\ x > 0 /\ x <= Max(Sizes)
  BY Largest, SizeAssumption
<1> QED BY <1>1, <1>3, <1>4, <1>5, <1>6

\* The same, after a step.
LEMMA AmountsNext ==
  ASSUME TypeOK', Requested'
  PROVE  /\ Total \in Nat /\ Max(Sizes) \in Nat /\ usedSpaceIndex'.space \in Nat
         /\ IsFiniteSet(Passed') /\ Cardinality(Passed') \in Nat
         /\ Cardinality(Passed') <= Cardinality(Threads)
         /\ Cardinality(Threads) \in Nat /\ Limit \in Int
         /\ \A t \in Passed' : /\ req'[t].size \in Nat /\ req'[t].size > 0
                               /\ req'[t].size <= Max(Sizes)
<1>1. Total \in Nat /\ Max(Sizes) \in Nat /\ usedSpaceIndex'.space \in Nat
  BY Largest, SizeAssumption, LimitAssumption DEF TypeOK
<1>2. IsFiniteSet(Threads) /\ Passed' \in SUBSET Threads
  BY ThreadAssumption DEF Passed
<1>3. /\ IsFiniteSet(Passed') /\ Cardinality(Passed') \in Nat
      /\ Cardinality(Passed') <= Cardinality(Threads)
      /\ Cardinality(Threads) \in Nat
  BY <1>2, FS_Subset, FS_CardinalityType
<1>4. Limit \in Int
  BY <1>1, <1>3 DEF Limit
<1>5. ASSUME NEW t \in Passed' PROVE req'[t].size \in Sizes
  BY DEF Passed, Requested, At, Requests
<1>6. \A x \in Sizes : x \in Nat /\ x > 0 /\ x <= Max(Sizes)
  BY Largest, SizeAssumption
<1> QED BY <1>1, <1>3, <1>4, <1>5, <1>6

\* One more thread gets past the check.
LEMMA Joins ==
  ASSUME TypeOK, Requested, TypeOK', Requested', NEW t \in Threads,
         Passed' = Passed \cup {t},
         usedSpaceIndex' = usedSpaceIndex,
         usedSpaceIndex.space + req'[t].size <= Total
  PROVE  Commitment'
<1> DEFINE u == usedSpaceIndex.space
           M == Max(Sizes)
           p == Cardinality(Passed')
           N == Cardinality(Threads)
           z == req'[t].size
<1>1. /\ Total \in Nat /\ M \in Nat /\ u \in Nat /\ p \in Nat /\ p <= N /\ N \in Nat
      /\ z \in Nat /\ Limit \in Int /\ Limit = Total + (N - 1) * M
  BY Amounts, AmountsNext DEF Limit
<1>2. u + z <= Total /\ p # 0
  BY AmountsNext, FS_EmptySet
<1> HIDE DEF u, M, p, N, z
<1>3. (p - 1) * M <= (N - 1) * M /\ (p - 1) * M \in Int /\ (N - 1) * M \in Int /\ (N - 1) * M >= 0
  BY <1>1, <1>2, Products, ProductsUp
<1>4. u + z + (p - 1) * M <= Limit /\ u <= Limit
  BY <1>1, <1>2, <1>3
<1> QED BY <1>4 DEF Commitment, u, M, p, z

\* A thread that was past the check is not any more.
LEMMA Leaves ==
  ASSUME TypeOK, Requested, TypeOK', Requested', Commitment, NEW t \in Passed,
         Passed' = Passed \ {t},
         \A v \in Passed' : req'[v] = req[v],
         usedSpaceIndex'.space \in
           {usedSpaceIndex.space, usedSpaceIndex.space + req[t].size}
  PROVE  Commitment'
<1> DEFINE u == usedSpaceIndex.space
           n == usedSpaceIndex'.space
           M == Max(Sizes)
           p == Cardinality(Passed)
           q == Cardinality(Passed')
<1>1. /\ M \in Nat /\ u \in Nat /\ p \in Nat /\ n \in Nat /\ q \in Nat /\ Limit \in Int
      /\ q = p - 1
  BY Amounts, AmountsNext, FS_RemoveElement
<1>2. PICK w \in Passed : u + req[w].size + (p - 1) * M <= Limit
  BY DEF Commitment
<1>3. /\ req[t].size \in Nat /\ req[t].size <= M
      /\ req[w].size \in Nat /\ req[w].size <= M
      /\ (p - 1) * M \in Int /\ (p - 1) * M >= 0
      /\ (q - 1) * M = (p - 1) * M - M
  <2>1. p # 0
    BY Amounts, FS_EmptySet
  <2>2. p - 1 \in Int /\ p - 1 >= 0 /\ q = p - 1
    BY <1>1, <2>1
  <2>3. (p - 1) * M \in Int /\ (p - 1) * M >= 0 /\ (p - 1 - 1) * M = (p - 1) * M - M
    BY <2>2, <1>1, Products
  <2> QED BY <2>2, <2>3, Amounts
<1>4. n <= Limit
  <2>1. n <= u + req[t].size
    BY <1>1, <1>3
  <2>2. CASE w = t
    BY <1>1, <1>2, <1>3, <2>1, <2>2
  <2>3. CASE w # t
    <3>1. q # 0
      BY <2>3, AmountsNext, FS_EmptySet
    <3>2. q - 1 \in Int /\ q - 1 >= 0
      BY <3>1, <1>1
    <3>3. (q - 1) * M >= 0
      BY <3>2, <1>1, Products
    <3> HIDE DEF u, n, M, p, q
    <3> QED BY <1>1, <1>2, <1>3, <2>1, <3>3
  <2> QED BY <2>2, <2>3
<1>5. ASSUME NEW v \in Passed'
      PROVE  \E x \in Passed' : n + req'[x].size + (q - 1) * M <= Limit
  <2>1. req'[v].size \in Nat /\ req'[v].size <= M
    BY AmountsNext
  <2>2. CASE w = t
    <3>1. n <= u + req[t].size
      BY <1>1, <1>3
    <3> HIDE DEF u, n, M, p, q
    <3>2. n + req'[v].size + (q - 1) * M <= Limit
      BY <1>1, <1>2, <1>3, <2>1, <2>2, <3>1
    <3> QED BY <3>2
  <2>3. CASE w # t
    <3>1. w \in Passed' /\ req'[w] = req[w] /\ n <= u + req[t].size
      BY <1>1, <1>3, <2>3
    <3> HIDE DEF u, n, M, p, q
    <3>2. n + req'[w].size + (q - 1) * M <= Limit
      BY <1>1, <1>2, <1>3, <3>1
    <3> QED BY <3>1, <3>2
  <2> QED BY <2>2, <2>3
<1> QED BY <1>4, <1>5 DEF Commitment

\* A step that changes nobody's standing.
LEMMA Remains ==
  ASSUME Commitment, Passed' = Passed, usedSpaceIndex' = usedSpaceIndex,
         \A v \in Passed : req'[v] = req[v]
  PROVE  Commitment'
<1>1. Limit' = Limit
  BY DEF Limit
<1> QED BY <1>1 DEF Commitment

\* A step of a thread that changes no space and leaves it where it is, in or
\* out of Passed.
LEMMA Stays ==
  ASSUME Commitment, NEW t \in Threads, usedSpaceIndex' = usedSpaceIndex,
         \A v \in Threads \ {t} :
           pc'[v] = pc[v] /\ temp'[v] = temp[v] /\ req'[v] = req[v],
         t \in Passed' <=> t \in Passed,
         t \in Passed => req'[t] = req[t]
  PROVE  Commitment'
<1>1. Passed' = Passed /\ \A v \in Passed : req'[v] = req[v]
  BY DEF Passed
<1> QED BY <1>1, Remains

\* One that leaves Passed.
LEMMA Goes ==
  ASSUME IInv, IInv', Commitment, NEW t \in Threads,
         \A v \in Threads \ {t} :
           pc'[v] = pc[v] /\ temp'[v] = temp[v] /\ req'[v] = req[v],
         t \notin Passed',
         IF t \in Passed
         THEN usedSpaceIndex'.space \in
                {usedSpaceIndex.space, usedSpaceIndex.space + req[t].size}
         ELSE usedSpaceIndex' = usedSpaceIndex
  PROVE  Commitment'
<1>1. CASE t \in Passed
  <2>1. Passed' = Passed \ {t} /\ \A v \in Passed' : req'[v] = req[v]
    BY DEF Passed
  <2> QED BY <1>1, <2>1, Leaves DEF IInv
<1>2. CASE t \notin Passed
  BY <1>2, Stays
<1> QED BY <1>1, <1>2

\* Every step keeps the commitment.
LEMMA OvercommitStep ==
  ASSUME IInv, IInv', Commitment, [Next]_vars
  PROVE  Commitment'
<1>0. /\ pc \in [Threads -> Points] /\ req \in [Threads -> {Null} \cup Requests]
      /\ temp \in [Threads -> [index : Indexes, space : Nat]]
      /\ usedSpaceIndex \in [index : Indexes, space : Nat]
  BY DEF IInv, TypeOK
<1> USE DEF Goto, Return
<1>1. CASE UNCHANGED vars
  <2>1. Passed' = Passed
    BY <1>1 DEF vars, Passed
  <2> QED BY <1>1, <2>1, Remains DEF vars
<1>2. ASSUME NEW t \in Threads, NEW r \in Requests, Create(t, r) PROVE Commitment'
  <2>1. /\ usedSpaceIndex' = usedSpaceIndex /\ t \notin Passed
        /\ req'[t] = r /\ temp'[t] = usedSpaceIndex /\ pc'[t] = "lookup"
        /\ \A v \in Threads \ {t} :
             pc'[v] = pc[v] /\ temp'[v] = temp[v] /\ req'[v] = req[v]
    BY <1>0, <1>2 DEF Create, Passed
  <2>2. CASE t \in Passed'
    <3>1. Passed' = Passed \cup {t} /\ usedSpaceIndex.space + req'[t].size <= Total
      BY <2>1, <2>2 DEF Passed
    <3> QED BY <2>1, <3>1, Joins DEF IInv
  <2>3. CASE t \notin Passed'
    BY <2>1, <2>3, Stays
  <2> QED BY <2>2, <2>3
<1>3. ASSUME NEW t \in Threads, PopFree(t) PROVE Commitment'
  <2>1. /\ usedSpaceIndex' = usedSpaceIndex /\ t \notin Passed'
        /\ \A v \in Threads \ {t} :
             pc'[v] = pc[v] /\ temp'[v] = temp[v] /\ req'[v] = req[v]
    BY <1>0, <1>3 DEF PopFree, Passed
  <2> QED BY <2>1, Goes
<1>4. ASSUME NEW t \in Threads, CheckSpace(t) PROVE Commitment'
  <2>1. /\ usedSpaceIndex' = usedSpaceIndex
        /\ \A v \in Threads \ {t} :
             pc'[v] = pc[v] /\ temp'[v] = temp[v] /\ req'[v] = req[v]
    BY <1>0, <1>4 DEF CheckSpace
  <2>2. req[t].size \in Nat /\ temp[t].space \in Nat /\ Total \in Nat
    <3>1. req[t] \in Requests /\ temp[t] \in [index : Indexes, space : Nat]
      BY <1>0, <1>4 DEF CheckSpace, IInv, Requested, At
    <3> QED BY <3>1, SizeAssumption, LimitAssumption DEF Requests
  <2>3. CASE temp[t].space + req[t].size > Total
    <3>1. pc[t] = "lookup" /\ pc'[t] = "running"
      BY <1>0, <1>4, <2>3 DEF CheckSpace
    <3>2. ~(temp[t].space + req[t].size <= Total)
      BY <2>2, <2>3
    <3>3. t \notin Passed /\ t \notin Passed'
      BY <3>1, <3>2 DEF Passed
    <3> QED BY <2>1, <3>3, Stays
  <2>4. CASE ~(temp[t].space + req[t].size > Total)
    <3>1. pc[t] = "lookup" /\ pc'[t] = "get" /\ req' = req
      BY <1>0, <1>4, <2>4 DEF CheckSpace
    <3>2. temp[t].space + req[t].size <= Total
      BY <2>2, <2>4
    <3>3. t \in Passed /\ t \in Passed'
      BY <3>1, <3>2 DEF Passed
    <3> QED BY <2>1, <3>1, <3>3, Stays
  <2> QED BY <2>3, <2>4
<1>5. ASSUME NEW t \in Threads, Get(t) PROVE Commitment'
  <2>1. /\ usedSpaceIndex' = usedSpaceIndex /\ t \in Passed
        /\ \A v \in Threads \ {t} :
             pc'[v] = pc[v] /\ temp'[v] = temp[v] /\ req'[v] = req[v]
    BY <1>0, <1>5 DEF Get, Passed
  <2>2. CASE usedSpaceIndex.index = MaxBlocks - 1
    <3>1. t \notin Passed'
      BY <1>0, <1>5, <2>2 DEF Get, Passed
    <3> QED BY <2>1, <3>1, Goes
  <2>3. CASE usedSpaceIndex.index # MaxBlocks - 1
    <3>1. t \in Passed' /\ req'[t] = req[t]
      BY <1>0, <1>5, <2>3 DEF Get, Passed
    <3> QED BY <2>1, <3>1, Stays
  <2> QED BY <2>2, <2>3
<1>6. ASSUME NEW t \in Threads, Cas(t) PROVE Commitment'
  <2>1. /\ t \in Passed /\ req' = req
        /\ \A v \in Threads \ {t} :
             pc'[v] = pc[v] /\ temp'[v] = temp[v] /\ req'[v] = req[v]
    BY <1>0, <1>6 DEF Cas, Passed
  <2>2. CASE usedSpaceIndex = temp[t]
    <3>1. t \notin Passed'
      BY <1>0, <1>6, <2>2 DEF Cas, Passed
    <3>2. usedSpaceIndex'.space = usedSpaceIndex.space + req[t].size
      BY <1>0, <1>6, <2>2 DEF Cas, Reserved
    <3> QED BY <2>1, <3>1, <3>2, Goes
  <2>3. CASE usedSpaceIndex # temp[t]
    <3>1. t \in Passed' /\ usedSpaceIndex' = usedSpaceIndex
      BY <1>0, <1>6, <2>3 DEF Cas, Passed
    <3> QED BY <2>1, <3>1, Stays
  <2> QED BY <2>2, <2>3
<1>7. ASSUME NEW t \in Threads,
             \/ Reuse(t) \/ Publish(t) \/ FreeMe(t) \/ PutIfAbsent(t)
             \/ PushFree(t) \/ CountFree(t) \/ Finish(t)
      PROVE  Commitment'
  <2>1. /\ usedSpaceIndex' = usedSpaceIndex /\ t \notin Passed /\ t \notin Passed'
        /\ \A v \in Threads \ {t} :
             pc'[v] = pc[v] /\ temp'[v] = temp[v] /\ req'[v] = req[v]
    BY <1>0, <1>7
       DEF Reuse, Publish, FreeMe, PutIfAbsent, PushFree, CountFree, Finish, Passed
  <2> QED BY <2>1, Stays
<1> QED BY <1>1, <1>2, <1>3, <1>4, <1>5, <1>6, <1>7 DEF Next, Inside

\* The commitment holds at the start.
LEMMA CommitmentStart == Init => Commitment
<1> SUFFICES ASSUME Init PROVE Commitment
  OBVIOUS
<1>1. IInv /\ Passed = {} /\ usedSpaceIndex.space = 0
  BY Start DEF Init, Passed, Zero
<1>2. Cardinality(Threads) \in Nat /\ Cardinality(Threads) > 0
  BY ThreadAssumption, FS_EmptySet, FS_CardinalityType
<1>3. Total \in Nat /\ Max(Sizes) \in Nat
  BY <1>1, Amounts DEF IInv
<1>4. (Cardinality(Threads) - 1) * Max(Sizes) >= 0 /\ (Cardinality(Threads) - 1) * Max(Sizes) \in Int
  <2>1. Cardinality(Threads) - 1 \in Int /\ Cardinality(Threads) - 1 >= 0
    BY <1>2
  <2> QED BY <2>1, <1>3, Products
<1>5. 0 <= Limit
  BY <1>3, <1>4 DEF Limit
<1> QED BY <1>1, <1>5 DEF Commitment

\* The check of the space is made before the reservation and on a value that
\* may be old (MemoryManager.java:416, 441): for any number of threads and any
\* sizes, what is reserved beyond the total memory is at most one request for
\* every thread but one.
THEOREM Overcommit == Spec => []BoundedOvercommit
<1>1. IInv /\ IInv' /\ Commitment /\ [Next]_vars => Commitment'
  BY OvercommitStep
<1>2. Spec => []Commitment
  BY <1>1, CommitmentStart, Invariant, PTL DEF Spec
<1>3. Commitment => BoundedOvercommit
  BY DEF Commitment, BoundedOvercommit, Limit
<1> QED BY <1>2, <1>3, PTL

-----------------------------------------------------------------------------
(* The accounts: the packed word, and the free space.                      *)

Entering == At({"publish"})
Used == UNION {holds[t] : t \in Threads}

\* What the packed word says, before and after the first reservation.
Counted ==
  /\ usedSpaceIndex.space = Space(mBlocks, Created) + Space(req, Entering)
  /\ IF usedSpaceIndex = Zero
     THEN Created = {} /\ Entering = {}
     ELSE /\ Created \cup {temp[t].index : t \in Entering} = 0 .. usedSpaceIndex.index
          /\ Cardinality(Created) + Cardinality(Entering) = usedSpaceIndex.index + 1

\* The threads whose block left its user and is not counted as free yet: it
\* may be on the list already, reused, and counted by another thread too.
Uncounted == At({"push", "putIfAbsent", "count"})
Blocked == [t \in Threads |-> mBlocks[block[t]]]

Balanced ==
  (\A i \in Created : mBlocks[i].kind = "bytes") =>
    freeSpace + Space(Blocked, Uncounted) = Space(mBlocks, Created \ Used)

\* The sets that are summed over are finite.
LEMMA FiniteSets ==
  /\ IsFiniteSet(Created) /\ \A S : IsFiniteSet(Created \ S)
  /\ \A points : IsFiniteSet(At(points))
<1>1. IsFiniteSet(Indexes) /\ Created \subseteq Indexes
  BY FS_Interval, LimitAssumption DEF Indexes, Created
<1>2. IsFiniteSet(Threads) /\ \A points : At(points) \in SUBSET Threads
  BY ThreadAssumption DEF At
<1>3. \A S : Created \ S \in SUBSET Indexes
  BY <1>1
<1> QED BY <1>1, <1>2, <1>3, FS_Subset

\* The sizes that are added.
LEMMA SizesNat ==
  ASSUME TypeOK, Requested, Hands
  PROVE  /\ \A i \in Created : mBlocks[i].size \in Nat
         /\ \A t \in At({"lookup", "popped", "get", "cas", "publish"}) : req[t].size \in Nat
         /\ \A t \in At({"popped", "push", "putIfAbsent", "count"}) :
              /\ block[t] \in Created /\ Blocked[t] = mBlocks[block[t]]
              /\ Blocked[t].size \in Nat
<1>0. \A x \in Sizes : x \in Nat
  BY SizeAssumption
<1>1. \A i \in Created : mBlocks[i].size \in Nat
  BY <1>0, CreatedType DEF Blocks
<1>2. \A t \in At({"lookup", "popped", "get", "cas", "publish"}) : req[t].size \in Nat
  BY <1>0 DEF Requested, Requests
<1>3. \A t \in At({"popped", "push", "putIfAbsent", "count"}) :
              t \in Threads /\ block[t] \in Created
  BY DEF Hands, Moving, At
<1> QED BY <1>1, <1>2, <1>3 DEF Blocked

\* Neither is touched by a step that changes none of what they are about.
LEMMA SameCount ==
  ASSUME Counted, UNCHANGED <<usedSpaceIndex, mBlocks>>,
         Entering' = Entering,
         \A t \in Entering : req'[t] = req[t] /\ temp'[t] = temp[t]
  PROVE  Counted'
<1>1. Created' = Created
  BY DEF Created
<1>2. Space(req', Entering) = Space(req, Entering)
  BY FiniteSets, SpaceSame DEF Entering
<1>3. {temp'[t].index : t \in Entering'} = {temp[t].index : t \in Entering}
  OBVIOUS
<1> QED BY <1>1, <1>2, <1>3 DEF Counted

\* The same for the free space.
LEMMA SameBalance ==
  ASSUME TypeOK, Requested, Hands, Balanced,
         UNCHANGED <<mBlocks, freeSpace, holds>>, Uncounted' = Uncounted,
         \A t \in Uncounted : block'[t] = block[t]
  PROVE  Balanced'
<1>1. Created' = Created /\ Used' = Used
  BY DEF Created, Used
<1>2. \A t \in Uncounted : Blocked'[t].size = Blocked[t].size
  BY DEF Blocked, Uncounted, At
<1>3. Space(Blocked', Uncounted) = Space(Blocked, Uncounted)
  BY <1>2, FiniteSets, SpaceSame DEF Uncounted
<1> QED BY <1>1, <1>3 DEF Balanced

-----------------------------------------------------------------------------
(* The compare-and-set and the publication.                                *)

\* A reservation adds its size and the next index.
LEMMA CasCount ==
  ASSUME IInv, Counted, NEW t \in Threads, Cas(t), usedSpaceIndex = temp[t]
  PROVE  Counted'
<1> DEFINE z == req[t].size
           k == usedSpaceIndex.index
           n == usedSpaceIndex'.index
<1>0. /\ TypeOK /\ Requested /\ Hands /\ pc[t] = "cas" /\ z \in Nat /\ z > 0
      /\ k \in Nat /\ usedSpaceIndex.space \in Nat
  <2>1. req[t] \in Requests /\ pc[t] = "cas"
    BY DEF Cas, IInv, Requested, At
  <2>2. z \in Nat /\ z > 0
    <3>1. \A x \in Sizes : x \in Nat /\ x > 0
      BY SizeAssumption
    <3> QED BY <2>1, <3>1 DEF Requests
  <2>3. k \in Nat /\ usedSpaceIndex.space \in Nat
    BY DEF IInv, TypeOK, Indexes
  <2> QED BY <2>1, <2>2, <2>3 DEF IInv
<1>1. /\ usedSpaceIndex' = Reserved(temp[t], z)
      /\ temp' = [temp EXCEPT ![t] = usedSpaceIndex']
      /\ pc' = [pc EXCEPT ![t] = "publish"] /\ mBlocks' = mBlocks /\ req' = req
  BY DEF Cas, Goto
<1>2. /\ usedSpaceIndex'.space = usedSpaceIndex.space + z
      /\ n = IF usedSpaceIndex = Zero THEN 0 ELSE k + 1
      /\ usedSpaceIndex' # Zero
  BY <1>0, <1>1 DEF Reserved, Zero
<1>3. /\ Created' = Created /\ Entering' = Entering \cup {t} /\ t \notin Entering
      /\ temp'[t].index = n /\ \A u \in Entering : temp'[u] = temp[u]
  BY <1>0, <1>1 DEF Created, Entering, At, TypeOK
<1>4. Space(req, Entering \cup {t}) = z + Space(req, Entering)
  <2>1. IsFiniteSet(Entering) /\ \A u \in Entering \cup {t} : req[u].size \in Nat
    BY <1>0, FiniteSets, SizesNat DEF Entering, At
  <2> QED BY <2>1, <1>3, SpaceAdd
<1>5. usedSpaceIndex'.space = Space(mBlocks', Created') + Space(req', Entering')
  <2>1. Space(mBlocks, Created) \in Nat /\ Space(req, Entering) \in Nat
    BY <1>0, FiniteSets, SizesNat, SpaceNat DEF Entering, At
  <2> QED BY <1>0, <1>1, <1>2, <1>3, <1>4, <2>1 DEF Counted
<1>6. Cardinality(Entering') = Cardinality(Entering) + 1 /\ Cardinality(Entering) \in Nat
      /\ Cardinality(Created) \in Nat
  BY <1>3, FiniteSets, FS_AddElement, FS_CardinalityType DEF Entering
<1>7. {temp'[u].index : u \in Entering'} = {temp[u].index : u \in Entering} \cup {n}
  BY <1>3
<1> HIDE DEF n, k, z
<1>8. CASE usedSpaceIndex = Zero
  <2>1. Created = {} /\ Entering = {} /\ n = 0
    BY <1>2, <1>8 DEF Counted
  <2>2. Created' \cup {temp'[u].index : u \in Entering'} = {n}
    BY <1>3, <1>7, <2>1
  <2>3. Cardinality(Created') + Cardinality(Entering') = n + 1
    BY <1>3, <1>6, <2>1, FS_EmptySet
  <2>4. {n} = 0 .. n
    BY <2>1
  <2> QED BY <1>2, <1>5, <2>2, <2>3, <2>4 DEF Counted, n
<1>9. CASE usedSpaceIndex # Zero
  <2>1. /\ Created \cup {temp[u].index : u \in Entering} = 0 .. k /\ n = k + 1
        /\ Cardinality(Created) + Cardinality(Entering) = k + 1
    BY <1>2, <1>9 DEF Counted, k
  <2>2. (0 .. k) \cup {n} = 0 .. n
    BY <1>0, <2>1
  <2>3. Created' \cup {temp'[u].index : u \in Entering'} = 0 .. n
    BY <1>3, <1>7, <2>1, <2>2
  <2>4. Cardinality(Created') + Cardinality(Entering') = n + 1
    BY <1>0, <1>3, <1>6, <2>1
  <2> QED BY <1>2, <1>5, <2>3, <2>4 DEF Counted, n
<1> QED BY <1>8, <1>9

\* What a publication does to the table.
LEMMA Published ==
  ASSUME IInv, NEW t \in Threads, Publish(t)
  PROVE  LET i == temp[t].index
         IN  /\ i \in Indexes /\ i \notin Created /\ usedSpaceIndex # Zero
             /\ pc[t] = "publish" /\ pc' = [pc EXCEPT ![t] = "running"]
             /\ Created' = Created \cup {i} /\ mBlocks'[i].size = req[t].size
             /\ \A j \in Created : mBlocks'[j] = mBlocks[j]
             /\ holds' = [holds EXCEPT ![t] = @ \cup {i}]
<1> DEFINE i == temp[t].index
           b == [kind |-> req[t].kind, size |-> req[t].size, owner |-> t]
<1>1. TypeOK /\ pc[t] = "publish" /\ req[t] \in Requests /\ i \in Indexes
  BY DEF Publish, IInv, TypeOK, Requested, At
<1>2. i \notin Created /\ usedSpaceIndex # Zero
  BY <1>1 DEF IInv, Reservations, At, Created, Zero
<1>3. b \in Blocks /\ b # Null
  BY <1>1, NullAssumption DEF Blocks, Requests
<1>4. /\ mBlocks' = [mBlocks EXCEPT ![i] = b]
      /\ pc' = [pc EXCEPT ![t] = "running"] /\ holds' = [holds EXCEPT ![t] = @ \cup {i}]
  BY DEF Publish, Return, Goto
<1> HIDE DEF i
<1>5. mBlocks'[i] = b /\ \A j \in Indexes : j # i => mBlocks'[j] = mBlocks[j]
  BY <1>1, <1>4 DEF TypeOK
<1> HIDE DEF b
<1>6. Created' = Created \cup {i}
  BY <1>1, <1>3, <1>5 DEF Created
<1>7. \A j \in Created : mBlocks'[j] = mBlocks[j]
  BY <1>2, <1>5 DEF Created
<1>8. mBlocks'[i].size = req[t].size
  BY <1>5 DEF b
<1> QED BY <1>1, <1>2, <1>4, <1>6, <1>7, <1>8 DEF i

\* A publication turns a reservation into a block.
LEMMA PublishCount ==
  ASSUME IInv, Counted, NEW t \in Threads, Publish(t)
  PROVE  Counted'
<1> DEFINE i == temp[t].index
           z == req[t].size
           R == Entering \ {t}
<1>0. /\ TypeOK /\ Requested /\ Hands
      /\ usedSpaceIndex' = usedSpaceIndex /\ usedSpaceIndex # Zero
      /\ i \notin Created /\ Created' = Created \cup {i} /\ mBlocks'[i].size = z
      /\ \A j \in Created : mBlocks'[j] = mBlocks[j]
  BY Published DEF IInv, Publish
<1>1. /\ t \in Entering /\ Entering' = R /\ Entering = R \cup {t} /\ t \notin R
      /\ \A u \in R : req'[u] = req[u] /\ temp'[u] = temp[u]
  <2>1. /\ pc[t] = "publish" /\ pc' = [pc EXCEPT ![t] = "running"]
        /\ req' = [req EXCEPT ![t] = Null] /\ temp' = [temp EXCEPT ![t] = Zero]
    BY DEF Publish, Return, Goto
  <2> QED BY <1>0, <2>1 DEF TypeOK, Entering, At
<1>2. IsFiniteSet(Created) /\ IsFiniteSet(Entering) /\ IsFiniteSet(R)
  BY FiniteSets, FS_RemoveElement DEF Entering
<1>3. /\ \A j \in Created : mBlocks[j].size \in Nat
      /\ \A u \in Entering : req[u].size \in Nat /\ z \in Nat
  BY <1>0, <1>1, SizesNat DEF Entering, At
<1> HIDE DEF i, z
<1>4. Space(mBlocks', Created \cup {i}) = z + Space(mBlocks, Created)
  <2>1. \A j \in Created \cup {i} : mBlocks'[j].size \in Nat
    BY <1>0, <1>1, <1>3
  <2>2. Space(mBlocks', Created \cup {i}) = z + Space(mBlocks', Created)
    BY <1>0, <1>2, <2>1, SpaceAdd
  <2>3. Space(mBlocks', Created) = Space(mBlocks, Created)
    BY <1>0, <1>2, SpaceSame
  <2> QED BY <2>2, <2>3
<1>5. Space(req, Entering) = z + Space(req', R)
  <2>1. Space(req, R \cup {t}) = req[t].size + Space(req, R)
    BY <1>1, <1>2, <1>3, SpaceAdd
  <2>2. Space(req', R) = Space(req, R)
    BY <1>1, <1>2, SpaceSame
  <2> QED BY <1>1, <2>1, <2>2 DEF z
<1>6. Space(mBlocks, Created) \in Nat /\ Space(req', R) \in Nat /\ z \in Nat
  <2>1. \A u \in R : req'[u].size \in Nat
    BY <1>1, <1>3
  <2> QED BY <1>1, <1>2, <1>3, <2>1, SpaceNat
<1>7. usedSpaceIndex'.space = Space(mBlocks', Created') + Space(req', Entering')
  BY <1>0, <1>1, <1>4, <1>5, <1>6 DEF Counted
<1>8. Cardinality(Created') + Cardinality(Entering') = Cardinality(Created) + Cardinality(Entering)
  <2>1. Cardinality(Created') = Cardinality(Created) + 1
    BY <1>0, <1>2, FS_AddElement
  <2>2. Cardinality(Entering') = Cardinality(Entering) - 1
    BY <1>1, <1>2, FS_RemoveElement
  <2> QED BY <2>1, <2>2, <1>2, FS_CardinalityType
<1>9. Created' \cup {temp'[u].index : u \in Entering'}
        = Created \cup {temp[u].index : u \in Entering}
  <2>1. {temp'[u].index : u \in Entering'} = {temp[u].index : u \in R}
    BY <1>1
  <2>2. {temp[u].index : u \in Entering} = {temp[u].index : u \in R} \cup {i}
    BY <1>1 DEF i
  <2> QED BY <1>0, <2>1, <2>2
<1> QED BY <1>0, <1>7, <1>8, <1>9 DEF Counted

\* A publication adds a block that is used.
LEMMA PublishBalance ==
  ASSUME IInv, Balanced, NEW t \in Threads, Publish(t)
  PROVE  Balanced'
<1> DEFINE i == temp[t].index
<1>0. /\ TypeOK /\ Requested /\ Hands /\ freeSpace' = freeSpace
      /\ i \notin Created /\ Created' = Created \cup {i}
      /\ \A j \in Created : mBlocks'[j] = mBlocks[j]
      /\ holds' = [holds EXCEPT ![t] = @ \cup {i}]
  BY Published DEF IInv, Publish
<1>1. /\ Uncounted' = Uncounted
      /\ \A u \in Uncounted : u \in Threads /\ block'[u] = block[u] /\ block[u] \in Created
  <2>1. /\ pc[t] = "publish" /\ pc' = [pc EXCEPT ![t] = "running"]
        /\ block' = [block EXCEPT ![t] = Null]
    BY DEF Publish, Return, Goto
  <2>2. \A u \in Uncounted : u \in Threads /\ block[u] \in Created
    BY <1>0 DEF Hands, Moving, Uncounted, At
  <2> QED BY <1>0, <2>1, <2>2 DEF TypeOK, Uncounted, At
<1>2. Space(Blocked', Uncounted) = Space(Blocked, Uncounted)
  <2>1. \A u \in Uncounted : Blocked'[u].size = Blocked[u].size
    BY <1>0, <1>1 DEF Blocked
  <2> QED BY <2>1, FiniteSets, SpaceSame DEF Uncounted
<1>3. Used' = Used \cup {i}
  BY <1>0 DEF Used, TypeOK
<1> HIDE DEF i
<1>4. Created' \ Used' = Created \ Used
  BY <1>0, <1>3
<1>5. Space(mBlocks', Created \ Used) = Space(mBlocks, Created \ Used)
  BY <1>0, FiniteSets, SpaceSame
<1> QED BY <1>0, <1>1, <1>2, <1>4, <1>5 DEF Balanced

-----------------------------------------------------------------------------
(* The frees and the reuse.                                                *)

\* A block is used by nobody but its user.
LEMMA Unused ==
  ASSUME IInv, NEW t \in Threads
  PROVE  /\ pc[t] = "popped" => block[t] \in Created \ Used
         /\ \A i \in holds[t], u \in Threads : u # t => i \notin holds[u]
<1>1. ASSUME pc[t] = "popped"
      PROVE  block[t] \in Created \ Used
  <2>1. t \in Moving /\ block[t] \in Created /\ block[t] \notin holds[t] /\ block[t] \in Mine(t)
    BY <1>1 DEF IInv, Hands, Moving, At, Mine
  <2>2. ASSUME NEW u \in Threads, u # t PROVE block[t] \notin holds[u]
    BY <2>1, <2>2 DEF IInv, Apart, Mine
  <2> QED BY <2>1, <2>2 DEF Used
<1>2. ASSUME NEW i \in holds[t], NEW u \in Threads, u # t
      PROVE  i \notin holds[u]
  BY <1>2 DEF IInv, Apart, Mine
<1> QED BY <1>1, <1>2

\* A reused byte block takes its own size off the free space.
LEMMA ReuseBalance ==
  ASSUME IInv, Balanced, NEW t \in Threads, Reuse(t)
  PROVE  Balanced'
<1> DEFINE b == block[t]
           z == mBlocks[b].size
           F == Created \ Used
<1>0. /\ TypeOK /\ Requested /\ Hands /\ pc[t] = "popped" /\ b \in F
      /\ mBlocks' = mBlocks /\ freeSpace' = freeSpace - req[t].size
      /\ holds' = [holds EXCEPT ![t] = @ \cup {b}]
      /\ pc' = [pc EXCEPT ![t] = "running"] /\ block' = [block EXCEPT ![t] = Null]
  BY Unused DEF IInv, Reuse, Return, Goto
<1>1. Uncounted' = Uncounted /\ \A u \in Uncounted : block'[u] = block[u]
  BY <1>0 DEF TypeOK, Uncounted, At
<1>2. Space(Blocked', Uncounted) = Space(Blocked, Uncounted)
  <2>1. \A u \in Uncounted : Blocked'[u].size = Blocked[u].size
    BY <1>0, <1>1 DEF Blocked, Uncounted, At
  <2> QED BY <2>1, FiniteSets, SpaceSame DEF Uncounted
<1>3. Created' = Created /\ Created' \ Used' = F \ {b}
  BY <1>0 DEF Created, Used, TypeOK
<1>4. /\ \A j \in Created : mBlocks[j].size \in Nat
      /\ \A u \in Uncounted : Blocked[u].size \in Nat
      /\ z \in Nat /\ req[t].size \in Nat
  BY <1>0, SizesNat DEF Uncounted, At
<1>5. Space(mBlocks, F) = z + Space(mBlocks, F \ {b})
  <2>1. IsFiniteSet(F \ {b}) /\ F = (F \ {b}) \cup {b} /\ b \notin F \ {b}
    BY <1>0, FiniteSets, FS_RemoveElement
  <2>2. \A j \in (F \ {b}) \cup {b} : mBlocks[j].size \in Nat
    BY <1>0, <1>4
  <2>3. Space(mBlocks, (F \ {b}) \cup {b}) = z + Space(mBlocks, F \ {b})
    BY <2>1, <2>2, SpaceAdd
  <2> QED BY <2>1, <2>3
<1>6. Space(mBlocks, F \ {b}) \in Nat /\ Space(Blocked, Uncounted) \in Nat
  BY <1>4, FiniteSets, FS_RemoveElement, SpaceNat DEF Uncounted
<1>7. ASSUME \A i \in Created : mBlocks[i].kind = "bytes"
      PROVE  req[t].size = z
  <2>1. Key(mBlocks[b]) = Key(req[t]) /\ mBlocks[b].kind = "bytes"
    BY <1>0, <1>7 DEF IInv, Fits, At
  <2>2. Key(mBlocks[b]) = <<"bytes", z>>
    BY <2>1 DEF Key
  <2>3. Key(req[t])[1] = req[t].kind
    BY DEF Key
  <2>4. req[t].kind = "bytes"
    BY <2>1, <2>2, <2>3
  <2> QED BY <2>1, <2>2, <2>4 DEF Key
<1>8. freeSpace \in Int
  BY <1>0 DEF TypeOK
<1> HIDE DEF z, F, b
<1>9. ASSUME \A i \in Created : mBlocks[i].kind = "bytes",
             freeSpace + Space(Blocked, Uncounted) = Space(mBlocks, F)
      PROVE  freeSpace' + Space(Blocked', Uncounted') = Space(mBlocks', Created' \ Used')
  <2> DEFINE p == Space(Blocked, Uncounted)
             q == Space(mBlocks, F \ {b})
  <2>1. freeSpace' = freeSpace - z
    BY <1>0, <1>7, <1>9
  <2>2. Space(Blocked', Uncounted') = p
    BY <1>1, <1>2
  <2>3. Space(mBlocks', Created' \ Used') = q
    BY <1>0, <1>3
  <2>4. freeSpace + p = z + q
    BY <1>5, <1>9
  <2>5. p \in Nat /\ q \in Nat /\ z \in Nat
    BY <1>4, <1>6
  <2> HIDE DEF p, q
  <2> QED BY <1>8, <2>1, <2>2, <2>3, <2>4, <2>5
<1> QED BY <1>0, <1>3, <1>9 DEF Balanced, F

\* A freed block is unused, and not counted yet.
LEMMA FreeMeBalance ==
  ASSUME IInv, Balanced, NEW t \in Threads, FreeMe(t)
  PROVE  Balanced'
<1> DEFINE i == Min(bitmap[t])
           z == mBlocks[i].size
           F == Created \ Used
<1>0. /\ TypeOK /\ Requested /\ Hands /\ pc[t] \in {"running", "freed"}
      /\ i \in holds[t] /\ i \in Created /\ i \in Indexes
      /\ mBlocks' = mBlocks /\ freeSpace' = freeSpace
      /\ holds' = [holds EXCEPT ![t] = @ \ {i}]
      /\ pc'[t] \in {"push", "putIfAbsent"} /\ \A u \in Threads \ {t} : pc'[u] = pc[u]
      /\ block' = [block EXCEPT ![t] = i]
  <2>1. TypeOK /\ Requested /\ Hands /\ Bitmaps
    BY DEF IInv
  <2>2. i \in bitmap[t] /\ bitmap[t] \subseteq Indexes
    BY <2>1, Lowest DEF FreeMe, TypeOK
  <2>3. i \in holds[t] /\ i \in Created
    BY <2>1, <2>2 DEF Bitmaps
  <2> HIDE DEF i
  <2>4. /\ pc[t] \in {"running", "freed"} /\ mBlocks' = mBlocks /\ freeSpace' = freeSpace
        /\ pc' = [pc EXCEPT ![t] = IF fsMap[Key(mBlocks[i])] = Null THEN "putIfAbsent" ELSE "push"]
        /\ block' = [block EXCEPT ![t] = i]
        /\ holds' = [holds EXCEPT ![t] = @ \ {i}]
    BY DEF FreeMe, Goto, i
  <2> QED BY <2>1, <2>2, <2>3, <2>4 DEF TypeOK
<1> HIDE DEF i
<1>1. /\ Uncounted' = Uncounted \cup {t} /\ t \notin Uncounted
      /\ \A u \in Uncounted : block'[u] = block[u]
      /\ block'[t] = i
  BY <1>0 DEF TypeOK, Uncounted, At
<1>2. /\ \A j \in Created : mBlocks[j].size \in Nat
      /\ \A u \in Uncounted : Blocked[u].size \in Nat
      /\ z \in Nat
  BY <1>0, SizesNat DEF Uncounted, At
<1>3. /\ \A u \in Uncounted : Blocked'[u].size = Blocked[u].size
      /\ Blocked'[t].size = z
  BY <1>0, <1>1 DEF Blocked, Uncounted, At
<1>4. Space(Blocked', Uncounted \cup {t}) = z + Space(Blocked, Uncounted)
  <2>1. \A u \in Uncounted \cup {t} : Blocked'[u].size \in Nat
    BY <1>2, <1>3
  <2>2. Space(Blocked', Uncounted \cup {t}) = Blocked'[t].size + Space(Blocked', Uncounted)
    BY <1>1, <2>1, FiniteSets, SpaceAdd DEF Uncounted
  <2>3. Space(Blocked', Uncounted) = Space(Blocked, Uncounted)
    BY <1>3, FiniteSets, SpaceSame DEF Uncounted
  <2> QED BY <1>3, <2>2, <2>3
<1>5. Created' = Created /\ Created' \ Used' = F \cup {i} /\ i \notin F
  <2>1. \A u \in Threads : u # t => i \notin holds[u]
    BY <1>0, Unused
  <2> QED BY <1>0, <2>1 DEF Created, Used, TypeOK
<1>6. Space(mBlocks, F \cup {i}) = z + Space(mBlocks, F)
  <2>1. \A j \in F \cup {i} : mBlocks[j].size \in Nat
    BY <1>0, <1>2
  <2> QED BY <1>5, <2>1, FiniteSets, SpaceAdd
<1>7. Space(mBlocks, F) \in Nat /\ Space(Blocked, Uncounted) \in Nat
  BY <1>2, FiniteSets, SpaceNat DEF Uncounted
<1>8. freeSpace \in Int
  BY <1>0 DEF TypeOK
<1> HIDE DEF z, F
<1>9. ASSUME freeSpace + Space(Blocked, Uncounted) = Space(mBlocks, F)
      PROVE  freeSpace' + Space(Blocked', Uncounted') = Space(mBlocks', Created' \ Used')
  <2> DEFINE p == Space(Blocked, Uncounted)
             q == Space(mBlocks, F)
  <2>1. freeSpace' = freeSpace
    BY <1>0
  <2>2. Space(Blocked', Uncounted') = z + p
    BY <1>1, <1>4
  <2>3. Space(mBlocks', Created' \ Used') = z + q
    BY <1>0, <1>5, <1>6
  <2>4. p \in Nat /\ q \in Nat /\ z \in Nat
    BY <1>2, <1>7
  <2>5. freeSpace + p = q
    BY <1>9
  <2> HIDE DEF p, q
  <2> QED BY <1>8, <2>1, <2>2, <2>3, <2>4, <2>5
<1> QED BY <1>0, <1>5, <1>9 DEF Balanced, F

\* A counted block adds its size to the free space.
LEMMA CountFreeBalance ==
  ASSUME IInv, Balanced, NEW t \in Threads, CountFree(t)
  PROVE  Balanced'
<1> DEFINE z == mBlocks[block[t]].size
           R == Uncounted \ {t}
           F == Created \ Used
<1>0. /\ TypeOK /\ Requested /\ Hands /\ pc[t] = "count"
      /\ mBlocks' = mBlocks /\ freeSpace' = freeSpace + z
      /\ holds' = holds /\ pc' = [pc EXCEPT ![t] = "freed"]
      /\ block' = [block EXCEPT ![t] = Null]
  BY DEF IInv, CountFree, Goto
<1>1. /\ Uncounted' = R /\ Uncounted = R \cup {t} /\ t \notin R
      /\ \A u \in R : block'[u] = block[u]
  BY <1>0 DEF TypeOK, Uncounted, At
<1>2. /\ \A u \in Uncounted : Blocked[u].size \in Nat
      /\ z \in Nat /\ Blocked[t].size = z
      /\ \A j \in Created : mBlocks[j].size \in Nat
  BY <1>0, <1>1, SizesNat DEF Uncounted, At
<1>3. IsFiniteSet(Uncounted) /\ IsFiniteSet(R)
  BY FiniteSets, FS_RemoveElement DEF Uncounted
<1>4. Space(Blocked, Uncounted) = z + Space(Blocked', R)
  <2>1. Space(Blocked, R \cup {t}) = Blocked[t].size + Space(Blocked, R)
    BY <1>1, <1>2, <1>3, SpaceAdd
  <2>2. \A u \in R : Blocked'[u].size = Blocked[u].size
    BY <1>0, <1>1 DEF Blocked, Uncounted, At
  <2>3. Space(Blocked', R) = Space(Blocked, R)
    BY <1>3, <2>2, SpaceSame
  <2> QED BY <1>1, <1>2, <2>1, <2>3
<1>5. Space(Blocked', R) \in Nat
  <2>1. \A u \in R : Blocked'[u].size \in Nat
    BY <1>0, <1>1, <1>2 DEF Blocked, Uncounted, At
  <2> QED BY <1>3, <2>1, SpaceNat
<1>6. Created' = Created /\ Created' \ Used' = F /\ Space(mBlocks, F) \in Nat
  BY <1>0, <1>2, FiniteSets, SpaceNat DEF Created, Used
<1>7. freeSpace \in Int
  BY <1>0 DEF TypeOK
<1> HIDE DEF z, F, R
<1>8. ASSUME freeSpace + Space(Blocked, Uncounted) = Space(mBlocks, F)
      PROVE  freeSpace' + Space(Blocked', Uncounted') = Space(mBlocks', Created' \ Used')
  <2> DEFINE p == Space(Blocked', R)
             q == Space(mBlocks, F)
  <2>1. freeSpace' = freeSpace + z
    BY <1>0
  <2>2. Space(Blocked', Uncounted') = p /\ Space(Blocked, Uncounted) = z + p
    BY <1>1, <1>4
  <2>3. Space(mBlocks', Created' \ Used') = q
    BY <1>0, <1>6
  <2>4. p \in Nat /\ q \in Nat /\ z \in Nat
    BY <1>2, <1>5, <1>6
  <2>5. freeSpace + (z + p) = q
    BY <1>8, <2>2
  <2> HIDE DEF p, q
  <2> QED BY <1>7, <2>1, <2>2, <2>3, <2>4, <2>5
<1> QED BY <1>0, <1>6, <1>8 DEF Balanced, F

-----------------------------------------------------------------------------
(* The accounts hold in every state.                                       *)

\* Both accounts hold at the start.
LEMMA AccountsStart == Init => Counted /\ Balanced
<1> SUFFICES ASSUME Init PROVE Counted /\ Balanced
  OBVIOUS
<1>1. Created = {} /\ Entering = {} /\ Uncounted = {} /\ Created \ Used = {}
  BY DEF Init, Created, Entering, Uncounted, At
<1>2. usedSpaceIndex = Zero /\ usedSpaceIndex.space = 0 /\ freeSpace = 0
  BY DEF Init, Zero
<1>3. /\ Space(mBlocks, Created) = 0 /\ Space(req, Entering) = 0
      /\ Space(Blocked, Uncounted) = 0 /\ Space(mBlocks, Created \ Used) = 0
  BY <1>1, SpaceEmpty
<1>4. Counted
  BY <1>1, <1>2, <1>3 DEF Counted
<1>5. Balanced
  BY <1>2, <1>3 DEF Balanced
<1> QED BY <1>4, <1>5

\* What a step does to neither account.
LEMMA QuietAccounts ==
  ASSUME IInv, Counted, Balanced, NEW t \in Threads,
         UNCHANGED <<usedSpaceIndex, mBlocks, freeSpace, holds>>,
         \A u \in Threads : u # t => /\ pc'[u] = pc[u] /\ req'[u] = req[u]
                                   /\ temp'[u] = temp[u] /\ block'[u] = block[u],
         pc[t] # "publish", pc'[t] # "publish",
         t \in Uncounted' <=> t \in Uncounted,
         t \in Uncounted => block'[t] = block[t]
  PROVE  Counted' /\ Balanced'
<1>1. Entering' = Entering /\ t \notin Entering
  BY DEF Entering, At
<1>2. \A u \in Entering : req'[u] = req[u] /\ temp'[u] = temp[u]
  BY <1>1 DEF Entering, At
<1>3. Uncounted' = Uncounted
  BY DEF Uncounted, At
<1>4. \A u \in Uncounted : block'[u] = block[u]
  BY DEF Uncounted, At
<1>5. Counted'
  BY <1>1, <1>2, SameCount
<1>6. Balanced'
  BY <1>3, <1>4, SameBalance DEF IInv
<1> QED BY <1>5, <1>6

\* Every step keeps both accounts.
LEMMA AccountsStep == IInv /\ Counted /\ Balanced /\ [Next]_vars => Counted' /\ Balanced'
<1> SUFFICES ASSUME IInv, Counted, Balanced, [Next]_vars
             PROVE  Counted' /\ Balanced'
  OBVIOUS
<1>0. TypeOK /\ Requested /\ Hands
  BY DEF IInv
<1>1. ASSUME NEW t \in Threads,
             \/ \E r \in Requests : Create(t, r)
             \/ PopFree(t) \/ CheckSpace(t) \/ Get(t) \/ Finish(t)
      PROVE  Counted' /\ Balanced'
  <2>1. UNCHANGED <<usedSpaceIndex, mBlocks, freeSpace, holds>>
    BY <1>1 DEF Create, PopFree, CheckSpace, Get, Finish
  <2>2. \A u \in Threads : u # t => /\ pc'[u] = pc[u] /\ req'[u] = req[u]
                                  /\ temp'[u] = temp[u] /\ block'[u] = block[u]
    BY <1>0, <1>1 DEF Create, PopFree, CheckSpace, Get, Finish, Return, Goto, TypeOK
  <2>3. /\ pc[t] \in {"running", "lookup", "get", "freed"}
        /\ pc'[t] \in {"running", "lookup", "popped", "get", "cas", "finished"}
    BY <1>0, <1>1 DEF Create, PopFree, CheckSpace, Get, Finish, Return, Goto, TypeOK
  <2>4. t \notin Uncounted' /\ t \notin Uncounted
    BY <2>3 DEF Uncounted, At
  <2> QED BY <2>1, <2>2, <2>3, <2>4, QuietAccounts
<1>2. ASSUME NEW t \in Threads, PutIfAbsent(t) \/ PushFree(t)
      PROVE  Counted' /\ Balanced'
  <2>1. /\ UNCHANGED <<usedSpaceIndex, mBlocks, freeSpace, holds, req, temp, block>>
        /\ pc' = [pc EXCEPT ![t] = "count"] /\ pc[t] \in {"putIfAbsent", "push"}
    BY <1>2 DEF PutIfAbsent, PushFree, Goto
  <2>2. pc'[t] = "count" /\ \A u \in Threads : u # t => pc'[u] = pc[u]
    BY <1>0, <2>1 DEF TypeOK
  <2>3. t \in Uncounted' /\ t \in Uncounted
    BY <2>1, <2>2 DEF Uncounted, At
  <2> QED BY <2>1, <2>2, <2>3, QuietAccounts
<1>3. ASSUME NEW t \in Threads, Cas(t)
      PROVE  Counted' /\ Balanced'
  <2>1. CASE usedSpaceIndex = temp[t]
    <3>1. /\ UNCHANGED <<mBlocks, freeSpace, holds, block>>
          /\ pc' = [pc EXCEPT ![t] = "publish"] /\ pc[t] = "cas"
      BY <1>3, <2>1 DEF Cas, Goto
    <3>2. Uncounted' = Uncounted
      BY <1>0, <3>1 DEF TypeOK, Uncounted, At
    <3> QED BY <1>0, <1>3, <2>1, <3>1, <3>2, CasCount, SameBalance
  <2>2. CASE usedSpaceIndex # temp[t]
    <3>1. /\ UNCHANGED <<usedSpaceIndex, mBlocks, freeSpace, holds, req, temp, block>>
          /\ pc' = [pc EXCEPT ![t] = "get"] /\ pc[t] = "cas"
      BY <1>3, <2>2 DEF Cas, Goto
    <3>2. pc'[t] = "get" /\ \A u \in Threads : u # t => pc'[u] = pc[u]
      BY <1>0, <3>1 DEF TypeOK
    <3>3. t \notin Uncounted' /\ t \notin Uncounted
      BY <3>1, <3>2 DEF Uncounted, At
    <3> QED BY <3>1, <3>2, <3>3, QuietAccounts
  <2> QED BY <2>1, <2>2
<1>4. ASSUME NEW t \in Threads, Publish(t)
      PROVE  Counted' /\ Balanced'
  BY <1>4, PublishCount, PublishBalance
<1>5. ASSUME NEW t \in Threads, Reuse(t) \/ FreeMe(t) \/ CountFree(t)
      PROVE  Counted' /\ Balanced'
  <2>1. /\ UNCHANGED <<usedSpaceIndex, mBlocks>>
        /\ pc[t] # "publish" /\ pc'[t] # "publish"
        /\ \A u \in Threads : u # t => /\ pc'[u] = pc[u] /\ req'[u] = req[u]
                                     /\ temp'[u] = temp[u]
    BY <1>0, <1>5 DEF Reuse, FreeMe, CountFree, Return, Goto, TypeOK
  <2>2. Entering' = Entering /\ \A u \in Entering : u # t /\ u \in Threads
    BY <2>1 DEF Entering, At
  <2> QED BY <1>5, <2>1, <2>2, SameCount, ReuseBalance, FreeMeBalance, CountFreeBalance
<1>6. CASE UNCHANGED vars
  BY <1>0, <1>6, SameCount, SameBalance DEF vars, Entering, Uncounted, At
<1> QED BY <1>1, <1>2, <1>3, <1>4, <1>5, <1>6 DEF Next, Inside

\* The accounts hold in every state of every execution.
THEOREM Accounts == Spec => [](Counted /\ Balanced)
<1> QED BY Start, Step, AccountsStart, AccountsStep, PTL DEF Spec

\* For any number of threads and any sizes, the packed word of
\* incrMemBlockIndex is right at every moment: its space is that of the blocks
\* in the table and of the reservations under way, and its index counts them.
THEOREM WordIsRight == Spec => []Accounting
<1>1. IInv /\ Counted => Accounting
  <2> SUFFICES ASSUME IInv, Counted PROVE Accounting
    OBVIOUS
  <2> DEFINE indexes == Created \cup {temp[t].index : t \in Entering}
  <2>1. Cardinality(indexes) = Cardinality(Created) + Cardinality(Entering)
    <3>1. CASE usedSpaceIndex = Zero
      <4>1. Created = {} /\ Entering = {} /\ indexes = {}
        BY <3>1 DEF Counted
      <4> QED BY <4>1, FS_EmptySet
    <3>2. CASE usedSpaceIndex # Zero
      <4>1. usedSpaceIndex.index \in Nat
        BY DEF IInv, TypeOK, Indexes
      <4>2. Cardinality(0 .. usedSpaceIndex.index) = usedSpaceIndex.index + 1
        BY <4>1, FS_Interval
      <4> QED BY <3>2, <4>2 DEF Counted
    <3> QED BY <3>1, <3>2
  <2>2. usedSpaceIndex # Zero => indexes = 0 .. usedSpaceIndex.index
    BY DEF Counted
  <2> QED BY <2>1, <2>2 DEF Accounting, Counted, Entering
<1> QED BY <1>1, Invariant, Accounts, PTL

\* When no thread is halfway through createMemoryBlock or freeMe and there are
\* only byte blocks, the free space is that of the blocks nobody uses
\* (FreeSpaceManager.java:132-134, 205-207).
THEOREM FreeSpaceIsRight == Spec => []FreeSpaceExact
<1>1. IInv /\ Balanced => FreeSpaceExact
  <2> SUFFICES ASSUME IInv, Balanced,
                      At({"popped", "push", "putIfAbsent", "count"}) = {},
                      \A i \in Created : mBlocks[i].kind = "bytes"
               PROVE  freeSpace = Space(mBlocks, Created \ Used)
    BY DEF FreeSpaceExact, Used
  <2>1. Uncounted = {}
    BY DEF Uncounted, At
  <2>2. Space(Blocked, Uncounted) = 0
    BY <2>1, SpaceEmpty
  <2>3. freeSpace \in Int
    BY DEF IInv, TypeOK
  <2> QED BY <2>2, <2>3 DEF Balanced
<1> QED BY <1>1, Invariant, Accounts, PTL
=============================================================================
