-------------------------- MODULE PhotonPoolProofs --------------------------
(***************************************************************************)
(* The invariant of PhotonPool, for any number of threads, slots and bits. *)
(* Each step is one of four kinds: it claims a slot, gives one up, puts a  *)
(* photon in the slot it has claimed, or leaves claims and slots alone.    *)
(***************************************************************************)
EXTENDS PhotonPool, TLAPS

\* A slot stands for at least one bit of the long.
LEMMA MaskBits == \A i \in Indexes : Mask(i) # {} /\ Mask(i) \subseteq Indexes
<1> TAKE i \in Indexes
<1>1. i % IntBits \in 0 .. IntBits - 1
  BY SlotAssumption DEF Indexes
<1>2. CASE i % IntBits = IntBits - 1
  <2>1. IntBits - 1 \in Mask(i) /\ Mask(i) = IntBits - 1 .. Slots - 1
    BY <1>2, SlotAssumption DEF Mask
  <2> QED BY <2>1, SlotAssumption DEF Indexes
<1>3. CASE i % IntBits # IntBits - 1
  <2>1. Mask(i) = {i % IntBits}
    BY <1>3 DEF Mask
  <2> QED BY <2>1, <1>1, SlotAssumption DEF Indexes
<1> QED BY <1>2, <1>3

\* What the long holds, bit by bit.
LEMMA Bits == ASSUME NEW b
              PROVE  b \in ClaimedBits <=>
                       \E t \in Threads : \E i \in Claimed(t) : b \in Mask(i)
BY DEF ClaimedBits

\* Threads that have claimed something are in the pool's slots.
LEMMA ClaimedIndexes == ASSUME TypeOK, Locals
                        PROVE  \A t \in Threads : Claimed(t) \subseteq Indexes
BY SlotAssumption DEF TypeOK, Locals, Claimed, Holding, Indexes

\* The invariant holds before the first call.
LEMMA Start == Init => IInv
<1> SUFFICES ASSUME Init PROVE IInv
  OBVIOUS
<1>1. TypeOK
  BY SlotAssumption, BoundAssumption, NoneAssumption DEF Init, TypeOK
<1>2. \A t \in Threads : Claimed(t) = {} /\ ~Holding(t) /\ ~Making(t)
  BY DEF Init, Claimed, Holding, Making
<1>3. Creation /\ Locals /\ Owned /\ Connected /\ Disjoint /\ IndexExact
  <2>1. ClaimedBits = {}
    BY <1>2, Bits
  <2> QED BY <1>2, <2>1 DEF Init, Creation, Locals, Owned, OneThread, OneSlot,
       Unstored, Existing, Connected, KeepsItsSlot, Disjoint, IndexExact
<1> QED BY <1>1, <1>3 DEF IInv

\* Types: every step keeps them.
LEMMA TypeStep == IInv /\ [Next]_vars => TypeOK'
<1> SUFFICES ASSUME IInv, [Next]_vars PROVE TypeOK'
  OBVIOUS
<1>1. CASE UNCHANGED vars
  BY <1>1 DEF IInv, vars, TypeOK
<1>2. ASSUME NEW t \in Threads, NEW k \in Kinds, CreatePhotonHelper(t, k)
      PROVE  TypeOK'
  BY <1>2, BoundAssumption DEF CreatePhotonHelper, Goto, pool, photons, locals,
       IInv, TypeOK
<1>3. ASSUME NEW t \in Threads, NewArray(t) PROVE TypeOK'
  BY <1>3 DEF NewArray, Goto, photons, locals, IInv, TypeOK
<1>4. ASSUME NEW t \in Threads, TestWord(t) PROVE TypeOK'
  BY <1>4 DEF TestWord, Goto, pool, photons, locals, IInv, TypeOK
<1>5. ASSUME NEW t \in Threads, NewWord(t) PROVE TypeOK'
  BY <1>5 DEF NewWord, Goto, photons, locals, IInv, TypeOK
<1>6. ASSUME NEW t \in Threads, GetRead(t) PROVE TypeOK'
  BY <1>6, SlotAssumption DEF GetRead, StartScan, Goto, pool, photons, IInv, TypeOK
<1>7. ASSUME NEW t \in Threads, GetScan(t) PROVE TypeOK'
  <2>1. index'[t] \in 0 .. Slots
    BY <1>7, SlotAssumption DEF GetScan, IInv, TypeOK, Locals, Indexes
  <2>2. index' = [index EXCEPT ![t] = index'[t]]
    BY <1>7 DEF GetScan, Goto, IInv, TypeOK
  <2>3. pc'[t] \in {"make", "getCas", "getScan", "created", "addCas", "addScan"}
    BY <1>7 DEF GetScan, Goto, IInv, TypeOK
  <2>4. pc' = [pc EXCEPT ![t] = pc'[t]]
    BY <1>7 DEF GetScan, Goto
  <2>5. UNCHANGED <<created, phPoolIndex, phPool, asserts, cType, isConnected, unclosed, calls,
                    wanted, oldVal, ph>>
    BY <1>7 DEF GetScan, Goto, pool, photons
  <2> QED BY <2>1, <2>2, <2>3, <2>4, <2>5 DEF IInv, TypeOK
<1>8. ASSUME NEW t \in Threads, GetCas(t) PROVE TypeOK'
  BY <1>8, MaskBits DEF GetCas, Goto, photons, locals, IInv, TypeOK, Locals
<1>9. ASSUME NEW t \in Threads, Take(t) PROVE TypeOK'
  BY <1>9 DEF Take, Goto, pool, photons, IInv, TypeOK, Locals
<1>10. ASSUME NEW t \in Threads, Make(t) PROVE TypeOK'
  BY <1>10, SlotAssumption DEF Make, Goto, pool, IInv, TypeOK
<1>11. ASSUME NEW t \in Threads, AddRead(t) PROVE TypeOK'
  BY <1>11, SlotAssumption DEF AddRead, StartScan, Goto, pool, photons, IInv, TypeOK
<1>12. ASSUME NEW t \in Threads, AddScan(t) PROVE TypeOK'
  <2>1. index'[t] \in 0 .. Slots
    BY <1>12, SlotAssumption DEF AddScan, IInv, TypeOK, Locals, Indexes
  <2>2. index' = [index EXCEPT ![t] = index'[t]]
    BY <1>12 DEF AddScan, Goto, IInv, TypeOK
  <2>3. pc'[t] \in {"make", "getCas", "getScan", "created", "addCas", "addScan"}
    BY <1>12 DEF AddScan, Goto, IInv, TypeOK
  <2>4. pc' = [pc EXCEPT ![t] = pc'[t]]
    BY <1>12 DEF AddScan, Goto
  <2>5. UNCHANGED <<created, phPoolIndex, phPool, asserts, cType, isConnected, unclosed, calls,
                    wanted, oldVal, ph>>
    BY <1>12 DEF AddScan, Goto, pool, photons
  <2> QED BY <2>1, <2>2, <2>3, <2>4, <2>5 DEF IInv, TypeOK
<1>13. ASSUME NEW t \in Threads, AddCas(t) PROVE TypeOK'
  BY <1>13, MaskBits DEF AddCas, Goto, photons, locals, IInv, TypeOK, Locals
<1>14. ASSUME NEW t \in Threads, Store(t) PROVE TypeOK'
  BY <1>14 DEF Store, Goto, photons, locals, IInv, TypeOK
<1>15. ASSUME NEW t \in Threads, Connect(t) PROVE TypeOK'
  BY <1>15 DEF Connect, Goto, pool, locals, IInv, TypeOK, Locals, Holding
<1>16. ASSUME NEW t \in Threads, Close(t) PROVE TypeOK'
  BY <1>16 DEF Close, Goto, pool, locals, IInv, TypeOK
<1>17. ASSUME NEW t \in Threads, ReturnPhotonToPool(t) PROVE TypeOK'
  <2>1. phPoolIndex' \in SUBSET Indexes
    BY <1>17 DEF ReturnPhotonToPool, IInv, TypeOK
  <2>2. UNCHANGED <<created, phPool, asserts, cType, isConnected, unclosed, calls>>
    BY <1>17 DEF ReturnPhotonToPool, photons
  <2>3. pc' = [pc EXCEPT ![t] = "idle"] /\ ph' = [ph EXCEPT ![t] = None]
        /\ wanted' = [wanted EXCEPT ![t] = None]
        /\ oldVal' = [oldVal EXCEPT ![t] = {}] /\ index' = [index EXCEPT ![t] = 0]
    BY <1>17 DEF ReturnPhotonToPool, Forget, Goto
  <2>4. {} \in SUBSET Indexes /\ 0 \in 0 .. Slots
    BY SlotAssumption
  <2> QED BY <2>1, <2>2, <2>3, <2>4 DEF IInv, TypeOK
<1>18. ASSUME NEW t \in Threads, LeaveOpen(t) PROVE TypeOK'
  <2>1. ph[t] \in Photons
    BY <1>18 DEF LeaveOpen, IInv, TypeOK, Locals, Holding
  <2> QED BY <1>18, <2>1 DEF LeaveOpen, Goto, pool, locals, IInv, TypeOK
<1>19. ASSUME NEW t \in Threads, ScanAssert(t) PROVE TypeOK'
  <2>1. pc' = [pc EXCEPT ![t] = "idle"] /\ ph' = [ph EXCEPT ![t] = None]
        /\ wanted' = [wanted EXCEPT ![t] = None]
        /\ oldVal' = [oldVal EXCEPT ![t] = {}] /\ index' = [index EXCEPT ![t] = 0]
    BY <1>19 DEF ScanAssert, Forget, Goto
  <2>2. UNCHANGED <<created, phPoolIndex, phPool, asserts, cType, isConnected, unclosed, calls>>
    BY <1>19 DEF ScanAssert, pool, photons
  <2>3. {} \in SUBSET Indexes /\ 0 \in 0 .. Slots
    BY SlotAssumption
  <2> QED BY <2>1, <2>2, <2>3 DEF IInv, TypeOK
<1> QED BY <1>1, <1>2, <1>3, <1>4, <1>5, <1>6, <1>7, <1>8, <1>9, <1>10, <1>11,
   <1>12, <1>13, <1>14, <1>15, <1>16, <1>17, <1>18, <1>19 DEF Next, Step

\* The statics are created before any of the other steps.
LEMMA CreationStep == SoloStart /\ IInv /\ [Next]_vars => Creation'
<1> SUFFICES ASSUME SoloStart, IInv, [Next]_vars PROVE Creation'
  OBVIOUS
<1>1. CASE UNCHANGED vars
  BY <1>1 DEF IInv, vars, TypeOK, Creation, SoloStart
<1>2. ASSUME NEW t \in Threads, NEW k \in Kinds, CreatePhotonHelper(t, k)
      PROVE  Creation'
  BY <1>2 DEF CreatePhotonHelper, Goto, pool, IInv, Creation
<1>3. ASSUME NEW t \in Threads, NewArray(t) PROVE Creation'
  BY <1>3, SoloStart DEF NewArray, Goto, IInv, TypeOK, Creation, SoloStart
<1>4. ASSUME NEW t \in Threads, TestWord(t) PROVE Creation'
  BY <1>4 DEF TestWord, Goto, pool, IInv, Creation
<1>5. ASSUME NEW t \in Threads, NewWord(t) PROVE Creation'
  BY <1>5, SoloStart DEF NewWord, Goto, IInv, TypeOK, Creation, SoloStart
<1>6. ASSUME NEW t \in Threads, GetRead(t) PROVE Creation'
  BY <1>6 DEF GetRead, StartScan, Goto, pool, IInv, Creation
<1>7. ASSUME NEW t \in Threads, GetScan(t) PROVE Creation'
  BY <1>7 DEF GetScan, Goto, pool, IInv, TypeOK, Creation
<1>8. ASSUME NEW t \in Threads, GetCas(t) PROVE Creation'
  BY <1>8 DEF GetCas, Goto, IInv, TypeOK, Creation
<1>9. ASSUME NEW t \in Threads, Take(t) PROVE Creation'
  BY <1>9 DEF Take, Goto, pool, IInv, Creation
<1>10. ASSUME NEW t \in Threads, Make(t) PROVE Creation'
  BY <1>10 DEF Make, Goto, pool, IInv, Creation
<1>11. ASSUME NEW t \in Threads, AddRead(t) PROVE Creation'
  BY <1>11 DEF AddRead, StartScan, Goto, pool, IInv, Creation
<1>12. ASSUME NEW t \in Threads, AddScan(t) PROVE Creation'
  BY <1>12 DEF AddScan, Goto, pool, IInv, TypeOK, Creation
<1>13. ASSUME NEW t \in Threads, AddCas(t) PROVE Creation'
  BY <1>13 DEF AddCas, Goto, IInv, TypeOK, Creation
<1>14. ASSUME NEW t \in Threads, Store(t) PROVE Creation'
  BY <1>14 DEF Store, Goto, IInv, Creation
<1>15. ASSUME NEW t \in Threads, Connect(t) PROVE Creation'
  BY <1>15 DEF Connect, Goto, pool, IInv, Creation
<1>16. ASSUME NEW t \in Threads, Close(t) PROVE Creation'
  BY <1>16 DEF Close, Goto, pool, IInv, Creation
<1>17. ASSUME NEW t \in Threads, ReturnPhotonToPool(t) PROVE Creation'
  BY <1>17 DEF ReturnPhotonToPool, Forget, Goto, IInv, Creation
<1>18. ASSUME NEW t \in Threads, LeaveOpen(t) PROVE Creation'
  BY <1>18 DEF LeaveOpen, Goto, pool, IInv, Creation
<1>19. ASSUME NEW t \in Threads, ScanAssert(t) PROVE Creation'
  BY <1>19 DEF ScanAssert, Forget, Goto, pool, IInv, Creation
<1> QED BY <1>1, <1>2, <1>3, <1>4, <1>5, <1>6, <1>7, <1>8, <1>9, <1>10, <1>11,
   <1>12, <1>13, <1>14, <1>15, <1>16, <1>17, <1>18, <1>19 DEF Next, Step

\* What the locals say stays true.
LEMMA LocalsStep == IInv /\ [Next]_vars => Locals'
<1> SUFFICES ASSUME IInv, [Next]_vars PROVE Locals'
  OBVIOUS
<1>1. CASE UNCHANGED vars
  BY <1>1 DEF IInv, vars, TypeOK, Creation, Locals, Indexes, Unset, Making,
       Holding, Full
<1>2. ASSUME NEW t \in Threads, NEW k \in Kinds, CreatePhotonHelper(t, k)
      PROVE  Locals'
  BY <1>2 DEF CreatePhotonHelper, Goto, pool, locals, IInv, TypeOK, Locals, Unset,
       Making, Holding
<1>3. ASSUME NEW t \in Threads, NewArray(t) PROVE Locals'
  BY <1>3 DEF NewArray, Goto, locals, IInv, Creation, Locals, Making, Holding
<1>4. ASSUME NEW t \in Threads, TestWord(t) PROVE Locals'
  BY <1>4 DEF TestWord, Goto, pool, locals, IInv, Locals, Unset, Making, Holding
<1>5. ASSUME NEW t \in Threads, NewWord(t) PROVE Locals'
  BY <1>5 DEF NewWord, Goto, locals, IInv, Locals, Unset, Making, Holding
<1>6. ASSUME NEW t \in Threads, GetRead(t) PROVE Locals'
  BY <1>6, SlotAssumption DEF GetRead, StartScan, Goto, pool, IInv, TypeOK,
       Locals, Indexes, Unset, Making, Holding
<1>7. ASSUME NEW t \in Threads, GetScan(t) PROVE Locals'
  <2>1. /\ pc' = [pc EXCEPT ![t] = pc'[t]] /\ pc'[t] \in {"getScan", "getCas", "make"}
        /\ UNCHANGED <<phPool, wanted, oldVal, ph>>
    BY <1>7 DEF GetScan, Goto, pool, IInv, TypeOK
  <2>4. index' = [index EXCEPT ![t] = index'[t]]
    BY <1>7 DEF GetScan, Goto, IInv, TypeOK
  <2>5. index[t] \in Indexes
    BY <1>7 DEF GetScan, IInv, Locals
  <2>2. pc'[t] = "getScan" => index'[t] \in Indexes
    BY <1>7, <2>5, SlotAssumption DEF GetScan, Goto, IInv, TypeOK, Indexes
  <2>3. pc'[t] = "getCas" => index' = index /\ index[t] \in Indexes /\ Unset(t) /\ phPool[index[t]] # None
    BY <1>7 DEF GetScan, GetFits, Goto, IInv, TypeOK, Locals
  <2> QED BY <1>7, <2>1, <2>2, <2>3, <2>4
       DEF GetScan, IInv, TypeOK, Locals, Unset, Making, Holding
<1>8. ASSUME NEW t \in Threads, GetCas(t) PROVE Locals'
  BY <1>8 DEF GetCas, Goto, locals, IInv, TypeOK, Locals, Unset, Making, Holding
<1>9. ASSUME NEW t \in Threads, Take(t) PROVE Locals'
  BY <1>9 DEF Take, Goto, pool, IInv, TypeOK, Locals, Unset, Making, Holding
<1>10. ASSUME NEW t \in Threads, Make(t) PROVE Locals'
  <2>1. PICK p \in Photons : /\ cType' = [cType EXCEPT ![p] = wanted[t]]
                             /\ ph' = [ph EXCEPT ![t] = p]
    BY <1>10 DEF Make
  <2>2. pc'[t] \in {"created", "add"} /\ pc' = [pc EXCEPT ![t] = pc'[t]]
    BY <1>10 DEF Make, Goto, IInv, TypeOK
  <2>3. p # None
    BY BoundAssumption, NoneAssumption DEF Photons
  <2> QED BY <1>10, <2>1, <2>2, <2>3 DEF Make, pool, IInv, TypeOK, Locals, Unset,
       Making, Holding
<1>11. ASSUME NEW t \in Threads, AddRead(t) PROVE Locals'
  BY <1>11, SlotAssumption DEF AddRead, StartScan, Goto, pool, IInv, TypeOK,
       Locals, Indexes, Unset, Making, Holding
<1>12. ASSUME NEW t \in Threads, AddScan(t) PROVE Locals'
  <2>1. /\ pc' = [pc EXCEPT ![t] = pc'[t]] /\ pc'[t] \in {"addScan", "addCas", "created"}
        /\ UNCHANGED <<phPool, wanted, oldVal, ph>>
    BY <1>12 DEF AddScan, Goto, pool, IInv, TypeOK
  <2>4. index' = [index EXCEPT ![t] = index'[t]]
    BY <1>12 DEF AddScan, Goto, IInv, TypeOK
  <2>5. index[t] \in Indexes
    BY <1>12 DEF AddScan, IInv, Locals
  <2>2. pc'[t] = "addScan" => index'[t] \in Indexes
    BY <1>12, <2>5, SlotAssumption DEF AddScan, Goto, IInv, TypeOK, Indexes
  <2>3. pc'[t] = "addCas" => index' = index /\ index[t] \in Indexes /\ Unset(t)
    BY <1>12 DEF AddScan, Goto, IInv, TypeOK, Locals
  <2> QED BY <1>12, <2>1, <2>2, <2>3, <2>4
       DEF AddScan, IInv, TypeOK, Locals, Unset, Making, Holding
<1>13. ASSUME NEW t \in Threads, AddCas(t) PROVE Locals'
  BY <1>13 DEF AddCas, Goto, locals, IInv, TypeOK, Locals, Unset, Making, Holding
<1>14. ASSUME NEW t \in Threads, Store(t) PROVE Locals'
  BY <1>14 DEF Store, Goto, locals, IInv, Locals, Unset, Making, Holding
<1>15. ASSUME NEW t \in Threads, Connect(t) PROVE Locals'
  BY <1>15 DEF Connect, Goto, pool, locals, IInv, Locals, Unset, Making, Holding
<1>16. ASSUME NEW t \in Threads, Close(t) PROVE Locals'
  BY <1>16 DEF Close, Goto, pool, locals, IInv, Locals, Unset, Making, Holding
<1>17. ASSUME NEW t \in Threads, ReturnPhotonToPool(t) PROVE Locals'
  BY <1>17 DEF ReturnPhotonToPool, Forget, Goto, IInv, TypeOK, Locals, Unset,
       Making, Holding
<1>18. ASSUME NEW t \in Threads, LeaveOpen(t) PROVE Locals'
  BY <1>18 DEF LeaveOpen, Goto, pool, locals, IInv, Locals, Unset, Making, Holding
<1>19. ASSUME NEW t \in Threads, ScanAssert(t) PROVE Locals'
  BY <1>19 DEF ScanAssert, Forget, Goto, pool, IInv, TypeOK, Locals, Unset,
       Making, Holding
<1> QED BY <1>1, <1>2, <1>3, <1>4, <1>5, <1>6, <1>7, <1>8, <1>9, <1>10, <1>11,
   <1>12, <1>13, <1>14, <1>15, <1>16, <1>17, <1>18, <1>19 DEF Next, Step

\* A step that leaves claims and long alone keeps them in line.
LEMMA Quiet == ASSUME IInv, phPoolIndex' = phPoolIndex,
                      \A t \in Threads : Claimed(t)' = Claimed(t)
               PROVE  Disjoint' /\ IndexExact'
<1>1. Disjoint'
  BY DEF IInv, Disjoint
<1>2. ClaimedBits' = ClaimedBits
  BY DEF ClaimedBits
<1> QED BY <1>1, <1>2 DEF IInv, IndexExact

\* So does the claim of a slot whose bits are clear.
LEMMA Claim == ASSUME IInv, NEW t \in Threads, NEW i \in Indexes,
                      Claimed(t)' = {i},
                      \A u \in Threads : u # t => Claimed(u)' = Claimed(u),
                      Claimed(t) = {},
                      Mask(i) \cap phPoolIndex = {},
                      phPoolIndex' = phPoolIndex \cup Mask(i)
               PROVE  Disjoint' /\ IndexExact'
<1>1. \A u \in Threads : \A j \in Claimed(u) : Mask(j) \subseteq phPoolIndex
  BY Bits DEF IInv, IndexExact
<1>2. Disjoint'
  <2> SUFFICES ASSUME NEW u \in Threads, NEW v \in Threads, u # v,
                      NEW j \in Claimed(u)', NEW k \in Claimed(v)'
               PROVE  Mask(j) \cap Mask(k) = {}
    BY DEF Disjoint
  <2>1. CASE u # t /\ v # t
    BY <2>1 DEF IInv, Disjoint
  <2>2. CASE u = t
    BY <2>2, <1>1
  <2>3. CASE v = t
    BY <2>3, <1>1
  <2> QED BY <2>1, <2>2, <2>3
<1>3. ASSUME NEW b PROVE b \in phPoolIndex' <=> b \in ClaimedBits'
  <2>1. b \in ClaimedBits' <=> \E u \in Threads : \E j \in Claimed(u)' : b \in Mask(j)
    BY DEF ClaimedBits
  <2>2. b \in phPoolIndex <=> \E u \in Threads : \E j \in Claimed(u) : b \in Mask(j)
    BY Bits DEF IInv, IndexExact
  <2> QED BY <2>1, <2>2
<1> QED BY <1>2, <1>3 DEF IndexExact

\* And giving up a claim together with its bits.
LEMMA GiveUp == ASSUME IInv, NEW t \in Threads, NEW i \in Indexes,
                       Claimed(t) = {i}, Claimed(t)' = {},
                       \A u \in Threads : u # t => Claimed(u)' = Claimed(u),
                       phPoolIndex' = phPoolIndex \ Mask(i)
                PROVE  Disjoint' /\ IndexExact'
<1>1. Disjoint'
  BY DEF IInv, Disjoint
<1>2. ASSUME NEW b PROVE b \in phPoolIndex' <=> b \in ClaimedBits'
  <2>1. b \in ClaimedBits' <=> \E u \in Threads : \E j \in Claimed(u)' : b \in Mask(j)
    BY DEF ClaimedBits
  <2>2. b \in phPoolIndex <=> \E u \in Threads : \E j \in Claimed(u) : b \in Mask(j)
    BY Bits DEF IInv, IndexExact
  <2>3. \A u \in Threads : u # t => \A j \in Claimed(u) :
          b \in Mask(j) => b \notin Mask(i)
    BY DEF IInv, Disjoint
  <2> QED BY <2>1, <2>2, <2>3
<1> QED BY <1>1, <1>2 DEF IndexExact

\* Two claims never share a bit, and the long has exactly the claimed bits.
LEMMA ClaimsStep == IInv /\ [Next]_vars => Disjoint' /\ IndexExact'
<1> SUFFICES ASSUME IInv, [Next]_vars PROVE Disjoint' /\ IndexExact'
  OBVIOUS
<1>1. CASE UNCHANGED vars
  <2>1. \A u \in Threads : Claimed(u)' = Claimed(u)
    BY <1>1 DEF vars, Claimed, Holding
  <2> QED BY <1>1, <2>1, Quiet DEF vars
<1>2. ASSUME NEW t \in Threads, NEW k \in Kinds, CreatePhotonHelper(t, k)
      PROVE  Disjoint' /\ IndexExact'
  <2>1. \A u \in Threads : Claimed(u)' = Claimed(u)
    BY <1>2 DEF CreatePhotonHelper, Goto, locals, Claimed, Holding
  <2>2. phPoolIndex' = phPoolIndex
    BY <1>2 DEF CreatePhotonHelper, pool
  <2> QED BY <2>1, <2>2, Quiet
<1>3. ASSUME NEW t \in Threads, NewArray(t) PROVE Disjoint' /\ IndexExact'
  <2>1. \A u \in Threads : Claimed(u)' = Claimed(u)
    BY <1>3 DEF NewArray, Goto, IInv, Creation, Claimed, Holding
  <2>2. phPoolIndex' = phPoolIndex
    BY <1>3 DEF NewArray, Goto, pool, photons, locals, IInv, TypeOK, Creation,
         Locals, Indexes, Full
  <2> QED BY <2>1, <2>2, Quiet
<1>4. ASSUME NEW t \in Threads, TestWord(t) PROVE Disjoint' /\ IndexExact'
  <2>1. \A u \in Threads : Claimed(u)' = Claimed(u)
    BY <1>4 DEF TestWord, Goto, locals, Claimed, Holding
  <2>2. phPoolIndex' = phPoolIndex
    BY <1>4 DEF TestWord, Goto, pool, photons, locals, IInv, TypeOK, Creation,
         Locals, Indexes, Full
  <2> QED BY <2>1, <2>2, Quiet
<1>5. ASSUME NEW t \in Threads, NewWord(t) PROVE Disjoint' /\ IndexExact'
  <2>1. \A u \in Threads : Claimed(u)' = Claimed(u)
    BY <1>5 DEF NewWord, Goto, IInv, Creation, Claimed, Holding
  <2>2. \A u \in Threads : Claimed(u) = {}
    BY <1>5 DEF NewWord, IInv, Creation, Claimed, Holding
  <2>3. ClaimedBits = {}
    BY <2>2, Bits
  <2>4. phPoolIndex' = phPoolIndex
    BY <1>5, <2>3 DEF NewWord, IInv, IndexExact
  <2> QED BY <2>1, <2>4, Quiet
<1>6. ASSUME NEW t \in Threads, GetRead(t) PROVE Disjoint' /\ IndexExact'
  <2>1. \A u \in Threads : Claimed(u)' = Claimed(u)
    BY <1>6 DEF GetRead, StartScan, Goto, Claimed, Holding
  <2>2. phPoolIndex' = phPoolIndex
    BY <1>6 DEF GetRead, StartScan, pool
  <2> QED BY <2>1, <2>2, Quiet
<1>7. ASSUME NEW t \in Threads, GetScan(t) PROVE Disjoint' /\ IndexExact'
  <2>1. \A u \in Threads : Claimed(u)' = Claimed(u)
    BY <1>7 DEF GetScan, Goto, IInv, TypeOK, Claimed, Holding
  <2>2. phPoolIndex' = phPoolIndex
    BY <1>7 DEF GetScan, pool
  <2> QED BY <2>1, <2>2, Quiet
<1>8. ASSUME NEW t \in Threads, GetCas(t) PROVE Disjoint' /\ IndexExact'
  <2>1. CASE phPoolIndex = oldVal[t]
    <3>1. index[t] \in Indexes /\ Mask(index[t]) \cap phPoolIndex = {}
      BY <1>8, <2>1 DEF GetCas, IInv, Locals, Unset
    <3>2. Claimed(t) = {} /\ Claimed(t)' = {index[t]}
      BY <1>8, <2>1 DEF GetCas, Goto, locals, Claimed, Holding, IInv, TypeOK
    <3>3. \A u \in Threads : u # t => Claimed(u)' = Claimed(u)
      BY <1>8, <2>1 DEF GetCas, Goto, locals, Claimed, Holding, IInv, TypeOK
    <3>4. phPoolIndex' = phPoolIndex \cup Mask(index[t])
      BY <1>8, <2>1 DEF GetCas
    <3> QED BY <3>1, <3>2, <3>3, <3>4, Claim
  <2>2. CASE phPoolIndex # oldVal[t]
    <3>1. \A u \in Threads : Claimed(u)' = Claimed(u)
      BY <1>8, <2>2 DEF GetCas, Goto, locals, Claimed, Holding, IInv, TypeOK
    <3> QED BY <1>8, <2>2, <3>1, Quiet DEF GetCas
  <2> QED BY <2>1, <2>2
<1>9. ASSUME NEW t \in Threads, Take(t) PROVE Disjoint' /\ IndexExact'
  <2>1. \A u \in Threads : Claimed(u)' = Claimed(u)
    BY <1>9 DEF Take, Goto, IInv, Locals, Indexes, Claimed, Holding
  <2>2. phPoolIndex' = phPoolIndex
    BY <1>9 DEF Take, Goto, pool, photons, locals, IInv, TypeOK, Creation, Locals,
         Indexes, Full
  <2> QED BY <2>1, <2>2, Quiet
<1>10. ASSUME NEW t \in Threads, Make(t) PROVE Disjoint' /\ IndexExact'
  <2>1. \A u \in Threads : Claimed(u)' = Claimed(u)
    BY <1>10 DEF Make, Goto, IInv, TypeOK, Claimed, Holding
  <2>2. phPoolIndex' = phPoolIndex
    BY <1>10 DEF Make, Goto, pool, photons, locals, IInv, TypeOK, Creation,
         Locals, Indexes, Full
  <2> QED BY <2>1, <2>2, Quiet
<1>11. ASSUME NEW t \in Threads, AddRead(t) PROVE Disjoint' /\ IndexExact'
  <2>1. \A u \in Threads : Claimed(u)' = Claimed(u)
    BY <1>11 DEF AddRead, StartScan, Goto, Claimed, Holding
  <2>2. phPoolIndex' = phPoolIndex
    BY <1>11 DEF AddRead, StartScan, pool
  <2> QED BY <2>1, <2>2, Quiet
<1>12. ASSUME NEW t \in Threads, AddScan(t) PROVE Disjoint' /\ IndexExact'
  <2>1. \A u \in Threads : Claimed(u)' = Claimed(u)
    BY <1>12 DEF AddScan, Goto, IInv, TypeOK, Claimed, Holding
  <2>2. phPoolIndex' = phPoolIndex
    BY <1>12 DEF AddScan, Goto, pool, photons, locals, IInv, TypeOK, Creation,
         Locals, Indexes, Full
  <2> QED BY <2>1, <2>2, Quiet
<1>13. ASSUME NEW t \in Threads, AddCas(t) PROVE Disjoint' /\ IndexExact'
  <2>1. CASE phPoolIndex = oldVal[t]
    <3>1. index[t] \in Indexes /\ Mask(index[t]) \cap phPoolIndex = {}
      BY <1>13, <2>1 DEF AddCas, IInv, Locals, Unset
    <3>2. Claimed(t) = {} /\ Claimed(t)' = {index[t]}
      BY <1>13, <2>1 DEF AddCas, Goto, locals, Claimed, Holding, IInv, TypeOK
    <3>3. \A u \in Threads : u # t => Claimed(u)' = Claimed(u)
      BY <1>13, <2>1 DEF AddCas, Goto, locals, Claimed, Holding, IInv, TypeOK
    <3>4. phPoolIndex' = phPoolIndex \cup Mask(index[t])
      BY <1>13, <2>1 DEF AddCas
    <3> QED BY <3>1, <3>2, <3>3, <3>4, Claim
  <2>2. CASE phPoolIndex # oldVal[t]
    <3>1. \A u \in Threads : Claimed(u)' = Claimed(u)
      BY <1>13, <2>2 DEF AddCas, Goto, locals, Claimed, Holding, IInv, TypeOK
    <3> QED BY <1>13, <2>2, <3>1, Quiet DEF AddCas
  <2> QED BY <2>1, <2>2
<1>14. ASSUME NEW t \in Threads, Store(t) PROVE Disjoint' /\ IndexExact'
  <2>1. \A u \in Threads : Claimed(u)' = Claimed(u)
    BY <1>14 DEF Store, Goto, locals, IInv, Locals, Indexes, Claimed, Holding
  <2>2. phPoolIndex' = phPoolIndex
    BY <1>14 DEF Store, Goto, pool, photons, locals, IInv, TypeOK, Creation,
         Locals, Indexes, Full
  <2> QED BY <2>1, <2>2, Quiet
<1>15. ASSUME NEW t \in Threads, Connect(t) PROVE Disjoint' /\ IndexExact'
  <2>1. \A u \in Threads : Claimed(u)' = Claimed(u)
    BY <1>15 DEF Connect, Goto, locals, Claimed, Holding
  <2>2. phPoolIndex' = phPoolIndex
    BY <1>15 DEF Connect, Goto, pool, photons, locals, IInv, TypeOK, Creation,
         Locals, Indexes, Full
  <2> QED BY <2>1, <2>2, Quiet
<1>16. ASSUME NEW t \in Threads, Close(t) PROVE Disjoint' /\ IndexExact'
  <2>1. \A u \in Threads : Claimed(u)' = Claimed(u)
    BY <1>16 DEF Close, Goto, locals, Claimed, Holding
  <2>2. phPoolIndex' = phPoolIndex
    BY <1>16 DEF Close, Goto, pool, photons, locals, IInv, TypeOK, Creation,
         Locals, Indexes, Full
  <2> QED BY <2>1, <2>2, Quiet
<1>17. ASSUME NEW t \in Threads, ReturnPhotonToPool(t) PROVE Disjoint' /\ IndexExact'
  <2>1. SlotsOf(ph[t]) = Claimed(t)
    BY <1>17 DEF ReturnPhotonToPool, IInv, Owned, KeepsItsSlot, Holding
  <2>2. Claimed(t)' = {}
    BY <1>17 DEF ReturnPhotonToPool, Forget, Goto, Claimed, Holding, IInv, TypeOK
  <2>3. \A u \in Threads : u # t => Claimed(u)' = Claimed(u)
    BY <1>17 DEF ReturnPhotonToPool, Forget, Goto, Claimed, Holding, IInv, TypeOK
  <2>4. CASE SlotsOf(ph[t]) = {}
    <3>1. phPoolIndex' = phPoolIndex
      BY <1>17, <2>4 DEF ReturnPhotonToPool
    <3> QED BY <2>1, <2>2, <2>3, <2>4, <3>1, Quiet
  <2>5. CASE SlotsOf(ph[t]) # {}
    <3>1. PICK i \in SlotsOf(ph[t]) : phPoolIndex' = phPoolIndex \ Mask(i)
      BY <1>17, <2>5 DEF ReturnPhotonToPool
    <3>2. i \in Indexes /\ Claimed(t) = {i}
      BY <2>1, <3>1 DEF SlotsOf, Claimed
    <3> QED BY <2>2, <2>3, <3>1, <3>2, GiveUp
  <2> QED BY <2>4, <2>5
<1>18. ASSUME NEW t \in Threads, LeaveOpen(t) PROVE Disjoint' /\ IndexExact'
  <2>1. \A u \in Threads : Claimed(u)' = Claimed(u)
    BY <1>18 DEF LeaveOpen, Goto, locals, Claimed, Holding
  <2>2. phPoolIndex' = phPoolIndex
    BY <1>18 DEF LeaveOpen, pool
  <2> QED BY <2>1, <2>2, Quiet
<1>19. ASSUME NEW t \in Threads, ScanAssert(t) PROVE Disjoint' /\ IndexExact'
  <2>1. \A u \in Threads : Claimed(u)' = Claimed(u)
    BY <1>19 DEF ScanAssert, Forget, Goto, Claimed, Holding, IInv, TypeOK
  <2>2. phPoolIndex' = phPoolIndex
    BY <1>19 DEF ScanAssert, pool
  <2> QED BY <2>1, <2>2, Quiet
<1> QED BY <1>1, <1>2, <1>3, <1>4, <1>5, <1>6, <1>7, <1>8, <1>9, <1>10, <1>11,
   <1>12, <1>13, <1>14, <1>15, <1>16, <1>17, <1>18, <1>19 DEF Next, Step

\* A step that changes neither photons nor slots, and lets no thread get hold
\* of another photon or claim.
LEMMA SameOwners ==
  ASSUME IInv, UNCHANGED <<phPool, cType, ph>>,
         \A u \in Threads : /\ Holding(u)' => Holding(u) /\ Claimed(u)' = Claimed(u)
                            /\ Making(u)' => Making(u)
  PROVE  Owned'
<1>1. \A p : SlotsOf(p)' = SlotsOf(p)
  BY DEF SlotsOf
<1>2. OneThread' /\ OneSlot' /\ Existing'
  BY DEF IInv, Owned, OneThread, OneSlot, Existing
<1>3. Unstored' /\ KeepsItsSlot'
  BY <1>1 DEF IInv, Owned, Unstored, KeepsItsSlot
<1> QED BY <1>2, <1>3 DEF Owned

\* A photon keeps to one thread and to one slot.
LEMMA OwnedStep == IInv /\ [Next]_vars => Owned'
<1> SUFFICES ASSUME IInv, [Next]_vars PROVE Owned'
  OBVIOUS
<1>1. CASE UNCHANGED vars
  BY <1>1 DEF IInv, vars, Owned, OneThread, OneSlot, Unstored, Existing,
       KeepsItsSlot, SlotsOf, Claimed, Holding, Making
<1>2. ASSUME NEW t \in Threads, NEW k \in Kinds, CreatePhotonHelper(t, k)
      PROVE  Owned'
  <2>1. UNCHANGED <<phPool, cType, ph>>
    BY <1>2 DEF CreatePhotonHelper, Goto, pool, photons, locals
  <2>2. \A u \in Threads :
          /\ Holding(u)' => Holding(u) /\ Claimed(u)' = Claimed(u)
          /\ Making(u)' => Making(u)
    BY <1>2 DEF CreatePhotonHelper, Goto, locals, IInv, TypeOK, Holding, Making,
         Claimed
  <2> QED BY <2>1, <2>2, SameOwners
<1>3. ASSUME NEW t \in Threads, NewArray(t) PROVE Owned'
  BY <1>3 DEF NewArray, Goto, photons, locals, IInv, Creation, Owned, OneThread,
       OneSlot, Unstored, Existing, KeepsItsSlot, Holding, Making
<1>4. ASSUME NEW t \in Threads, TestWord(t) PROVE Owned'
  <2>1. UNCHANGED <<phPool, cType, ph>>
    BY <1>4 DEF TestWord, Goto, pool, photons, locals
  <2>2. \A u \in Threads :
          /\ Holding(u)' => Holding(u) /\ Claimed(u)' = Claimed(u)
          /\ Making(u)' => Making(u)
    BY <1>4 DEF TestWord, Goto, locals, IInv, TypeOK, Holding, Making, Claimed
  <2> QED BY <2>1, <2>2, SameOwners
<1>5. ASSUME NEW t \in Threads, NewWord(t) PROVE Owned'
  BY <1>5 DEF NewWord, Goto, photons, locals, IInv, Owned, OneThread, OneSlot,
       Unstored, Existing, KeepsItsSlot, SlotsOf, Claimed, Holding,
       Making
<1>6. ASSUME NEW t \in Threads, GetRead(t) PROVE Owned'
  <2>1. UNCHANGED <<phPool, cType, ph>>
    BY <1>6 DEF GetRead, StartScan, Goto, pool, photons, locals
  <2>2. \A u \in Threads :
          /\ Holding(u)' => Holding(u) /\ Claimed(u)' = Claimed(u)
          /\ Making(u)' => Making(u)
    BY <1>6 DEF GetRead, StartScan, Goto, locals, IInv, TypeOK, Holding, Making,
         Claimed
  <2> QED BY <2>1, <2>2, SameOwners
<1>7. ASSUME NEW t \in Threads, GetScan(t) PROVE Owned'
  <2>1. UNCHANGED <<phPool, cType, ph>>
    BY <1>7 DEF GetScan, Goto, pool, photons, locals
  <2>2. \A u \in Threads :
          /\ Holding(u)' => Holding(u) /\ Claimed(u)' = Claimed(u)
          /\ Making(u)' => Making(u)
    BY ZenonT(30), <1>7 DEF GetScan, Goto, locals, IInv, TypeOK, Holding, Making, Claimed
  <2> QED BY <2>1, <2>2, SameOwners
<1>8. ASSUME NEW t \in Threads, GetCas(t) PROVE Owned'
  <2>1. UNCHANGED <<phPool, cType, ph>>
    BY <1>8 DEF GetCas, Goto, pool, photons, locals
  <2>2. \A u \in Threads :
          /\ Holding(u)' => Holding(u) /\ Claimed(u)' = Claimed(u)
          /\ Making(u)' => Making(u)
    BY <1>8 DEF GetCas, Goto, locals, IInv, TypeOK, Holding, Making, Claimed
  <2> QED BY <2>1, <2>2, SameOwners
<1>9. ASSUME NEW t \in Threads, Take(t) PROVE Owned'
  <2> DEFINE i == index[t]
             p == phPool[index[t]]
  <2>1. /\ i \in Indexes /\ p # None /\ p \in Photons
        /\ Claimed(t) = {i} /\ Claimed(t)' = {i}
    BY <1>9, SlotAssumption
    DEF Take, Goto, IInv, TypeOK, Locals, Claimed, Holding, Indexes
  <2>2. SlotsOf(p) = {i}
    BY <2>1 DEF IInv, Owned, OneSlot, SlotsOf
  <2>3. /\ ph' = [ph EXCEPT ![t] = p] /\ pc' = [pc EXCEPT ![t] = "created"]
        /\ UNCHANGED <<phPool, cType, index>>
    BY <1>9 DEF Take, Goto, pool, photons
  <2>4. \A u \in Threads \ {t} :
          /\ Holding(u)' = Holding(u) /\ Claimed(u)' = Claimed(u)
          /\ Making(u)' = Making(u) /\ ph'[u] = ph[u]
    BY <2>3 DEF IInv, TypeOK, Holding, Making, Claimed
  <2>5. \A u \in Threads \ {t} : ph[u] # p
    <3> SUFFICES ASSUME NEW u \in Threads \ {t}, ph[u] = p PROVE FALSE
      OBVIOUS
    <3>1. Making(u) \/ Holding(u)
      BY <2>1 DEF IInv, Locals
    <3>2. CASE Making(u)
      BY <3>2, <2>2 DEF IInv, Owned, Unstored
    <3>3. CASE Holding(u)
      <4>1. i \in Claimed(u) /\ i \in Claimed(t)
        BY <3>3, <2>1, <2>2 DEF IInv, Owned, KeepsItsSlot
      <4> QED BY <4>1, <2>1, MaskBits DEF IInv, Disjoint
    <3> QED BY <3>1, <3>2, <3>3
  <2>6. OneThread'
    BY <2>3, <2>4, <2>5 DEF IInv, TypeOK, Owned, OneThread
  <2>7. \A q : SlotsOf(q)' = SlotsOf(q)
    BY <2>3 DEF SlotsOf
  <2>8. KeepsItsSlot'
    BY <2>1, <2>2, <2>3, <2>4, <2>7 DEF IInv, TypeOK, Owned, KeepsItsSlot
  <2>9. Unstored'
    BY <2>3, <2>4, <2>7 DEF IInv, TypeOK, Owned, Unstored, Making
  <2>10. OneSlot' /\ Existing'
    BY <2>1, <2>3 DEF IInv, TypeOK, Owned, OneSlot, Existing
  <2> QED BY <2>6, <2>8, <2>9, <2>10 DEF Owned
<1>10. ASSUME NEW t \in Threads, Make(t) PROVE Owned'
  <2>1. PICK p \in Photons : /\ cType[p] = None
                             /\ cType' = [cType EXCEPT ![p] = wanted[t]]
                             /\ ph' = [ph EXCEPT ![t] = p]
    BY <1>10 DEF Make
  <2>2. /\ p # None /\ wanted[t] # None
        /\ UNCHANGED phPool
        /\ index' = [index EXCEPT ![t] = Slots]
        /\ pc' = [pc EXCEPT ![t] = pc'[t]] /\ pc'[t] \in {"created", "add"}
    BY <1>10, BoundAssumption, NoneAssumption
    DEF Make, Goto, pool, IInv, TypeOK, Locals, Photons
  <2>3. SlotsOf(p) = {} /\ \A u \in Threads : ph[u] # p
    BY <2>1, <2>2 DEF IInv, Owned, Existing, SlotsOf
  <2>4. Claimed(t)' = {}
    BY <2>2 DEF IInv, TypeOK, Claimed, Holding
  <2>5. \A u \in Threads \ {t} :
          /\ Holding(u)' = Holding(u) /\ Claimed(u)' = Claimed(u)
          /\ Making(u)' = Making(u) /\ ph'[u] = ph[u]
    BY <2>1, <2>2 DEF IInv, TypeOK, Holding, Making, Claimed
  <2>6. \A q : SlotsOf(q)' = SlotsOf(q)
    BY <2>2 DEF SlotsOf
  <2>7. OneThread'
    BY <2>1, <2>3, <2>5 DEF IInv, TypeOK, Owned, OneThread
  <2>8. KeepsItsSlot' /\ Unstored'
    BY <2>1, <2>3, <2>4, <2>5, <2>6 DEF IInv, TypeOK, Owned, KeepsItsSlot, Unstored
  <2>9. OneSlot' /\ Existing'
    BY <2>1, <2>2 DEF IInv, TypeOK, Owned, OneSlot, Existing
  <2> QED BY <2>7, <2>8, <2>9 DEF Owned
<1>11. ASSUME NEW t \in Threads, AddRead(t) PROVE Owned'
  <2>1. UNCHANGED <<phPool, cType, ph>>
    BY <1>11 DEF AddRead, StartScan, Goto, pool, photons, locals
  <2>2. \A u \in Threads :
          /\ Holding(u)' => Holding(u) /\ Claimed(u)' = Claimed(u)
          /\ Making(u)' => Making(u)
    BY <1>11 DEF AddRead, StartScan, Goto, locals, IInv, TypeOK, Holding, Making,
         Claimed
  <2> QED BY <2>1, <2>2, SameOwners
<1>12. ASSUME NEW t \in Threads, AddScan(t) PROVE Owned'
  <2> DEFINE last == pc'[t] = "created"
  <2>1. UNCHANGED <<phPool, cType, ph>>
    BY <1>12 DEF AddScan, pool, photons
  <2>2. CASE ~last
    <3>1. \A u \in Threads :
            /\ Holding(u)' => Holding(u) /\ Claimed(u)' = Claimed(u)
            /\ Making(u)' => Making(u)
      BY <1>12, <2>2 DEF AddScan, Goto, IInv, TypeOK, Holding, Making, Claimed
    <3> QED BY <2>1, <3>1, SameOwners
  <2>3. CASE last
    <3>1. /\ pc' = [pc EXCEPT ![t] = "created"]
          /\ index' = [index EXCEPT ![t] = Slots]
      BY <1>12, <2>3 DEF AddScan, Goto, IInv, TypeOK
    <3>2. SlotsOf(ph[t]) = {} /\ Claimed(t)' = {}
      BY <1>12, <3>1 DEF AddScan, IInv, TypeOK, Owned, Unstored, Making, Claimed
    <3>3. \A p : SlotsOf(p)' = SlotsOf(p)
      BY <2>1 DEF SlotsOf
    <3>4. \A u \in Threads \ {t} :
            /\ Holding(u)' = Holding(u) /\ Claimed(u)' = Claimed(u)
            /\ Making(u)' = Making(u)
      BY <3>1 DEF IInv, TypeOK, Holding, Making, Claimed
    <3>5. KeepsItsSlot'
      BY <2>1, <3>2, <3>3, <3>4 DEF IInv, Owned, KeepsItsSlot
    <3>6. Unstored'
      BY <2>1, <3>1, <3>3, <3>4 DEF IInv, TypeOK, Owned, Unstored, Making
    <3>7. OneThread' /\ OneSlot' /\ Existing'
      BY <2>1 DEF IInv, Owned, OneThread, OneSlot, Existing
    <3> QED BY <3>5, <3>6, <3>7 DEF Owned
  <2> QED BY <2>2, <2>3
<1>13. ASSUME NEW t \in Threads, AddCas(t) PROVE Owned'
  <2>1. UNCHANGED <<phPool, cType, ph>>
    BY <1>13 DEF AddCas, Goto, pool, photons, locals
  <2>2. \A u \in Threads :
          /\ Holding(u)' => Holding(u) /\ Claimed(u)' = Claimed(u)
          /\ Making(u)' => Making(u)
    BY <1>13 DEF AddCas, Goto, locals, IInv, TypeOK, Holding, Making, Claimed
  <2> QED BY <2>1, <2>2, SameOwners
<1>14. ASSUME NEW t \in Threads, Store(t) PROVE Owned'
  <2> DEFINE i == index[t]
             p == ph[t]
  <2>1. /\ i \in Indexes /\ p # None /\ p \in Photons
        /\ Claimed(t) = {i} /\ Claimed(t)' = {i}
        /\ SlotsOf(p) = {}
    BY <1>14, SlotAssumption
    DEF Store, Goto, locals, IInv, TypeOK, Locals, Owned, Unstored, Making,
        Claimed, Holding, Indexes
  <2>2. /\ phPool' = [phPool EXCEPT ![i] = p] /\ pc' = [pc EXCEPT ![t] = "created"]
        /\ UNCHANGED <<cType, index, ph>>
    BY <1>14 DEF Store, Goto, photons, locals
  <2>3. \A u \in Threads \ {t} :
          /\ Holding(u)' = Holding(u) /\ Claimed(u)' = Claimed(u)
          /\ Making(u)' = Making(u)
    BY <2>2 DEF IInv, TypeOK, Holding, Making, Claimed
  <2>4. SlotsOf(p)' = {i}
    BY <2>1, <2>2 DEF IInv, TypeOK, SlotsOf
  <2>5. \A u \in Threads \ {t} : Making(u) => SlotsOf(ph[u])' = {}
    <3> SUFFICES ASSUME NEW u \in Threads \ {t}, Making(u)
                 PROVE  SlotsOf(ph[u])' = {}
      OBVIOUS
    <3>1. SlotsOf(ph[u]) = {} /\ ph[u] # p
      BY <2>1 DEF IInv, Owned, Unstored, OneThread
    <3> QED BY <3>1, <2>1, <2>2 DEF IInv, TypeOK, SlotsOf
  <2>6. \A u \in Threads \ {t} : Holding(u) => SlotsOf(ph[u])' = Claimed(u)
    <3> SUFFICES ASSUME NEW u \in Threads \ {t}, Holding(u)
                 PROVE  SlotsOf(ph[u])' = Claimed(u)
      OBVIOUS
    <3>1. SlotsOf(ph[u]) = Claimed(u) /\ ph[u] # p
      BY <2>1 DEF IInv, Owned, KeepsItsSlot, OneThread
    <3>2. i \notin Claimed(u)
      BY <2>1, MaskBits DEF IInv, Disjoint
    <3> QED BY <3>1, <3>2, <2>1, <2>2 DEF IInv, TypeOK, SlotsOf
  <2>7. Unstored'
    BY <2>2, <2>3, <2>5 DEF IInv, TypeOK, Unstored, Making
  <2>8. KeepsItsSlot'
    BY <2>1, <2>2, <2>3, <2>4, <2>6 DEF KeepsItsSlot
  <2>9. OneThread' /\ Existing'
    BY <2>1, <2>2 DEF IInv, TypeOK, Owned, OneThread, Existing
  <2>10. OneSlot'
    BY <2>1, <2>2 DEF IInv, TypeOK, Owned, OneSlot, SlotsOf
  <2> QED BY <2>7, <2>8, <2>9, <2>10 DEF Owned
<1>15. ASSUME NEW t \in Threads, Connect(t) PROVE Owned'
  BY <1>15 DEF Connect, Goto, pool, locals, IInv, TypeOK, Owned, OneThread,
       OneSlot, Unstored, Existing, KeepsItsSlot, SlotsOf, Claimed,
       Holding, Making
<1>16. ASSUME NEW t \in Threads, Close(t) PROVE Owned'
  BY <1>16 DEF Close, Goto, pool, locals, IInv, Owned, OneThread, OneSlot,
       Unstored, Existing, KeepsItsSlot, SlotsOf, Claimed, Holding,
       Making
<1>17. ASSUME NEW t \in Threads, ReturnPhotonToPool(t) PROVE Owned'
  BY <1>17 DEF ReturnPhotonToPool, Forget, Goto, photons, IInv, TypeOK, Owned,
       OneThread, OneSlot, Unstored, Existing, KeepsItsSlot, SlotsOf,
       Claimed, Holding, Making
<1>18. ASSUME NEW t \in Threads, LeaveOpen(t) PROVE Owned'
  <2>1. UNCHANGED <<phPool, cType, ph>>
    BY <1>18 DEF LeaveOpen, Goto, pool, locals
  <2>2. \A u \in Threads :
          /\ Holding(u)' => Holding(u) /\ Claimed(u)' = Claimed(u)
          /\ Making(u)' => Making(u)
    BY <1>18 DEF LeaveOpen, Goto, locals, IInv, TypeOK, Holding, Making, Claimed
  <2> QED BY <2>1, <2>2, SameOwners
<1>19. ASSUME NEW t \in Threads, ScanAssert(t) PROVE Owned'
  <2>1. ph[t] = None
    BY <1>19 DEF ScanAssert, IInv, Locals, Making, Holding
  <2>2. /\ UNCHANGED <<phPool, cType>> /\ ph' = [ph EXCEPT ![t] = None]
        /\ pc' = [pc EXCEPT ![t] = "idle"] /\ index' = [index EXCEPT ![t] = 0]
    BY <1>19 DEF ScanAssert, Forget, Goto, pool, photons
  <2>3. UNCHANGED <<phPool, cType, ph>>
    BY <2>1, <2>2 DEF IInv, TypeOK
  <2>4. \A u \in Threads :
          /\ Holding(u)' => Holding(u) /\ Claimed(u)' = Claimed(u)
          /\ Making(u)' => Making(u)
    BY <2>2 DEF IInv, TypeOK, Holding, Making, Claimed
  <2> QED BY <2>3, <2>4, SameOwners
<1> QED BY <1>1, <1>2, <1>3, <1>4, <1>5, <1>6, <1>7, <1>8, <1>9, <1>10, <1>11,
   <1>12, <1>13, <1>14, <1>15, <1>16, <1>17, <1>18, <1>19 DEF Next, Step

\* A step that connects nothing, closes nothing and leaves what is in use in use.
LEMMA SameConnections ==
  ASSUME IInv, UNCHANGED <<isConnected, unclosed>>,
         \A u \in Threads : /\ pc'[u] = "using" <=> pc[u] = "using"
                            /\ pc[u] = "using" => ph'[u] = ph[u]
  PROVE  Connected'
BY DEF IInv, Connected

\* A photon is connected when its thread uses it, and closed or left open after.
LEMMA ConnectedStep == IInv /\ [Next]_vars => Connected'
<1> SUFFICES ASSUME IInv, [Next]_vars PROVE Connected'
  OBVIOUS
<1> DEFINE Same == /\ UNCHANGED <<isConnected, unclosed>>
                   /\ \A u \in Threads : /\ pc'[u] = "using" <=> pc[u] = "using"
                                         /\ pc[u] = "using" => ph'[u] = ph[u]
<1>1. CASE UNCHANGED vars
  BY <1>1, SameConnections DEF vars
<1>2. ASSUME NEW t \in Threads, NEW k \in Kinds, CreatePhotonHelper(t, k)
      PROVE  Connected'
  <2>1. Same
    BY <1>2 DEF CreatePhotonHelper, Goto, photons, locals, IInv, TypeOK
  <2> QED BY <2>1, SameConnections
<1>3. ASSUME NEW t \in Threads, NewArray(t) PROVE Connected'
  <2>1. Same
    BY <1>3 DEF NewArray, Goto, photons, locals, IInv, TypeOK
  <2> QED BY <2>1, SameConnections
<1>4. ASSUME NEW t \in Threads, TestWord(t) PROVE Connected'
  <2>1. Same
    BY <1>4 DEF TestWord, Goto, pool, photons, locals, IInv, TypeOK
  <2> QED BY <2>1, SameConnections
<1>5. ASSUME NEW t \in Threads, NewWord(t) PROVE Connected'
  <2>1. Same
    BY <1>5 DEF NewWord, Goto, photons, locals, IInv, TypeOK
  <2> QED BY <2>1, SameConnections
<1>6. ASSUME NEW t \in Threads, GetRead(t) PROVE Connected'
  <2>1. Same
    BY <1>6 DEF GetRead, Goto, StartScan, pool, photons, IInv, TypeOK
  <2> QED BY <2>1, SameConnections
<1>7. ASSUME NEW t \in Threads, GetScan(t) PROVE Connected'
  <2>1. Same
    BY <1>7 DEF GetScan, Goto, pool, photons, IInv, TypeOK
  <2> QED BY <2>1, SameConnections
<1>8. ASSUME NEW t \in Threads, GetCas(t) PROVE Connected'
  <2>1. Same
    BY <1>8 DEF GetCas, Goto, photons, locals, IInv, TypeOK
  <2> QED BY <2>1, SameConnections
<1>9. ASSUME NEW t \in Threads, Take(t) PROVE Connected'
  <2>1. Same
    BY <1>9 DEF Take, Goto, pool, photons, IInv, TypeOK
  <2> QED BY <2>1, SameConnections
<1>10. ASSUME NEW t \in Threads, Make(t) PROVE Connected'
  <2>1. Same
    BY <1>10 DEF Make, Goto, pool, IInv, TypeOK
  <2> QED BY <2>1, SameConnections
<1>11. ASSUME NEW t \in Threads, AddRead(t) PROVE Connected'
  <2>1. Same
    BY <1>11 DEF AddRead, Goto, StartScan, pool, photons, IInv, TypeOK
  <2> QED BY <2>1, SameConnections
<1>12. ASSUME NEW t \in Threads, AddScan(t) PROVE Connected'
  <2>1. Same
    BY <1>12 DEF AddScan, Goto, pool, photons, IInv, TypeOK
  <2> QED BY <2>1, SameConnections
<1>13. ASSUME NEW t \in Threads, AddCas(t) PROVE Connected'
  <2>1. Same
    BY <1>13 DEF AddCas, Goto, photons, locals, IInv, TypeOK
  <2> QED BY <2>1, SameConnections
<1>14. ASSUME NEW t \in Threads, Store(t) PROVE Connected'
  <2>1. Same
    BY <1>14 DEF Store, Goto, photons, locals, IInv, TypeOK
  <2> QED BY <2>1, SameConnections
<1>15. ASSUME NEW t \in Threads, ReturnPhotonToPool(t) PROVE Connected'
  <2>1. Same
    BY <1>15 DEF ReturnPhotonToPool, Goto, Forget, photons, IInv, TypeOK
  <2> QED BY <2>1, SameConnections
<1>16. ASSUME NEW t \in Threads, ScanAssert(t) PROVE Connected'
  <2>1. Same
    BY <1>16 DEF ScanAssert, Goto, Forget, pool, photons, IInv, TypeOK
  <2> QED BY <2>1, SameConnections
<1>17. ASSUME NEW t \in Threads, Connect(t) PROVE Connected'
  BY <1>17 DEF Connect, Goto, locals, IInv, TypeOK, Connected
<1>18. ASSUME NEW t \in Threads, Close(t) \/ LeaveOpen(t) PROVE Connected'
  <2>1. /\ pc[t] = "using" /\ pc' = [pc EXCEPT ![t] = "return"] /\ ph' = ph
        /\ \/ isConnected' = isConnected \ {ph[t]} /\ unclosed' = unclosed
           \/ isConnected' = isConnected /\ unclosed' = unclosed \cup {ph[t]}
    BY <1>18 DEF Close, LeaveOpen, Goto, locals
  <2>2. \A u \in Threads \ {t} : pc[u] = "using" => ph[u] # ph[t]
    BY <2>1 DEF IInv, Locals, Owned, OneThread, Holding
  <2>3. \A u \in Threads : pc'[u] = "using" => u # t /\ pc[u] = "using"
    BY <2>1 DEF IInv, TypeOK
  <2>4. \A u \in Threads \ {t} : pc[u] = "using" => pc'[u] = "using"
    BY <2>1 DEF IInv, TypeOK
  <2>5. ASSUME NEW q \in isConnected' \ unclosed'
        PROVE  \E u \in Threads : pc'[u] = "using" /\ ph'[u] = q
    <3>1. q \in isConnected \ unclosed /\ q # ph[t]
      BY <2>1, <2>5
    <3>2. PICK u \in Threads : pc[u] = "using" /\ ph[u] = q
      BY <3>1 DEF IInv, Connected
    <3> QED BY <2>1, <2>4, <3>1, <3>2
  <2>6. ASSUME NEW u \in Threads, pc'[u] = "using" PROVE ph'[u] \in isConnected' \ unclosed'
    BY <2>1, <2>2, <2>3, <2>6 DEF IInv, Connected
  <2> QED BY <2>5, <2>6 DEF Connected
<1> QED BY <1>1, <1>2, <1>3, <1>4, <1>5, <1>6, <1>7, <1>8, <1>9, <1>10, <1>11, <1>12, <1>13, <1>14, <1>15, <1>16, <1>17, <1>18 DEF Next, Step

\* The invariant of the pool: types, claims, slots and owners fit together in
\* every execution whose first call is over before a second thread calls.
THEOREM Invariant == SoloStart => (Spec => []IInv)
<1> SUFFICES ASSUME SoloStart PROVE Spec => []IInv
  OBVIOUS
<1>1. IInv /\ [Next]_vars => IInv'
  BY TypeStep, CreationStep, LocalsStep, OwnedStep, ConnectedStep, ClaimsStep DEF IInv
<1> QED BY <1>1, Start, PTL DEF Spec

\* getPhotonFromPool and addPhotonToPool never give one photon to two threads.
THEOREM OneUser == SoloStart => (Spec => []Exclusive)
<1> SUFFICES ASSUME SoloStart PROVE Spec => []Exclusive
  OBVIOUS
<1>1. IInv => Exclusive
  <2> SUFFICES ASSUME IInv, NEW t \in Threads, NEW u \in Threads, t # u,
                      Holding(t), Holding(u)
               PROVE  ph[t] # ph[u]
    BY DEF Exclusive
  <2>1. ph[t] # None
    BY DEF IInv, Locals
  <2> QED BY <2>1 DEF IInv, Owned, OneThread
<1> QED BY <1>1, Invariant, PTL

\* The bits that returnPhotonToPool clears are those of the claim it gives up:
\* whatever slots share bits, the long has the claimed bits and no others.
THEOREM BitsExact == SoloStart => (Spec => []IndexExact)
<1> SUFFICES ASSUME SoloStart PROVE Spec => []IndexExact
  OBVIOUS
<1>1. IInv => IndexExact
  BY DEF IInv
<1> QED BY <1>1, Invariant, PTL

\* A photon in use stays in the slot that its thread has claimed.
THEOREM ClaimsKept == SoloStart => (Spec => []KeepsItsSlot)
<1> SUFFICES ASSUME SoloStart PROVE Spec => []KeepsItsSlot
  OBVIOUS
<1>1. IInv => KeepsItsSlot
  BY DEF IInv, Owned
<1> QED BY <1>1, Invariant, PTL

\* A photon whose bits are clear is in nobody's use; if it is connected all the
\* same, UIService returned it without closing it.
THEOREM OffersUnused == SoloStart => (Spec => []OffersNoneInUse)
<1> SUFFICES ASSUME SoloStart PROVE Spec => []OffersNoneInUse
  OBVIOUS
<1>1. IInv => OffersNoneInUse
  <2> SUFFICES ASSUME IInv, NEW i \in Indexes, Mask(i) \cap phPoolIndex = {},
                      phPool[i] \in isConnected
               PROVE  phPool[i] \in unclosed /\ \A t \in Threads : pc[t] = "using" => ph[t] # phPool[i]
    BY DEF OffersNoneInUse
  <2>1. ASSUME NEW t \in Threads, pc[t] = "using", ph[t] = phPool[i] PROVE FALSE
    <3>1. i \in Claimed(t)
      BY <2>1 DEF IInv, Owned, KeepsItsSlot, SlotsOf, Holding
    <3>2. \A b \in Mask(i) : b \in phPoolIndex
      BY <3>1, Bits DEF IInv, IndexExact
    <3> QED BY <3>2, MaskBits
  <2> QED BY <2>1 DEF IInv, Connected
<1> QED BY <1>1, Invariant, PTL
=============================================================================
