----------------------- MODULE FixedSizeQueueProofs -----------------------
(* FixedSizeQueue implements BoundedQueue, for every size and item set.    *)
EXTENDS FixedSizeQueue, SequenceTheorems, TLAPS

\* The facts about % that the circular array needs: an index stays in the
\* array, and one inside twice the array wraps at most once.
LEMMA ModInSlots ==
  ASSUME NEW i \in Nat
  PROVE  i % Size \in Slots
BY SizeAssumption DEF Slots

LEMMA ModSmall ==
  ASSUME NEW i \in Nat, i < Size
  PROVE  i % Size = i
BY SizeAssumption

LEMMA ModWrapped ==
  ASSUME NEW i \in Nat, i >= Size, i < 2 * Size
  PROVE  i % Size = i - Size
BY SizeAssumption

LEMMA ModOnce ==
  ASSUME NEW i \in Nat, i < 2 * Size
  PROVE  i % Size = IF i < Size THEN i ELSE i - Size
BY SizeAssumption, ModSmall, ModWrapped

\* The window never overlaps the insertion point, and moving the front by one
\* renumbers the window by one.
LEMMA WindowShift ==
  ASSUME NEW f \in Slots, NEW k \in 0 .. Size - 1
  PROVE  /\ (f + k) % Size \in Slots
         /\ (((f + 1) % Size) + k) % Size = (f + k + 1) % Size
         /\ \A j \in 0 .. Size - 1 :
               j # k => (f + j) % Size # (f + k) % Size
<1> USE SizeAssumption
<1>1. f \in Nat /\ f < Size /\ k \in Nat /\ k < Size
  BY DEF Slots
<1>2. (f + k) % Size \in Slots
  BY <1>1, ModInSlots
<1>3. (((f + 1) % Size) + k) % Size = (f + k + 1) % Size
  <2>1. CASE f + 1 < Size
    <3>1. (f + 1) % Size = f + 1
      BY <1>1, <2>1, ModSmall
    <3> QED BY <1>1, <3>1
  <2>2. CASE f + 1 = Size
    <3>1. (f + 1) % Size = 0
      BY <1>1, <2>2, ModWrapped
    <3>2. k % Size = k
      BY <1>1, ModSmall
    <3>3. (f + k + 1) % Size = (f + k + 1) - Size
      <4>1. f + k + 1 \in Nat /\ f + k + 1 >= Size /\ f + k + 1 < 2 * Size
        BY <1>1, <2>2
      <4>2. PICK n \in Nat : n = f + k + 1
        BY <4>1
      <4>3. n % Size = n - Size
        BY <4>1, <4>2, ModWrapped
      <4> QED BY <4>2, <4>3
    <3> QED BY <1>1, <2>2, <3>1, <3>2, <3>3
  <2> QED BY <1>1, <2>1, <2>2
<1>4. ASSUME NEW j \in 0 .. Size - 1, j # k
      PROVE  (f + j) % Size # (f + k) % Size
  <2>1. PICK n \in Nat : n = f + j
    BY <1>1
  <2>2. PICK m \in Nat : m = f + k
    BY <1>1
  <2>3. n < 2 * Size /\ m < 2 * Size
    BY <1>1, <2>1, <2>2
  <2>4. n % Size = IF n < Size THEN n ELSE n - Size
    BY <2>3, ModOnce
  <2>5. m % Size = IF m < Size THEN m ELSE m - Size
    BY <2>3, ModOnce
  <2> QED BY <1>1, <1>4, <2>1, <2>2, <2>4, <2>5
<1> QED BY <1>2, <1>3, <1>4

-----------------------------------------------------------------------------
\* The asserts of addToQ hold: front stays a slot and count within the array.
THEOREM TypeCorrect == Spec => []TypeOK
<1>1. Init => TypeOK
  BY SizeAssumption DEF Init, TypeOK, Slots
<1>2. TypeOK /\ [Next]_vars => TypeOK'
  <2> SUFFICES ASSUME TypeOK, [Next]_vars PROVE TypeOK'
    OBVIOUS
  <2> USE SizeAssumption DEF TypeOK
  <2>1. ASSUME NEW o \in Items, AddToQ(o) PROVE TypeOK'
    BY <2>1, ModInSlots DEF AddToQ, IsFull, Slots
  <2>2. CASE GetElemFromQ
    BY <2>2, ModInSlots DEF GetElemFromQ, IsEmpty, Slots
  <2>3. CASE GetNull
    BY <2>3 DEF GetNull
  <2>4. CASE UNCHANGED vars
    BY <2>4 DEF vars
  <2> QED BY <2>1, <2>2, <2>3, <2>4 DEF Next
<1> QED BY <1>1, <1>2, PTL DEF Spec

\* What the window is, as a sequence.
Window == /\ Contents \in Seq(Items \cup {Null})
          /\ Len(Contents) = count
          /\ \A k \in 1 .. count : Contents[k] = array[(front + k - 1) % Size]

LEMMA ContentsType == TypeOK => Window
<1> SUFFICES ASSUME TypeOK PROVE Window
  OBVIOUS
<1>1. count \in Nat
  BY SizeAssumption DEF TypeOK
<1>2. ASSUME NEW k \in 1 .. count
      PROVE  array[(front + k - 1) % Size] \in Items \cup {Null}
  <2>1. front + k - 1 \in Nat
    BY <1>1, SizeAssumption DEF TypeOK, Slots
  <2> QED BY <2>1, ModInSlots DEF TypeOK
<1>3. Contents \in [1 .. count -> Items \cup {Null}]
  BY <1>2 DEF Contents
<1>4. Contents \in Seq(Items \cup {Null})
  BY <1>1, <1>3, SeqDef
<1>5. Len(Contents) = count
  BY <1>1, <1>3, <1>4, LenProperties
<1> QED BY <1>4, <1>5 DEF Window, Contents

LEMMA AddAppends ==
  ASSUME TypeOK, TypeOK', NEW o \in Items, AddToQ(o)
  PROVE  Queue!Put(o)
<1> DEFINE T == Items \cup {Null}
<1> USE SizeAssumption
<1>1. /\ Contents \in Seq(T) /\ Len(Contents) = count
      /\ \A k \in 1 .. count : Contents[k] = array[(front + k - 1) % Size]
  BY ContentsType DEF Window
<1>2. /\ Contents' \in Seq(T) /\ Len(Contents') = count'
      /\ \A k \in 1 .. count' : Contents'[k] = array'[(front' + k - 1) % Size]
  <2>1. Window'
    BY ContentsType, PTL
  <2> QED BY <2>1 DEF Window
<1>3. /\ count < Size /\ count \in Nat /\ count' = count + 1 /\ front' = front
      /\ array' = [array EXCEPT ![(front + count) % Size] = o]
      /\ front \in Slots /\ array \in [Slots -> T] /\ out' = out
  BY DEF AddToQ, IsFull, TypeOK
<1>4. /\ Append(Contents, o) \in Seq(T)
      /\ Len(Append(Contents, o)) = count + 1
      /\ \A k \in 1 .. count : Append(Contents, o)[k] = Contents[k]
      /\ Append(Contents, o)[count + 1] = o
  BY <1>1, <1>3, AppendProperties
<1>5. ASSUME NEW k \in 1 .. count + 1
      PROVE  Contents'[k] = Append(Contents, o)[k]
  <2>1. Contents'[k] = array'[(front + k - 1) % Size]
    BY <1>2, <1>3
  <2>2. CASE k = count + 1
    <3>1. front + k - 1 = front + count
      BY <1>3, <2>2 DEF Slots
    <3>2. (front + count) % Size \in Slots
      BY <1>3, WindowShift
    <3> QED BY <1>3, <1>4, <2>1, <2>2, <3>1, <3>2
  <2>3. CASE k \in 1 .. count
    <3>1. /\ front + k - 1 = front + (k - 1) /\ k - 1 \in 0 .. Size - 1
          /\ k - 1 # count /\ count \in 0 .. Size - 1
      BY <1>3, <2>3 DEF Slots
    <3>2. (front + k - 1) % Size # (front + count) % Size
      BY <1>3, <3>1, WindowShift
    <3>3. (front + k - 1) % Size \in Slots
      BY <1>3, <3>1, WindowShift
    <3> QED BY <1>1, <1>3, <1>4, <2>1, <2>3, <3>2, <3>3
  <2> QED
    <3>1. k = count + 1 \/ k \in 1 .. count
      BY <1>3
    <3> QED BY <3>1, <2>2, <2>3
<1>6. Contents' = Append(Contents, o)
  BY <1>2, <1>3, <1>4, <1>5, SeqEqual
<1> QED BY <1>1, <1>3, <1>6 DEF Queue!Put

LEMMA GetTakesHead ==
  ASSUME TypeOK, TypeOK', GetElemFromQ
  PROVE  Queue!Get
<1> DEFINE T == Items \cup {Null}
<1> USE SizeAssumption
<1>1. /\ Contents \in Seq(T) /\ Len(Contents) = count
      /\ \A k \in 1 .. count : Contents[k] = array[(front + k - 1) % Size]
  BY ContentsType DEF Window
<1>2. /\ Contents' \in Seq(T) /\ Len(Contents') = count'
      /\ \A k \in 1 .. count' : Contents'[k] = array'[(front' + k - 1) % Size]
  <2>1. Window'
    BY ContentsType, PTL
  <2> QED BY <2>1 DEF Window
<1>3. /\ count \in 1 .. Size /\ count' = count - 1 /\ array' = array
      /\ front' = (front + 1) % Size /\ front \in Slots /\ out' = array[front]
  BY DEF GetElemFromQ, IsEmpty, TypeOK
<1>4. Contents # <<>>
  BY <1>1, <1>3, EmptySeq
<1>5. /\ Tail(Contents) \in Seq(T) /\ Len(Tail(Contents)) = count - 1
      /\ \A k \in 1 .. count - 1 : Tail(Contents)[k] = Contents[k + 1]
  BY <1>1, <1>4, HeadTailProperties
<1>6. Head(Contents) = array[front]
  <2>1. front + 1 - 1 = front /\ front % Size = front
    BY <1>3, ModSmall DEF Slots
  <2> QED BY <1>1, <1>3, <1>4, <2>1
<1>7. ASSUME NEW k \in 1 .. count - 1
      PROVE  Contents'[k] = Tail(Contents)[k]
  <2>1. k - 1 \in 0 .. Size - 1 /\ k + 1 \in 1 .. count
    BY <1>3
  <2>2. (((front + 1) % Size) + (k - 1)) % Size = (front + (k - 1) + 1) % Size
    BY <1>3, <2>1, WindowShift
  <2>3. Contents'[k] = array[(front' + k - 1) % Size]
    BY <1>2, <1>3
  <2>4. front' \in Slots
    BY DEF TypeOK
  <2>5. /\ front' + k - 1 = ((front + 1) % Size) + (k - 1)
        /\ front + (k - 1) + 1 = front + (k + 1) - 1
    BY <1>3, <2>4 DEF Slots
  <2> QED BY <1>1, <1>5, <2>1, <2>2, <2>3, <2>5
<1>8. Contents' = Tail(Contents)
  BY <1>2, <1>3, <1>5, <1>7, SeqEqual
<1> QED BY <1>3, <1>4, <1>6, <1>8 DEF Queue!Get

\* The circular array implements the bounded queue.
THEOREM Implements == Spec => QueueSpec
<1>1. Init => Queue!Init
  <2> SUFFICES ASSUME Init PROVE Contents = <<>> /\ out = Null
    BY DEF Queue!Init
  <2>1. TypeOK /\ count = 0
    BY SizeAssumption DEF Init, TypeOK, Slots
  <2> QED BY <2>1, ContentsType, EmptySeq DEF Window, Init
<1>2. TypeOK /\ TypeOK' /\ [Next]_vars => [Queue!Next]_<<Contents, out>>
  <2> SUFFICES ASSUME TypeOK, TypeOK', [Next]_vars
               PROVE  [Queue!Next]_<<Contents, out>>
    OBVIOUS
  <2>1. ASSUME NEW o \in Items, AddToQ(o) PROVE Queue!Next
    BY <2>1, AddAppends DEF Queue!Next
  <2>2. CASE GetElemFromQ
    BY <2>2, GetTakesHead DEF Queue!Next
  <2>3. CASE GetNull
    <3>1. Contents = <<>>
      BY <2>3, ContentsType, EmptySeq DEF Window, GetNull, IsEmpty
    <3>2. Contents' = Contents
      BY <2>3 DEF GetNull, Contents
    <3> QED BY <2>3, <3>1, <3>2 DEF GetNull, Queue!Next, Queue!GetNothing
  <2>4. CASE UNCHANGED vars
    BY <2>4 DEF vars, Contents
  <2> QED BY <2>1, <2>2, <2>3, <2>4 DEF Next
<1> QED BY <1>1, <1>2, TypeCorrect, PTL DEF Spec, QueueSpec, Queue!Spec
=============================================================================
