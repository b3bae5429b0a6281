------------------------ MODULE LockFreeStackProofs ------------------------
(***************************************************************************)
(* LockFreeStack implements Stack, for any number of threads and of Items. *)
(*                                                                         *)
(* From is recursive along next, so what it means hangs on the invariant:  *)
(* every Item leads to Null, along a path that only the owner of a private *)
(* Item can change.                                                        *)
(***************************************************************************)
EXTENDS LockFreeStack, SequenceTheorems, WellFoundedInduction, TLAPS

-----------------------------------------------------------------------------
(* The invariant.                                                          *)

Places == {"idle", "pushGet", "pushCas", "popGet", "popCas"}
Pushing(t) == pc[t] \in {"pushGet", "pushCas"}
MaybeItem == Items \cup {Null}

Typed ==
  /\ top \in MaybeItem
  /\ next \in [Items -> MaybeItem]
  /\ allocated \in 0 .. MaxItems
  /\ pc \in [Threads -> Places]
  /\ newVal \in [Threads -> MaybeItem]
  /\ oldVal \in [Threads -> MaybeItem]

\* An Item that was pushed: no thread links it any more.
Public(i) == /\ i \in 1 .. allocated
             /\ \A t \in Threads : Pushing(t) => newVal[t] # i

\* The Item a thread pushes is its own, and was allocated.
Private ==
  /\ \A t \in Threads : Pushing(t) => newVal[t] \in 1 .. allocated
  /\ \A t, u \in Threads :
       Pushing(t) /\ Pushing(u) /\ t # u => newVal[t] # newVal[u]

\* Nothing leads to an Item that may still be linked.
Links == /\ top # Null => Public(top)
         /\ \A i \in Items : next[i] # Null => Public(next[i])

\* What the compare-and-set relies on when it finds the top unchanged.
Read ==
  /\ \A t \in Threads : pc[t] = "pushCas" => next[newVal[t]] = oldVal[t]
  /\ \A t \in Threads : pc[t] = "popCas" =>
       Public(oldVal[t]) /\ newVal[t] = next[oldVal[t]]

\* s is the way from i to Null along the links.
Path(link, i, s) ==
  /\ s \in Seq(Items) /\ Len(s) > 0 /\ s[1] = i
  /\ \A k \in 1 .. Len(s) - 1 : link[s[k]] = s[k + 1]
  /\ link[s[Len(s)]] = Null

Ends == \A i \in Items : \E s \in Seq(Items) : Path(next, i, s)

IInv == Typed /\ Private /\ Links /\ Read /\ Ends

-----------------------------------------------------------------------------
(* Paths.                                                                  *)

\* A set of numbers that is not empty has a least element.
LEMMA Least == ASSUME NEW T \in SUBSET Nat, T # {}
               PROVE  \E x \in T : \A y \in T : x <= y
<1>1. PICK x \in T : \A y \in T : ~(<<y, x>> \in OpToRel(<, Nat))
  BY NatLessThanWellFounded, WFMin
<1>2. \A y \in T : ~(y < x)
  BY <1>1, Zenon DEF OpToRel
<1> QED BY <1>2

\* Only one way leads from an Item to Null.
LEMMA OnePath ==
  ASSUME NEW link \in [Items -> MaybeItem],
         NEW i, NEW s, NEW r, Path(link, i, s), Path(link, i, r)
  PROVE  s = r
<1>1. /\ s \in Seq(Items) /\ Len(s) \in Nat /\ Len(s) > 0
      /\ r \in Seq(Items) /\ Len(r) \in Nat /\ Len(r) > 0
  BY DEF Path
<1> DEFINE Differ == {k \in Nat : k \in 1 .. Len(s) /\ (k > Len(r) \/ s[k] # r[k])}
<1>2. Differ = {}
  <2> SUFFICES ASSUME Differ # {} PROVE FALSE
    OBVIOUS
  <2>1. PICK k \in Differ : \A l \in Differ : k <= l
    BY Least
  <2>2. k \in 2 .. Len(s)
    BY <1>1 DEF Path
  <2>3. k - 1 \in 1 .. Len(s) - 1 /\ k - 1 \notin Differ
    BY <2>1, <2>2, <1>1
  <2>4. s[k - 1] = r[k - 1] /\ k - 1 <= Len(r)
    BY <2>3, <1>1
  <2>5. link[s[k - 1]] = s[k] /\ s[k] \in Items
    BY <2>2, <2>3, <1>1 DEF Path
  <2>6. s[k] # Null
    BY <2>5, NullAssumption DEF Items
  <2>7. k - 1 \in 1 .. Len(r) - 1
    <3>1. link[r[Len(r)]] = Null
      BY DEF Path
    <3>2. k - 1 # Len(r)
      BY <3>1, <2>4, <2>5, <2>6
    <3> QED BY <3>2, <2>2, <2>4, <1>1
  <2>8. link[r[k - 1]] = r[k]
    BY <2>7, <2>2 DEF Path
  <2> QED BY <2>1, <2>4, <2>5, <2>7, <2>8, <1>1
<1>3. Len(s) <= Len(r) /\ \A k \in 1 .. Len(s) : s[k] = r[k]
  BY <1>1, <1>2
<1>4. Len(s) = Len(r)
  <2> SUFFICES ASSUME Len(s) < Len(r) PROVE FALSE
    BY <1>1, <1>3
  <2>1. Len(s) \in 1 .. Len(r) - 1 /\ Len(s) + 1 \in 1 .. Len(r)
    BY <1>1
  <2>2. link[r[Len(s)]] = r[Len(s) + 1] /\ r[Len(s) + 1] \in Items
    BY <2>1, <1>1 DEF Path
  <2>3. link[s[Len(s)]] = Null /\ s[Len(s)] = r[Len(s)]
    BY <1>1, <1>3 DEF Path
  <2> QED BY <2>2, <2>3, NullAssumption DEF Items
<1> QED BY <1>1, <1>3, <1>4, SeqEqual

\* A path goes on from what the Item is linked to.
LEMMA Longer ==
  ASSUME NEW link \in [Items -> MaybeItem],
         NEW i \in Items, NEW s, link[i] # Null, Path(link, link[i], s)
  PROVE  Path(link, i, <<i>> \o s)
<1>1. s \in Seq(Items) /\ Len(s) \in Nat /\ Len(s) > 0 /\ s[1] = link[i]
  BY DEF Path
<1> DEFINE r == <<i>> \o s
<1>2. /\ r \in Seq(Items) /\ Len(r) = Len(s) + 1 /\ r[1] = i
      /\ \A k \in 1 .. Len(s) : r[k + 1] = s[k]
  BY <1>1
<1>3. ASSUME NEW k \in 1 .. Len(r) - 1
      PROVE  link[r[k]] = r[k + 1]
  <2>1. CASE k = 1
    BY <2>1, <1>1, <1>2
  <2>2. CASE k # 1
    <3>1. k - 1 \in 1 .. Len(s) - 1
      BY <2>2, <1>1, <1>2
    <3>2. link[s[k - 1]] = s[k]
      BY <3>1 DEF Path
    <3>3. r[k] = s[k - 1] /\ r[k + 1] = s[k]
      BY <3>1, <1>1, <1>2
    <3> QED BY <3>2, <3>3
  <2> QED BY <2>1, <2>2
<1>4. link[r[Len(r)]] = Null
  <2>1. r[Len(r)] = s[Len(s)]
    BY <1>1, <1>2
  <2> QED BY <2>1 DEF Path
<1> HIDE DEF r
<1>5. Path(link, i, r)
  BY <1>1, <1>2, <1>3, <1>4 DEF Path
<1> QED BY <1>5 DEF r

LEMMA Shortest ==
  ASSUME NEW link \in [Items -> MaybeItem], NEW i \in Items, link[i] = Null
  PROVE  Path(link, i, <<i>>)
BY DEF Path

\* From gives the path, wherever there is one.
LEMMA FromPath ==
  ASSUME Typed, Ends
  PROVE  /\ \A i \in Items : Path(next, i, From[i])
         /\ From = [i \in Items |-> IF next[i] = Null THEN <<i>>
                                    ELSE <<i>> \o From[next[i]]]
<1>0. next \in [Items -> MaybeItem]
  BY DEF Typed
<1> DEFINE Step(f) == [i \in Items |-> IF next[i] = Null THEN <<i>>
                                       ELSE <<i>> \o f[next[i]]]
           way == [i \in Items |-> CHOOSE s : Path(next, i, s)]
<1>1. \A i \in Items : Path(next, i, way[i])
  BY Zenon DEF Ends
<1>2. way = Step(way)
  <2>1. way = [i \in Items |-> way[i]]
    OBVIOUS
  <2> HIDE DEF way
  <2>2. ASSUME NEW i \in Items
        PROVE  way[i] = IF next[i] = Null THEN <<i>> ELSE <<i>> \o way[next[i]]
    <3>1. CASE next[i] = Null
      BY <3>1, <1>1, <1>0, Shortest, OnePath
    <3>2. CASE next[i] # Null
      <4>1. next[i] \in Items
        BY <3>2, <1>0 DEF MaybeItem
      <4>2. Path(next, next[i], way[next[i]])
        BY <4>1, <1>1
      <4>3. Path(next, i, <<i>> \o way[next[i]])
        BY <4>2, <3>2, <1>0, Longer
      <4>4. Path(next, i, way[i])
        BY <1>1
      <4> QED BY <4>3, <4>4, <3>2, <1>0, OnePath
    <3> QED BY <3>1, <3>2
  <2> QED BY <2>1, <2>2
<1>3. From = CHOOSE f : f = Step(f)
  BY DEF From
<1>4. From = Step(From)
  BY <1>2, <1>3, Zenon
<1> HIDE DEF way
<1> DEFINE Bad == {n \in Nat : \E i \in Items : Len(way[i]) = n /\ ~Path(next, i, From[i])}
<1>5. Bad = {}
  <2> SUFFICES ASSUME Bad # {} PROVE FALSE
    OBVIOUS
  <2>1. PICK n \in Bad : \A l \in Bad : n <= l
    BY Least
  <2>2. PICK i \in Items : Len(way[i]) = n /\ ~Path(next, i, From[i])
    OBVIOUS
  <2>3. next[i] # Null
    BY <1>4, <2>2, <1>0, Shortest
  <2>4. next[i] \in Items /\ From[i] = <<i>> \o From[next[i]]
    BY <1>0, <1>4, <2>3 DEF MaybeItem
  <2>5. way[i] = <<i>> \o way[next[i]]
    BY <1>2, <2>3
  <2>6. way[next[i]] \in Seq(Items) /\ Len(way[next[i]]) \in Nat
    BY <1>1, <2>4 DEF Path
  <2>7. Len(way[next[i]]) < n
    BY <2>2, <2>5, <2>6
  <2>8. Path(next, next[i], From[next[i]])
    BY <2>1, <2>4, <2>6, <2>7
  <2> QED BY <2>2, <2>3, <2>4, <2>8, <1>0, Longer
<1>6. \A i \in Items : Len(way[i]) \in Nat
  BY <1>1 DEF Path
<1> QED BY <1>4, <1>5, <1>6

-----------------------------------------------------------------------------
(* The invariant holds.                                                    *)

LEMMA Start == Init => IInv
<1> SUFFICES ASSUME Init PROVE IInv
  OBVIOUS
<1>1. Typed
  BY BoundAssumption DEF Init, Typed, MaybeItem, Places
<1>2. Private /\ Links /\ Read
  BY DEF Init, Private, Links, Read, Pushing
<1>3. \A i \in Items : Path(next, i, <<i>>) /\ <<i>> \in Seq(Items)
  <2>1. next \in [Items -> MaybeItem] /\ \A i \in Items : next[i] = Null
    BY <1>1 DEF Typed, Init
  <2> QED BY <2>1, Shortest DEF Path
<1>4. Ends
  BY <1>3, Zenon DEF Ends
<1> QED BY <1>1, <1>2, <1>4 DEF IInv

LEMMA TypedStep ==
  ASSUME IInv, NEW t \in Threads,
         Push(t) \/ PushGet(t) \/ PushCas(t) \/ PopGet(t) \/ PopCas(t)
  PROVE  Typed'
<1> USE DEF IInv, Typed, MaybeItem, Items, Places, Goto, Forget
<1>1. CASE Push(t)
  BY <1>1, BoundAssumption DEF Push
<1>2. CASE PushGet(t)
  BY <1>2 DEF PushGet
<1>3. CASE PushCas(t)
  BY <1>3 DEF PushCas
<1>4. CASE PopGet(t)
  BY <1>4 DEF PopGet
<1>5. CASE PopCas(t)
  BY <1>5 DEF PopCas
<1> QED BY <1>1, <1>2, <1>3, <1>4, <1>5

\* An Item that was pushed is never linked again.
LEMMA Stays ==
  ASSUME IInv, NEW t \in Threads,
         Push(t) \/ PushGet(t) \/ PushCas(t) \/ PopGet(t) \/ PopCas(t),
         NEW i \in Items, Public(i)
  PROVE  Public(i)'
<1> USE DEF IInv, Typed, Public, Pushing, Goto, Forget
<1>1. CASE Push(t)
  BY <1>1, BoundAssumption DEF Push
<1>2. CASE PushGet(t)
  BY <1>2 DEF PushGet
<1>3. CASE PushCas(t)
  BY <1>3 DEF PushCas
<1>4. CASE PopGet(t)
  BY <1>4 DEF PopGet
<1>5. CASE PopCas(t)
  BY <1>5 DEF PopCas
<1> QED BY <1>1, <1>2, <1>3, <1>4, <1>5

LEMMA PrivateStep ==
  ASSUME IInv, NEW t \in Threads,
         Push(t) \/ PushGet(t) \/ PushCas(t) \/ PopGet(t) \/ PopCas(t)
  PROVE  Private'
<1> USE DEF IInv, Typed, Private, Pushing, Goto, Forget
<1>1. CASE Push(t)
  BY <1>1, BoundAssumption DEF Push
<1>2. CASE PushGet(t)
  BY <1>2 DEF PushGet
<1>3. CASE PushCas(t)
  BY <1>3 DEF PushCas
<1>4. CASE PopGet(t)
  BY <1>4 DEF PopGet
<1>5. CASE PopCas(t)
  BY <1>5 DEF PopCas
<1> QED BY <1>1, <1>2, <1>3, <1>4, <1>5

\* The Item that is pushed becomes public with the compare-and-set.
\* Public Items are Items.
LEMMA PublicItem == ASSUME Typed, NEW i, Public(i) PROVE i \in Items
BY BoundAssumption DEF Typed, Public, Items

LEMMA LinksStep ==
  ASSUME IInv, NEW t \in Threads,
         Push(t) \/ PushGet(t) \/ PushCas(t) \/ PopGet(t) \/ PopCas(t)
  PROVE  Links'
<1> USE BoundAssumption DEF IInv, Links, Items
<1>0. \A i \in Items : Public(i) => Public(i)'
  BY Stays
<1>1. CASE Push(t) \/ PopGet(t)
  BY <1>1, <1>0 DEF Push, PopGet, Typed, MaybeItem
<1>2. CASE PushGet(t)
  <2>1. next' = [next EXCEPT ![newVal[t]] = top] /\ top' = top
    BY <1>2 DEF PushGet
  <2> QED BY <2>1, <1>0 DEF Typed, MaybeItem
<1>3. CASE PushCas(t)
  <2>1. CASE top' = top
    BY <2>1, <1>3, <1>0 DEF PushCas, Typed, MaybeItem
  <2>2. CASE top' # top
    <3>1. /\ top' = newVal[t] /\ pc[t] = "pushCas" /\ pc' = [pc EXCEPT ![t] = "idle"]
          /\ newVal' = [newVal EXCEPT ![t] = Null]
          /\ next' = next /\ allocated' = allocated
      BY <2>2, <1>3 DEF PushCas, Goto, Forget
    <3>2. PICK n \in Items : n = newVal[t] /\ n \in 1 .. allocated
      BY <3>1 DEF Private, Pushing, Typed
    <3>3. Public(n)'
      BY <3>1, <3>2, NullAssumption DEF Public, Private, Typed, Pushing
    <3> QED BY <3>1, <3>2, <3>3, <1>0 DEF Typed, MaybeItem
  <2> QED BY <2>1, <2>2
<1>4. CASE PopCas(t)
  <2>1. next' = next /\ top' \in {top, next[oldVal[t]]}
         /\ (top' # top => oldVal[t] \in Items)
    BY <1>4 DEF PopCas, Read, Public, Typed, Items
  <2> QED BY <2>1, <1>0 DEF Typed, MaybeItem
<1> QED BY <1>1, <1>2, <1>3, <1>4

LEMMA ReadStep ==
  ASSUME IInv, NEW t \in Threads,
         Push(t) \/ PushGet(t) \/ PushCas(t) \/ PopGet(t) \/ PopCas(t)
  PROVE  Read'
<1> USE BoundAssumption DEF IInv, Items
<1>0. \A i \in Items : Public(i) => Public(i)'
  BY Stays
<1>1. CASE Push(t)
  <2>1. pc' = [pc EXCEPT ![t] = "pushGet"] /\ next' = next /\ oldVal' = oldVal
        /\ newVal' = [newVal EXCEPT ![t] = allocated + 1]
    BY <1>1 DEF Push, Goto
  <2> QED BY <2>1, <1>0 DEF Read, Typed, Public, Items
<1>2. CASE PushGet(t)
  <2>1. /\ pc[t] = "pushGet" /\ pc' = [pc EXCEPT ![t] = "pushCas"]
        /\ next' = [next EXCEPT ![newVal[t]] = top]
        /\ oldVal' = [oldVal EXCEPT ![t] = top] /\ newVal' = newVal
    BY <1>2 DEF PushGet, Goto
  <2>2. newVal[t] \in Items
    BY <2>1 DEF Private, Pushing, Typed, Items
  <2>3. ASSUME NEW u \in Threads, pc'[u] = "pushCas"
        PROVE  next'[newVal'[u]] = oldVal'[u]
    <3>1. CASE u = t
      BY <3>1, <2>1, <2>2 DEF Typed
    <3>2. CASE u # t
      BY <3>2, <2>3, <2>1, <2>2 DEF Typed, Private, Pushing, Read
    <3> QED BY <3>1, <3>2
  <2>4. ASSUME NEW u \in Threads, pc'[u] = "popCas"
        PROVE  Public(oldVal[u])' /\ newVal'[u] = next'[oldVal'[u]] /\ oldVal'[u] = oldVal[u]
    <3>1. u # t /\ pc[u] = "popCas" /\ oldVal'[u] = oldVal[u]
      BY <2>4, <2>1 DEF Typed
    <3>2. Public(oldVal[u]) /\ newVal[u] = next[oldVal[u]]
      BY <3>1 DEF Read
    <3>3. oldVal[u] \in Items /\ oldVal[u] # newVal[t]
      BY <3>2, <2>1 DEF Public, Pushing, Items, Typed
    <3> QED BY <3>1, <3>2, <3>3, <2>1, <1>0 DEF Typed
  <2> QED BY <2>3, <2>4 DEF Read
<1>3. CASE PushCas(t)
  <2>1. /\ next' = next
        /\ \A u \in Threads : pc'[u] \in {"pushCas", "popCas"} =>
             pc'[u] = pc[u] /\ oldVal'[u] = oldVal[u] /\ newVal'[u] = newVal[u]
    BY <1>3 DEF PushCas, Goto, Forget, Typed
  <2>2. ASSUME NEW u \in Threads, pc'[u] = "popCas"
        PROVE  Public(oldVal[u])'
    <3>1. Public(oldVal[u]) /\ oldVal'[u] = oldVal[u]
      BY <2>1, <2>2 DEF Read
    <3>2. PICK i \in Items : i = oldVal[u]
      BY <3>1, PublicItem
    <3>3. Public(i)'
      BY <1>0, <3>1, <3>2
    <3> QED BY <3>1, <3>2, <3>3
  <2> QED BY <2>1, <2>2 DEF Read
<1>4. CASE PopGet(t)
  BY <1>4, <1>0 DEF PopGet, Goto, Forget, Read, Typed, Public, Items, Links
<1>5. CASE PopCas(t)
  BY <1>5, <1>0 DEF PopCas, Goto, Forget, Read, Typed, Public, Items
<1> QED BY <1>1, <1>2, <1>3, <1>4, <1>5

\* Only the path of the Item that is linked changes: no other leads to it.
LEMMA OtherPath ==
  ASSUME Typed, Links, NEW n \in Items, ~Public(n), NEW x,
         NEW link, link = [next EXCEPT ![n] = x],
         NEW i \in Items, i # n, NEW s, Path(next, i, s)
  PROVE  Path(link, i, s)
<1>1. s \in Seq(Items) /\ Len(s) \in Nat /\ Len(s) > 0 /\ s[1] = i
  BY DEF Path
<1>2. ASSUME NEW k \in 1 .. Len(s)
      PROVE  s[k] \in Items /\ s[k] # n
  <2>1. CASE k = 1
    BY <2>1, <1>1
  <2>2. CASE k # 1
    <3>1. k - 1 \in 1 .. Len(s) - 1 /\ s[k - 1] \in Items /\ s[k] \in Items
      BY <2>2, <1>1
    <3>2. next[s[k - 1]] = s[k]
      BY <3>1 DEF Path
    <3> QED BY <3>1, <3>2, NullAssumption DEF Links, Items
  <2> QED BY <2>1, <2>2
<1>3. \A k \in 1 .. Len(s) : link[s[k]] = next[s[k]]
  BY <1>2 DEF Typed
<1> QED BY <1>1, <1>3 DEF Path

LEMMA EndsStep ==
  ASSUME IInv, NEW t \in Threads,
         Push(t) \/ PushGet(t) \/ PushCas(t) \/ PopGet(t) \/ PopCas(t)
  PROVE  Ends'
<1>1. CASE next' = next
  BY <1>1 DEF IInv, Ends, Path
<1>2. CASE PushGet(t)
  <2>1. PICK n \in Items : n = newVal[t] /\ ~Public(n)
    BY <1>2, BoundAssumption DEF PushGet, IInv, Private, Pushing, Public, Typed, Items
  <2>2. next' = [next EXCEPT ![n] = top] /\ top \in MaybeItem
    BY <1>2, <2>1 DEF PushGet, IInv, Typed
  <2>3. Typed' /\ Typed /\ Links /\ Ends
    BY TypedStep DEF IInv
  <2>4. ASSUME NEW i \in Items, i # n
        PROVE  \E s \in Seq(Items) : Path(next', i, s)
    <3>1. PICK s \in Seq(Items) : Path(next, i, s)
      BY <2>3 DEF Ends
    <3> QED BY <3>1, <2>1, <2>2, <2>3, <2>4, OtherPath
  <2>5. \E s \in Seq(Items) : Path(next', n, s)
    <3>1. next'[n] = top
      BY <2>2, <2>3 DEF Typed
    <3>2. CASE top = Null
      <4>1. <<n>> \in Seq(Items) /\ Len(<<n>>) = 1 /\ <<n>>[1] = n
        OBVIOUS
      <4>2. Path(next', n, <<n>>)
        BY <4>1, <3>1, <3>2 DEF Path
      <4> QED BY <4>1, <4>2
    <3>3. CASE top # Null
      <4>1. PICK i \in Items : i = top /\ i # n
        BY <3>3, <2>1, <2>2, <2>3 DEF Links, MaybeItem
      <4>2. PICK s \in Seq(Items) : Path(next', i, s)
        BY <4>1, <2>4
      <4>3. Path(next', n, <<n>> \o s)
        <5>1. Path(next', next'[n], s) /\ next'[n] # Null
          BY <4>1, <4>2, <3>1, <3>3
        <5>2. next' \in [Items -> MaybeItem]
          BY <2>3 DEF Typed
        <5> QED BY <5>1, <5>2, Longer
      <4> QED BY <4>3 DEF Path
    <3> QED BY <3>2, <3>3
  <2> QED BY <2>4, <2>5 DEF Ends
<1>3. Push(t) \/ PushCas(t) \/ PopGet(t) \/ PopCas(t) => next' = next
  BY DEF Push, PushCas, PopGet, PopCas
<1> QED BY <1>1, <1>2, <1>3

LEMMA Step == IInv /\ [Next]_vars => IInv'
<1> SUFFICES ASSUME IInv, [Next]_vars PROVE IInv'
  OBVIOUS
<1>1. CASE UNCHANGED vars
  BY <1>1 DEF vars, IInv, Typed, Private, Links, Read, Ends, Path, Public, Pushing
<1>2. ASSUME NEW t \in Threads,
             Push(t) \/ PushGet(t) \/ PushCas(t) \/ PopGet(t) \/ PopCas(t)
      PROVE  IInv'
  BY <1>2, TypedStep, PrivateStep, LinksStep, ReadStep, EndsStep DEF IInv
<1> QED BY <1>1, <1>2 DEF Next

\* The invariant holds whatever the threads do: in particular, an Item that is
\* popped or linked to was pushed, and the top that a compare-and-set finds
\* unchanged still has the link that was read.
THEOREM Invariant == Spec => []IInv
BY Start, Step, PTL DEF Spec

-----------------------------------------------------------------------------
(* The refinement: every step is one of Stack, or changes nothing there.   *)

\* The stack is the path of the top.
LEMMA ChainPath ==
  Typed /\ Ends => /\ top = Null => Chain = << >>
                   /\ top # Null => top \in Items /\ Path(next, top, Chain)
BY FromPath DEF Chain, Typed, MaybeItem

LEMMA ChainPathNext ==
  Typed' /\ Ends' => /\ top' = Null => Chain' = << >>
                     /\ top' # Null => top' \in Items /\ Path(next', top', Chain')
<1>1. (Typed /\ Ends => /\ top = Null => Chain = << >>
                        /\ top # Null => top \in Items /\ Path(next, top, Chain))'
  BY ChainPath, PTL
<1> QED BY <1>1

\* What is not linked to the top changes nothing.
LEMMA SameChain ==
  ASSUME IInv, IInv', top' = top,
         \/ next' = next
         \/ \E n \in Items : \E x : ~Public(n) /\ next' = [next EXCEPT ![n] = x]
  PROVE  Chain' = Chain
<1> USE DEF IInv
<1>1. CASE top = Null
  <2>1. Chain = << >>
    BY <1>1, ChainPath, Zenon
  <2>2. Chain' = << >>
    BY <1>1, ChainPathNext, Zenon
  <2> QED BY <2>1, <2>2
<1>2. CASE top # Null
  <2>1. PICK i \in Items : i = top /\ Public(i)
    BY <1>2 DEF Links, Typed, MaybeItem
  <2>2. Path(next, i, Chain) /\ Path(next', i, Chain')
    BY <1>2, <2>1, ChainPath, ChainPathNext
  <2>3. next' \in [Items -> MaybeItem] /\ next \in [Items -> MaybeItem]
    BY DEF Typed
  <2>4. CASE next' = next
    BY <2>2, <2>3, <2>4, OnePath
  <2>5. ASSUME NEW n \in Items, NEW x, ~Public(n), next' = [next EXCEPT ![n] = x]
        PROVE  Chain' = Chain
    <3>1. Path(next', i, Chain)
      BY <2>1, <2>2, <2>5, OtherPath
    <3> QED BY <3>1, <2>2, <2>3, OnePath
  <2> QED BY <2>4, <2>5
<1> QED BY <1>1, <1>2

\* A path without its first Item is the path of what that is linked to.
LEMMA RestPath ==
  ASSUME NEW link \in [Items -> MaybeItem],
         NEW i \in Items, NEW s, Path(link, i, s)
  PROVE  /\ s # << >> /\ Head(s) = i
         /\ link[i] = Null => Tail(s) = << >>
         /\ link[i] # Null => Path(link, link[i], Tail(s))
<1>1. s \in Seq(Items) /\ Len(s) \in Nat /\ Len(s) > 0 /\ s[1] = i
  BY DEF Path
<1> DEFINE r == Tail(s)
<1>2. /\ r \in Seq(Items) /\ Len(r) = Len(s) - 1 /\ Len(r) \in Nat
      /\ \A k \in 1 .. Len(r) : r[k] = s[k + 1]
      /\ Head(s) = i /\ s # << >>
  BY <1>1
<1> HIDE DEF r
<1>3. CASE link[i] = Null
  <2>1. Len(s) = 1
    <3>1. CASE Len(s) = 1
      BY <3>1
    <3>2. CASE Len(s) # 1
      <4> DEFINE n == Len(s)
      <4>1. n \in Nat /\ n > 0 /\ n # 1
        BY <3>2, <1>1
      <4> HIDE DEF n
      <4>2. n > 1
        BY <4>1
      <4>3. 1 \in 1 .. Len(s) - 1 /\ s[1 + 1] \in Items
        BY <4>2, <1>1 DEF n
      <4>4. link[s[1]] = s[1 + 1]
        BY <4>3 DEF Path
      <4> QED BY <4>3, <4>4, <1>1, <1>3, NullAssumption DEF Items
    <3> QED BY <3>1, <3>2
  <2>2. r = << >>
    BY <1>2, <2>1
  <2> QED BY <2>2, <1>2, <1>3 DEF r
<1>4. CASE link[i] # Null
  <2>1. Len(s) > 1
    BY <1>1, <1>4 DEF Path
  <2>2. r[1] = link[i]
    <3>1. 1 \in 1 .. Len(s) - 1 /\ 1 \in 1 .. Len(r) /\ 1 + 1 = 2
      BY <2>1, <1>1, <1>2
    <3>2. link[s[1]] = s[1 + 1]
      BY <3>1 DEF Path
    <3> QED BY <3>1, <3>2, <1>1, <1>2
  <2>3. ASSUME NEW k \in 1 .. Len(r) - 1
        PROVE  link[r[k]] = r[k + 1]
    <3>1. k + 1 \in 1 .. Len(s) - 1 /\ k \in 1 .. Len(r) /\ k + 1 \in 1 .. Len(r)
      BY <1>1, <1>2
    <3>2. link[s[k + 1]] = s[(k + 1) + 1]
      BY <3>1 DEF Path
    <3> QED BY <3>1, <3>2, <1>2
  <2>4. link[r[Len(r)]] = Null
    <3>1. Len(r) \in 1 .. Len(r) /\ Len(r) + 1 = Len(s)
      BY <1>1, <1>2, <2>1
    <3>2. r[Len(r)] = s[Len(s)]
      BY <3>1, <1>2
    <3> QED BY <3>2 DEF Path
  <2>5. Path(link, link[i], r)
    BY <1>1, <1>2, <2>1, <2>2, <2>3, <2>4 DEF Path
  <2> QED BY <2>5, <1>2, <1>4 DEF r
<1> QED BY <1>3, <1>4

LEMMA AbstractInit == Init => Abstract!Init
BY DEF Init, Abstract!Init, Chain

\* The compare-and-set of push puts the Item on top; that of pop takes the
\* top, and so does nothing else but a pop that finds the stack empty.
LEMMA AbstractStep ==
  ASSUME IInv, IInv', [Next]_vars
  PROVE  [Abstract!Next]_<<Chain, out>>
<1>0. /\ Typed /\ Typed' /\ Links /\ Read
      /\ next \in [Items -> MaybeItem] /\ next' \in [Items -> MaybeItem]
  BY DEF IInv, Typed
<1>1. CASE UNCHANGED vars
  <2>1. top' = top /\ next' = next /\ out' = out
    BY <1>1 DEF vars
  <2> QED BY <2>1, SameChain
<1>2. ASSUME NEW t \in Threads, Push(t) \/ PushGet(t)
      PROVE  [Abstract!Next]_<<Chain, out>>
  <2>1. top' = top /\ out' = out
    BY <1>2 DEF Push, PushGet
  <2>2. CASE Push(t)
    BY <2>1, <2>2, SameChain DEF Push
  <2>3. CASE PushGet(t)
    <3>1. PICK n \in Items : n = newVal[t] /\ ~Public(n)
      BY <2>3, BoundAssumption DEF PushGet, IInv, Private, Pushing, Public, Typed, Items
    <3>2. next' = [next EXCEPT ![n] = top]
      BY <2>3, <3>1 DEF PushGet
    <3> QED BY <2>1, <3>1, <3>2, SameChain
  <2> QED BY <1>2, <2>2, <2>3
<1>3. ASSUME NEW t \in Threads, PushCas(t)
      PROVE  [Abstract!Next]_<<Chain, out>>
  <2>1. CASE top' = top
    BY <1>3, <2>1, SameChain DEF PushCas
  <2>2. CASE top' # top
    <3>1. PICK n \in Items : n = newVal[t]
      BY <1>3, <1>0, BoundAssumption DEF PushCas, IInv, Private, Pushing, Typed, Items
    <3>2. top' = n /\ next[n] = top /\ next' = next /\ out' = out
      BY <1>3, <2>2, <3>1, <1>0 DEF PushCas, Read
    <3>3. n # Null /\ Path(next, n, Chain')
      BY <3>1, <3>2, NullAssumption, ChainPathNext DEF IInv, Items
    <3>4. Chain' = <<n>> \o Chain
      <4>1. CASE top = Null
        <5>1. Chain = << >>
          BY <4>1, ChainPath, Zenon DEF IInv
        <5>2. Chain' = <<n>>
          BY <4>1, <3>2, <3>3, <1>0, Shortest, OnePath
        <5> QED BY <5>1, <5>2
      <4>2. CASE top # Null
        <5>1. Path(next, next[n], Chain)
          BY <4>2, <3>2, ChainPath DEF IInv
        <5>2. Path(next, n, <<n>> \o Chain)
          BY <5>1, <4>2, <3>2, <1>0, Longer
        <5> QED BY <5>2, <3>3, <1>0, OnePath
      <4> QED BY <4>1, <4>2
    <3> QED BY <3>2, <3>4 DEF Abstract!Next, Abstract!Push
  <2> QED BY <2>1, <2>2
<1>4. ASSUME NEW t \in Threads, PopGet(t)
      PROVE  [Abstract!Next]_<<Chain, out>>
  <2>1. Chain' = Chain
    BY <1>4, SameChain DEF PopGet
  <2>2. CASE top = Null
    <3>1. Chain = << >>
      BY <2>2, ChainPath, Zenon DEF IInv
    <3>2. out' = [out EXCEPT ![t] = Null]
      BY <2>2, <1>4 DEF PopGet
    <3> QED BY <2>1, <3>1, <3>2 DEF Abstract!Next, Abstract!PopNothing
  <2>3. CASE top # Null
    BY <2>1, <2>3, <1>4 DEF PopGet
  <2> QED BY <2>2, <2>3
<1>5. ASSUME NEW t \in Threads, PopCas(t)
      PROVE  [Abstract!Next]_<<Chain, out>>
  <2>1. CASE top = oldVal[t]
    <3>1. PICK i \in Items : i = top /\ i = oldVal[t]
      BY <2>1, <1>0, <1>5, PublicItem DEF PopCas, Read
    <3>2. next[i] = newVal[t] /\ i # Null
      BY <3>1, <1>0, <1>5, NullAssumption DEF PopCas, Read, Items
    <3>3. PICK x \in MaybeItem : x = next[i]
      BY <1>0
    <3>4. next' = next /\ top' = x /\ out' = [out EXCEPT ![t] = i]
      BY <2>1, <3>1, <3>2, <3>3, <1>5, <1>0 DEF PopCas
    <3>5. Path(next, i, Chain)
      BY <3>1, <3>2, ChainPath DEF IInv
    <3>6. Chain # << >> /\ Head(Chain) = i
      BY <3>5, <1>0, RestPath
    <3>7. Chain' = Tail(Chain)
      <4>1. CASE x = Null
        <5>1. Tail(Chain) = << >>
          BY <4>1, <3>3, <3>5, <1>0, RestPath
        <5>2. Chain' = << >>
          BY <4>1, <3>4, ChainPathNext, Zenon DEF IInv
        <5> QED BY <5>1, <5>2
      <4>2. CASE x # Null
        <5>1. Path(next, x, Tail(Chain))
          BY <4>2, <3>3, <3>5, <1>0, RestPath
        <5>2. Path(next, x, Chain')
          BY <4>2, <3>4, ChainPathNext DEF IInv
        <5> QED BY <5>1, <5>2, <1>0, OnePath
      <4> QED BY <4>1, <4>2
    <3> QED BY <3>4, <3>6, <3>7 DEF Abstract!Next, Abstract!Pop
  <2>2. CASE top # oldVal[t]
    BY <2>2, <1>5, SameChain DEF PopCas
  <2> QED BY <2>1, <2>2
<1> QED BY <1>1, <1>2, <1>3, <1>4, <1>5 DEF Next

\* LockFreeStack implements Stack: a push or a pop takes effect at once, at
\* its compare-and-set, so that no Item is lost and none is popped twice.
THEOREM Refinement == Spec => Linearizable
<1>1. Init => Abstract!Init
  BY AbstractInit
<1>2. IInv /\ IInv' /\ [Next]_vars => [Abstract!Next]_<<Chain, out>>
  BY AbstractStep
<1> QED BY <1>1, <1>2, Invariant, PTL DEF Spec, Linearizable, Abstract!Spec
=============================================================================
