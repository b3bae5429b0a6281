----------------------------- MODULE PhotonPool -----------------------------
(***************************************************************************)
(* com.crp.ether.PhotonPool: threads take photons from the pool, or make   *)
(* new ones and add them, and return them when they close the connection,  *)
(* or, as UIService does, without closing it.                              *)
(*                                                                         *)
(* phPoolIndex is the set of the bits of the AtomicLong that are set.  A   *)
(* slot's bit is written 1 << i: an int, which shifts by i modulo 32 and   *)
(* is sign extended.  So slot i stands for the bits Mask(i), and slots 32  *)
(* apart share them.  Each read of a slot is a step.                       *)
(***************************************************************************)
EXTENDS Integers, FiniteSets

CONSTANTS Threads,
          Starters,  \* threads that may call before the pool exists
          Kinds,     \* ETHER_COMMUNICATION_TYPE: "LOCAL", "REMOTE"
          Slots,     \* number of slots, and of bits in the long: 64
          IntBits,   \* bits of an int: 32
          MaxCalls,  \* bound: calls of createPhotonHelper
          None

ASSUME ThreadAssumption == Starters \subseteq Threads /\ IsFiniteSet(Threads)
ASSUME SlotAssumption == Slots \in Nat /\ IntBits \in 1 .. Slots
ASSUME BoundAssumption == MaxCalls \in Nat

Indexes == 0 .. Slots - 1
Photons == 1 .. MaxCalls

\* Nothing in the code keeps two first callers from both creating the statics;
\* what follows needs the calls before that to come from one thread.
SoloStart == \A t, u \in Starters : t = u

ASSUME NoneAssumption == None \notin Nat /\ None \notin Kinds

Mask(i) == IF i % IntBits = IntBits - 1
           THEN IntBits - 1 .. Slots - 1
           ELSE {i % IntBits}

VARIABLES
  created,      \* those of the two statics that are not null any more
  phPoolIndex,  \* the bits that are set
  phPool,       \* index -> photon or None
  cType,        \* photon -> its type, None for those not made yet
  asserts,      \* TRUE if the program runs with assertions enabled
  isConnected,  \* the connected photons
  unclosed,     \* history: photons returned without a close, and not connected since
  calls,        \* how many calls were made
  pc, wanted,   \* where a thread stands, the type it asked for
  oldVal, index, ph  \* the locals of the thread's call

vars == <<created, phPoolIndex, phPool, asserts, cType, isConnected, unclosed, calls,
          pc, wanted, oldVal, index, ph>>

Init == /\ created = {}
        /\ phPoolIndex = {}
        /\ phPool = [i \in Indexes |-> None]
        /\ cType = [p \in Photons |-> None]
        /\ asserts \in BOOLEAN
        /\ isConnected = {} /\ unclosed = {}
        /\ calls = 0
        /\ pc = [t \in Threads |-> "idle"]
        /\ wanted = [t \in Threads |-> None]
        /\ oldVal = [t \in Threads |-> {}]
        /\ index = [t \in Threads |-> 0]
        /\ ph = [t \in Threads |-> None]

Goto(t, at) == pc' = [pc EXCEPT ![t] = at]
Full == phPoolIndex = Indexes
pool == <<created, phPoolIndex, phPool>>
photons == <<asserts, cType, isConnected, unclosed>>
locals == <<oldVal, index, ph>>

\* The end of a call, or of the use of a photon.
Forget(t) == /\ ph' = [ph EXCEPT ![t] = None]
             /\ wanted' = [wanted EXCEPT ![t] = None]
             /\ oldVal' = [oldVal EXCEPT ![t] = {}]
             /\ index' = [index EXCEPT ![t] = 0]
             /\ Goto(t, "idle")

-----------------------------------------------------------------------------
(* createPhotonHelper, getPhotonFromPool                                   *)

CreatePhotonHelper(t, k) ==
  /\ pc[t] = "idle" /\ calls < MaxCalls
  /\ "word" \in created \/ t \in Starters
  /\ calls' = calls + 1
  /\ wanted' = [wanted EXCEPT ![t] = k]
  /\ Goto(t, IF "array" \in created THEN "word?" ELSE "array")
  /\ UNCHANGED <<pool, photons, locals>>

\* The statics are tested and created in separate steps.
NewArray(t) ==
  /\ pc[t] = "array"
  /\ phPool' = [i \in Indexes |-> None]
  /\ created' = created \cup {"array"}
  /\ Goto(t, "word?")
  /\ UNCHANGED <<phPoolIndex, photons, calls, wanted, locals>>

TestWord(t) ==
  /\ pc[t] = "word?"
  /\ Goto(t, IF "word" \notin created THEN "word"
             ELSE IF Full THEN "make" ELSE "get")
  /\ UNCHANGED <<pool, photons, calls, wanted, locals>>

NewWord(t) ==
  /\ pc[t] = "word"
  /\ phPoolIndex' = {}
  /\ created' = created \cup {"word"}
  /\ Goto(t, "get")
  /\ UNCHANGED <<phPool, photons, calls, wanted, locals>>

\* One round of a loop starts: the long is read, the scan begins at 0.
StartScan(t, from, to) ==
  /\ pc[t] = from
  /\ oldVal' = [oldVal EXCEPT ![t] = phPoolIndex]
  /\ index' = [index EXCEPT ![t] = 0]
  /\ Goto(t, to)
  /\ UNCHANGED <<pool, photons, calls, wanted, ph>>

GetRead(t) == StartScan(t, "get", "getScan")

\* Mutant: the bit is tested with 1L << index, and set with 1 << index.
UnsetLong(t) == index[t] \notin oldVal[t]

Unset(t) == Mask(index[t]) \cap oldVal[t] = {}

GetFits(t) == /\ Unset(t)
              /\ phPool[index[t]] # None
              /\ cType[phPool[index[t]]] = wanted[t]

\* The photon of a slot that was free when the long was read must not be connected.
ScanFails(t) == asserts /\ Unset(t) /\ phPool[index[t]] \in isConnected

\* The assertion ends the call with an error.  Its thread has no photon; whether it
\* dies of the error or lives to call again, its callers decide.
ScanAssert(t) ==
  /\ pc[t] = "getScan" /\ ScanFails(t)
  /\ Forget(t)
  /\ UNCHANGED <<pool, photons, calls>>

\* Mutant: a photon of the other type is looked at again.
GetScanStuck(t) ==
  /\ pc[t] = "getScan" /\ ~ScanFails(t)
  /\ IF GetFits(t)
     THEN Goto(t, "getCas") /\ UNCHANGED index
     ELSE /\ index' = [index EXCEPT ![t] =
               IF Unset(t) /\ phPool[@] # None THEN @ ELSE @ + 1]
          /\ Goto(t, IF index'[t] = Slots THEN "make" ELSE "getScan")
  /\ UNCHANGED <<pool, photons, calls, wanted, oldVal, ph>>

\* One slot: a free photon of the wanted type, or the next; none at the end.
GetScan(t) ==
  /\ pc[t] = "getScan" /\ ~ScanFails(t)
  /\ IF GetFits(t)
     THEN Goto(t, "getCas") /\ UNCHANGED index
     ELSE /\ index' = [index EXCEPT ![t] = @ + 1]
          /\ Goto(t, IF index'[t] = Slots THEN "make" ELSE "getScan")
  /\ UNCHANGED <<pool, photons, calls, wanted, oldVal, ph>>

\* Mutant: the bits are set whatever the long holds by now.
GetCasBlind(t) ==
  /\ pc[t] = "getCas"
  /\ phPoolIndex' = oldVal[t] \cup Mask(index[t])
  /\ Goto(t, "take")
  /\ UNCHANGED <<created, phPool, photons, calls, wanted, locals>>

GetCas(t) ==
  /\ pc[t] = "getCas"
  /\ IF phPoolIndex = oldVal[t]
     THEN phPoolIndex' = oldVal[t] \cup Mask(index[t]) /\ Goto(t, "take")
     ELSE UNCHANGED phPoolIndex /\ Goto(t, "get")
  /\ UNCHANGED <<created, phPool, photons, calls, wanted, locals>>

\* The slot is read once more; the caller resets the photon.
Take(t) ==
  /\ pc[t] = "take"
  /\ ph' = [ph EXCEPT ![t] = phPool[index[t]]]
  /\ Goto(t, "created")
  /\ UNCHANGED <<pool, photons, calls, wanted, oldVal, index>>

-----------------------------------------------------------------------------
(* createPhotonHelper with an empty pool, addPhotonToPool                  *)

\* new Photon; without a slot for it, it stays outside of the pool.
Make(t) ==
  /\ pc[t] = "make"
  /\ \E p \in Photons :
       /\ cType[p] = None /\ \A q \in 1 .. p - 1 : cType[q] # None
       /\ cType' = [cType EXCEPT ![p] = wanted[t]]
       /\ ph' = [ph EXCEPT ![t] = p]
  /\ Goto(t, IF Full THEN "created" ELSE "add")
  /\ index' = [index EXCEPT ![t] = Slots]
  /\ UNCHANGED <<pool, asserts, isConnected, unclosed, calls, wanted, oldVal>>

AddRead(t) == StartScan(t, "add", "addScan")

AddScan(t) ==
  /\ pc[t] = "addScan"
  /\ IF Unset(t) /\ phPool[index[t]] = None
     THEN Goto(t, "addCas") /\ UNCHANGED index
     ELSE /\ index' = [index EXCEPT ![t] = @ + 1]
          /\ Goto(t, IF index'[t] = Slots THEN "created" ELSE "addScan")
  /\ UNCHANGED <<pool, photons, calls, wanted, oldVal, ph>>

\* Mutant: the slot is filled without claiming its bits.
AddCasUnclaimed(t) ==
  /\ pc[t] = "addCas"
  /\ Goto(t, "store")
  /\ UNCHANGED <<pool, photons, calls, wanted, locals>>

AddCas(t) ==
  /\ pc[t] = "addCas"
  /\ IF phPoolIndex = oldVal[t]
     THEN phPoolIndex' = oldVal[t] \cup Mask(index[t]) /\ Goto(t, "store")
     ELSE UNCHANGED phPoolIndex /\ Goto(t, "add")
  /\ UNCHANGED <<created, phPool, photons, calls, wanted, locals>>

Store(t) ==
  /\ pc[t] = "store"
  /\ phPool' = [phPool EXCEPT ![index[t]] = ph[t]]
  /\ Goto(t, "created")
  /\ UNCHANGED <<created, phPoolIndex, photons, calls, wanted, locals>>

-----------------------------------------------------------------------------
(* The caller: connects, uses, and closes the photon                       *)

Connect(t) ==
  /\ pc[t] = "created"
  /\ isConnected' = isConnected \cup {ph[t]}
  /\ unclosed' = unclosed \ {ph[t]}
  /\ Goto(t, "using")
  /\ UNCHANGED <<pool, asserts, cType, calls, wanted, locals>>

\* UIService sends a message on a remote photon and returns it as it is.
LeaveOpen(t) ==
  /\ pc[t] = "using" /\ wanted[t] = "REMOTE"
  /\ unclosed' = unclosed \cup {ph[t]}
  /\ Goto(t, "return")
  /\ UNCHANGED <<pool, asserts, cType, isConnected, calls, wanted, locals>>

\* Mutant: the bits are cleared first and the photon is closed afterwards.
CloseLate(t) ==
  /\ pc[t] = "using"
  /\ phPoolIndex' = phPoolIndex \ UNION {Mask(i) : i \in {j \in Indexes : phPool[j] = ph[t]}}
  /\ Goto(t, "return")
  /\ UNCHANGED <<created, phPool, photons, calls, wanted, locals>>

\* closePhoton up to Photon.close
Close(t) ==
  /\ pc[t] = "using"
  /\ isConnected' = isConnected \ {ph[t]}
  /\ Goto(t, "return")
  /\ UNCHANGED <<pool, asserts, cType, unclosed, calls, wanted, locals>>

SlotsOf(p) == {i \in Indexes : phPool[i] = p}

\* Mutant: the bits of the next slot are cleared.
ReturnPhotonToPoolNext(t) ==
  /\ pc[t] = "return"
  /\ \/ /\ SlotsOf(ph[t]) = {} /\ UNCHANGED phPoolIndex
     \/ \E i \in SlotsOf(ph[t]) : phPoolIndex' = phPoolIndex \ Mask(i + 1)
  /\ Forget(t)
  /\ UNCHANGED <<created, phPool, photons, calls>>

\* The loop of compare-and-set only clears the bits: one atomic step.
ReturnPhotonToPool(t) ==
  /\ pc[t] = "return"
  /\ \/ /\ SlotsOf(ph[t]) = {} /\ UNCHANGED phPoolIndex
     \/ \E i \in SlotsOf(ph[t]) : phPoolIndex' = phPoolIndex \ Mask(i)
  /\ Forget(t)
  /\ UNCHANGED <<created, phPool, photons, calls>>

-----------------------------------------------------------------------------
Step(t) == \/ NewArray(t) \/ TestWord(t) \/ NewWord(t)
           \/ GetRead(t) \/ GetScan(t) \/ ScanAssert(t) \/ GetCas(t) \/ Take(t)
           \/ Make(t) \/ AddRead(t) \/ AddScan(t) \/ AddCas(t) \/ Store(t)
           \/ Connect(t)

Next == \E t \in Threads : \/ \E k \in Kinds : CreatePhotonHelper(t, k)
                           \/ Step(t)
                           \/ Close(t) \/ LeaveOpen(t)
                           \/ ReturnPhotonToPool(t)

Spec == Init /\ [][Next]_vars

\* A thread inside a call is scheduled again; nobody has to close a photon.
FairSpec == /\ Spec
            /\ \A t \in Threads : WF_vars(Step(t)) /\ WF_vars(ReturnPhotonToPool(t))

-----------------------------------------------------------------------------
(* Properties                                                              *)

Holding(t) == pc[t] \in {"created", "using", "return"}

\* A photon has one user: two threads never send on one connection
\* (getPhotonFromPool promises "a free photon from the list").
Exclusive == \A t, u \in Threads :
  t # u /\ Holding(t) /\ Holding(u) => ph[t] # ph[u]

\* The slots that a thread has claimed: also before it has read or filled it.
Claimed(t) == IF pc[t] \in {"take", "store"} \/ (Holding(t) /\ index[t] # Slots)
              THEN {index[t]} ELSE {}

ClaimedBits == UNION {UNION {Mask(i) : i \in Claimed(t)} : t \in Threads}

\* The long has exactly the bits of the claimed slots, although slots share
\* bits and the top one of an int sets 33 of them: no claim is forgotten and
\* no free slot stays marked.
IndexExact == phPoolIndex = ClaimedBits

\* A photon in use stays in the slot it was claimed with, and in no other, so
\* that returnPhotonToPool finds the right bits; one outside the pool is in none.
KeepsItsSlot == \A t \in Threads : Holding(t) =>
  SlotsOf(ph[t]) = Claimed(t)

\* The photon of a free slot is connected only if UIService returned it unclosed, and
\* then nobody uses it: the pool never offers a connection that is in use.  With
\* UIService's photons the assert of getPhotonFromPool fails, without them it holds
\* of the pool as it is (not of the long read before).
OffersNoneInUse ==
  \A i \in Indexes : Mask(i) \cap phPoolIndex = {} /\ phPool[i] \in isConnected =>
    phPool[i] \in unclosed /\ \A t \in Threads : pc[t] = "using" => ph[t] # phPool[i]

\* Every call returns, whatever the other threads do: since the calls are
\* bounded, in the end nobody is inside one.
CallsReturn == <>[](\A t \in Threads : pc[t] \in {"idle", "using"})

-----------------------------------------------------------------------------
(* The inductive invariant                                                 *)

Making(t) == pc[t] \in {"add", "addScan", "addCas", "store"}

TypeOK ==
  /\ created \subseteq {"array", "word"}
  /\ phPoolIndex \subseteq Indexes
  /\ phPool \in [Indexes -> Photons \cup {None}]
  /\ cType \in [Photons -> Kinds \cup {None}]
  /\ asserts \in BOOLEAN
  /\ isConnected \subseteq Photons /\ unclosed \subseteq Photons
  /\ calls \in 0 .. MaxCalls
  /\ pc \in [Threads -> {"idle", "array", "word?", "word", "make", "get",
                         "getScan", "getCas", "take", "add", "addScan",
                         "addCas", "store", "created", "using", "return"}]
  /\ wanted \in [Threads -> Kinds \cup {None}]
  /\ oldVal \in [Threads -> SUBSET Indexes]
  /\ index \in [Threads -> 0 .. Slots]
  /\ ph \in [Threads -> Photons \cup {None}]

\* Until the long exists only a starter is in a call, and in its first steps,
\* and the pool is empty; afterwards nobody is about to create a static.
Creation ==
  /\ "word" \in created => "array" \in created
  /\ "word" \notin created => phPool = [i \in Indexes |-> None]
  /\ \A t \in Threads :
       /\ "word" \notin created =>
            pc[t] = "idle" \/ (t \in Starters /\ pc[t] \in {"array", "word?", "word"})
       /\ pc[t] = "array" => "array" \notin created
       /\ pc[t] = "word" => "word" \notin created
       /\ pc[t] \in {"word?", "word"} => "array" \in created

\* What a thread knows while it goes through the pool.
Locals == \A t \in Threads :
  /\ pc[t] \in {"getScan", "getCas", "addScan", "addCas", "take", "store"} =>
       index[t] \in Indexes
  /\ pc[t] \in {"getCas", "addCas"} => Unset(t)
  /\ pc[t] \in {"getCas", "take"} => phPool[index[t]] # None
  /\ (ph[t] # None) <=> (Making(t) \/ Holding(t))
  /\ pc[t] = "idle" \/ wanted[t] \in Kinds

\* A photon has one thread at most, is in one slot at most and in none until
\* it is stored; threads and slots only know photons that exist.
OneThread == \A t, u \in Threads : t # u /\ ph[t] = ph[u] => ph[t] = None
OneSlot == \A i, j \in Indexes : phPool[i] = phPool[j] => i = j \/ phPool[i] = None
Unstored == \A t \in Threads : Making(t) => SlotsOf(ph[t]) = {}
Existing == /\ \A t \in Threads : ph[t] # None => cType[ph[t]] # None
            /\ \A i \in Indexes : phPool[i] # None => cType[phPool[i]] # None

Owned == OneThread /\ OneSlot /\ Unstored /\ Existing /\ KeepsItsSlot

\* The connected photons are those in use and those returned unclosed.
Connected ==
  /\ \A p \in isConnected \ unclosed : \E t \in Threads : pc[t] = "using" /\ ph[t] = p
  /\ \A t \in Threads : pc[t] = "using" => ph[t] \in isConnected \ unclosed

\* Two claims share no bit.
Disjoint == \A t, u \in Threads : \A i \in Claimed(t), j \in Claimed(u) :
  t # u => Mask(i) \cap Mask(j) = {}

IInv == TypeOK /\ Creation /\ Locals /\ Owned /\ Connected /\ Disjoint /\ IndexExact
=============================================================================
