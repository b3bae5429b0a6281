---------------------------- MODULE DBSessionProofs ----------------------------
(***************************************************************************)
(* The invariant of DBSession, for every value of the constants.  What is  *)
(* on its way from C to D and from D to IO are two streams of messages:    *)
(* Flow says how they end, Used that their messages are those in use, each *)
(* once, and Intact what is in them.  A step of a thread does something to *)
(* the end of a stream it writes, or to the head of one it reads; all      *)
(* other steps leave the streams alone (Quiet...).  All that holds as long *)
(* as D does not get the photon C gave back; if it does, nothing moves any *)
(* more but control messages (Stuck).                                      *)
(***************************************************************************)
EXTENDS DBSession, SequenceTheorems, FiniteSetTheorems, WellFoundedInduction,
        TLAPS

-----------------------------------------------------------------------------
(* The invariant.                                                          *)

\* What can be in the two channels, what each thread can be told, and what it
\* can have in its holder.
CapMessages == {<<"WRITE", i>> : i \in CapIds} \cup {Plain("CLOSE")}
IOMessages == {<<"PAGE", i>> : i \in PageIds} \cup {Plain("CLOSE")}
Told(t) ==
  CASE t = S -> {Plain("NEW_CONNECTION"), Plain("SHUTDOWN")}
    [] t = D -> {Plain("REGISTER"), Plain("SHUTDOWN")}
    [] OTHER -> {Plain("SHUTDOWN")}
Held(t) ==
  CASE t = D -> Told(D) \cup CapMessages
    [] t = IO -> Told(IO) \cup IOMessages
    [] OTHER -> Told(t)
\* The places each thread passes.
PlacesOf(t) ==
  CASE t = S -> {"pop", "handle", "tell", "join", "done"}
    [] t = C -> {"start", "connect", "idle", "getFree", "lastCaplets", "close",
                 "drain", "done"}
    [] t = D -> {"none", "start", "spawn", "recv", "pop", "handle", "add",
                 "sendPage", "lastPage", "close", "drain", "free", "done"}
    [] t = IO -> {"none", "start", "recv", "pop", "handle", "done"}

\* Types of the message loops.
LoopTyped ==
  /\ status \in [Threads -> {"none", "uninit", "init", "finished"}]
  /\ DOMAIN pc = Threads /\ \A t \in Threads : pc[t] \in PlacesOf(t)
  /\ DOMAIN ctrl = Threads /\ \A t \in Threads : ctrl[t] \in Seq(Told(t))
  /\ DOMAIN holder = Threads /\ \A t \in Threads : holder[t] \in Seq(Held(t))
  /\ left \in [Threads -> Nat] /\ \A t \in Threads : left[t] <= Len(holder[t])
  /\ stop \subseteq Threads /\ isConnected \subseteq Photons

\* Types of a message pool: its messages have no more than fits in them.
PoolTyped(body, ids, use, room) ==
  /\ use \subseteq ids /\ DOMAIN body = ids
  /\ \A i \in ids : body[i] \in Seq(1 .. captured) /\ Len(body[i]) <= room

\* Types of the data, and of the fields of the workers.
DataTyped ==
  /\ PoolTyped(capBody, CapIds, capUse, CapRoom)
  /\ PoolTyped(pageBody, PageIds, pageUse, PageRoom)
  /\ captured \in 0 .. MaxCaplets /\ closed \in BOOLEAN
  /\ currentDBMessage \in CapIds \cup {None}
  /\ currentPage \in PageIds \cup {None} /\ full \in PageIds \cup {None}
  /\ dbm \in {"uninit", "write"} /\ packed \in 0 .. CapRoom
  /\ registered \in BOOLEAN /\ available \in BOOLEAN /\ isOpen \in BOOLEAN
  /\ file \in Seq(1 .. captured)
  /\ asked \in BOOLEAN /\ next \in Nat /\ count \in 0 .. 4

\* The arrays of a channel: one that the producer left has a message, unless the
\* consumer is in it.
Sound(ch, M) ==
  /\ DOMAIN ch = {"arrays", "produced", "consumed"}
  /\ ch.arrays \in Seq(Seq(M)) /\ Len(ch.arrays) <= NQueues
  /\ ch.produced \in BOOLEAN /\ ch.consumed \in BOOLEAN
  /\ ch.produced <=> ch.arrays # << >>
  /\ ch.consumed => ch.produced
  /\ \A i \in 1 .. Len(ch.arrays) - 1 : ch.arrays[i] = << >> => i = 1 /\ ch.consumed

\* The two channels.
Channels == /\ DOMAIN channel = Photons
            /\ Sound(channel["cap"], CapMessages) /\ Sound(channel["io"], IOMessages)

\* How far a thread is with the end of the session: C and D closed their
\* photons, D has its own, D sent its last page; and t handles a message.
CapClosed == pc[C] = "drain" \/ (pc[C] \in {"idle", "done"} /\ "cap" \notin isConnected)
Spawned == pc[D] \notin {"none", "start", "spawn"}
IOClosed == pc[D] = "drain" \/ (Spawned /\ "io" \notin isConnected)
Ended == IOClosed \/ pc[D] = "close"
Busy(t) == pc[t] \notin {"none", "start", "connect", "spawn", "idle", "getFree",
                         "lastCaplets", "recv", "pop", "done"}

\* What C has decided on before it reaches each place.
WalkC ==
  /\ pc[C] \in {"start", "connect"} => currentDBMessage = None
  /\ pc[C] = "idle" /\ ~closed => "cap" \in isConnected
  /\ pc[C] = "getFree" => "cap" \in isConnected /\ ~closed /\ captured < MaxCaplets
  /\ pc[C] = "lastCaplets" => "cap" \in isConnected
  /\ pc[C] \in {"lastCaplets", "close", "drain", "done"} => closed

\* The same of D, and of what the others handle: the message is in the holder.
WalkD ==
  /\ \A t \in {S, D, IO} : Busy(t) => left[t] >= 1
  /\ pc[D] \in {"add", "sendPage"} => /\ Head(holder[D])[1] = "WRITE" /\ "io" \in isConnected
                                      /\ dbm = "write"
                                      /\ packed <= Len(capBody[Id(D)])
  /\ pc[D] \in {"lastPage", "close", "drain", "free"} => Head(holder[D])[1] \in {"CLOSE", "SHUTDOWN"}
  /\ pc[D] \in {"close", "drain"} => "io" \in isConnected
  /\ pc[D] = "free" => "io" \notin isConnected
  /\ full # None <=> pc[D] = "sendPage"
  /\ currentPage = None => dbm = "uninit"
  /\ currentPage # None /\ dbm = "uninit" => Ended

\* The streams: what is on its way, without and with the CLOSE that ends it.
UC == UnhandledCaps
UCX == Each(IdIf({"WRITE", "CLOSE"}), Stream("cap", D))
UP == UnhandledPages
UPX == Each(IdIf({"PAGE", "CLOSE"}), Stream("io", IO))

\* A stream ends with at most one CLOSE, which comes after everything else, and
\* only when the writer is through; the file is closed when nothing is left.
Flow ==
  /\ UCX = UC \/ (CapClosed /\ UCX = UC \o <<None>>)
  /\ UPX = UP \/ (IOClosed /\ UPX = UP \o <<None>>)
  /\ CapClosed => closed
  /\ Ended \/ pc[D] = "lastPage" => CapClosed /\ UC = << >>
  /\ Ended => dbm = "uninit" /\ full = None
  /\ ~isOpen /\ file # << >> => Ended /\ UP = << >>

\* The messages on their way, and the one that is being filled, are those in
\* use, each once.
CS == UC \o UnsentCaps
PS == UP \o UnsentPages
Injective(s) == \A i, j \in DOMAIN s : s[i] = s[j] => i = j
Used ==
  /\ ToSet(CS) = capUse /\ Injective(CS)
  /\ ToSet(PS) = pageUse /\ Injective(PS)

\* Before the first message is taken from a pool, all are empty.
Fresh ==
  /\ currentDBMessage = None => \A i \in CapIds : capBody[i] = << >>
  /\ currentPage = None => pageUse = {} /\ \A i \in PageIds : pageBody[i] = << >>

\* S hears of the one connection before D exists.
\* What S has of NEW_CONNECTION.
UN == Each(IdIf({"NEW_CONNECTION"}), holder[S] \o ctrl[S])
Greeting ==
  /\ UN = << >> \/ UN = <<None>>
  /\ UN # << >> => pc[D] = "none"
  /\ pc[C] \in {"start", "connect"} => UN = << >> /\ pc[D] = "none"

\* What is updated place by place is a function and stays one.
Function(f) == f = [x \in DOMAIN f |-> f[x]]
Shaped == /\ Function(pc) /\ Function(ctrl) /\ Function(holder)
          /\ Function(capBody) /\ Function(pageBody)

\* D packed no page.
Unpacked == /\ channel["io"] = NewChannel /\ file = << >> /\ ~isOpen
            /\ currentPage = None /\ full = None /\ dbm = "uninit"
\* D has a photon to IO when it is spawned.  The pool has C's photon only when
\* C is through with it; D has done nothing before.
Unborn == /\ phToIO = None /\ pool \subseteq {"cap"} /\ pc[IO] = "none"
          /\ holder[D] = << >> /\ holder[IO] = << >> /\ Unpacked
\* If D got that of C, nothing comes out of either channel any more.
Stuck == /\ closed /\ pc[C] \in {"idle", "done"} /\ "cap" \in isConnected
         /\ pc[D] \in {"recv", "pop", "handle", "done"}
         /\ holder[D] \in Seq(Told(D)) /\ holder[IO] \in Seq(Told(IO))
         /\ channel["cap"] = NewChannel /\ Unpacked
Pooling ==
  /\ pool \subseteq Photons /\ phToIO \in Photons \cup {None}
  /\ "cap" \in pool => closed /\ pc[C] \in {"idle", "done"} /\ "cap" \notin isConnected
  /\ IF Spawned THEN phToIO \in Photons ELSE Unborn
  /\ Reused => Stuck

\* The part of the invariant that holds at any time, and the part that holds as
\* long as D does not get C's photon.
Base == Greeting /\ Shaped /\ LoopTyped /\ DataTyped /\ Channels /\ WalkC /\ WalkD /\ Fresh /\ Pooling
Flowing == Flow /\ Used /\ Intact

\* The inductive invariant.
IInv == Base /\ (Reused \/ Flowing)

\* A step of a D whose photon is its own.
OwnStep == Pooling /\ ~Reused /\ ~Reused'

\* Every message is alone in an array that its producer left, so that a channel
\* has hardly more arrays than messages.
Brief(ch) ==
  /\ ch.produced => Own(ch) = << >>
  /\ \A i \in DOMAIN ch.arrays : Len(ch.arrays[i]) <= 1
  /\ Len(ch.arrays) <= Len(FlattenSeq(ch.arrays)) +
       (IF ch.consumed /\ ch.arrays[1] = << >> THEN 2 ELSE 1)
Published == Brief(channel["cap"]) /\ Brief(channel["io"])

-----------------------------------------------------------------------------
(* Sequences.                                                              *)

\* A set with 0 that is closed under + 1 has all natural numbers.
LEMMA NatInduct ==
  ASSUME NEW X, 0 \in X, \A n \in Nat : n \in X => n + 1 \in X
  PROVE  \A n \in Nat : n \in X
<1> DEFINE Bad == {n \in Nat : n \notin X}
<1> SUFFICES ASSUME NEW r \in Bad PROVE FALSE
  OBVIOUS
<1>1. PICK x \in Bad : \A y \in Bad : ~(<<y, x>> \in OpToRel(<, Nat))
  BY NatLessThanWellFounded, WFMin
<1>2. \A y \in Bad : ~(y < x)
  BY <1>1, Zenon DEF OpToRel
<1>3. x \in Nat /\ x # 0 /\ x \notin X
  OBVIOUS
<1>4. x - 1 \in Nat /\ x - 1 \notin Bad
  BY <1>2, <1>3
<1>5. x - 1 \in X /\ x - 1 + 1 = x
  BY <1>3, <1>4
<1> QED BY <1>3, <1>4, <1>5

\* A set with the empty sequence that is closed under Append has them all.
LEMMA SeqInduct ==
  ASSUME NEW T, NEW X, << >> \in X,
         \A s \in Seq(T), e \in T : s \in X => Append(s, e) \in X
  PROVE  \A s \in Seq(T) : s \in X
<1> DEFINE L == {n \in Nat : \A s \in Seq(T) : Len(s) = n => s \in X}
<1>1. 0 \in L
  BY EmptySeq
<1>2. ASSUME NEW n \in Nat, n \in L PROVE n + 1 \in L
  <2> SUFFICES ASSUME NEW s \in Seq(T), Len(s) = n + 1 PROVE s \in X
    OBVIOUS
  <2>1. s # << >>
    BY EmptySeq, n + 1 # 0
  <2>2. PICK t \in Seq(T), e \in T : s = Append(t, e)
    BY <2>1, SequenceEmptyOrAppend
  <2>3. Len(t) \in Nat /\ Len(s) = Len(t) + 1
    BY <2>2, AppendProperties, LenProperties
  <2>4. t \in X
    BY <1>2, <2>3
  <2> QED BY <2>2, <2>4
<1>3. \A n \in Nat : n \in L
  <2> HIDE DEF L
  <2> QED BY <1>1, <1>2, NatInduct
<1> QED BY <1>3, LenProperties

\* What FlattenSeq computes on its way.
Joined(a, b) == a \o b
\* What FlattenSeq computes on its way: the first i elements, joined.
Run(s, n, g) == g = [i \in 1 .. n |-> IF i = 1 THEN s[i] ELSE Joined(g[i - 1], s[i])]

\* A run starts with the first element.
LEMMA RunFirst ==
  ASSUME NEW s, NEW n \in Nat, NEW g, Run(s, n, g), n # 0
  PROVE  g[1] = s[1]
<1>1. 1 \in 1 .. n
  OBVIOUS
<1> QED BY <1>1, Zenon DEF Run

\* Each value of a run follows from the one before.
LEMMA RunNext ==
  ASSUME NEW s, NEW n \in Nat, NEW g, Run(s, n, g), NEW i \in 2 .. n
  PROVE  g[i] = Joined(g[i - 1], s[i])
<1>1. i \in 1 .. n /\ i # 1
  OBVIOUS
<1> QED BY <1>1, Zenon DEF Run

\* There is a run of every length.
LEMMA RunExists ==
  ASSUME NEW s, NEW n \in Nat
  PROVE  \E g : Run(s, n, g)
<1> DEFINE X == {k \in Nat : \E g : Run(s, k, g)}
<1>1. 0 \in X
  <2>1. Run(s, 0, << >>)
    <3>1. 1 .. 0 = {} /\ << >> = [i \in {} |-> << >>]
      OBVIOUS
    <3>2. [i \in 1 .. 0 |-> IF i = 1 THEN s[i] ELSE Joined(<< >>[i - 1], s[i])] = << >>
      BY <3>1
    <3> QED BY <3>2, Zenon DEF Run
  <2> QED BY <2>1
<1>2. ASSUME NEW k \in Nat, k \in X PROVE k + 1 \in X
  <2>1. PICK g : Run(s, k, g)
    BY <1>2
  <2> DEFINE e == IF k = 0 THEN s[1] ELSE Joined(g[k], s[k + 1])
             h == [i \in 1 .. k + 1 |-> IF i = k + 1 THEN e ELSE g[i]]
  <2>2. ASSUME NEW i \in 1 .. k + 1
        PROVE  h[i] = IF i = 1 THEN s[i] ELSE Joined(h[i - 1], s[i])
    <3>1. CASE i = k + 1 /\ k = 0
      BY <3>1
    <3>2. CASE i = k + 1 /\ k # 0
      <4>1. h[k] = g[k] /\ i # 1 /\ i - 1 = k
        BY <3>2
      <4>2. h[i] = Joined(g[k], s[k + 1])
        BY <3>2
      <4> HIDE DEF h
      <4> QED BY <3>2, <4>1, <4>2
    <3>3. CASE i # k + 1
      <4>1. i \in 1 .. k /\ h[i] = g[i]
        BY <3>3
      <4>2. CASE i = 1
        <5>1. g[1] = s[1]
          BY <2>1, <4>1, <4>2, RunFirst
        <5> QED BY <4>1, <4>2, <5>1
      <4>3. CASE i # 1
        <5>1. i \in 2 .. k /\ i - 1 \in 1 .. k
          BY <4>1, <4>3
        <5>2. g[i] = Joined(g[i - 1], s[i])
          BY <2>1, <5>1, RunNext
        <5>3. h[i - 1] = g[i - 1]
          BY <5>1
        <5> HIDE DEF h
        <5> QED BY <4>1, <4>3, <5>2, <5>3
      <4> QED BY <4>2, <4>3
    <3> QED BY <3>1, <3>2, <3>3
  <2>3. h = [i \in 1 .. k + 1 |-> h[i]]
    OBVIOUS
  <2>4. Run(s, k + 1, h)
    <3> HIDE DEF h
    <3> QED BY <2>2, <2>3, Zenon DEF Run
  <2> HIDE DEF h
  <2> QED BY <2>4
<1>3. \A k \in Nat : k \in X
  <2> HIDE DEF X
  <2> QED BY <1>1, <1>2, NatInduct
<1> QED BY <1>3

\* It depends on what was read so far only.
Same(s, r, k) == \A i \in 1 .. k : s[i] = r[i]

\* Runs over sequences that begin alike begin alike.
LEMMA RunSame ==
  ASSUME NEW s, NEW r, NEW n \in Nat, NEW m \in Nat, NEW g, NEW h,
         Run(s, n, g), Run(r, m, h), NEW k \in Nat, k <= n, k <= m,
         Same(s, r, k)
  PROVE  Same(g, h, k)
<1> DEFINE X == {i \in Nat : i \in 1 .. k => g[i] = h[i]}
<1>1. 0 \in X
  OBVIOUS
<1>2. ASSUME NEW i \in Nat, i \in X PROVE i + 1 \in X
  <2> SUFFICES ASSUME i + 1 \in 1 .. k PROVE g[i + 1] = h[i + 1]
    OBVIOUS
  <2>1. CASE i = 0
    <3>1. g[1] = s[1] /\ h[1] = r[1] /\ s[1] = r[1]
      <4>1. n # 0 /\ m # 0 /\ 1 \in 1 .. k
        BY <2>1
      <4> QED BY <4>1, RunFirst DEF Same
    <3> QED BY <2>1, <3>1
  <2>2. CASE i # 0
    <3>1. i + 1 \in 2 .. n /\ i + 1 \in 2 .. m /\ i \in 1 .. k /\ i + 1 - 1 = i
      BY <2>2
    <3>2. g[i] = h[i] /\ s[i + 1] = r[i + 1]
      BY <1>2, <3>1 DEF Same
    <3>3. g[i + 1] = Joined(g[i + 1 - 1], s[i + 1])
      BY <3>1, RunNext
    <3>4. h[i + 1] = Joined(h[i + 1 - 1], r[i + 1])
      BY <3>1, RunNext
    <3> QED BY <3>1, <3>2, <3>3, <3>4
  <2> QED BY <2>1, <2>2
<1>3. \A i \in Nat : i \in X
  <2> HIDE DEF X
  <2> QED BY <1>1, <1>2, NatInduct
<1> QED BY <1>3 DEF Same

\* FlattenSeq is the last value of a run.
LEMMA FlattenRun ==
  ASSUME NEW T, NEW s \in Seq(T), s # << >>
  PROVE  \E g : Run(s, Len(s), g) /\ FlattenSeq(s) = g[Len(s)]
<1> DEFINE f == CHOOSE g : Run(s, Len(s), g)
<1>1. Len(s) \in Nat /\ Len(s) # 0
  BY LenProperties, EmptySeq
<1>2. Run(s, Len(s), f)
  BY <1>1, RunExists
<1>3. FlattenSeq(s) = f[Len(s)]
  BY <1>1, Zenon DEF FlattenSeq, Run, Joined
<1> QED BY <1>2, <1>3

\* FlattenSeq, by the last element.
LEMMA FlattenEmpty == FlattenSeq(<< >>) = << >>
BY DEF FlattenSeq

\* FlattenSeq of one more element.
LEMMA FlattenLonger ==
  ASSUME NEW T, NEW s \in Seq(T), NEW r \in Seq(T), NEW n \in Nat,
         Len(s) = n, Len(r) = n + 1, \A i \in 1 .. n : r[i] = s[i], n # 0
  PROVE  FlattenSeq(r) = FlattenSeq(s) \o r[n + 1]
<1>1. r # << >> /\ s # << >>
  BY EmptySeq
<1>2. PICK h : Run(r, n + 1, h) /\ FlattenSeq(r) = h[n + 1]
  BY <1>1, FlattenRun
<1>3. PICK g : Run(s, n, g) /\ FlattenSeq(s) = g[n]
  BY <1>1, FlattenRun
<1>4. n <= n /\ n <= n + 1 /\ n + 1 \in Nat /\ n \in 1 .. n /\ n + 1 \in 2 .. n + 1
      /\ n + 1 - 1 = n
  OBVIOUS
<1>5. Same(s, r, n)
  BY DEF Same
<1>6. g[n] = h[n]
  <2>1. Same(g, h, n)
    BY <1>2, <1>3, <1>4, <1>5, RunSame
  <2> QED BY <1>4, <2>1 DEF Same
<1>7. h[n + 1] = Joined(h[n + 1 - 1], r[n + 1])
  BY <1>2, <1>4, RunNext
<1> QED BY <1>2, <1>3, <1>4, <1>6, <1>7 DEF Joined

\* FlattenSeq of a sequence of one.
LEMMA FlattenOne ==
  ASSUME NEW T, NEW r \in Seq(T), Len(r) = 1
  PROVE  FlattenSeq(r) = r[1]
<1>1. PICK h : Run(r, 1, h) /\ FlattenSeq(r) = h[1]
  <2>1. r # << >>
    BY EmptySeq
  <2> QED BY <2>1, FlattenRun
<1>2. h[1] = r[1]
  BY <1>1, RunFirst, 1 \in Nat, 1 # 0
<1> QED BY <1>1, <1>2

\* FlattenSeq and Append.
LEMMA FlattenAppend ==
  ASSUME NEW T, NEW s \in Seq(Seq(T)), NEW e \in Seq(T)
  PROVE  FlattenSeq(Append(s, e)) = FlattenSeq(s) \o e
<1>1. PICK r \in Seq(Seq(T)), n \in Nat :
        /\ r = Append(s, e) /\ n = Len(s) /\ Len(r) = n + 1
        /\ \A i \in 1 .. n : r[i] = s[i]
        /\ r[n + 1] = e
  <2>1. /\ Append(s, e) \in Seq(Seq(T)) /\ Len(s) \in Nat
        /\ Len(Append(s, e)) = Len(s) + 1
        /\ \A i \in 1 .. Len(s) : Append(s, e)[i] = s[i]
        /\ Append(s, e)[Len(s) + 1] = e
    BY AppendProperties, LenProperties
  <2> QED BY <2>1
<1>2. FlattenSeq(r) = FlattenSeq(s) \o e
  <2>1. CASE n = 0
    <3>1. s = << >> /\ FlattenSeq(s) = << >>
      BY <1>1, <2>1, EmptySeq, FlattenEmpty
    <3>2. FlattenSeq(r) = e
      <4>1. Len(r) = 1 /\ r[1] = e
        BY <1>1, <2>1
      <4> QED BY <4>1, FlattenOne
    <3> QED BY <3>1, <3>2, ConcatEmptySeq
  <2>2. CASE n # 0
    BY <1>1, <2>2, FlattenLonger
  <2> QED BY <2>1, <2>2
<1> QED BY <1>1, <1>2

\* FlattenSeq gives a sequence.
LEMMA FlattenType ==
  ASSUME NEW T, NEW s \in Seq(Seq(T))
  PROVE  FlattenSeq(s) \in Seq(T)
<1> DEFINE X == {r \in Seq(Seq(T)) : FlattenSeq(r) \in Seq(T)}
<1>1. << >> \in X
  <2>1. << >> \in Seq(Seq(T)) /\ << >> \in Seq(T)
    OBVIOUS
  <2> QED BY <2>1, FlattenEmpty
<1>2. ASSUME NEW r \in Seq(Seq(T)), NEW e \in Seq(T), r \in X PROVE Append(r, e) \in X
  <2>1. FlattenSeq(Append(r, e)) = FlattenSeq(r) \o e
    BY FlattenAppend
  <2>2. FlattenSeq(r) \o e \in Seq(T)
    BY <1>2, ConcatProperties
  <2>3. Append(r, e) \in Seq(Seq(T))
    BY AppendProperties
  <2> QED BY <2>1, <2>2, <2>3
<1>3. \A r \in Seq(Seq(T)) : r \in X
  <2> HIDE DEF X
  <2> QED BY <1>1, <1>2, SeqInduct
<1> QED BY <1>3

\* An element appended to a concatenation.
LEMMA ConcatAppend ==
  ASSUME NEW T, NEW s \in Seq(T), NEW r \in Seq(T), NEW e \in T
  PROVE  s \o Append(r, e) = Append(s \o r, e)
<1>1. s \o r \in Seq(T) /\ <<e>> \in Seq(T)
  BY ConcatProperties
<1>2. Append(r, e) = r \o <<e>>
  BY AppendIsConcat
<1>3. Append(s \o r, e) = (s \o r) \o <<e>>
  BY <1>1, AppendIsConcat
<1>4. (s \o r) \o <<e>> = s \o (r \o <<e>>)
  BY <1>1, ConcatAssociative
<1> QED BY <1>2, <1>3, <1>4

\* FlattenSeq and concatenation.
LEMMA FlattenConcat ==
  ASSUME NEW T, NEW s \in Seq(Seq(T)), NEW t \in Seq(Seq(T))
  PROVE  FlattenSeq(s \o t) = FlattenSeq(s) \o FlattenSeq(t)
<1> DEFINE X == {r \in Seq(Seq(T)) : FlattenSeq(s \o r) = FlattenSeq(s) \o FlattenSeq(r)}
<1>1. << >> \in X
  <2>1. s \o << >> = s /\ << >> \in Seq(Seq(T))
    BY ConcatEmptySeq
  <2>2. FlattenSeq(s) \o << >> = FlattenSeq(s)
    BY FlattenType, ConcatEmptySeq
  <2> QED BY <2>1, <2>2, FlattenEmpty
<1>2. ASSUME NEW r \in Seq(Seq(T)), NEW e \in Seq(T), r \in X PROVE Append(r, e) \in X
  <2>1. /\ FlattenSeq(s) \in Seq(T) /\ FlattenSeq(r) \in Seq(T)
        /\ s \o r \in Seq(Seq(T)) /\ Append(r, e) \in Seq(Seq(T))
    BY FlattenType, ConcatProperties, AppendProperties
  <2>2. s \o Append(r, e) = Append(s \o r, e)
    BY ConcatAppend
  <2>3. FlattenSeq(Append(s \o r, e)) = FlattenSeq(s \o r) \o e
    BY <2>1, FlattenAppend
  <2>4. FlattenSeq(Append(r, e)) = FlattenSeq(r) \o e
    BY FlattenAppend
  <2>5. (FlattenSeq(s) \o FlattenSeq(r)) \o e = FlattenSeq(s) \o (FlattenSeq(r) \o e)
    BY <2>1, ConcatAssociative
  <2>6. FlattenSeq(s \o r) = FlattenSeq(s) \o FlattenSeq(r)
    BY <1>2
  <2> QED BY <2>1, <2>2, <2>3, <2>4, <2>5, <2>6
<1>3. \A r \in Seq(Seq(T)) : r \in X
  <2> HIDE DEF X
  <2> QED BY <1>1, <1>2, SeqInduct
<1> QED BY <1>3

\* FlattenSeq of a single sequence.
LEMMA FlattenSingle ==
  ASSUME NEW T, NEW e \in Seq(T)
  PROVE  FlattenSeq(<<e>>) = e
<1>1. <<e>> \in Seq(Seq(T)) /\ Len(<<e>>) = 1 /\ <<e>>[1] = e
  OBVIOUS
<1> QED BY <1>1, FlattenOne

\* What is made of each element.
Mapped(f, s) == [i \in DOMAIN s |-> f[s[i]]]

\* A mapped sequence is as long.
LEMMA MappedType ==
  ASSUME NEW T, NEW U, NEW f \in [T -> U], NEW s \in Seq(T)
  PROVE  /\ Mapped(f, s) \in Seq(U) /\ Len(Mapped(f, s)) = Len(s)
         /\ \A i \in 1 .. Len(s) : Mapped(f, s)[i] = f[s[i]]
<1>1. Len(s) \in Nat /\ DOMAIN s = 1 .. Len(s) /\ \A i \in 1 .. Len(s) : s[i] \in T
  BY LenProperties, ElementOfSeq
<1>2. Mapped(f, s) \in [1 .. Len(s) -> U]
  BY <1>1 DEF Mapped
<1>3. Mapped(f, s) \in Seq(U) /\ Len(Mapped(f, s)) = Len(s)
  BY <1>1, <1>2, IsASeq, LenProperties
<1> QED BY <1>1, <1>3 DEF Mapped

\* Mapped and Append.
LEMMA MappedAppend ==
  ASSUME NEW T, NEW U, NEW f \in [T -> U], NEW s \in Seq(T), NEW e \in T
  PROVE  Mapped(f, Append(s, e)) = Append(Mapped(f, s), f[e])
<1>1. PICK r \in Seq(T), n \in Nat :
        /\ r = Append(s, e) /\ n = Len(s) /\ Len(r) = n + 1
        /\ \A i \in 1 .. n : r[i] = s[i]
        /\ r[n + 1] = e
  <2>1. /\ Append(s, e) \in Seq(T) /\ Len(s) \in Nat
        /\ Len(Append(s, e)) = Len(s) + 1
        /\ \A i \in 1 .. Len(s) : Append(s, e)[i] = s[i]
        /\ Append(s, e)[Len(s) + 1] = e
    BY AppendProperties, LenProperties
  <2> QED BY <2>1
<1>2. PICK v \in Seq(U) : v = Mapped(f, s) /\ Len(v) = n /\ \A i \in 1 .. n : v[i] = f[s[i]]
  <2>1. /\ Mapped(f, s) \in Seq(U) /\ Len(Mapped(f, s)) = Len(s)
        /\ \A i \in 1 .. Len(s) : Mapped(f, s)[i] = f[s[i]]
    BY MappedType
  <2> QED BY <1>1, <2>1
<1>3. PICK w \in Seq(U) : w = Mapped(f, r) /\ Len(w) = n + 1
                          /\ \A i \in 1 .. n + 1 : w[i] = f[r[i]]
  <2>1. /\ Mapped(f, r) \in Seq(U) /\ Len(Mapped(f, r)) = Len(r)
        /\ \A i \in 1 .. Len(r) : Mapped(f, r)[i] = f[r[i]]
    BY MappedType
  <2> QED BY <1>1, <2>1
<1>4. PICK x \in Seq(U) : x = Append(v, f[e]) /\ Len(x) = n + 1
                          /\ (\A i \in 1 .. n : x[i] = v[i]) /\ x[n + 1] = f[e]
  <2>1. /\ Append(v, f[e]) \in Seq(U)
        /\ Len(Append(v, f[e])) = Len(v) + 1
        /\ \A i \in 1 .. Len(v) : Append(v, f[e])[i] = v[i]
        /\ Append(v, f[e])[Len(v) + 1] = f[e]
    BY AppendProperties
  <2> QED BY <1>2, <2>1
<1>5. \A i \in 1 .. n + 1 : w[i] = x[i]
  <2> TAKE i \in 1 .. n + 1
  <2>1. CASE i = n + 1
    BY <1>1, <1>3, <1>4, <2>1
  <2>2. CASE i # n + 1
    <3>1. i \in 1 .. n
      BY <2>2
    <3> QED BY <1>1, <1>2, <1>3, <1>4, <3>1
  <2> QED BY <2>1, <2>2
<1>6. w = x
  BY <1>3, <1>4, <1>5, SeqEqual
<1> QED BY <1>1, <1>2, <1>3, <1>4, <1>6

\* f makes sequences over U of the elements of T.
Maps(f, T, U) == f \in [T -> Seq(U)]

\* Each, by the last element, in parts and by the first element.
LEMMA EachEmpty == ASSUME NEW f PROVE Each(f, << >>) = << >>
<1>1. [i \in DOMAIN << >> |-> f[<< >>[i]]] = << >>
  OBVIOUS
<1> QED BY <1>1, FlattenEmpty DEF Each

\* Each gives a sequence.
LEMMA EachType ==
  ASSUME NEW T, NEW U, NEW f, Maps(f, T, U), NEW s \in Seq(T)
  PROVE  Each(f, s) \in Seq(U)
<1>1. Mapped(f, s) \in Seq(Seq(U))
  BY MappedType DEF Maps
<1> QED BY <1>1, FlattenType DEF Each, Mapped

\* Each and Append.
LEMMA EachAppend ==
  ASSUME NEW T, NEW U, NEW f, Maps(f, T, U), NEW s \in Seq(T), NEW e \in T
  PROVE  Each(f, Append(s, e)) = Each(f, s) \o f[e]
<1>1. Mapped(f, Append(s, e)) = Append(Mapped(f, s), f[e])
  BY MappedAppend DEF Maps
<1>2. Mapped(f, s) \in Seq(Seq(U)) /\ f[e] \in Seq(U)
  BY MappedType DEF Maps
<1>3. FlattenSeq(Append(Mapped(f, s), f[e])) = FlattenSeq(Mapped(f, s)) \o f[e]
  BY <1>2, FlattenAppend
<1>4. Each(f, Append(s, e)) = FlattenSeq(Mapped(f, Append(s, e)))
      /\ Each(f, s) = FlattenSeq(Mapped(f, s))
  BY DEF Each, Mapped
<1> QED BY <1>1, <1>3, <1>4

\* Each of one element.
LEMMA EachOne ==
  ASSUME NEW T, NEW U, NEW f, Maps(f, T, U), NEW e \in T
  PROVE  Each(f, <<e>>) = f[e]
<1>1. << >> \in Seq(T) /\ Append(<< >>, e) = <<e>>
  OBVIOUS
<1>2. Each(f, <<e>>) = << >> \o f[e]
  BY <1>1, EachAppend, EachEmpty
<1>3. f[e] \in Seq(U)
  BY DEF Maps
<1> QED BY <1>2, <1>3, ConcatEmptySeq

\* Each and concatenation.
LEMMA EachConcat ==
  ASSUME NEW T, NEW U, NEW f, Maps(f, T, U), NEW s \in Seq(T), NEW t \in Seq(T)
  PROVE  Each(f, s \o t) = Each(f, s) \o Each(f, t)
<1> DEFINE X == {r \in Seq(T) : Each(f, s \o r) = Each(f, s) \o Each(f, r)}
<1>1. << >> \in X
  <2>1. s \o << >> = s /\ << >> \in Seq(T)
    BY ConcatEmptySeq
  <2>2. Each(f, s) \o << >> = Each(f, s)
    BY EachType, ConcatEmptySeq
  <2> QED BY <2>1, <2>2, EachEmpty
<1>2. ASSUME NEW r \in Seq(T), NEW e \in T, r \in X PROVE Append(r, e) \in X
  <2>1. PICK q, x, y, z : q = s \o r /\ x = Each(f, s) /\ y = Each(f, r) /\ z = f[e]
    OBVIOUS
  <2>2. q \in Seq(T) /\ x \in Seq(U) /\ y \in Seq(U) /\ z \in Seq(U)
    BY <2>1, EachType, ConcatProperties DEF Maps
  <2>3. s \o Append(r, e) = Append(q, e) /\ Append(r, e) \in Seq(T)
    BY <2>1, ConcatAppend, AppendProperties
  <2>4. Each(f, Append(q, e)) = Each(f, q) \o f[e]
    BY <2>2, EachAppend
  <2>5. Each(f, Append(r, e)) = Each(f, r) \o f[e]
    BY EachAppend
  <2>6. (x \o y) \o z = x \o (y \o z)
    BY <2>2, ConcatAssociative, SMTT(30)
  <2>7. Each(f, q) = x \o y
    BY <1>2, <2>1
  <2> QED BY <2>1, <2>3, <2>4, <2>5, <2>6, <2>7
<1>3. \A r \in Seq(T) : r \in X
  <2> HIDE DEF X
  <2> QED BY <1>1, <1>2, SeqInduct
<1> QED BY <1>3

\* A sequence is its head and its tail.
LEMMA Split ==
  ASSUME NEW T, NEW s \in Seq(T), s # << >>
  PROVE  /\ Head(s) \in T /\ Tail(s) \in Seq(T) /\ s = <<Head(s)>> \o Tail(s)
         /\ Len(s) \in Nat /\ Len(s) >= 1 /\ Len(Tail(s)) = Len(s) - 1
         /\ s[1] = Head(s)
<1>1. Head(s) \in T /\ Tail(s) \in Seq(T) /\ Len(Tail(s)) = Len(s) - 1
      /\ \A i \in 1 .. Len(Tail(s)) : Tail(s)[i] = s[i + 1]
  BY HeadTailProperties
<1>2. Len(s) \in Nat \ {0}
  BY EmptySeq, LenProperties
<1>3. Head(s) = s[1]
  OBVIOUS
<1>4. PICK h \in T, t \in Seq(T) : h = Head(s) /\ t = Tail(s)
  BY <1>1
<1>5. <<h>> \in Seq(T) /\ Len(<<h>>) = 1 /\ <<h>>[1] = h
  OBVIOUS
<1>6. /\ <<h>> \o t \in Seq(T) /\ Len(<<h>> \o t) = 1 + Len(t)
      /\ \A i \in 1 .. Len(<<h>>) + Len(t) :
           (<<h>> \o t)[i] = IF i <= Len(<<h>>) THEN <<h>>[i] ELSE t[i - Len(<<h>>)]
  BY <1>5, ConcatProperties
<1>7. \A i \in 1 .. Len(s) : s[i] = (<<h>> \o t)[i]
  <2> TAKE i \in 1 .. Len(s)
  <2>1. CASE i = 1
    BY <1>1, <1>2, <1>3, <1>4, <1>5, <1>6, <2>1
  <2>2. CASE i # 1
    <3>1. i - 1 \in 1 .. Len(t) /\ i \in 1 .. 1 + Len(t) /\ ~(i <= 1) /\ i - 1 + 1 = i
      BY <1>1, <1>2, <1>4, <2>2
    <3> QED BY <1>1, <1>4, <1>5, <1>6, <3>1
  <2> QED BY <2>1, <2>2
<1>8. Len(<<h>> \o t) = Len(s)
  BY <1>1, <1>2, <1>4, <1>6
<1>9. s = <<h>> \o t
  BY <1>6, <1>7, <1>8, SeqEqual
<1> QED BY <1>1, <1>2, <1>3, <1>4, <1>9

\* Sequences of one element.
LEMMA OneSeq == ASSUME NEW T, NEW e \in T PROVE <<e>> \in Seq(T)
OBVIOUS

\* Each of the head comes first.
LEMMA EachFirst ==
  ASSUME NEW T, NEW U, NEW f, Maps(f, T, U), NEW s \in Seq(T), s # << >>
  PROVE  Each(f, s) = f[Head(s)] \o Each(f, Tail(s))
<1>1. PICK h, t : h = Head(s) /\ t = Tail(s)
  OBVIOUS
<1>2. s = <<h>> \o t
  BY <1>1, Split
<1>3. h \in T /\ t \in Seq(T)
  BY <1>1, Split
<1>4. PICK a : a = <<h>>
  OBVIOUS
<1>5. a \in Seq(T)
  BY <1>3, <1>4
<1>6. Each(f, a \o t) = Each(f, a) \o Each(f, t)
  BY <1>3, <1>5, EachConcat
<1>7. Each(f, <<h>>) = f[h]
  BY <1>3, EachOne
<1> QED BY <1>1, <1>2, <1>4, <1>6, <1>7

\* FlattenSeq has the head first.
LEMMA FlattenFirst ==
  ASSUME NEW T, NEW s \in Seq(Seq(T)), s # << >>
  PROVE  FlattenSeq(s) = Head(s) \o FlattenSeq(Tail(s))
<1>1. Head(s) \in Seq(T) /\ Tail(s) \in Seq(Seq(T)) /\ s = <<Head(s)>> \o Tail(s)
  BY Split
<1>2. <<Head(s)>> \in Seq(Seq(T))
  BY <1>1
<1>3. FlattenSeq(<<Head(s)>> \o Tail(s)) = FlattenSeq(<<Head(s)>>) \o FlattenSeq(Tail(s))
  BY <1>1, <1>2, FlattenConcat
<1> QED BY <1>1, <1>3, FlattenSingle

\* It depends on f for the elements of s only.
LEMMA EachSame ==
  ASSUME NEW f, NEW g, NEW s, \A i \in DOMAIN s : f[s[i]] = g[s[i]]
  PROVE  Each(f, s) = Each(g, s)
<1>1. [i \in DOMAIN s |-> f[s[i]]] = [i \in DOMAIN s |-> g[s[i]]]
  OBVIOUS
<1> QED BY <1>1, Zenon DEF Each

-----------------------------------------------------------------------------
(* Channels.                                                               *)

\* What Append adds.
LEMMA Appended ==
  ASSUME NEW T, NEW s \in Seq(T), NEW e \in T
  PROVE  /\ Append(s, e) \in Seq(T) /\ Append(s, e) # << >>
         /\ Len(s) \in Nat /\ Len(Append(s, e)) = Len(s) + 1
         /\ DOMAIN s = 1 .. Len(s) /\ DOMAIN Append(s, e) = 1 .. Len(s) + 1
         /\ \A i \in 1 .. Len(s) : Append(s, e)[i] = s[i]
         /\ Append(s, e)[Len(s) + 1] = e
BY AppendProperties, LenProperties

\* The last element changes.
WithLast(s, x) == [s EXCEPT ![Len(s)] = x]

\* The last element, changed.
LEMMA LastChanged ==
  ASSUME NEW T, NEW t \in Seq(T), NEW e \in T, NEW x \in T
  PROVE  WithLast(Append(t, e), x) = Append(t, x)
<1>1. PICK s \in Seq(T) : s = Append(t, e)
  BY Appended
<1>2. PICK n \in Nat : n = Len(s) /\ n = Len(t) + 1 /\ n # 0 /\ DOMAIN s = 1 .. n
  BY <1>1, Appended, LenProperties
<1>3. s[n] = e /\ Len(t) \in Nat /\ \A i \in 1 .. Len(t) : s[i] = t[i]
  BY <1>1, <1>2, Appended
<1>4. PICK r : r = [s EXCEPT ![n] = x] /\ r = WithLast(s, x)
  BY <1>2 DEF WithLast
<1>5. r \in Seq(T) /\ Len(r) = n /\ r[n] = x /\ \A i \in 1 .. n : i # n => r[i] = s[i]
  <2>1. n \in 1 .. n
    BY <1>2
  <2>2. r \in Seq(T) /\ Len(r) = Len(s)
    BY <1>2, <1>4, <2>1, ExceptSeq
  <2> QED BY <1>2, <1>4, <2>1, <2>2
<1>6. PICK q \in Seq(T) : q = Append(t, x) /\ Len(q) = n /\ q[n] = x
                          /\ \A i \in 1 .. Len(t) : q[i] = t[i]
  <2>1. /\ Append(t, x) \in Seq(T) /\ Len(Append(t, x)) = Len(t) + 1
        /\ \A i \in 1 .. Len(t) : Append(t, x)[i] = t[i]
        /\ Append(t, x)[Len(t) + 1] = x
    BY Appended
  <2> QED BY <1>2, <2>1
<1>7. \A i \in 1 .. n : r[i] = q[i]
  <2> TAKE i \in 1 .. n
  <2>1. CASE i = n
    BY <1>5, <1>6, <2>1
  <2>2. CASE i # n
    <3>1. i \in 1 .. Len(t)
      BY <1>2, <1>3, <2>2
    <3> QED BY <1>3, <1>5, <1>6, <2>2, <3>1
  <2> QED BY <2>1, <2>2
<1>8. r = q
  BY <1>5, <1>6, <1>7, SeqEqual
<1> QED BY <1>1, <1>2, <1>3, <1>4, <1>6, <1>8

\* The first element changes.
LEMMA FirstChanged ==
  ASSUME NEW T, NEW s \in Seq(T), s # << >>, NEW x \in T
  PROVE  [s EXCEPT ![1] = x] = <<x>> \o Tail(s)
<1>1. PICK n \in Nat, t \in Seq(T) : n = Len(s) /\ n # 0 /\ DOMAIN s = 1 .. n
                       /\ t = Tail(s) /\ Len(t) = n - 1
                       /\ \A i \in 1 .. n - 1 : t[i] = s[i + 1]
  <2>1. Len(s) \in Nat \ {0} /\ DOMAIN s = 1 .. Len(s)
    BY EmptySeq, LenProperties
  <2>2. Tail(s) \in Seq(T) /\ Len(Tail(s)) = Len(s) - 1
        /\ \A i \in 1 .. Len(Tail(s)) : Tail(s)[i] = s[i + 1]
    BY HeadTailProperties
  <2> QED BY <2>1, <2>2
<1>2. PICK r : r = [s EXCEPT ![1] = x]
  OBVIOUS
<1>3. r \in Seq(T) /\ Len(r) = n /\ r[1] = x /\ \A i \in 1 .. n : i # 1 => r[i] = s[i]
  <2>1. 1 \in 1 .. n
    BY <1>1
  <2>2. r \in Seq(T) /\ Len(r) = Len(s)
    BY <1>1, <1>2, <2>1, ExceptSeq
  <2> QED BY <1>1, <1>2, <2>1, <2>2
<1>4. <<x>> \in Seq(T) /\ Len(<<x>>) = 1 /\ <<x>>[1] = x
  OBVIOUS
<1>5. /\ <<x>> \o t \in Seq(T) /\ Len(<<x>> \o t) = 1 + Len(t)
      /\ \A i \in 1 .. Len(<<x>>) + Len(t) :
           (<<x>> \o t)[i] = IF i <= Len(<<x>>) THEN <<x>>[i] ELSE t[i - Len(<<x>>)]
  BY <1>4, ConcatProperties
<1>6. PICK q \in Seq(T) : q = <<x>> \o t /\ Len(q) = n /\ q[1] = x
                          /\ \A i \in 1 .. n : i # 1 => q[i] = t[i - 1]
  <2>1. PICK q : q = <<x>> \o t
    OBVIOUS
  <2>2. /\ q \in Seq(T) /\ Len(q) = n
        /\ \A i \in 1 .. n : q[i] = IF i <= 1 THEN <<x>>[i] ELSE t[i - 1]
    BY <1>1, <1>4, <1>5, <2>1
  <2>3. q[1] = x
    BY <1>1, <1>4, <2>2
  <2>4. \A i \in 1 .. n : i # 1 => q[i] = t[i - 1]
    BY <2>2
  <2> QED BY <2>1, <2>2, <2>3, <2>4
<1>7. \A i \in 1 .. n : r[i] = q[i]
  <2> TAKE i \in 1 .. n
  <2>1. CASE i = 1
    BY <1>3, <1>6, <2>1
  <2>2. CASE i # 1
    <3>1. i - 1 \in 1 .. n - 1 /\ i - 1 + 1 = i
      BY <1>1, <2>2
    <3>2. t[i - 1] = s[i]
      BY <1>1, <3>1
    <3> QED BY <1>3, <1>6, <2>2, <3>2
  <2> QED BY <2>1, <2>2
<1>8. r = q
  BY <1>3, <1>6, <1>7, SeqEqual
<1> QED BY <1>1, <1>2, <1>6, <1>8

\* What is in the arrays of a channel.
Sent(ch) == FlattenSeq(ch.arrays)

\* A flush keeps a channel sound, and what is in it.
LEMMA FlushSound ==
  ASSUME NEW M, NEW ch, Sound(ch, M)
  PROVE  Sound(Flush(ch), M) /\ Sent(Flush(ch)) = Sent(ch)
<1> SUFFICES ASSUME ch.produced, Own(ch) # << >>, AnyFree(ch)
             PROVE  Sound(Flush(ch), M) /\ Sent(Flush(ch)) = Sent(ch)
  BY DEF Flush
<1>1. PICK s \in Seq(Seq(M)) : s = ch.arrays
  BY DEF Sound
<1>2. << >> \in Seq(M)
  OBVIOUS
<1>3. PICK n \in Nat, r \in Seq(Seq(M)) :
        /\ r = Append(s, << >>) /\ r # << >> /\ n = Len(s) /\ Len(r) = n + 1
        /\ (\A i \in 1 .. n : r[i] = s[i]) /\ r[n + 1] = << >>
  <2>1. PICK e \in Seq(M) : e = << >>
    BY <1>2
  <2>2. /\ Append(s, e) \in Seq(Seq(M)) /\ Append(s, e) # << >>
        /\ Len(s) \in Nat /\ Len(Append(s, e)) = Len(s) + 1
        /\ \A i \in 1 .. Len(s) : Append(s, e)[i] = s[i]
        /\ Append(s, e)[Len(s) + 1] = e
    BY Appended
  <2> QED BY <2>1, <2>2
<1>4. n < NQueues /\ s[n] # << >>
  BY <1>1, <1>3 DEF AnyFree, Own
<1>5. \A i \in 1 .. n - 1 : s[i] = << >> => i = 1 /\ ch.consumed
  BY <1>1, <1>3 DEF Sound
<1>6. \A i \in 1 .. n : r[i] = << >> => i = 1 /\ ch.consumed
  <2> SUFFICES ASSUME NEW i \in 1 .. n, r[i] = << >> PROVE i = 1 /\ ch.consumed
    OBVIOUS
  <2>1. i # n
    BY <1>3, <1>4
  <2>2. i \in 1 .. n - 1
    BY <2>1
  <2> QED BY <1>3, <1>5, <2>2
<1>7. Flush(ch) = [ch EXCEPT !.arrays = r]
  BY <1>1, <1>3 DEF Flush
<1>8. /\ DOMAIN Flush(ch) = DOMAIN ch /\ Flush(ch).arrays = r
      /\ Flush(ch).produced = ch.produced /\ Flush(ch).consumed = ch.consumed
  BY <1>7 DEF Sound
<1>9. n + 1 <= NQueues /\ n + 1 - 1 = n
  BY <1>4, QueueAssumption
<1>10. Sound(Flush(ch), M)
  BY <1>3, <1>6, <1>8, <1>9 DEF Sound
<1>11. FlattenSeq(r) = FlattenSeq(s)
  <2>1. FlattenSeq(r) = FlattenSeq(s) \o << >>
    BY <1>2, <1>3, FlattenAppend
  <2>2. FlattenSeq(s) \in Seq(M)
    BY FlattenType
  <2> QED BY <2>1, <2>2, ConcatEmptySeq
<1> QED BY <1>1, <1>8, <1>10, <1>11 DEF Sent

\* A message that is added comes last.
LEMMA AddSound ==
  ASSUME NEW M, NEW ch, Sound(ch, M), NEW m \in M, CanSend(ch)
  PROVE  Sound(Add(ch, m), M) /\ Sent(Add(ch, m)) = Append(Sent(ch), m)
<1>1. PICK s \in Seq(Seq(M)), n \in Nat : s = ch.arrays /\ n = Len(s)
  BY LenProperties DEF Sound
<1>2. Sent(ch) \in Seq(M)
  BY FlattenType DEF Sound, Sent
<1>3. CASE Fits(ch)
  <2>1. s # << >> /\ n # 0
    BY <1>1, <1>3, EmptySeq DEF Fits, Sound
  <2>2. PICK t \in Seq(Seq(M)), l \in Seq(M) : s = Append(t, l)
    BY <2>1, SequenceEmptyOrAppend
  <2>3. PICK k \in Seq(M) : k = Append(l, m) /\ k # << >>
    BY Appended
  <2>4. s[n] = l /\ [s EXCEPT ![n] = k] = Append(t, k)
    <3>1. Len(s) = Len(t) + 1 /\ s[Len(t) + 1] = l
      BY <2>2, Appended
    <3>2. WithLast(Append(t, l), k) = Append(t, k)
      BY LastChanged
    <3>3. WithLast(s, k) = [s EXCEPT ![n] = k]
      BY <1>1 DEF WithLast
    <3> QED BY <1>1, <2>2, <3>1, <3>2, <3>3
  <2>5. PICK r \in Seq(Seq(M)) : r = Append(t, k) /\ r # << >>
    BY Appended
  <2>6. n = Len(t) + 1 /\ Len(r) = n /\ \A i \in 1 .. n - 1 : r[i] = s[i]
    <3>1. Len(t) \in Nat /\ Len(s) = Len(t) + 1 /\ \A i \in 1 .. Len(t) : s[i] = t[i]
      BY <2>2, Appended
    <3>2. Len(r) = Len(t) + 1 /\ \A i \in 1 .. Len(t) : r[i] = t[i]
      BY <2>5, Appended
    <3> QED BY <1>1, <3>1, <3>2
  <2>7. Add(ch, m) = [ch EXCEPT !.arrays = r]
    <3>1. Add(ch, m) = [ch EXCEPT !.arrays = [s EXCEPT ![n] = Append(s[n], m)]]
      BY <1>1, <1>3 DEF Add
    <3> QED BY <2>3, <2>4, <2>5, <3>1
  <2>8. /\ DOMAIN Add(ch, m) = DOMAIN ch /\ Add(ch, m).arrays = r
        /\ Add(ch, m).produced = ch.produced /\ Add(ch, m).consumed = ch.consumed
    BY <2>7 DEF Sound
  <2>9. Sound(Add(ch, m), M)
    BY <1>1, <2>1, <2>5, <2>6, <2>8 DEF Sound
  <2>10. FlattenSeq(r) = Append(FlattenSeq(s), m)
    <3>1. PICK a \in Seq(M) : a = FlattenSeq(t)
      BY FlattenType
    <3>2. FlattenSeq(r) = a \o k /\ FlattenSeq(s) = a \o l
      BY <2>2, <2>5, <3>1, FlattenAppend
    <3>3. a \o Append(l, m) = Append(a \o l, m)
      BY ConcatAppend
    <3> QED BY <2>3, <3>2, <3>3
  <2> QED BY <1>1, <2>8, <2>9, <2>10 DEF Sent
<1>4. CASE ~Fits(ch)
  <2>1. n < NQueues
    BY <1>1, <1>4 DEF CanSend, AnyFree
  <2>2. PICK k \in Seq(M) : k = <<m>> /\ k # << >>
    <3>1. <<m>> \in Seq(M) /\ <<m>> # << >>
      BY OneSeq
    <3> QED BY <3>1
  <2>3. PICK r \in Seq(Seq(M)) : r = Append(s, k) /\ r # << >> /\ Len(r) = n + 1
                                 /\ \A i \in 1 .. n : r[i] = s[i]
    <3>1. /\ Append(s, k) \in Seq(Seq(M)) /\ Append(s, k) # << >>
          /\ Len(Append(s, k)) = Len(s) + 1
          /\ \A i \in 1 .. Len(s) : Append(s, k)[i] = s[i]
      BY Appended
    <3> QED BY <1>1, <3>1
  <2>4. Add(ch, m) = [ch EXCEPT !.arrays = r, !.produced = TRUE]
    BY <1>1, <1>4, <2>2, <2>3 DEF Add
  <2>5. /\ DOMAIN Add(ch, m) = DOMAIN ch /\ Add(ch, m).arrays = r
        /\ Add(ch, m).produced = TRUE /\ Add(ch, m).consumed = ch.consumed
    BY <2>4 DEF Sound
  <2>6. n # 0 => s[n] # << >>
    <3>1. n # 0 => ch.produced
      BY <1>1, EmptySeq DEF Sound
    <3>2. n # 0 => ~(Len(s[n]) < QSize)
      BY <1>1, <1>4, <3>1 DEF Fits, Own
    <3> QED BY <3>2, QueueAssumption, Len(<< >>) = 0
  <2>7. ASSUME NEW i \in 1 .. n, r[i] = << >> PROVE i = 1 /\ ch.consumed
    <3>1. s[i] = << >> /\ i # n /\ i \in 1 .. n - 1
      BY <2>3, <2>6, <2>7
    <3> QED BY <1>1, <3>1 DEF Sound
  <2>8. n + 1 <= NQueues /\ n + 1 - 1 = n
    BY <2>1, QueueAssumption
  <2>9. Sound(Add(ch, m), M)
    <3>1. \A i \in 1 .. Len(r) - 1 : r[i] = << >> => i = 1 /\ ch.consumed
      BY <2>3, <2>7, <2>8
    <3>2. ch.consumed \in BOOLEAN /\ DOMAIN ch = {"arrays", "produced", "consumed"}
      BY DEF Sound
    <3> QED BY <2>3, <2>5, <2>8, <3>1, <3>2 DEF Sound
  <2>10. FlattenSeq(r) = Append(FlattenSeq(s), m)
    <3>1. FlattenSeq(r) = FlattenSeq(s) \o k
      BY <2>3, FlattenAppend
    <3>2. Append(FlattenSeq(s), m) = FlattenSeq(s) \o <<m>>
      BY FlattenType, AppendIsConcat
    <3> QED BY <2>2, <3>1, <3>2
  <2> QED BY <1>1, <2>5, <2>9, <2>10 DEF Sent
<1> QED BY <1>3, <1>4

\* A message that is sent comes last.
LEMMA SendSound ==
  ASSUME NEW M, NEW ch, Sound(ch, M), NEW m \in M, CanSend(ch)
  PROVE  Sound(Send(ch, m), M) /\ Sent(Send(ch, m)) = Append(Sent(ch), m)
<1>1. Sound(Add(ch, m), M) /\ Sent(Add(ch, m)) = Append(Sent(ch), m)
  BY AddSound
<1>2. PICK a : a = Add(ch, m)
  OBVIOUS
<1>3. Sound(Flush(a), M) /\ Sent(Flush(a)) = Sent(a)
  BY <1>1, <1>2, FlushSound
<1> QED BY <1>1, <1>2, <1>3 DEF Send

\* What is received was sent first.
LEMMA ReceiveSound ==
  ASSUME NEW M, NEW ch, Sound(ch, M), CanReceive(ch)
  PROVE  /\ Received(ch) \in M /\ Sound(Receive(ch), M)
         /\ Sent(Receive(ch)) \in Seq(M)
         /\ Sent(ch) = <<Received(ch)>> \o Sent(Receive(ch))
<1>1. PICK s \in Seq(Seq(M)), n \in Nat : s = ch.arrays /\ n = Len(s) /\ n <= NQueues
  BY LenProperties DEF Sound
<1>2. \A i \in 1 .. n - 1 : s[i] = << >> => i = 1 /\ ch.consumed
  BY <1>1 DEF Sound
<1>3. ch.consumed => s # << >>
  BY <1>1 DEF Sound
<1>4. PICK b \in Nat : b = NextRead(ch) /\ (b = 1 \/ b = 2) /\ b \in 1 .. n
                       /\ s[b] # << >>
                       /\ (b = 2 <=> ch.consumed /\ s[1] = << >>)
  <2>1. NextRead(ch) = IF ch.consumed /\ s[1] = << >> THEN 2 ELSE 1
    BY <1>1 DEF NextRead
  <2>2. CASE ch.consumed /\ s[1] # << >>
    <3>1. n # 0
      BY <1>1, <1>3, <2>2, EmptySeq
    <3> QED BY <2>1, <2>2, <3>1
  <2>3. CASE ~(ch.consumed /\ s[1] # << >>)
    <3>1. n > NextRead(ch)
      BY <1>1, <2>3 DEF CanReceive
    <3>2. NextRead(ch) \in 1 .. n - 1
      BY <2>1, <3>1
    <3> QED BY <1>2, <2>1, <2>3, <3>2
  <2> QED BY <2>2, <2>3
<1>5. PICK rest, k : rest = SubSeq(s, b, n) /\ k = n - b + 1
  OBVIOUS
<1>51. /\ rest \in Seq(Seq(M)) /\ k \in Nat /\ k # 0 /\ Len(rest) = k
       /\ (\A i \in 1 .. k : rest[i] = s[i + b - 1])
       /\ FlattenSeq(s) = FlattenSeq(rest)
  <2>1. CASE b = 1
    <3>1. rest = s
      BY <1>1, <1>5, <2>1, SubSeqFull
    <3>2. k = n /\ \A i \in 1 .. k : i + b - 1 = i
      BY <1>5, <2>1
    <3>3. n # 0
      BY <1>4
    <3>4. \A i \in 1 .. k : s[i + b - 1] = s[i]
      BY <3>2
    <3> QED BY <1>1, <3>1, <3>2, <3>3, <3>4
  <2>2. CASE b = 2
    <3>1. s # << >> /\ n >= 2
      BY <1>1, <1>4, <2>2, EmptySeq
    <3>2. PICK t : t = Tail(s)
      OBVIOUS
    <3>3. t \in Seq(Seq(M)) /\ Len(t) = n - 1
          /\ (\A i \in 1 .. n - 1 : t[i] = s[i + 1]) /\ Head(s) = s[1]
      <4>1. Tail(s) \in Seq(Seq(M)) /\ Len(Tail(s)) = Len(s) - 1
            /\ \A i \in 1 .. Len(Tail(s)) : Tail(s)[i] = s[i + 1]
        BY <3>1, HeadTailProperties
      <4> QED BY <1>1, <3>1, <3>2, <4>1
    <3>4. rest = t
      BY <1>1, <1>5, <2>2, <3>1, <3>2, TailIsSubSeq
    <3>5. FlattenSeq(s) = Head(s) \o FlattenSeq(t)
      BY <3>1, <3>2, FlattenFirst
    <3>6. FlattenSeq(t) \in Seq(M) /\ Head(s) = << >>
      BY <1>4, <2>2, <3>3, FlattenType
    <3>7. FlattenSeq(s) = FlattenSeq(t)
      BY <3>5, <3>6, ConcatEmptySeq
    <3>8. k = n - 1 /\ k \in Nat /\ k # 0
      BY <1>5, <2>2, <3>1
    <3>9. \A i \in 1 .. k : t[i] = s[i + b - 1]
      BY <2>2, <3>3, <3>8
    <3> QED BY <3>3, <3>4, <3>7, <3>8, <3>9
  <2> QED BY <1>4, <2>1, <2>2
<1>6. PICK a \in Seq(M), q \in Seq(Seq(M)) : a = s[b] /\ a # << >> /\ q = Tail(rest)
                      /\ rest = <<a>> \o q /\ rest # << >> /\ rest[1] = a /\ Head(rest) = a
  <2>1. rest # << >>
    BY <1>51, EmptySeq
  <2>2. rest[1] = s[b]
    <3>1. 1 \in 1 .. k /\ 1 + b - 1 = b
      BY <1>4, <1>51
    <3> QED BY <1>51, <3>1
  <2>3. /\ Tail(rest) \in Seq(Seq(M)) /\ rest = <<Head(rest)>> \o Tail(rest)
        /\ Head(rest) \in Seq(M) /\ rest[1] = Head(rest)
    BY <1>51, <2>1, Split
  <2> QED BY <1>4, <2>1, <2>2, <2>3
<1>7. PICK h \in M, c \in Seq(M) : h = Head(a) /\ c = Tail(a) /\ a = <<h>> \o c
  <2>1. Head(a) \in M /\ Tail(a) \in Seq(M) /\ a = <<Head(a)>> \o Tail(a)
    BY <1>6, Split
  <2> QED BY <2>1
<1>8. PICK r \in Seq(Seq(M)) : /\ r = [rest EXCEPT ![1] = c] /\ r = <<c>> \o q
                               /\ Len(r) = k /\ r # << >>
                               /\ \A i \in 2 .. k : r[i] = rest[i]
  <2>1. [rest EXCEPT ![1] = c] = <<c>> \o q
    BY <1>51, <1>6, FirstChanged
  <2>2. 1 \in 1 .. k /\ DOMAIN rest = 1 .. k
    BY <1>51, LenProperties
  <2>3. [rest EXCEPT ![1] = c] \in Seq(Seq(M)) /\ Len([rest EXCEPT ![1] = c]) = k
    BY <1>51, <2>2, ExceptSeq
  <2>4. \A i \in 2 .. k : [rest EXCEPT ![1] = c][i] = rest[i]
    BY <2>2
  <2>5. [rest EXCEPT ![1] = c] # << >>
    BY <1>51, <2>3, EmptySeq
  <2> QED BY <2>1, <2>3, <2>4, <2>5
<1>9. Receive(ch) = [ch EXCEPT !.arrays = r, !.consumed = TRUE]
  <2>1. Receive(ch) = [ch EXCEPT !.arrays = [rest EXCEPT ![1] = Tail(rest[1])], !.consumed = TRUE]
    BY <1>1, <1>4, <1>5 DEF Receive
  <2> QED BY <1>6, <1>7, <1>8, <2>1
<1>10. /\ DOMAIN Receive(ch) = DOMAIN ch /\ Receive(ch).arrays = r
       /\ Receive(ch).produced = ch.produced /\ Receive(ch).consumed = TRUE
  BY <1>9 DEF Sound
<1>11. ch.produced
  BY <1>1, <1>4, EmptySeq DEF Sound
<1>12. ASSUME NEW i \in 1 .. k - 1, r[i] = << >> PROVE i = 1
  <2> SUFFICES ASSUME i # 1 PROVE FALSE
    OBVIOUS
  <2>1. i \in 2 .. k /\ i + b - 1 \in 1 .. n - 1 /\ i + b - 1 # 1
    <3>1. b \in {1, 2} /\ k = n - b + 1 /\ k \in Nat
      BY <1>4, <1>5, <1>51
    <3> QED BY <3>1
  <2>2. r[i] = s[i + b - 1]
    BY <1>51, <1>8, <2>1
  <2> QED BY <1>2, <1>12, <2>1, <2>2
<1>13. k <= NQueues
  BY <1>1, <1>4, <1>5, QueueAssumption
<1>14. Sound(Receive(ch), M)
  BY <1>8, <1>10, <1>11, <1>12, <1>13 DEF Sound
<1>15. Received(ch) = h
  BY <1>1, <1>4, <1>6, <1>7 DEF Received
<1>16. PICK y \in Seq(M) : y = FlattenSeq(q)
  BY FlattenType
<1>17. FlattenSeq(rest) = a \o y
  BY <1>51, <1>6, <1>16, FlattenFirst
<1>18. FlattenSeq(r) = c \o y
  <2>1. PICK d \in Seq(Seq(M)) : d = <<c>>
    <3>1. <<c>> \in Seq(Seq(M))
      BY OneSeq
    <3> QED BY <3>1
  <2>2. FlattenSeq(d \o q) = FlattenSeq(d) \o FlattenSeq(q)
    BY FlattenConcat
  <2>3. FlattenSeq(<<c>>) = c
    BY FlattenSingle
  <2> QED BY <1>8, <1>16, <2>1, <2>2, <2>3
<1>19. a \o y = <<h>> \o (c \o y)
  <2>1. PICK e \in Seq(M) : e = <<h>>
    <3>1. <<h>> \in Seq(M)
      BY OneSeq
    <3> QED BY <3>1
  <2>2. (e \o c) \o y = e \o (c \o y)
    BY ConcatAssociative, SMTT(30)
  <2> QED BY <1>7, <2>1, <2>2
<1>20. Sent(Receive(ch)) \in Seq(M)
  BY <1>10, FlattenType DEF Sent
<1> QED BY <1>1, <1>51, <1>10, <1>14, <1>15, <1>17, <1>18, <1>19, <1>20 DEF Sent

-----------------------------------------------------------------------------
(* What is on its way.                                                     *)

\* Concatenation is associative.
LEMMA Assoc ==
  ASSUME NEW T, NEW a \in Seq(T), NEW b \in Seq(T), NEW c \in Seq(T)
  PROVE  (a \o b) \o c = a \o (b \o c)
BY ConcatAssociative, SMTT(30)

\* Sequences of one element.
LEMMA One ==
  ASSUME NEW T, NEW e \in T
  PROVE  /\ <<e>> \in Seq(T) /\ Len(<<e>>) = 1 /\ <<e>>[1] = e /\ DOMAIN <<e>> = {1}
         /\ <<e>> # << >>
OBVIOUS

\* What a concatenation has.
LEMMA Concat ==
  ASSUME NEW T, NEW a \in Seq(T), NEW b \in Seq(T)
  PROVE  /\ a \o b \in Seq(T) /\ DOMAIN (a \o b) = 1 .. Len(a) + Len(b)
         /\ DOMAIN a = 1 .. Len(a) /\ DOMAIN b = 1 .. Len(b)
         /\ Len(a) \in Nat /\ Len(b) \in Nat
         /\ \A i \in 1 .. Len(a) : (a \o b)[i] = a[i]
         /\ \A i \in 1 .. Len(b) : (a \o b)[Len(a) + i] = b[i]
<1>1. /\ Len(a) \in Nat /\ Len(b) \in Nat /\ DOMAIN a = 1 .. Len(a) /\ DOMAIN b = 1 .. Len(b)
  BY LenProperties
<1>2. PICK c : c = a \o b
  OBVIOUS
<1>3. /\ c \in Seq(T) /\ Len(c) = Len(a) + Len(b)
      /\ \A i \in 1 .. Len(a) + Len(b) : c[i] = IF i <= Len(a) THEN a[i] ELSE b[i - Len(a)]
  BY <1>2, ConcatProperties
<1>4. DOMAIN c = 1 .. Len(a) + Len(b)
  BY <1>3, LenProperties
<1>5. \A i \in 1 .. Len(a) : c[i] = a[i]
  BY <1>1, <1>3
<1>6. ASSUME NEW i \in 1 .. Len(b) PROVE c[Len(a) + i] = b[i]
  <2>1. Len(a) + i \in 1 .. Len(a) + Len(b) /\ ~(Len(a) + i <= Len(a)) /\ Len(a) + i - Len(a) = i
    BY <1>1
  <2> QED BY <1>3, <2>1
<1> QED BY <1>1, <1>2, <1>3, <1>4, <1>5, <1>6

\* The elements of s are those of used, each once.
Distinct(s, used) == ToSet(s) = used /\ Injective(s)

\* One more element that is new.
LEMMA DistinctAppend ==
  ASSUME NEW T, NEW s \in Seq(T), NEW used, Distinct(s, used), NEW e \in T, e \notin used
  PROVE  Distinct(s \o <<e>>, used \cup {e})
<1>1. PICK r : r = s \o <<e>>
  OBVIOUS
<1>2. PICK n \in Nat : /\ n = Len(s) /\ DOMAIN s = 1 .. n /\ DOMAIN r = 1 .. n + 1
                       /\ (\A i \in 1 .. n : r[i] = s[i]) /\ r[n + 1] = e
  <2>1. PICK n : n = Len(s)
    OBVIOUS
  <2>2. n \in Nat /\ DOMAIN s = 1 .. n
    BY <2>1, LenProperties
  <2>3. /\ DOMAIN Append(s, e) = 1 .. n + 1 /\ Append(s, e)[n + 1] = e
        /\ \A i \in 1 .. n : Append(s, e)[i] = s[i]
    BY <2>1, Appended
  <2>4. Append(s, e) = s \o <<e>>
    BY AppendIsConcat
  <2> QED BY <1>1, <2>1, <2>2, <2>3, <2>4
<1>3. \A i \in 1 .. n : s[i] \in used
  BY <1>2 DEF Distinct, ToSet
<1>4. Injective(r)
  <2> SUFFICES ASSUME NEW i \in 1 .. n + 1, NEW j \in 1 .. n + 1, r[i] = r[j]
               PROVE  i = j
    BY <1>2 DEF Injective
  <2>1. CASE i \in 1 .. n /\ j \in 1 .. n
    BY <1>2, <2>1 DEF Distinct, Injective
  <2>2. CASE i = n + 1 /\ j \in 1 .. n
    BY <1>2, <1>3, <2>2
  <2>3. CASE i \in 1 .. n /\ j = n + 1
    BY <1>2, <1>3, <2>3
  <2> QED BY <2>1, <2>2, <2>3
<1>5. ToSet(r) = used \cup {e}
  <2>1. ASSUME NEW x \in ToSet(r) PROVE x \in used \cup {e}
    <3>1. PICK i \in 1 .. n + 1 : x = r[i]
      BY <1>2, <2>1 DEF ToSet
    <3>2. i = n + 1 \/ i \in 1 .. n
      OBVIOUS
    <3> QED BY <1>2, <1>3, <3>1, <3>2
  <2>2. e \in ToSet(r)
    <3>1. n + 1 \in 1 .. n + 1
      OBVIOUS
    <3> QED BY <1>2, <3>1 DEF ToSet
  <2>3. ASSUME NEW x \in used PROVE x \in ToSet(r)
    <3>1. PICK i \in 1 .. n : x = s[i]
      BY <1>2, <2>3 DEF Distinct, ToSet
    <3>2. i \in 1 .. n + 1
      OBVIOUS
    <3> QED BY <1>2, <3>1, <3>2 DEF ToSet
  <2> QED BY <2>1, <2>2, <2>3
<1> QED BY <1>1, <1>4, <1>5 DEF Distinct

\* The last element is none of the others.
LEMMA DistinctLast ==
  ASSUME NEW T, NEW s \in Seq(T), NEW e \in T, NEW used, Distinct(s \o <<e>>, used)
  PROVE  e \in used /\ e \notin ToSet(s)
<1>1. PICK r : r = s \o <<e>>
  OBVIOUS
<1>2. PICK n \in Nat : /\ n = Len(s) /\ DOMAIN s = 1 .. n /\ DOMAIN r = 1 .. n + 1
                       /\ (\A i \in 1 .. n : r[i] = s[i]) /\ r[n + 1] = e
  <2>1. PICK n : n = Len(s)
    OBVIOUS
  <2>2. n \in Nat /\ DOMAIN s = 1 .. n
    BY <2>1, LenProperties
  <2>3. /\ DOMAIN Append(s, e) = 1 .. n + 1 /\ Append(s, e)[n + 1] = e
        /\ \A i \in 1 .. n : Append(s, e)[i] = s[i]
    BY <2>1, Appended
  <2>4. Append(s, e) = s \o <<e>>
    BY AppendIsConcat
  <2> QED BY <1>1, <2>1, <2>2, <2>3, <2>4
<1>3. n + 1 \in 1 .. n + 1 /\ \A i \in 1 .. n : i \in 1 .. n + 1 /\ i # n + 1
  OBVIOUS
<1>4. Distinct(r, used)
  BY <1>1
<1>5. e \in used
  BY <1>2, <1>3, <1>4 DEF Distinct, ToSet
<1>6. ASSUME NEW i \in 1 .. n PROVE s[i] # e
  BY <1>2, <1>3, <1>4 DEF Distinct, Injective
<1> QED BY <1>2, <1>5, <1>6 DEF ToSet

\* Without the first element.
LEMMA DistinctFirst ==
  ASSUME NEW T, NEW s \in Seq(T), NEW e \in T, NEW used, Distinct(<<e>> \o s, used)
  PROVE  e \in used /\ Distinct(s, used \ {e})
<1>1. PICK r, a : r = <<e>> \o s /\ a = <<e>>
  OBVIOUS
<1>2. PICK n \in Nat : /\ n = Len(s) /\ DOMAIN s = 1 .. n /\ DOMAIN r = 1 .. n + 1
                       /\ (\A i \in 1 .. n : r[i + 1] = s[i]) /\ r[1] = e
  <2>1. PICK n : n = Len(s)
    OBVIOUS
  <2>2. n \in Nat /\ DOMAIN s = 1 .. n
    BY <2>1, LenProperties
  <2>3. a \in Seq(T) /\ Len(a) = 1 /\ a[1] = e
    BY <1>1, One
  <2>4. /\ DOMAIN (a \o s) = 1 .. Len(a) + Len(s)
        /\ \A i \in 1 .. Len(a) : (a \o s)[i] = a[i]
        /\ \A i \in 1 .. Len(s) : (a \o s)[Len(a) + i] = s[i]
    BY <2>3, Concat
  <2>5. DOMAIN r = 1 .. 1 + n /\ (\A i \in 1 .. 1 : r[i] = a[i])
        /\ \A i \in 1 .. n : r[1 + i] = s[i]
    BY <1>1, <2>1, <2>3, <2>4
  <2>6. 1 + n = n + 1 /\ 1 \in 1 .. 1 /\ \A i \in 1 .. n : 1 + i = i + 1
    BY <2>2
  <2> QED BY <2>1, <2>2, <2>3, <2>5, <2>6
<1>3. 1 \in 1 .. n + 1 /\ \A i \in 1 .. n : i + 1 \in 1 .. n + 1 /\ i + 1 # 1
  OBVIOUS
<1>4. Distinct(r, used)
  BY <1>1
<1>5. e \in used
  BY <1>2, <1>3, <1>4 DEF Distinct, ToSet
<1>6. \A i \in 1 .. n : s[i] # e /\ s[i] \in used
  BY <1>2, <1>3, <1>4 DEF Distinct, Injective, ToSet
<1>7. Injective(s)
  <2> SUFFICES ASSUME NEW i \in 1 .. n, NEW j \in 1 .. n, s[i] = s[j] PROVE i = j
    BY <1>2 DEF Injective
  <2>1. r[i + 1] = r[j + 1]
    BY <1>2
  <2>2. i + 1 = j + 1
    BY <1>2, <1>3, <1>4, <2>1 DEF Distinct, Injective
  <2> QED BY <2>2
<1>8. ASSUME NEW x \in used, x # e PROVE x \in ToSet(s)
  <2>1. PICK i \in 1 .. n + 1 : x = r[i]
    BY <1>2, <1>4, <1>8 DEF Distinct, ToSet
  <2>2. i # 1 /\ i - 1 \in 1 .. n /\ i - 1 + 1 = i
    BY <1>2, <1>8, <2>1
  <2>3. x = s[i - 1]
    BY <1>2, <2>1, <2>2
  <2> QED BY <1>2, <2>2, <2>3 DEF ToSet
<1>9. ToSet(s) = used \ {e}
  <2>1. \A x \in ToSet(s) : x \in used \ {e}
    BY <1>2, <1>6 DEF ToSet
  <2> QED BY <1>8, <2>1
<1> QED BY <1>5, <1>7, <1>9 DEF Distinct

\* A body that is not in s changes.
With(f, e, x) == [f EXCEPT ![e] = x]

\* A body that is changed but not mentioned does not matter.
LEMMA EachOther ==
  ASSUME NEW T, NEW U, NEW f, Maps(f, T, U), NEW s \in Seq(T), NEW e, NEW x, e \notin ToSet(s)
  PROVE  Each(With(f, e, x), s) = Each(f, s)
<1>1. PICK g : g = With(f, e, x)
  OBVIOUS
<1>2. \A i \in DOMAIN s : s[i] # e /\ s[i] \in T
  BY ElementOfSeq, LenProperties DEF ToSet
<1>3. \A k \in T : k # e => g[k] = f[k]
  BY <1>1 DEF Maps, With
<1>4. \A i \in DOMAIN s : g[s[i]] = f[s[i]]
  BY <1>2, <1>3
<1>5. Each(g, s) = Each(f, s)
  BY <1>4, EachSame
<1> QED BY <1>1, <1>5

\* A map with one body changed.
LEMMA MapsExcept ==
  ASSUME NEW T, NEW U, NEW f, Maps(f, T, U), NEW e \in T, NEW x \in Seq(U)
  PROVE  /\ Maps(With(f, e, x), T, U) /\ With(f, e, x)[e] = x
         /\ f[e] \in Seq(U)
BY DEF Maps, With

\* The last body gets another caplet.
LEMMA EachGrow ==
  ASSUME NEW T, NEW U, NEW f, Maps(f, T, U), NEW s \in Seq(T), NEW e \in T, e \notin ToSet(s),
         NEW c \in U
  PROVE  Each(With(f, e, Append(f[e], c)), s \o <<e>>) = Append(Each(f, s \o <<e>>), c)
<1>1. PICK x, y, a : x = Append(f[e], c) /\ y = f[e] /\ a = Each(f, s)
  OBVIOUS
<1>2. y \in Seq(U) /\ x \in Seq(U) /\ a \in Seq(U)
  BY <1>1, Appended, EachType DEF Maps
<1>3. PICK g : g = With(f, e, x)
  OBVIOUS
<1>4. Maps(g, T, U) /\ g[e] = x
  BY <1>2, <1>3, MapsExcept
<1>5. Each(g, s) = a
  BY <1>1, <1>3, EachOther
<1>6. Append(s, e) = s \o <<e>>
  BY AppendIsConcat
<1>7. Each(g, Append(s, e)) = Each(g, s) \o g[e]
  BY <1>4, EachAppend
<1>8. Each(f, Append(s, e)) = a \o y
  BY <1>1, EachAppend
<1>9. a \o Append(y, c) = Append(a \o y, c)
  BY <1>2, ConcatAppend
<1> QED BY <1>1, <1>3, <1>4, <1>5, <1>6, <1>7, <1>8, <1>9

\* A body with one caplet is added.
EndedBy(u, n) == u \o <<n>>
\* Each, when the last body is made anew.
NewBody(f, e, c, s) == Each(With(f, e, <<c>>), EndedBy(s, e)) = Append(Each(f, s), c)

\* A new body of one caplet adds that caplet.
LEMMA EachNew ==
  ASSUME NEW T, NEW U, NEW f, Maps(f, T, U), NEW s \in Seq(T), NEW e \in T, e \notin ToSet(s),
         NEW c \in U
  PROVE  NewBody(f, e, c, s)
<1>1. PICK x, a : x = <<c>> /\ a = Each(f, s)
  OBVIOUS
<1>2. x \in Seq(U) /\ a \in Seq(U)
  BY <1>1, EachType
<1>3. PICK g : g = With(f, e, x)
  OBVIOUS
<1>4. Maps(g, T, U) /\ g[e] = x
  BY <1>2, <1>3, MapsExcept
<1>5. Each(g, s) = a
  BY <1>1, <1>3, EachOther
<1>6. Append(s, e) = s \o <<e>>
  BY AppendIsConcat
<1>7. Each(g, Append(s, e)) = Each(g, s) \o g[e]
  BY <1>4, EachAppend
<1>8. Append(a, c) = a \o <<c>>
  BY <1>2, AppendIsConcat
<1> QED BY <1>1, <1>3, <1>4, <1>5, <1>6, <1>7, <1>8 DEF EndedBy, NewBody

\* What a reader holds and what is in its channel, seen through f.
Seen(f, h, a) == Each(f, h \o a)

\* What is seen of a holder and an array.
LEMMA SeenSplit ==
  ASSUME NEW T, NEW U, NEW f, Maps(f, T, U), NEW h \in Seq(T), NEW a \in Seq(T)
  PROVE  Seen(f, h, a) = Each(f, h) \o Each(f, a)
BY EachConcat DEF Seen

\* What is seen is a sequence.
LEMMA SeenType ==
  ASSUME NEW T, NEW U, NEW f, Maps(f, T, U), NEW h \in Seq(T), NEW a \in Seq(T)
  PROVE  Seen(f, h, a) \in Seq(U)
<1>1. PICK g \in Seq(T) : g = h \o a
  BY ConcatProperties
<1>2. Each(f, g) \in Seq(U)
  BY EachType
<1> QED BY <1>1, <1>2 DEF Seen

\* A message is received.
LEMMA SeenRecv ==
  ASSUME NEW T, NEW f, NEW h \in Seq(T), NEW e \in T, NEW a \in Seq(T)
  PROVE  Seen(f, Append(h, e), a) = Seen(f, h, <<e>> \o a)
<1>1. PICK o \in Seq(T) : o = <<e>>
  BY One
<1>2. Append(h, e) = h \o o
  BY <1>1, AppendIsConcat
<1>3. (h \o o) \o a = h \o (o \o a)
  BY Assoc
<1> QED BY <1>1, <1>2, <1>3 DEF Seen

\* A message that f does not see is pushed or put back.
LEMMA SeenPush ==
  ASSUME NEW T, NEW U, NEW f, Maps(f, T, U), NEW h \in Seq(T), NEW a \in Seq(T),
         NEW e \in T, f[e] = << >>
  PROVE  Seen(f, Append(h, e), a) = Seen(f, h, a)
<1>1. Each(f, Append(h, e)) = Each(f, h) \o f[e]
  BY EachAppend
<1>2. Each(f, h) \in Seq(U)
  BY EachType
<1>3. Each(f, Append(h, e)) = Each(f, h)
  BY <1>1, <1>2, ConcatEmptySeq
<1>4. PICK g \in Seq(T) : g = Append(h, e)
  BY Appended
<1>5. Seen(f, g, a) = Each(f, g) \o Each(f, a)
  BY SeenSplit
<1>6. Seen(f, h, a) = Each(f, h) \o Each(f, a)
  BY SeenSplit
<1> QED BY <1>3, <1>4, <1>5, <1>6

\* The first message is handled.
LEMMA SeenTail ==
  ASSUME NEW T, NEW U, NEW f, Maps(f, T, U), NEW h \in Seq(T), h # << >>, NEW a \in Seq(T)
  PROVE  /\ Seen(f, h, a) = f[Head(h)] \o Seen(f, Tail(h), a)
         /\ Seen(f, Tail(h), a) \in Seq(U)
         /\ Head(h) \in T /\ Tail(h) \in Seq(T)
<1>1. PICK t, e : t = Tail(h) /\ e = Head(h)
  OBVIOUS
<1>2. t \in Seq(T) /\ e \in T
  BY <1>1, Split
<1>3. Each(f, h) = f[e] \o Each(f, t)
  BY <1>1, EachFirst
<1>4. PICK x, y, z : x = f[e] /\ y = Each(f, t) /\ z = Each(f, a)
  OBVIOUS
<1>5. x \in Seq(U) /\ y \in Seq(U) /\ z \in Seq(U)
  BY <1>2, <1>4, EachType DEF Maps
<1>6. (x \o y) \o z = x \o (y \o z)
  BY <1>5, Assoc
<1>7. Seen(f, t, a) = Each(f, t) \o Each(f, a)
  BY <1>2, SeenSplit
<1>9. Seen(f, t, a) \in Seq(U)
  BY <1>2, SeenType
<1>8. Seen(f, h, a) = Each(f, h) \o z
  BY <1>4, SeenSplit
<1> QED BY <1>1, <1>2, <1>3, <1>4, <1>6, <1>7, <1>8, <1>9

\* A message is sent.
LEMMA SeenSend ==
  ASSUME NEW T, NEW U, NEW f, Maps(f, T, U), NEW h \in Seq(T), NEW a \in Seq(T), NEW e \in T
  PROVE  Seen(f, h, Append(a, e)) = Seen(f, h, a) \o f[e]
<1>1. PICK g \in Seq(T) : g = h \o a
  BY ConcatProperties
<1>2. h \o Append(a, e) = Append(g, e)
  BY <1>1, ConcatAppend
<1>3. Each(f, Append(g, e)) = Each(f, g) \o f[e]
  BY EachAppend
<1> QED BY <1>1, <1>2, <1>3 DEF Seen

-----------------------------------------------------------------------------
(* Threads and messages.                                                   *)

\* The threads.
LEMMA ThreadIds == /\ S = 0 /\ C = 1 /\ D = 2 /\ IO = 3 /\ Threads = {0, 1, 2, 3}
                   /\ S \in Threads /\ C \in Threads /\ D \in Threads /\ IO \in Threads
BY DEF S, C, D, IO, Threads

\* The constants.
LEMMA Numbers == /\ CapMsgs \in Nat /\ CapMsgs >= 2 /\ PageMsgs \in Nat /\ PageMsgs >= 2
                 /\ CapRoom \in Nat /\ CapRoom >= 1 /\ PageRoom \in Nat /\ PageRoom >= 1
                 /\ MaxCaplets \in Nat
                 /\ 1 \in PageIds /\ CapIds \subseteq Nat /\ PageIds \subseteq Nat
                 /\ None \notin CapIds /\ None \notin PageIds
BY PoolAssumption, BoundAssumption, NoneAssumption DEF CapIds, PageIds

\* The ids that a message may have.
MsgIds == (1 .. CapMsgs + PageMsgs) \cup {None}

\* The ids of the two pools are ids of messages.
LEMMA MessageIds == /\ CapIds \subseteq MsgIds /\ PageIds \subseteq MsgIds /\ None \in MsgIds
                    /\ Messages = Codes \X MsgIds
BY Numbers DEF CapIds, PageIds, MsgIds, Messages

\* What a thread may be told or hold are messages.
LEMMA MessageSets ==
  /\ \A t \in Threads : Held(t) \subseteq Messages /\ Told(t) \subseteq Held(t)
  /\ CapMessages \subseteq Held(D) /\ IOMessages \subseteq Held(IO)
  /\ CapMessages \subseteq Messages /\ IOMessages \subseteq Messages
<1>1. \A i \in MsgIds : \A c \in Codes : <<c, i>> \in Messages
  BY MessageIds
<1>2. CapMessages \subseteq Messages
  BY <1>1, MessageIds DEF CapMessages, Codes, Plain
<1>3. IOMessages \subseteq Messages
  BY <1>1, MessageIds DEF IOMessages, Codes, Plain
<1>4. \A t \in Threads : Told(t) \subseteq Messages
  BY <1>1, MessageIds DEF Told, Codes, Plain
<1>5. \A t \in Threads : Held(t) = Told(t) \/ Held(t) = Told(t) \cup CapMessages
                         \/ Held(t) = Told(t) \cup IOMessages
  BY ThreadIds DEF Held
<1>6. Held(D) = Told(D) \cup CapMessages /\ Held(IO) = Told(IO) \cup IOMessages
  BY ThreadIds DEF Held
<1> QED BY <1>2, <1>3, <1>4, <1>5, <1>6

\* What the messages of the workers look like.
LEMMA HeldD ==
  ASSUME NEW m \in Held(D)
  PROVE  /\ m = <<m[1], m[2]>>
         /\ m[1] \in {"WRITE", "CLOSE", "REGISTER", "SHUTDOWN"}
         /\ m[1] = "WRITE" => m[2] \in CapIds
         /\ m[1] # "WRITE" => m[2] = None
<1>1. Held(D) = {Plain("REGISTER"), Plain("SHUTDOWN")} \cup CapMessages
  BY ThreadIds DEF Held, Told
<1> QED BY <1>1 DEF CapMessages, Plain

\* The same for IO.
LEMMA HeldIO ==
  ASSUME NEW m \in Held(IO)
  PROVE  /\ m = <<m[1], m[2]>>
         /\ m[1] \in {"PAGE", "CLOSE", "SHUTDOWN"}
         /\ m[1] = "PAGE" => m[2] \in PageIds
         /\ m[1] # "PAGE" => m[2] = None
<1>1. Held(IO) = {Plain("SHUTDOWN")} \cup IOMessages
  BY ThreadIds DEF Held, Told
<1> QED BY <1>1 DEF IOMessages, Plain

\* Control messages carry no payload.
LEMMA ToldCodes ==
  ASSUME NEW t \in Threads, NEW m \in Told(t)
  PROVE  m[1] \in {"NEW_CONNECTION", "REGISTER", "SHUTDOWN"} /\ m \in Messages /\ m \in Held(t)
<1>1. m[1] \in {"NEW_CONNECTION", "REGISTER", "SHUTDOWN"}
  BY ThreadIds DEF Told, Plain
<1> QED BY <1>1, MessageSets

\* IdIf maps messages to sequences of at most one id.
LEMMA IdIfMaps ==
  ASSUME NEW codes
  PROVE  /\ Maps(IdIf(codes), Messages, MsgIds)
         /\ \A m \in Messages :
              /\ m[1] \in codes => IdIf(codes)[m] = <<m[2]>>
              /\ m[1] \notin codes => IdIf(codes)[m] = << >>
<1>1. \A m \in Messages : m[2] \in MsgIds
  BY MessageIds
<1>2. \A m \in Messages : (IF m[1] \in codes THEN <<m[2]>> ELSE << >>) \in Seq(MsgIds)
  BY <1>1
<1>3. IdIf(codes) \in [Messages -> Seq(MsgIds)]
  BY <1>2 DEF IdIf
<1> QED BY <1>3 DEF Maps, IdIf

\* Seq is monotonic.
LEMMA SeqSubset == ASSUME NEW A, NEW B, A \subseteq B, NEW s \in Seq(A) PROVE s \in Seq(B)
BY SeqMonotonic

\* The head of the holder, while there is one left to handle.
LEMMA HeadHeld ==
  ASSUME LoopTyped, NEW t \in Threads, left[t] >= 1
  PROVE  /\ holder[t] # << >> /\ Head(holder[t]) \in Held(t)
         /\ Tail(holder[t]) \in Seq(Held(t)) /\ Len(Tail(holder[t])) = Len(holder[t]) - 1
         /\ Append(Tail(holder[t]), Head(holder[t])) \in Seq(Held(t))
         /\ Len(Append(Tail(holder[t]), Head(holder[t]))) = Len(holder[t])
         /\ Len(holder[t]) \in Nat /\ left[t] \in Nat /\ left[t] <= Len(holder[t])
<1>1. PICK h \in Seq(Held(t)) : h = holder[t]
  BY DEF LoopTyped
<1>2. Len(h) \in Nat /\ left[t] \in Nat /\ left[t] <= Len(h)
  BY <1>1, LenProperties DEF LoopTyped
<1>3. h # << >>
  BY <1>2, EmptySeq
<1>4. PICK e \in Held(t), r \in Seq(Held(t)) : e = Head(h) /\ r = Tail(h) /\ Len(r) = Len(h) - 1
  <2>1. Head(h) \in Held(t) /\ Tail(h) \in Seq(Held(t)) /\ Len(Tail(h)) = Len(h) - 1
    BY <1>3, Split
  <2> QED BY <2>1
<1>5. Append(r, e) \in Seq(Held(t)) /\ Len(Append(r, e)) = Len(r) + 1
  BY Appended
<1> QED BY <1>1, <1>2, <1>3, <1>4, <1>5

\* What is in a stream.
LEMMA Streams ==
  ASSUME LoopTyped, Channels
  PROVE  /\ \A t \in Threads : holder[t] \in Seq(Messages)
         /\ Sent(channel["cap"]) \in Seq(CapMessages) /\ Sent(channel["cap"]) \in Seq(Messages)
         /\ Sent(channel["io"]) \in Seq(IOMessages) /\ Sent(channel["io"]) \in Seq(Messages)
<1>1. \A t \in Threads : holder[t] \in Seq(Messages)
  BY MessageSets, SeqSubset DEF LoopTyped
<1>2. Sent(channel["cap"]) \in Seq(CapMessages)
  BY FlattenType DEF Channels, Sound, Sent
<1>3. Sent(channel["io"]) \in Seq(IOMessages)
  BY FlattenType DEF Channels, Sound, Sent
<1> QED BY <1>1, <1>2, <1>3, MessageSets, SeqSubset

-----------------------------------------------------------------------------
(* Types: every step keeps them.                                           *)

\* The next message, or the next poll.
LEMMA NextOne ==
  ASSUME LoopTyped, NEW t \in {S, D, IO}, left[t] >= 1, pc[t] # "done",
         NEW rest \in Seq(Held(t)), Len(rest) >= left[t] - 1, NextMessage(t, rest)
  PROVE  /\ DOMAIN holder' = Threads /\ \A u \in Threads : holder'[u] \in Seq(Held(u))
         /\ left' \in [Threads -> Nat] /\ \A u \in Threads : left'[u] <= Len(holder'[u])
         /\ status' \in [Threads -> {"none", "uninit", "init", "finished"}]
         /\ DOMAIN pc' = Threads /\ \A u \in Threads : pc'[u] \in PlacesOf(u)
         /\ holder'[t] = rest /\ \A u \in Threads \ {t} : holder'[u] = holder[u]
         /\ \A u \in Threads \ {t} : pc'[u] = pc[u] /\ left'[u] = left[u]
         /\ pc'[t] = "done" \/ pc'[t] = Again(t) \/ (pc'[t] = "handle" /\ left'[t] >= 1)
<1>1. /\ holder' = [holder EXCEPT ![t] = rest] /\ left' = [left EXCEPT ![t] = left[t] - 1]
      /\ status' = status \/ status' = [status EXCEPT ![t] = "finished"]
      /\ \/ pc' = [pc EXCEPT ![t] = "done"]
         \/ pc' = [pc EXCEPT ![t] = Again(t)]
         \/ pc' = [pc EXCEPT ![t] = "handle"] /\ left[t] # 1
  <2>1. status' = [status EXCEPT ![t] = status[t]] => status' = status
    BY DEF LoopTyped
  <2> QED BY <2>1 DEF NextMessage, Goto
<1>2. t \in Threads /\ left[t] \in Nat /\ left[t] - 1 \in Nat /\ Len(rest) \in Nat
  <2>1. t \in Threads /\ left[t] \in Nat
    BY ThreadIds DEF LoopTyped
  <2> QED BY <2>1, LenProperties
<1>3. DOMAIN holder' = Threads /\ holder'[t] = rest
      /\ \A u \in Threads \ {t} : holder'[u] = holder[u]
  BY <1>1, <1>2 DEF LoopTyped
<1>4. left' \in [Threads -> Nat] /\ left'[t] = left[t] - 1
      /\ \A u \in Threads \ {t} : left'[u] = left[u]
  BY <1>1, <1>2 DEF LoopTyped
<1>5. \A u \in Threads : holder'[u] \in Seq(Held(u)) /\ left'[u] <= Len(holder'[u])
  BY <1>3, <1>4 DEF LoopTyped
<1>6. /\ DOMAIN pc' = Threads /\ \A u \in Threads \ {t} : pc'[u] = pc[u]
      /\ pc'[t] = "done" \/ pc'[t] = Again(t) \/ (pc'[t] = "handle" /\ left[t] # 1)
  BY <1>1, <1>2 DEF LoopTyped
<1>7. pc'[t] \in PlacesOf(t)
  BY <1>6, ThreadIds DEF PlacesOf, Again
<1>8. \A u \in Threads : pc'[u] \in PlacesOf(u)
  BY <1>6, <1>7 DEF LoopTyped
<1>9. status' \in [Threads -> {"none", "uninit", "init", "finished"}]
  BY <1>1 DEF LoopTyped
<1> QED BY <1>2, <1>3, <1>4, <1>5, <1>6, <1>8, <1>9

\* The threads that may be told something, and what.
LEMMA ToldMessages ==
  /\ Plain("NEW_CONNECTION") \in Told(S) /\ Plain("SHUTDOWN") \in Told(S)
  /\ Plain("REGISTER") \in Told(D) /\ \A t \in Threads : Plain("SHUTDOWN") \in Told(t)
BY ThreadIds DEF Told

\* A control message is pushed.
LEMMA Pushed ==
  ASSUME LoopTyped, NEW t \in Threads, NEW m \in Told(t), Push(t, m)
  PROVE  DOMAIN ctrl' = Threads /\ \A u \in Threads : ctrl'[u] \in Seq(Told(u))
<1>1. PICK o \in Seq(Told(t)) : o = <<m>>
  BY One
<1>2. PICK c \in Seq(Told(t)) : c = ctrl[t]
  BY DEF LoopTyped
<1>3. o \o c \in Seq(Told(t))
  BY ConcatProperties
<1>4. ctrl' = [ctrl EXCEPT ![t] = o \o c]
  BY <1>1, <1>2 DEF Push
<1>5. PICK x \in Seq(Told(t)) : x = o \o c
  BY <1>3
<1> QED BY <1>4, <1>5 DEF LoopTyped

\* A control message is popped.
LEMMA Popped ==
  ASSUME LoopTyped, NEW t \in Threads, ctrl[t] # << >>, ctrl' = [ctrl EXCEPT ![t] = Tail(@)]
  PROVE  /\ DOMAIN ctrl' = Threads /\ \A u \in Threads : ctrl'[u] \in Seq(Told(u))
         /\ Head(ctrl[t]) \in Told(t)
<1>1. PICK c \in Seq(Told(t)) : c = ctrl[t]
  BY DEF LoopTyped
<1>2. Tail(c) \in Seq(Told(t)) /\ Head(c) \in Told(t)
  BY <1>1, Split
<1>3. PICK x \in Seq(Told(t)) : x = Tail(c)
  BY <1>2
<1>4. ctrl' = [ctrl EXCEPT ![t] = x]
  BY <1>1, <1>3
<1> QED BY <1>1, <1>2, <1>4 DEF LoopTyped

\* Every step keeps the types of the control messages.
LEMMA CtrlStep ==
  ASSUME LoopTyped, [Next]_vars
  PROVE  DOMAIN ctrl' = Threads /\ \A t \in Threads : ctrl'[t] \in Seq(Told(t))
<1>1. CASE UNCHANGED ctrl
  BY <1>1 DEF LoopTyped
<1>2. ASSUME NEW t \in Threads, Pop(t)
      PROVE  DOMAIN ctrl' = Threads /\ \A u \in Threads : ctrl'[u] \in Seq(Told(u))
  <2>1. CASE ctrl[t] # << >>
    <3>1. ctrl' = [ctrl EXCEPT ![t] = Tail(@)]
      BY <1>2, <2>1 DEF Pop
    <3> QED BY <2>1, <3>1, Popped
  <2>2. CASE ctrl[t] = << >>
    BY <1>1, <1>2, <2>2 DEF Pop
  <2> QED BY <2>1, <2>2
<1>3. CASE Connect
  BY <1>3, Pushed, ToldMessages, ThreadIds DEF Connect
<1>4. CASE CloseC
  <2>1. UNCHANGED ctrl \/ (ctrl[C] # << >> /\ ctrl' = [ctrl EXCEPT ![C] = Tail(@)])
    BY <1>4 DEF CloseC
  <2> QED BY <1>1, <2>1, Popped, ThreadIds
<1>5. CASE AskShutdown
  BY <1>5, Pushed, ToldMessages, ThreadIds DEF AskShutdown
<1>6. CASE NewConnection
  BY <1>6, Pushed, ToldMessages, ThreadIds DEF NewConnection
<1>7. CASE Tell
  <2>1. CASE Running(next)
    <3>1. next \in Threads /\ Push(next, Plain("SHUTDOWN"))
      BY <1>7, <2>1 DEF Tell, Running
    <3> QED BY <3>1, Pushed, ToldMessages
  <2>2. CASE ~Running(next)
    BY <1>1, <1>7, <2>2 DEF Tell
  <2> QED BY <2>1, <2>2
<1>8. CASE UNCHANGED vars
  BY <1>1, <1>8 DEF vars, loop
<1>9. CASE NextC
  <2>1. Connect \/ CloseC \/ UNCHANGED ctrl
    BY <1>9 DEF NextC, Start, Capture, SendCaplets, GetFreeMsg, SendLastCaplets, CloseDBPhoton,
                Close, ClosedDBPhoton, loop
  <2> QED BY <1>1, <1>3, <1>4, <2>1
<1>10. CASE NextD
  <2>1. Pop(D) \/ UNCHANGED ctrl
    BY <1>10 DEF NextD, Poll, Start, Recv, SpawnIO, RegisterPhoton, WriteCaplets, AddCaplet,
         AddToNextPage, SendPage, WroteCaplets, ShutdownD, CloseD, SendLastPage, CloseIOPhoton,
         Close, ClosedIOPhoton, MarkThreadAsFree, loop
  <2> QED BY <1>1, <1>2, <2>1, ThreadIds
<1>11. CASE NextIO
  <2>1. Pop(IO) \/ UNCHANGED ctrl
    BY <1>11 DEF NextIO, Poll, Start, Recv, WritePage, ShutdownIO, CloseIO
  <2> QED BY <1>1, <1>2, <2>1, ThreadIds
<1>12. CASE NextS
  <2>1. Pop(S) \/ NewConnection \/ Tell \/ UNCHANGED ctrl
    BY <1>12 DEF NextS, HandleShutdown, ToldAll, Join, JoinedAll, loop
  <2> QED BY <1>1, <1>2, <1>6, <1>7, <2>1, ThreadIds
<1> QED BY <1>5, <1>8, <1>9, <1>10, <1>11, <1>12 DEF Next

\* Each of the two readers, and its photon.
Reads(t, p) == (t = D /\ p = "cap") \/ (t = IO /\ p = "io")

\* D uses a photon of its own whenever it does anything with it, and nobody
\* receives from another one than that it is meant to read.
LEMMA OwnPhoton ==
  ASSUME Pooling
  PROVE  /\ pc[D] \in {"add", "sendPage", "lastPage", "close", "drain", "free"} => phToIO = "io"
         /\ Spawned => phToIO \in Photons /\ (~Reused => phToIO = "io")
         /\ pc[IO] # "none" => Spawned
         /\ \A t \in {D, IO} : \A p \in Polled(t) :
              pc[t] = "recv" /\ CanReceive(channel[p]) => Reads(t, p)
<1>1. Spawned => phToIO \in Photons /\ (~Reused => phToIO = "io")
  BY DEF Pooling, Photons, Reused
<1>2. pc[IO] # "none" => Spawned
  BY DEF Pooling, Unborn
<1>3. pc[D] \in {"add", "sendPage", "lastPage", "close", "drain", "free"} => Spawned /\ ~Reused
  BY DEF Pooling, Stuck, Spawned
<1>4. ~CanReceive(NewChannel)
  BY DEF CanReceive, NewChannel, NextRead
<1>5. ASSUME NEW p \in Polled(IO), pc[IO] = "recv", CanReceive(channel[p])
      PROVE  p = "io"
  <2>1. p = phToIO /\ Spawned
    BY <1>2, <1>5 DEF Polled
  <2>2. CASE Reused
    BY <1>4, <1>5, <2>1, <2>2 DEF Pooling, Stuck, Reused
  <2> QED BY <1>1, <2>1, <2>2
<1>6. Polled(D) \subseteq {"cap"}
  BY ThreadIds DEF Polled
<1> QED BY <1>1, <1>2, <1>3, <1>5, <1>6, ThreadIds DEF Reads

\* The photon D gets.
LEMMA Gotten ==
  ASSUME Pooling, SpawnIO
  PROVE  /\ phToIO' \in Photons /\ isConnected' = isConnected \cup {phToIO'}
         /\ phToIO' = "io" => NewPhoton
         /\ phToIO' = "cap" => PooledPhoton /\ "cap" \in pool
<1>1. ~Spawned
  BY DEF SpawnIO, Spawned
<1>2. pool \subseteq {"cap"}
  BY <1>1 DEF Pooling, Unborn
<1> QED BY <1>2 DEF SpawnIO, NewPhoton, PooledPhoton, Photons

\* Every step keeps the types of stop and isConnected.
LEMMA StopStep ==
  ASSUME LoopTyped, Pooling, [Next]_vars
  PROVE  stop' \subseteq Threads /\ isConnected' \subseteq Photons
<1> USE DEF LoopTyped
<1>1. CASE UNCHANGED vars
  BY <1>1 DEF vars, loop, photons
<1>2. CASE NextC
  BY <1>2, ThreadIds DEF NextC, Start, Connect, Capture, SendCaplets, GetFreeMsg, CloseC,
       SendLastCaplets, CloseDBPhoton, Close, ClosedDBPhoton, Drained, loop, photons, Photons
<1>3. CASE NextD
  <2>1. CASE SpawnIO
    BY <2>1, Gotten DEF SpawnIO
  <2>2. CASE ~SpawnIO
    BY <1>3, <2>2, ThreadIds DEF NextD, Poll, Start, Recv, Pop, RegisterPhoton, WriteCaplets,
       AddCaplet, AddToNextPage, SendPage, WroteCaplets, ShutdownD, CloseD, SendLastPage,
       CloseIOPhoton, Close, ClosedIOPhoton, Drained, MarkThreadAsFree, Handled, Defer, loop,
       photons, Photons
  <2> QED BY <2>1, <2>2
<1>4. CASE NextIO
  BY <1>4, ThreadIds DEF NextIO, Poll, Start, Recv, Pop, WritePage, ShutdownIO, CloseIO, Handled,
       LastHandled, Defer, photons
<1>5. CASE NextS
  BY <1>5, ThreadIds DEF NextS, Pop, NewConnection, HandleShutdown, Tell, ToldAll, Join, JoinedAll,
       LastHandled, loop, photons
<1>6. CASE AskShutdown
  BY <1>6 DEF AskShutdown, photons
<1> QED BY <1>1, <1>2, <1>3, <1>4, <1>5, <1>6 DEF Next

\* The messages in a channel, by who reads it.
MessagesOf(p) == IF p = "cap" THEN CapMessages ELSE IOMessages

\* What is received was sent.
LEMMA Receives ==
  ASSUME Channels, NEW p \in Photons, CanReceive(channel[p])
  PROVE  /\ Received(channel[p]) \in MessagesOf(p) /\ Sound(Receive(channel[p]), MessagesOf(p))
         /\ Sent(Receive(channel[p])) \in Seq(MessagesOf(p))
         /\ Sent(channel[p]) = <<Received(channel[p])>> \o Sent(Receive(channel[p]))
<1>1. PICK ch : ch = channel[p]
  OBVIOUS
<1>2. Sound(ch, MessagesOf(p))
  BY <1>1 DEF Channels, MessagesOf, Photons
<1>3. CanReceive(ch)
  BY <1>1
<1>4. /\ Received(ch) \in MessagesOf(p) /\ Sound(Receive(ch), MessagesOf(p))
      /\ Sent(Receive(ch)) \in Seq(MessagesOf(p))
      /\ Sent(ch) = <<Received(ch)>> \o Sent(Receive(ch))
  BY <1>2, <1>3, ReceiveSound
<1> QED BY <1>1, <1>4

\* The type of holder.
HolderTyped == /\ DOMAIN holder = Threads /\ \A t \in Threads : holder[t] \in Seq(Held(t))
               /\ left \in [Threads -> Nat] /\ \A t \in Threads : left[t] <= Len(holder[t])

\* A message is put at the end of the holder.
LEMMA HolderAppend ==
  ASSUME LoopTyped, NEW t \in Threads, NEW m \in Held(t),
         holder' = [holder EXCEPT ![t] = Append(@, m)], UNCHANGED left
  PROVE  HolderTyped'
<1>1. PICK h \in Seq(Held(t)) : h = holder[t]
  BY DEF LoopTyped
<1>2. PICK x \in Seq(Held(t)) : x = Append(h, m) /\ Len(x) = Len(h) + 1 /\ Len(h) \in Nat
  <2>1. Append(h, m) \in Seq(Held(t)) /\ Len(Append(h, m)) = Len(h) + 1 /\ Len(h) \in Nat
    BY Appended
  <2> QED BY <2>1
<1>3. holder' = [holder EXCEPT ![t] = x]
  BY <1>1, <1>2
<1>4. left[t] <= Len(x) /\ left[t] \in Nat
  BY <1>1, <1>2 DEF LoopTyped
<1> QED BY <1>3, <1>4 DEF LoopTyped, HolderTyped

\* A thread goes to one of its places.
LEMMA PcOf ==
  ASSUME LoopTyped, NEW t \in Threads, NEW at \in PlacesOf(t), Goto(t, at)
  PROVE  /\ DOMAIN pc' = Threads /\ \A u \in Threads : pc'[u] \in PlacesOf(u)
         /\ pc'[t] = at /\ \A u \in Threads \ {t} : pc'[u] = pc[u]
BY DEF LoopTyped, Goto

\* The types of what the loop of a thread changes.
PollTyped == /\ HolderTyped
             /\ status \in [Threads -> {"none", "uninit", "init", "finished"}]
             /\ DOMAIN pc = Threads /\ \A t \in Threads : pc[t] \in PlacesOf(t)

\* Recv keeps them.
LEMMA RecvTyped ==
  ASSUME LoopTyped, Channels, Pooling, NEW t \in {D, IO}, Recv(t)
  PROVE  PollTyped'
<1>1. t \in Threads /\ "pop" \in PlacesOf(t)
  BY ThreadIds DEF PlacesOf
<1>2. CASE UNCHANGED pc
  <2>1. CASE \E p \in Polled(t) : CanReceive(channel[p])
             /\ holder' = [holder EXCEPT ![t] = Append(@, Received(channel[p]))]
    <3>1. PICK p \in Polled(t) : CanReceive(channel[p])
             /\ holder' = [holder EXCEPT ![t] = Append(@, Received(channel[p]))]
      BY <2>1
    <3>2. p \in Photons /\ MessagesOf(p) \subseteq Held(t)
      <4>1. pc[t] = "recv"
        BY Recv(t) DEF Recv
      <4>2. Reads(t, p)
        BY <3>1, <4>1, OwnPhoton
      <4> QED BY <4>2, MessageSets, ThreadIds DEF Reads, MessagesOf, Photons
    <3>3. PICK m \in Held(t) : m = Received(channel[p])
      BY <3>1, <3>2, Receives
    <3>4. holder' = [holder EXCEPT ![t] = Append(@, m)] /\ UNCHANGED left
      BY <1>1, <3>1, <3>3, Recv(t) DEF Recv
    <3>5. HolderTyped'
      BY <1>1, <3>4, HolderAppend
    <3> QED BY <1>2, <3>5, Recv(t) DEF Recv, PollTyped, LoopTyped
  <2>2. CASE UNCHANGED holder
    BY <1>2, <2>2, Recv(t) DEF Recv, PollTyped, HolderTyped, LoopTyped
  <2> QED BY <2>1, <2>2, Recv(t) DEF Recv
<1>3. CASE Goto(t, "pop") /\ UNCHANGED holder
  <2>1. DOMAIN pc' = Threads /\ \A u \in Threads : pc'[u] \in PlacesOf(u)
    BY <1>1, <1>3, PcOf
  <2> QED BY <1>3, <2>1, Recv(t) DEF Recv, PollTyped, HolderTyped, LoopTyped
<1> QED BY <1>2, <1>3, Recv(t) DEF Recv

\* Pop keeps them.
LEMMA PopTyped ==
  ASSUME LoopTyped, NEW t \in {S, D, IO}, Pop(t)
  PROVE  PollTyped'
<1>1. t \in Threads /\ {"handle", Again(t)} \subseteq PlacesOf(t)
  BY ThreadIds DEF PlacesOf, Again
<1>2. CASE ctrl[t] # << >>
  <2>1. PICK m : m = Head(ctrl[t])
    OBVIOUS
  <2>2. m \in Held(t)
    <3>1. ctrl' = [ctrl EXCEPT ![t] = Tail(@)]
      BY <1>2, Pop(t) DEF Pop
    <3> QED BY <1>1, <1>2, <2>1, <3>1, Popped, MessageSets
  <2>3. holder' = [holder EXCEPT ![t] = Append(@, m)] /\ UNCHANGED left
    BY <1>1, <1>2, <2>1, Pop(t) DEF Pop
  <2>4. HolderTyped'
    BY <1>1, <2>2, <2>3, HolderAppend
  <2> QED BY <1>2, <2>4, Pop(t) DEF Pop, PollTyped, LoopTyped
<1>3. CASE ctrl[t] = << >>
  <2>1. Len(holder[t]) \in Nat
    BY <1>1, LenProperties DEF LoopTyped
  <2>2. left' = [left EXCEPT ![t] = Len(holder[t])] /\ UNCHANGED holder
    BY <1>3, Pop(t) DEF Pop
  <2>3. HolderTyped'
    BY <1>1, <2>1, <2>2 DEF HolderTyped, LoopTyped
  <2>4. Goto(t, Again(t)) \/ Goto(t, "handle")
    BY <1>3, Pop(t) DEF Pop
  <2>5. DOMAIN pc' = Threads /\ \A u \in Threads : pc'[u] \in PlacesOf(u)
    BY <1>1, <2>4, PcOf
  <2> QED BY <1>3, <2>3, <2>5, Pop(t) DEF Pop, PollTyped, LoopTyped
<1> QED BY <1>2, <1>3

\* A thread that handles a message has one.
LEMMA BusyLeft ==
  ASSUME LoopTyped, WalkD
  PROVE  /\ \A t \in {S, D, IO} : pc[t] = "handle" => left[t] >= 1
         /\ pc[D] \in {"add", "sendPage", "lastPage", "close", "drain", "free"} => left[D] >= 1
         /\ pc[S] \in {"tell", "join"} => left[S] >= 1
BY DEF WalkD, Busy

\* A handler that is done keeps them.
LEMMA HandledTyped ==
  ASSUME LoopTyped, NEW t \in {S, D, IO}, left[t] >= 1, pc[t] # "done",
         Handled(t) \/ LastHandled(t) \/ Defer(t)
  PROVE  /\ PollTyped'
         /\ pc'[t] = "done" \/ pc'[t] = Again(t) \/ (pc'[t] = "handle" /\ left'[t] >= 1)
         /\ \A u \in Threads \ {t} : pc'[u] = pc[u] /\ left'[u] = left[u] /\ holder'[u] = holder[u]
         /\ (Handled(t) \/ LastHandled(t)) => holder'[t] = Tail(holder[t])
         /\ Defer(t) => holder'[t] = Append(Tail(holder[t]), Head(holder[t]))
<1>1. t \in Threads
  BY ThreadIds
<1>2. PICK h, r, a : h = holder[t] /\ r = Tail(h) /\ a = Append(r, Head(h))
  OBVIOUS
<1>3. /\ r \in Seq(Held(t)) /\ a \in Seq(Held(t)) /\ Len(r) = Len(h) - 1 /\ Len(a) = Len(h)
      /\ Len(h) \in Nat /\ left[t] <= Len(h) /\ left[t] \in Nat
  BY <1>1, <1>2, HeadHeld
<1>4. Len(r) >= left[t] - 1 /\ Len(a) >= left[t] - 1
  BY <1>3
<1>5. CASE Handled(t) \/ LastHandled(t)
  <2>1. NextMessage(t, r)
    BY <1>2, <1>5 DEF Handled, LastHandled
  <2>2. PollTyped' /\ holder'[t] = r
        /\ (pc'[t] = "done" \/ pc'[t] = Again(t) \/ (pc'[t] = "handle" /\ left'[t] >= 1))
        /\ \A u \in Threads \ {t} : pc'[u] = pc[u] /\ left'[u] = left[u] /\ holder'[u] = holder[u]
    BY <1>3, <1>4, <2>1, NextOne DEF PollTyped, HolderTyped
  <2>3. Defer(t) => holder'[t] = a
    <3>1. Defer(t) => NextMessage(t, a)
      BY <1>2 DEF Defer
    <3> QED BY <1>3, <1>4, <3>1, NextOne
  <2> QED BY <1>2, <2>2, <2>3
<1>6. CASE Defer(t)
  <2>1. NextMessage(t, a)
    BY <1>2, <1>6 DEF Defer
  <2>2. PollTyped' /\ holder'[t] = a
        /\ (pc'[t] = "done" \/ pc'[t] = Again(t) \/ (pc'[t] = "handle" /\ left'[t] >= 1))
        /\ \A u \in Threads \ {t} : pc'[u] = pc[u] /\ left'[u] = left[u] /\ holder'[u] = holder[u]
    BY <1>3, <1>4, <2>1, NextOne DEF PollTyped, HolderTyped
  <2>3. (Handled(t) \/ LastHandled(t)) => holder'[t] = r
    <3>1. (Handled(t) \/ LastHandled(t)) => NextMessage(t, r)
      BY <1>2 DEF Handled, LastHandled
    <3> QED BY <1>3, <1>4, <3>1, NextOne
  <2> QED BY <1>2, <2>2, <2>3
<1> QED BY <1>5, <1>6

\* A thread goes to another place; nothing else of the loop is touched but its
\* status.
Moves(t, at) ==
  /\ Goto(t, at) /\ UNCHANGED <<holder, left>>
  /\ \/ UNCHANGED status
     \/ \E s \in {"init", "finished"} : status' = [status EXCEPT ![t] = s]

\* So does a step that changes a place and a status only, ...
LEMMA MovesTyped ==
  ASSUME LoopTyped, NEW t \in Threads, NEW at \in PlacesOf(t), Moves(t, at)
  PROVE  PollTyped'
<1>1. DOMAIN pc' = Threads /\ \A u \in Threads : pc'[u] \in PlacesOf(u)
  BY PcOf DEF Moves
<1>2. status' \in [Threads -> {"none", "uninit", "init", "finished"}]
  BY DEF Moves, LoopTyped
<1> QED BY <1>1, <1>2 DEF Moves, PollTyped, HolderTyped, LoopTyped

\* ... and one that changes nothing of a loop.
LEMMA StayTyped ==
  ASSUME LoopTyped, UNCHANGED <<status, pc, holder, left>>
  PROVE  PollTyped'
BY DEF PollTyped, HolderTyped, LoopTyped

\* What the steps of C change of the loops.
LEMMA MovesC ==
  ASSUME LoopTyped, NextC
  PROVE  \/ UNCHANGED <<status, pc, holder, left>>
         \/ \E at \in PlacesOf(C) : Moves(C, at)
<1>1. PlacesOf(C) = {"start", "connect", "idle", "getFree", "lastCaplets", "close", "drain", "done"}
  BY ThreadIds DEF PlacesOf
<1>2. ASSUME NEW at, status' = [status EXCEPT ![C] = IF at THEN "finished" ELSE @]
      PROVE  UNCHANGED status \/ status' = [status EXCEPT ![C] = "finished"]
  BY <1>2, ThreadIds DEF LoopTyped
<1>3. CASE Start(C)
  <2>1. Moves(C, "connect")
    BY <1>3, ThreadIds DEF Start, Moves
  <2> QED BY <1>1, <2>1
<1>4. CASE CloseC
  <2>1. Moves(C, "done") \/ Moves(C, "lastCaplets")
    BY <1>2, <1>4 DEF CloseC, Moves
  <2> QED BY <1>1, <2>1
<1>5. CASE ClosedDBPhoton
  <2>1. Moves(C, "done") \/ Moves(C, "idle")
    BY <1>2, <1>5 DEF ClosedDBPhoton, Moves
  <2> QED BY <1>1, <2>1
<1>6. CASE Capture
  BY <1>6 DEF Capture, loop
<1>7. CASE Connect \/ SendCaplets \/ GetFreeMsg \/ SendLastCaplets \/ CloseDBPhoton
  <2>1. Moves(C, "idle") \/ Moves(C, "getFree") \/ Moves(C, "close") \/ Moves(C, "drain")
    BY <1>7 DEF Connect, SendCaplets, GetFreeMsg, SendLastCaplets, CloseDBPhoton, Close, Moves
  <2> QED BY <1>1, <2>1
<1> QED BY <1>3, <1>4, <1>5, <1>6, <1>7 DEF NextC

\* What a step of D is for its loop.
LEMMA MovesD ==
  ASSUME LoopTyped, NextD
  PROVE  \/ UNCHANGED <<status, pc, holder, left>>
         \/ \E at \in PlacesOf(D) : Moves(D, at) /\ (at = "spawn" \/ Busy(D))
         \/ Recv(D) \/ Pop(D) \/ SpawnIO
         \/ /\ pc[D] \in {"handle", "add", "free"}
            /\ Handled(D) \/ LastHandled(D) \/ Defer(D)
<1>1. PlacesOf(D) = {"none", "start", "spawn", "recv", "pop", "handle", "add", "sendPage",
                     "lastPage", "close", "drain", "free", "done"}
  BY ThreadIds DEF PlacesOf
<1>2. CASE Start(D)
  <2>1. Moves(D, "spawn")
    BY <1>2, ThreadIds DEF Start, Moves
  <2> QED BY <1>1, <2>1
<1>3. CASE Recv(D) \/ Pop(D) \/ SpawnIO
  BY <1>3
<1>4. CASE WriteCaplets
  <2>1. (Moves(D, "add") /\ Busy(D)) \/ (pc[D] = "handle" /\ Handled(D))
    BY <1>4 DEF WriteCaplets, Handling, Moves, Busy
  <2> QED BY <1>1, <2>1
<1>5. CASE ShutdownD
  <2>1. (Moves(D, "lastPage") /\ Busy(D)) \/ (pc[D] = "handle" /\ Defer(D))
    BY <1>5 DEF ShutdownD, Handling, Moves, Busy
  <2> QED BY <1>1, <2>1
<1>6. CASE RegisterPhoton \/ WroteCaplets \/ MarkThreadAsFree
  BY <1>6 DEF RegisterPhoton, WroteCaplets, MarkThreadAsFree, Handling
<1>7. CASE AddCaplet
  BY <1>7 DEF AddCaplet, loop
<1>8. CASE AddToNextPage \/ SendPage \/ CloseD
  <2>1. Busy(D) /\ (Moves(D, "sendPage") \/ Moves(D, "add") \/ Moves(D, "lastPage"))
    BY <1>8 DEF AddToNextPage, SendPage, CloseD, Handling, Moves, Busy
  <2> QED BY <1>1, <2>1
<1>9. CASE SendLastPage \/ CloseIOPhoton \/ ClosedIOPhoton
  <2>1. Busy(D) /\ (Moves(D, "close") \/ Moves(D, "free") \/ Moves(D, "drain"))
    BY <1>9 DEF SendLastPage, CloseIOPhoton, Close, ClosedIOPhoton, Drained, Moves, Busy
  <2> QED BY <1>1, <2>1
<1> QED BY <1>2, <1>3, <1>4, <1>5, <1>6, <1>7, <1>8, <1>9 DEF NextD, Poll

\* What the steps of IO change of the loops.
LEMMA MovesIO ==
  ASSUME LoopTyped, NextIO
  PROVE  \/ Moves(IO, "recv")
         \/ Recv(IO) \/ Pop(IO)
         \/ /\ pc[IO] = "handle"
            /\ Handled(IO) \/ LastHandled(IO) \/ Defer(IO)
<1>2. CASE Start(IO)
  BY <1>2, ThreadIds DEF Start, Moves
<1>3. CASE Recv(IO) \/ Pop(IO)
  BY <1>3
<1>4. CASE WritePage \/ ShutdownIO \/ CloseIO
  BY <1>4 DEF WritePage, ShutdownIO, CloseIO, Handling
<1> QED BY <1>2, <1>3, <1>4 DEF NextIO, Poll

\* What the steps of S change of the loops.
LEMMA MovesS ==
  ASSUME LoopTyped, NextS \/ AskShutdown
  PROVE  \/ UNCHANGED <<status, pc, holder, left>>
         \/ \E at \in PlacesOf(S) : Moves(S, at) /\ Busy(S)
         \/ Pop(S) \/ NewConnection
         \/ pc[S] = "join" /\ LastHandled(S)
<1>1. PlacesOf(S) = {"pop", "handle", "tell", "join", "done"}
  BY ThreadIds DEF PlacesOf
<1>2. CASE HandleShutdown \/ ToldAll
  <2>1. Busy(S) /\ (Moves(S, "tell") \/ Moves(S, "join"))
    BY <1>2 DEF HandleShutdown, ToldAll, Handling, Moves, Busy
  <2> QED BY <1>1, <2>1
<1>3. CASE Tell \/ Join \/ AskShutdown
  BY <1>3 DEF Tell, Join, AskShutdown, loop
<1>4. CASE Pop(S) \/ NewConnection
  BY <1>4
<1>5. CASE JoinedAll
  BY <1>5 DEF JoinedAll
<1> QED BY <1>2, <1>3, <1>4, <1>5 DEF NextS

\* NewConnection starts D.
LEMMA NewConnectionTyped ==
  ASSUME LoopTyped, WalkD, NewConnection
  PROVE  /\ PollTyped'
         /\ pc'[D] = "start" /\ pc'[S] \in {"done", "pop", "handle"} /\ pc'[C] = pc[C]
         /\ pc'[IO] = pc[IO] /\ (pc'[S] = "handle" => left'[S] >= 1)
         /\ holder'[S] = Tail(holder[S])
         /\ \A u \in Threads \ {S} : left'[u] = left[u] /\ holder'[u] = holder[u]
<1>1. left[S] >= 1 /\ pc[S] = "handle"
  BY BusyLeft, NewConnection DEF NewConnection, Handling
<1>2. PICK h, r : h = holder[S] /\ r = Tail(h)
  OBVIOUS
<1>3. /\ r \in Seq(Held(S)) /\ Len(r) = Len(h) - 1 /\ Len(h) \in Nat
      /\ left[S] <= Len(h) /\ left[S] \in Nat
  BY <1>1, <1>2, HeadHeld, ThreadIds
<1>4. holder' = [holder EXCEPT ![S] = r] /\ left' = [left EXCEPT ![S] = left[S] - 1]
  BY <1>2, NewConnection DEF NewConnection
<1>5. HolderTyped'
  <2>1. DOMAIN holder = Threads /\ (\A t \in Threads : holder[t] \in Seq(Held(t)))
        /\ left \in [Threads -> Nat] /\ \A t \in Threads : left[t] <= Len(holder[t])
    BY DEF LoopTyped
  <2>2. S \in Threads /\ left[S] - 1 \in Nat /\ left[S] - 1 <= Len(r)
    BY <1>1, <1>3, ThreadIds
  <2>3. DOMAIN holder' = Threads /\ \A t \in Threads : holder'[t] \in Seq(Held(t))
    BY <1>3, <1>4, <2>1, <2>2
  <2>4. left' \in [Threads -> Nat]
    BY <1>4, <2>1, <2>2
  <2>5. \A t \in Threads : left'[t] <= Len(holder'[t])
    BY <1>4, <2>1, <2>2
  <2> QED BY <2>3, <2>4, <2>5 DEF HolderTyped
<1>6. PICK x : /\ pc' = [pc EXCEPT ![D] = "start", ![S] = x]
               /\ x \in {"done", "pop"} \/ (x = pc[S] /\ left[S] # 1)
  <2>1. pc' = [pc EXCEPT ![D] = "start",
                   ![S] = IF left[S] = 1 /\ S \in stop THEN "done"
                          ELSE IF left[S] = 1 THEN "pop" ELSE pc[S]]
    BY NewConnection, ThreadIds DEF NewConnection, LoopTyped
  <2> QED BY <2>1
<1>7. /\ DOMAIN pc' = Threads /\ pc'[D] = "start" /\ pc'[S] = x /\ pc'[C] = pc[C]
      /\ pc'[IO] = pc[IO]
  <2>1. DOMAIN pc = Threads
    BY DEF LoopTyped
  <2>2. D # S /\ C # S /\ C # D /\ IO # S /\ IO # D
        /\ S \in Threads /\ D \in Threads /\ C \in Threads /\ IO \in Threads
    BY ThreadIds
  <2> QED BY <1>6, <2>1, <2>2
<1>8. \A u \in Threads : pc'[u] \in PlacesOf(u)
  BY <1>1, <1>6, <1>7, ThreadIds DEF LoopTyped, PlacesOf
<1>9. status' \in [Threads -> {"none", "uninit", "init", "finished"}]
  <2>1. \E s \in {"none", "uninit", "init", "finished"} :
          status' = [status EXCEPT ![D] = "uninit", ![S] = s]
    <3>1. status' = [status EXCEPT ![D] = "uninit",
                     ![S] = IF left[S] = 1 /\ S \in stop THEN "finished" ELSE status[S]]
      <4>1. D # S
        BY ThreadIds
      <4> QED BY <4>1, NewConnection DEF NewConnection, LoopTyped
    <3>2. status[S] \in {"none", "uninit", "init", "finished"}
      BY ThreadIds DEF LoopTyped
    <3> QED BY <3>1, <3>2
  <2> QED BY <2>1 DEF LoopTyped
<1>10. holder'[S] = r /\ left'[S] = left[S] - 1
       /\ \A u \in Threads \ {S} : left'[u] = left[u] /\ holder'[u] = holder[u]
  BY <1>4, ThreadIds DEF LoopTyped
<1> QED BY <1>1, <1>2, <1>3, <1>5, <1>6, <1>7, <1>8, <1>9, <1>10 DEF PollTyped

\* SpawnIO starts IO.
LEMMA SpawnTyped ==
  ASSUME LoopTyped, SpawnIO
  PROVE  /\ PollTyped' /\ pc'[D] = "recv" /\ pc'[IO] = "start"
         /\ pc'[S] = pc[S] /\ pc'[C] = pc[C]
<1>1. /\ DOMAIN pc' = Threads /\ pc'[D] = "recv" /\ pc'[IO] = "start" /\ pc'[S] = pc[S]
      /\ pc'[C] = pc[C]
  <2>1. DOMAIN pc = Threads /\ pc' = [pc EXCEPT ![D] = "recv", ![IO] = "start"]
    BY SpawnIO DEF SpawnIO, LoopTyped
  <2>2. D # S /\ C # S /\ C # D /\ IO # S /\ IO # D /\ IO # C
        /\ S \in Threads /\ D \in Threads /\ C \in Threads /\ IO \in Threads
    BY ThreadIds
  <2> QED BY <2>1, <2>2
<1>2. \A u \in Threads : pc'[u] \in PlacesOf(u)
  BY <1>1, ThreadIds DEF LoopTyped, PlacesOf
<1>3. status' \in [Threads -> {"none", "uninit", "init", "finished"}]
  BY SpawnIO DEF SpawnIO, LoopTyped
<1> QED BY <1>1, <1>2, <1>3, SpawnIO DEF SpawnIO, PollTyped, HolderTyped, LoopTyped

\* Every step keeps the types of the loops.
LEMMA LoopStep ==
  ASSUME Pooling, LoopTyped, Channels, WalkD, [Next]_vars
  PROVE  LoopTyped'
<1>1. stop' \subseteq Threads /\ isConnected' \subseteq Photons
      /\ DOMAIN ctrl' = Threads /\ \A t \in Threads : ctrl'[t] \in Seq(Told(t))
  BY StopStep, CtrlStep
<1>2. PollTyped'
  <2>1. CASE UNCHANGED vars
    BY <2>1, StayTyped DEF vars, loop
  <2>2. CASE NextC
    BY <2>2, MovesC, MovesTyped, StayTyped, ThreadIds
  <2>3. CASE NextD
    BY <2>3, MovesD, MovesTyped, StayTyped, RecvTyped, PopTyped, SpawnTyped, HandledTyped,
       BusyLeft, ThreadIds
  <2>4. CASE NextIO
    <3>1. "recv" \in PlacesOf(IO)
      BY ThreadIds DEF PlacesOf
    <3> QED BY <2>4, <3>1, MovesIO, MovesTyped, RecvTyped, PopTyped, HandledTyped, BusyLeft, ThreadIds
  <2>5. CASE NextS \/ AskShutdown
    BY <2>5, MovesS, MovesTyped, StayTyped, PopTyped, NewConnectionTyped, HandledTyped,
       BusyLeft, ThreadIds
  <2> QED BY <2>1, <2>2, <2>3, <2>4, <2>5 DEF Next
<1> QED BY <1>1, <1>2 DEF PollTyped, HolderTyped, LoopTyped

-----------------------------------------------------------------------------
(* Channels: every step keeps them sound.                                  *)

\* What a send, a receive and a flush do to the two channels.
LEMMA Sends ==
  ASSUME Channels, NEW p \in Photons, NEW m \in MessagesOf(p), SendTo(p, m)
  PROVE  /\ Channels' /\ Sent(channel'[p]) = Append(Sent(channel[p]), m)
         /\ \A q \in Photons \ {p} : channel'[q] = channel[q]
<1>1. PICK ch, after : ch = channel[p] /\ after = Send(ch, m)
  OBVIOUS
<1>2. Sound(ch, MessagesOf(p)) /\ CanSend(ch)
  BY <1>1 DEF Channels, MessagesOf, Photons, SendTo
<1>3. Sound(after, MessagesOf(p)) /\ Sent(after) = Append(Sent(ch), m)
  BY <1>1, <1>2, SendSound
<1>4. channel' = [channel EXCEPT ![p] = after]
  BY <1>1 DEF SendTo
<1>5. DOMAIN channel' = Photons /\ channel'[p] = after
      /\ \A q \in Photons \ {p} : channel'[q] = channel[q]
  BY <1>4 DEF Channels
<1>6. Channels'
  BY <1>3, <1>5 DEF Channels, MessagesOf, Photons
<1> QED BY <1>1, <1>3, <1>5, <1>6

\* What a flush does to the two channels.
LEMMA Drains ==
  ASSUME Channels, NEW t, NEW p \in Photons, Drained(t, p)
  PROVE  Channels' /\ \A q \in Photons : Sent(channel'[q]) = Sent(channel[q])
<1>1. PICK ch, after : ch = channel[p] /\ after = Flush(ch)
  OBVIOUS
<1>2. Sound(ch, MessagesOf(p))
  BY <1>1 DEF Channels, MessagesOf, Photons
<1>3. Sound(after, MessagesOf(p)) /\ Sent(after) = Sent(ch)
  BY <1>1, <1>2, FlushSound
<1>4. channel' = [channel EXCEPT ![p] = after]
  BY <1>1 DEF Drained
<1>5. DOMAIN channel' = Photons /\ channel'[p] = after
      /\ \A q \in Photons \ {p} : channel'[q] = channel[q]
  BY <1>4 DEF Channels
<1>6. Channels'
  BY <1>3, <1>5 DEF Channels, MessagesOf, Photons
<1> QED BY <1>1, <1>3, <1>5, <1>6

\* What a receive does to the two channels.
LEMMA Gets ==
  ASSUME Channels, NEW p \in Photons, CanReceive(channel[p]),
         channel' = [channel EXCEPT ![p] = Receive(@)]
  PROVE  /\ Channels' /\ Received(channel[p]) \in MessagesOf(p)
         /\ Sent(channel'[p]) \in Seq(MessagesOf(p))
         /\ Sent(channel[p]) = <<Received(channel[p])>> \o Sent(channel'[p])
         /\ \A q \in Photons \ {p} : channel'[q] = channel[q]
<1>1. PICK after : after = Receive(channel[p])
  OBVIOUS
<1>2. /\ Received(channel[p]) \in MessagesOf(p) /\ Sound(after, MessagesOf(p))
      /\ Sent(after) \in Seq(MessagesOf(p))
      /\ Sent(channel[p]) = <<Received(channel[p])>> \o Sent(after)
  BY <1>1, Receives
<1>3. channel' = [channel EXCEPT ![p] = after]
  BY <1>1
<1>4. DOMAIN channel' = Photons /\ channel'[p] = after
      /\ \A q \in Photons \ {p} : channel'[q] = channel[q]
  BY <1>3 DEF Channels
<1>5. Channels'
  BY <1>2, <1>4 DEF Channels, MessagesOf, Photons
<1> QED BY <1>2, <1>4, <1>5

\* The messages that are sent.
LEMMA SentMessages ==
  ASSUME DataTyped
  PROVE  /\ currentDBMessage # None => <<"WRITE", currentDBMessage>> \in MessagesOf("cap")
         /\ currentPage # None => <<"PAGE", currentPage>> \in MessagesOf("io")
         /\ full # None => <<"PAGE", full>> \in MessagesOf("io")
         /\ \A p \in Photons : Plain("CLOSE") \in MessagesOf(p)
         /\ "cap" \in Photons /\ "io" \in Photons
BY DEF DataTyped, MessagesOf, CapMessages, IOMessages, Photons

\* A step leaves the channels alone, or sends, flushes or receives in one, or
\* resets one.
ChannelMove ==
  \/ UNCHANGED channel
  \/ \E p \in Photons : channel' = [channel EXCEPT ![p] = NewChannel]
  \/ \E p \in Photons : \E m \in MessagesOf(p) : SendTo(p, m)
  \/ \E p \in Photons : \E t \in Threads : Drained(t, p)
  \/ \E p \in Photons : CanReceive(channel[p]) /\ channel' = [channel EXCEPT ![p] = Receive(@)]

\* A step sends, receives, flushes or resets, in one channel.
LEMMA ChannelMoves ==
  ASSUME DataTyped, WalkD, Pooling, [Next]_vars
  PROVE  ChannelMove
<1>1. CASE UNCHANGED channel
  BY <1>1 DEF ChannelMove
<1>2. CASE NextC
  <2>1. CASE SendCaplets \/ SendLastCaplets
    <3>1. UNCHANGED channel \/ (currentDBMessage # None /\ SendTo("cap", <<"WRITE", currentDBMessage>>))
      BY <2>1 DEF SendCaplets, SendLastCaplets, NoRoom
    <3> QED BY <1>1, <3>1, SentMessages DEF ChannelMove
  <2>2. CASE CloseDBPhoton
    <3>1. SendTo("cap", Plain("CLOSE"))
      BY <2>2 DEF CloseDBPhoton, Close
    <3> QED BY <3>1, SentMessages DEF ChannelMove
  <2>3. CASE ClosedDBPhoton
    BY <2>3, SentMessages, ThreadIds DEF ClosedDBPhoton, ChannelMove
  <2>4. CASE Start(C) \/ Connect \/ Capture \/ GetFreeMsg \/ CloseC
    BY <1>1, <2>4 DEF Start, Connect, Capture, GetFreeMsg, CloseC, photons
  <2> QED BY <1>2, <2>1, <2>2, <2>3, <2>4 DEF NextC
<1>3. ASSUME NEW t \in {D, IO}, Recv(t) PROVE ChannelMove
  <2>1. CASE \E p \in Polled(t) : /\ CanReceive(channel[p])
                                  /\ channel' = [channel EXCEPT ![p] = Receive(@)]
    <3>1. PICK p \in Polled(t) : /\ CanReceive(channel[p])
                                 /\ channel' = [channel EXCEPT ![p] = Receive(@)]
      BY <2>1
    <3>2. pc[t] = "recv"
      BY <1>3 DEF Recv
    <3>3. p \in Photons
      BY <3>1, <3>2, OwnPhoton DEF Reads, Photons
    <3> QED BY <3>1, <3>3 DEF ChannelMove
  <2>2. CASE UNCHANGED channel
    BY <1>1, <2>2
  <2> QED BY <1>3, <2>1, <2>2 DEF Recv
<1>4. CASE NextD
  <2>1. CASE SendPage
    <3>1. full # None /\ SendTo("io", <<"PAGE", full>>)
      BY <2>1, OwnPhoton DEF SendPage, WalkD
    <3> QED BY <3>1, SentMessages DEF ChannelMove
  <2>2. CASE SendLastPage
    <3>1. UNCHANGED channel \/ (currentPage # None /\ SendTo("io", <<"PAGE", currentPage>>))
      BY <2>2, OwnPhoton DEF SendLastPage
    <3> QED BY <1>1, <3>1, SentMessages DEF ChannelMove
  <2>3. CASE CloseIOPhoton
    <3>1. SendTo("io", Plain("CLOSE"))
      BY <2>3, OwnPhoton DEF CloseIOPhoton, Close
    <3> QED BY <3>1, SentMessages DEF ChannelMove
  <2>4. CASE ClosedIOPhoton
    <3>1. Drained(D, "io")
      BY <2>4, OwnPhoton DEF ClosedIOPhoton, Drained
    <3> QED BY <3>1, SentMessages, ThreadIds DEF ChannelMove
  <2>5. CASE Recv(D)
    BY <1>3, <2>5
  <2>6. CASE Start(D) \/ Pop(D) \/ RegisterPhoton \/ WriteCaplets \/ AddCaplet
    BY <1>1, <2>6 DEF Start, Pop, RegisterPhoton, WriteCaplets, AddCaplet, photons
  <2>7. CASE AddToNextPage \/ WroteCaplets \/ ShutdownD \/ CloseD \/ MarkThreadAsFree
    BY <1>1, <2>7 DEF AddToNextPage, WroteCaplets, ShutdownD, CloseD, MarkThreadAsFree, photons
  <2>8. CASE SpawnIO
    BY <2>8, Gotten DEF NewPhoton, PooledPhoton, ChannelMove, Photons
  <2> QED BY <1>4, <2>1, <2>2, <2>3, <2>4, <2>5, <2>6, <2>7, <2>8 DEF NextD, Poll
<1>5. CASE NextIO
  <2>1. Recv(IO) \/ UNCHANGED channel
    BY <1>5 DEF NextIO, Poll, Start, Pop, WritePage, ShutdownIO, CloseIO, photons
  <2> QED BY <1>1, <1>3, <2>1
<1>6. CASE NextS \/ AskShutdown
  BY <1>1, <1>6 DEF NextS, Pop, NewConnection, HandleShutdown, Tell, ToldAll, Join, JoinedAll,
     AskShutdown, photons
<1>7. CASE UNCHANGED vars
  BY <1>1, <1>7 DEF vars, photons
<1> QED BY <1>2, <1>4, <1>5, <1>6, <1>7 DEF Next

\* A new channel is sound.
LEMMA NewSound == ASSUME NEW M PROVE Sound(NewChannel, M)
<1>1. NewChannel.arrays = << >> /\ ~NewChannel.produced /\ ~NewChannel.consumed
  BY DEF NewChannel
<1>2. << >> \in Seq(Seq(M)) /\ Len(<< >>) = 0 /\ Len(<< >>) <= NQueues
  BY QueueAssumption
<1>3. \A i \in 1 .. 0 - 1 : FALSE
  OBVIOUS
<1>4. NewChannel.produced \in BOOLEAN /\ NewChannel.consumed \in BOOLEAN
      /\ DOMAIN NewChannel = {"arrays", "produced", "consumed"}
  BY DEF NewChannel
<1> QED BY <1>1, <1>2, <1>3, <1>4 DEF Sound

\* Every step keeps the channels sound.
LEMMA ChannelStep ==
  ASSUME DataTyped, Channels, WalkD, Pooling, [Next]_vars
  PROVE  Channels'
<1>1. CASE UNCHANGED channel
  BY <1>1 DEF Channels
<1>2. ASSUME NEW p \in Photons, NEW m \in MessagesOf(p), SendTo(p, m) PROVE Channels'
  BY <1>2, Sends
<1>3. ASSUME NEW p \in Photons, NEW t \in Threads, Drained(t, p) PROVE Channels'
  BY <1>3, Drains
<1>4. ASSUME NEW p \in Photons, CanReceive(channel[p]), channel' = [channel EXCEPT ![p] = Receive(@)]
      PROVE  Channels'
  BY <1>4, Gets
<1>5. ASSUME NEW p \in Photons, channel' = [channel EXCEPT ![p] = NewChannel] PROVE Channels'
  BY <1>5, NewSound DEF Channels, Photons
<1> QED BY <1>1, <1>2, <1>3, <1>4, <1>5, ChannelMoves DEF ChannelMove

-----------------------------------------------------------------------------
(* What the workers read.                                                  *)

\* WRITE, WRITE and CLOSE, PAGE, PAGE and CLOSE.
W == IdIf({"WRITE"})
WX == IdIf({"WRITE", "CLOSE"})
P == IdIf({"PAGE"})
PX == IdIf({"PAGE", "CLOSE"})

\* UC, UCX, UP and UPX are what is seen of a holder and a channel.
LEMMA Views ==
  /\ UC = Seen(W, holder[D], Sent(channel["cap"])) /\ UCX = Seen(WX, holder[D], Sent(channel["cap"]))
  /\ UP = Seen(P, holder[IO], Sent(channel["io"])) /\ UPX = Seen(PX, holder[IO], Sent(channel["io"]))
BY DEF UC, UCX, UP, UPX, UnhandledCaps, UnhandledPages, Stream, Seen, Sent, W, WX, P, PX

\* The same after a step.
LEMMA ViewsNext ==
  /\ UC' = Seen(W, holder'[D], Sent(channel'["cap"])) /\ UCX' = Seen(WX, holder'[D], Sent(channel'["cap"]))
  /\ UP' = Seen(P, holder'[IO], Sent(channel'["io"])) /\ UPX' = Seen(PX, holder'[IO], Sent(channel'["io"]))
BY DEF UC, UCX, UP, UPX, UnhandledCaps, UnhandledPages, Stream, Seen, Sent, W, WX, P, PX

\* The four maps.
LEMMA ViewMaps ==
  /\ Maps(W, Messages, MsgIds) /\ Maps(WX, Messages, MsgIds)
  /\ Maps(P, Messages, MsgIds) /\ Maps(PX, Messages, MsgIds)
BY IdIfMaps DEF W, WX, P, PX

\* Their values.
LEMMA ViewValues ==
  ASSUME NEW m \in Messages
  PROVE  /\ m[1] = "WRITE" => W[m] = <<m[2]>> /\ WX[m] = <<m[2]>>
         /\ m[1] = "PAGE" => P[m] = <<m[2]>> /\ PX[m] = <<m[2]>>
         /\ m[1] # "WRITE" => W[m] = << >>
         /\ m[1] # "PAGE" => P[m] = << >>
         /\ m[1] = "CLOSE" => WX[m] = <<m[2]>> /\ PX[m] = <<m[2]>>
         /\ m[1] \notin {"WRITE", "CLOSE"} => WX[m] = << >>
         /\ m[1] \notin {"PAGE", "CLOSE"} => PX[m] = << >>
BY IdIfMaps DEF W, WX, P, PX

\* The types of what is seen.
LEMMA ViewTypes ==
  ASSUME LoopTyped, Channels
  PROVE  /\ UC \in Seq(MsgIds) /\ UCX \in Seq(MsgIds)
         /\ UP \in Seq(MsgIds) /\ UPX \in Seq(MsgIds)
<1>1. /\ holder[D] \in Seq(Messages) /\ holder[IO] \in Seq(Messages)
      /\ Sent(channel["cap"]) \in Seq(Messages) /\ Sent(channel["io"]) \in Seq(Messages)
  BY Streams, ThreadIds
<1>2. /\ Seen(W, holder[D], Sent(channel["cap"])) \in Seq(MsgIds)
      /\ Seen(WX, holder[D], Sent(channel["cap"])) \in Seq(MsgIds)
  BY <1>1, ViewMaps, SeenType
<1>3. /\ Seen(P, holder[IO], Sent(channel["io"])) \in Seq(MsgIds)
      /\ Seen(PX, holder[IO], Sent(channel["io"])) \in Seq(MsgIds)
  BY <1>1, ViewMaps, SeenType
<1> QED BY <1>2, <1>3, Views

\* What is left of a stream after its first message.
RestCaps == Seen(W, Tail(holder[D]), Sent(channel["cap"]))
RestCapsX == Seen(WX, Tail(holder[D]), Sent(channel["cap"]))
RestPages == Seen(P, Tail(holder[IO]), Sent(channel["io"]))
RestPagesX == Seen(PX, Tail(holder[IO]), Sent(channel["io"]))

\* Nothing comes before s.
LEMMA SeenNothing == ASSUME NEW T, NEW s \in Seq(T) PROVE << >> \o s = s
BY ConcatEmptySeq

\* What is seen is what f makes of the head, and the rest.
SeenHead(f, h, a, e, r) == Seen(f, h, a) = f[e] \o Seen(f, r, a)

\* It is so for every holder that is not empty.
LEMMA SeenFirst ==
  ASSUME NEW T, NEW U, NEW f, Maps(f, T, U), NEW h \in Seq(T), h # << >>, NEW a \in Seq(T),
         NEW e, e = Head(h), NEW r, r = Tail(h)
  PROVE  SeenHead(f, h, a, e, r)
BY SeenTail DEF SeenHead

\* The rest is a sequence.
LEMMA SeenRest ==
  ASSUME NEW T, NEW U, NEW f, Maps(f, T, U), NEW h \in Seq(T), h # << >>, NEW a \in Seq(T),
         NEW r, r = Tail(h)
  PROVE  Seen(f, r, a) \in Seq(U)
BY SeenTail

\* The first message of D's holder, and what is seen without it.
LEMMA FirstCap ==
  ASSUME LoopTyped, Channels, left[D] >= 1
  PROVE  /\ RestCaps \in Seq(MsgIds) /\ RestCapsX \in Seq(MsgIds)
         /\ Head(holder[D])[1] \in {"WRITE", "CLOSE", "REGISTER", "SHUTDOWN"}
         /\ Head(holder[D])[1] = "WRITE" =>
              /\ Id(D) \in CapIds /\ UC = <<Id(D)>> \o RestCaps /\ UCX = <<Id(D)>> \o RestCapsX
         /\ Head(holder[D])[1] # "WRITE" => UC = RestCaps
         /\ Head(holder[D])[1] = "CLOSE" => UCX = <<None>> \o RestCapsX
         /\ Head(holder[D])[1] \notin {"WRITE", "CLOSE"} => UCX = RestCapsX
<1>1. PICK h, a, e : h = holder[D] /\ a = Sent(channel["cap"]) /\ e = Head(h)
  OBVIOUS
<1>2. h \in Seq(Messages) /\ a \in Seq(Messages) /\ h # << >> /\ e \in Held(D) /\ e \in Messages
  BY <1>1, Streams, HeadHeld, ThreadIds, MessageSets
<1>3. /\ Seen(W, h, a) = W[e] \o Seen(W, Tail(h), a)
      /\ Seen(W, Tail(h), a) \in Seq(MsgIds)
  <2>1. Maps(W, Messages, MsgIds)
    BY ViewMaps
  <2>2. PICK r : r = Tail(h)
    OBVIOUS
  <2>3. SeenHead(W, h, a, e, r)
    BY <1>1, <1>2, <2>1, <2>2, SeenFirst
  <2>4. Seen(W, r, a) \in Seq(MsgIds)
    BY <1>1, <1>2, <2>1, <2>2, SeenRest
  <2> QED BY <2>2, <2>3, <2>4 DEF SeenHead
<1>4. /\ Seen(WX, h, a) = WX[e] \o Seen(WX, Tail(h), a)
      /\ Seen(WX, Tail(h), a) \in Seq(MsgIds)
  <2>1. Maps(WX, Messages, MsgIds)
    BY ViewMaps
  <2>2. PICK r : r = Tail(h)
    OBVIOUS
  <2>3. SeenHead(WX, h, a, e, r)
    BY <1>1, <1>2, <2>1, <2>2, SeenFirst
  <2>4. Seen(WX, r, a) \in Seq(MsgIds)
    BY <1>1, <1>2, <2>1, <2>2, SeenRest
  <2> QED BY <2>2, <2>3, <2>4 DEF SeenHead
<1>5. RestCaps = Seen(W, Tail(h), a) /\ RestCapsX = Seen(WX, Tail(h), a)
  BY <1>1 DEF RestCaps, RestCapsX
<1>6. UC = W[e] \o RestCaps /\ UCX = WX[e] \o RestCapsX
  BY <1>1, <1>3, <1>4, <1>5, Views
<1>7. RestCaps \in Seq(MsgIds) /\ RestCapsX \in Seq(MsgIds)
  BY <1>3, <1>4, <1>5
<1>8. << >> \o RestCaps = RestCaps /\ << >> \o RestCapsX = RestCapsX
  BY <1>7, SeenNothing
<1>9. /\ e[1] \in {"WRITE", "CLOSE", "REGISTER", "SHUTDOWN"}
      /\ e[1] = "WRITE" => e[2] \in CapIds
      /\ e[1] # "WRITE" => e[2] = None
  BY <1>2, HeldD
<1>10. Id(D) = e[2]
  BY <1>1 DEF Id
<1>11. /\ e[1] = "WRITE" => UC = <<e[2]>> \o RestCaps /\ UCX = <<e[2]>> \o RestCapsX
       /\ e[1] # "WRITE" => UC = RestCaps
       /\ e[1] = "CLOSE" => UCX = <<e[2]>> \o RestCapsX
       /\ e[1] \notin {"WRITE", "CLOSE"} => UCX = RestCapsX
  BY <1>2, <1>6, <1>8, ViewValues
<1> QED BY <1>1, <1>7, <1>9, <1>10, <1>11

\* The same for IO.
LEMMA FirstPage ==
  ASSUME LoopTyped, Channels, left[IO] >= 1
  PROVE  /\ RestPages \in Seq(MsgIds) /\ RestPagesX \in Seq(MsgIds)
         /\ Head(holder[IO])[1] \in {"PAGE", "CLOSE", "SHUTDOWN"}
         /\ Head(holder[IO])[1] = "PAGE" =>
              /\ Id(IO) \in PageIds /\ UP = <<Id(IO)>> \o RestPages /\ UPX = <<Id(IO)>> \o RestPagesX
         /\ Head(holder[IO])[1] # "PAGE" => UP = RestPages
         /\ Head(holder[IO])[1] = "CLOSE" => UPX = <<None>> \o RestPagesX
         /\ Head(holder[IO])[1] \notin {"PAGE", "CLOSE"} => UPX = RestPagesX
<1>1. PICK h, a, e : h = holder[IO] /\ a = Sent(channel["io"]) /\ e = Head(h)
  OBVIOUS
<1>2. h \in Seq(Messages) /\ a \in Seq(Messages) /\ h # << >> /\ e \in Held(IO) /\ e \in Messages
  BY <1>1, Streams, HeadHeld, ThreadIds, MessageSets
<1>3. /\ Seen(P, h, a) = P[e] \o Seen(P, Tail(h), a)
      /\ Seen(P, Tail(h), a) \in Seq(MsgIds)
  <2>1. Maps(P, Messages, MsgIds)
    BY ViewMaps
  <2>2. PICK r : r = Tail(h)
    OBVIOUS
  <2>3. SeenHead(P, h, a, e, r)
    BY <1>1, <1>2, <2>1, <2>2, SeenFirst
  <2>4. Seen(P, r, a) \in Seq(MsgIds)
    BY <1>1, <1>2, <2>1, <2>2, SeenRest
  <2> QED BY <2>2, <2>3, <2>4 DEF SeenHead
<1>4. /\ Seen(PX, h, a) = PX[e] \o Seen(PX, Tail(h), a)
      /\ Seen(PX, Tail(h), a) \in Seq(MsgIds)
  <2>1. Maps(PX, Messages, MsgIds)
    BY ViewMaps
  <2>2. PICK r : r = Tail(h)
    OBVIOUS
  <2>3. SeenHead(PX, h, a, e, r)
    BY <1>1, <1>2, <2>1, <2>2, SeenFirst
  <2>4. Seen(PX, r, a) \in Seq(MsgIds)
    BY <1>1, <1>2, <2>1, <2>2, SeenRest
  <2> QED BY <2>2, <2>3, <2>4 DEF SeenHead
<1>5. RestPages = Seen(P, Tail(h), a) /\ RestPagesX = Seen(PX, Tail(h), a)
  BY <1>1 DEF RestPages, RestPagesX
<1>6. UP = P[e] \o RestPages /\ UPX = PX[e] \o RestPagesX
  BY <1>1, <1>3, <1>4, <1>5, Views
<1>7. RestPages \in Seq(MsgIds) /\ RestPagesX \in Seq(MsgIds)
  BY <1>3, <1>4, <1>5
<1>8. << >> \o RestPages = RestPages /\ << >> \o RestPagesX = RestPagesX
  BY <1>7, SeenNothing
<1>9. /\ e[1] \in {"PAGE", "CLOSE", "SHUTDOWN"}
      /\ e[1] = "PAGE" => e[2] \in PageIds
      /\ e[1] # "PAGE" => e[2] = None
  BY <1>2, HeldIO
<1>10. Id(IO) = e[2]
  BY <1>1 DEF Id
<1>11. /\ e[1] = "PAGE" => UP = <<e[2]>> \o RestPages /\ UPX = <<e[2]>> \o RestPagesX
       /\ e[1] # "PAGE" => UP = RestPages
       /\ e[1] = "CLOSE" => UPX = <<e[2]>> \o RestPagesX
       /\ e[1] \notin {"PAGE", "CLOSE"} => UPX = RestPagesX
  BY <1>2, <1>6, <1>8, ViewValues
<1> QED BY <1>1, <1>7, <1>9, <1>10, <1>11

-----------------------------------------------------------------------------
(* Data: every step keeps its types.                                       *)

\* The types of all but the pools and the file.
Scalars ==
  /\ closed \in BOOLEAN /\ currentDBMessage \in CapIds \cup {None}
  /\ currentPage \in PageIds \cup {None} /\ full \in PageIds \cup {None}
  /\ dbm \in {"uninit", "write"} /\ packed \in 0 .. CapRoom
  /\ registered \in BOOLEAN /\ available \in BOOLEAN /\ isOpen \in BOOLEAN
  /\ asked \in BOOLEAN /\ next \in Nat /\ count \in 0 .. 4

\* The types of the pools and the file.
Pools ==
  /\ PoolTyped(capBody, CapIds, capUse, CapRoom)
  /\ PoolTyped(pageBody, PageIds, pageUse, PageRoom)
  /\ captured \in 0 .. MaxCaplets /\ file \in Seq(1 .. captured)

\* Both make DataTyped.
LEMMA DataParts == DataTyped <=> Scalars /\ Pools
BY DEF DataTyped, Scalars, Pools

\* What D packs: the caplets of the message at the head of its holder.
LEMMA Packs ==
  ASSUME LoopTyped, Channels, DataTyped, WalkD, pc[D] = "add"
  PROVE  /\ Id(D) \in CapIds /\ packed \in 0 .. CapRoom /\ packed <= Len(capBody[Id(D)])
         /\ capBody[Id(D)] \in Seq(1 .. captured) /\ Len(capBody[Id(D)]) \in Nat
         /\ Len(capBody[Id(D)]) <= CapRoom
         /\ ~AllPacked => packed + 1 \in 0 .. CapRoom /\ NextCaplet \in 1 .. captured
         /\ currentPage \in PageIds /\ pageBody[currentPage] \in Seq(1 .. captured)
<1>1. left[D] >= 1 /\ Head(holder[D])[1] = "WRITE" /\ packed <= Len(capBody[Id(D)]) /\ dbm = "write"
  BY BusyLeft, ThreadIds DEF WalkD
<1>2. Id(D) \in CapIds
  BY <1>1, FirstCap
<1>3. PICK b \in Seq(1 .. captured) : b = capBody[Id(D)]
  BY <1>2 DEF DataTyped, PoolTyped
<1>4. Len(b) \in Nat /\ DOMAIN b = 1 .. Len(b) /\ Len(b) <= CapRoom
  BY <1>2, <1>3, LenProperties DEF DataTyped, PoolTyped
<1>5. packed \in 0 .. CapRoom /\ packed <= Len(b)
  BY <1>1, <1>3 DEF DataTyped
<1>6. ASSUME packed # Len(b) PROVE packed + 1 \in 1 .. Len(b) /\ packed + 1 \in 0 .. CapRoom
  <2>1. PICK n, r : n = Len(b) /\ r = CapRoom
    OBVIOUS
  <2>2. n \in Nat /\ n <= r /\ r \in Nat /\ packed \in 0 .. r /\ packed <= n /\ packed # n
    BY <1>4, <1>5, <1>6, <2>1, Numbers
  <2>3. packed + 1 \in 1 .. n /\ packed + 1 \in 0 .. r
    BY <2>2
  <2> QED BY <2>1, <2>3
<1>7. ASSUME packed # Len(b) PROVE b[packed + 1] \in 1 .. captured
  BY <1>6, <1>7, ElementOfSeq
<1>8. currentPage \in PageIds /\ pageBody[currentPage] \in Seq(1 .. captured)
  BY <1>1 DEF WalkD, DataTyped, PoolTyped
<1> QED BY <1>2, <1>3, <1>4, <1>5, <1>6, <1>7, <1>8 DEF AllPacked, NextCaplet

\* At most four threads exist.
LEMMA ThreadCount ==
  Cardinality({t \in Threads : status[t] # "none"}) \in 0 .. 4
<1>1. PICK T : T = {t \in Threads : status[t] # "none"}
  OBVIOUS
<1>2. IsFiniteSet(0 .. 3) /\ Cardinality(0 .. 3) = 4
  <2>1. 0 \in Int /\ 3 \in Int
    OBVIOUS
  <2>2. Cardinality(0 .. 3) = IF 0 > 3 THEN 0 ELSE 3 - 0 + 1
    BY <2>1, FS_Interval
  <2>3. IsFiniteSet(0 .. 3)
    BY <2>1, FS_Interval
  <2> QED BY <2>2, <2>3
<1>3. T \subseteq 0 .. 3
  BY <1>1, ThreadIds
<1>4. IsFiniteSet(T) /\ Cardinality(T) <= 4
  BY <1>2, <1>3, FS_Subset
<1>5. Cardinality(T) \in Nat
  BY <1>4, FS_CardinalityType
<1> QED BY <1>1, <1>4, <1>5

\* Every step keeps Scalars.
LEMMA ScalarStep ==
  ASSUME LoopTyped, Channels, DataTyped, WalkD, [Next]_vars
  PROVE  Scalars'
<1>1. Scalars
  BY DataParts
<1>2. CASE UNCHANGED vars
  BY <1>1, <1>2 DEF vars, cVars, dVars, ioVars, sVars, Scalars
<1>3. CASE NextC
  <2>1. UNCHANGED <<dVars, ioVars, sVars>>
    BY <1>3 DEF NextC, Start, Connect, Capture, SendCaplets, GetFreeMsg, CloseC, SendLastCaplets,
       CloseDBPhoton, Close, ClosedDBPhoton
  <2>2. closed' \in BOOLEAN
    BY <1>1, <1>3 DEF NextC, Start, Connect, Capture, SendCaplets, GetFreeMsg, CloseC, SendLastCaplets,
       CloseDBPhoton, Close, ClosedDBPhoton, cVars, Scalars
  <2>3. currentDBMessage' \in CapIds \cup {None}
    BY <1>1, <1>3 DEF NextC, Start, Connect, Capture, SendCaplets, GetFreeMsg, CloseC, SendLastCaplets,
       CloseDBPhoton, Close, ClosedDBPhoton, cVars, Scalars
  <2> QED BY <1>1, <2>1, <2>2, <2>3 DEF dVars, ioVars, sVars, Scalars
<1>4. CASE NextD
  <2>1. UNCHANGED <<cVars, ioVars, sVars>>
    BY <1>4 DEF NextD, Poll, Start, Recv, Pop, SpawnIO, RegisterPhoton, WriteCaplets,
       AddCaplet, AddToNextPage, SendPage, WroteCaplets, ShutdownD, CloseD, SendLastPage,
       CloseIOPhoton, Close, ClosedIOPhoton, MarkThreadAsFree
  <2>2. packed' \in 0 .. CapRoom
    <3>1. CASE AddCaplet \/ AddToNextPage
      <4>1. pc[D] = "add" /\ ~AllPacked /\ packed' = packed + 1
        BY <3>1 DEF AddCaplet, AddToNextPage
      <4> QED BY <4>1, Packs
    <3>2. CASE WriteCaplets
      <4>1. packed' = packed \/ packed' = 0
        BY <3>2 DEF WriteCaplets
      <4> QED BY <1>1, <4>1, Numbers DEF Scalars
    <3>3. CASE UNCHANGED packed
      BY <1>1, <3>3 DEF Scalars
    <3>4. UNCHANGED packed \/ AddCaplet \/ AddToNextPage \/ WriteCaplets
      BY <1>4 DEF NextD, Poll, Start, Recv, Pop, SpawnIO, RegisterPhoton,
         SendPage, WroteCaplets, ShutdownD, CloseD, SendLastPage,
         CloseIOPhoton, Close, ClosedIOPhoton, MarkThreadAsFree, dVars
    <3> QED BY <3>1, <3>2, <3>3, <3>4
  <2>3. currentPage' \in PageIds \cup {None} /\ full' \in PageIds \cup {None}
    <3>1. CASE AddToNextPage
      <4>1. pc[D] = "add" /\ full' = currentPage /\ currentPage' \in PageIds
        BY <3>1 DEF AddToNextPage
      <4> QED BY <1>1, <4>1 DEF Scalars
    <3>2. CASE WriteCaplets
      BY <1>1, <3>2, Numbers DEF WriteCaplets, Scalars
    <3>3. CASE UNCHANGED currentPage /\ full' \in {full, None}
      BY <1>1, <3>3 DEF Scalars
    <3>4. (UNCHANGED currentPage /\ full' \in {full, None}) \/ AddToNextPage \/ WriteCaplets
      BY <1>4 DEF NextD, Poll, Start, Recv, Pop, SpawnIO, RegisterPhoton, AddCaplet,
         SendPage, WroteCaplets, ShutdownD, CloseD, SendLastPage,
         CloseIOPhoton, Close, ClosedIOPhoton, MarkThreadAsFree, dVars
    <3> QED BY <3>1, <3>2, <3>3, <3>4
  <2>4. dbm' \in {"uninit", "write"} /\ registered' \in BOOLEAN /\ available' \in BOOLEAN
    BY <1>1, <1>4 DEF NextD, Poll, Start, Recv, Pop, SpawnIO, RegisterPhoton, WriteCaplets,
       AddCaplet, AddToNextPage, SendPage, WroteCaplets, ShutdownD, CloseD, SendLastPage,
       CloseIOPhoton, Close, ClosedIOPhoton, MarkThreadAsFree, dVars, Scalars
  <2> QED BY <1>1, <2>1, <2>2, <2>3, <2>4 DEF cVars, ioVars, sVars, Scalars
<1>5. CASE NextIO
  <2>1. UNCHANGED <<cVars, dVars, sVars>>
    BY <1>5 DEF NextIO, Poll, Start, Recv, Pop, WritePage, ShutdownIO, CloseIO
  <2>2. isOpen' \in BOOLEAN
    BY <1>1, <1>5 DEF NextIO, Poll, Start, Recv, Pop, WritePage, ShutdownIO, CloseIO, ioVars, Scalars
  <2> QED BY <1>1, <2>1, <2>2 DEF cVars, dVars, sVars, Scalars
<1>6. CASE NextS \/ AskShutdown
  <2>1. UNCHANGED <<cVars, dVars, ioVars>>
    BY <1>6 DEF NextS, Pop, NewConnection, HandleShutdown, Tell, ToldAll, Join, JoinedAll, AskShutdown
  <2>2. count' \in 0 .. 4
    <3>1. UNCHANGED count \/ count' = Cardinality({t \in Threads : status[t] # "none"})
      BY <1>6 DEF NextS, Pop, NewConnection, HandleShutdown, Tell, ToldAll, Join, JoinedAll, AskShutdown,
         sVars
    <3> QED BY <1>1, <3>1, ThreadCount DEF Scalars
  <2>3. next' \in Nat
    <3>1. next' = next \/ next' = 1 \/ next' = next + 1
      BY <1>6 DEF NextS, Pop, NewConnection, HandleShutdown, Tell, ToldAll, Join, JoinedAll, AskShutdown,
         sVars
    <3> QED BY <1>1, <3>1 DEF Scalars
  <2>4. asked' \in BOOLEAN
    <3>1. asked' = asked \/ asked' = TRUE
      BY <1>6 DEF NextS, Pop, NewConnection, HandleShutdown, Tell, ToldAll, Join, JoinedAll, AskShutdown,
         sVars
    <3> QED BY <1>1, <3>1 DEF Scalars
  <2> QED BY <1>1, <2>1, <2>2, <2>3, <2>4 DEF cVars, dVars, ioVars, Scalars
<1> QED BY <1>2, <1>3, <1>4, <1>5, <1>6 DEF Next

\* The bodies of a pool whose caplets are 1 .. n.
BodiesOf(body, ids, room, n) ==
  DOMAIN body = ids /\ \A i \in ids : body[i] \in Seq(1 .. n) /\ Len(body[i]) <= room

\* PoolTyped without the messages in use.
LEMMA PoolParts ==
  /\ \A ids, room : PoolTyped(capBody, ids, capUse, room)
       <=> capUse \subseteq ids /\ BodiesOf(capBody, ids, room, captured)
  /\ \A ids, room : PoolTyped(pageBody, ids, pageUse, room)
       <=> pageUse \subseteq ids /\ BodiesOf(pageBody, ids, room, captured)
BY DEF PoolTyped, BodiesOf

\* More may be captured.
LEMMA MoreCaplets ==
  ASSUME NEW n \in Nat, NEW m \in Nat, n <= m
  PROVE  /\ \A s \in Seq(1 .. n) : s \in Seq(1 .. m)
         /\ \A body, ids, room : BodiesOf(body, ids, room, n) => BodiesOf(body, ids, room, m)
<1>1. 1 .. n \subseteq 1 .. m
  OBVIOUS
<1>2. \A s \in Seq(1 .. n) : s \in Seq(1 .. m)
  BY <1>1, SeqMonotonic
<1> QED BY <1>2 DEF BodiesOf

\* One body is changed.
LEMMA BodyChanged ==
  ASSUME NEW body, NEW ids, NEW room, NEW n, BodiesOf(body, ids, room, n),
         NEW i \in ids, NEW x \in Seq(1 .. n), Len(x) <= room
  PROVE  BodiesOf(With(body, i, x), ids, room, n)
BY DEF BodiesOf, With

\* A caplet is added to a body with room.
LEMMA CapletAdded ==
  ASSUME NEW body, NEW ids, NEW room \in Nat, NEW n, BodiesOf(body, ids, room, n),
         NEW i \in ids, NEW c \in 1 .. n, Len(body[i]) # room
  PROVE  BodiesOf(With(body, i, Append(body[i], c)), ids, room, n)
<1>1. PICK b \in Seq(1 .. n) : b = body[i] /\ Len(b) <= room
  BY DEF BodiesOf
<1>2. PICK x \in Seq(1 .. n) : x = Append(b, c) /\ Len(x) = Len(b) + 1 /\ Len(b) \in Nat
  <2>1. Append(b, c) \in Seq(1 .. n) /\ Len(Append(b, c)) = Len(b) + 1 /\ Len(b) \in Nat
    BY Appended
  <2> QED BY <2>1
<1>3. Len(x) <= room
  <2>1. PICK k \in Nat : k = Len(b)
    BY <1>2
  <2>2. k # room /\ k <= room
    BY <1>1, <2>1
  <2>3. k + 1 <= room
    BY <2>2
  <2> QED BY <1>2, <2>1, <2>3
<1>4. BodiesOf(With(body, i, x), ids, room, n)
  BY <1>3, BodyChanged
<1> QED BY <1>1, <1>2, <1>4

\* A body is made anew.
LEMMA CapletFirst ==
  ASSUME NEW body, NEW ids, NEW room \in Nat, room >= 1, NEW n, BodiesOf(body, ids, room, n),
         NEW i \in ids, NEW c \in 1 .. n
  PROVE  BodiesOf(With(body, i, <<c>>), ids, room, n)
<1>1. PICK x \in Seq(1 .. n) : x = <<c>> /\ Len(x) = 1
  BY One
<1>2. Len(x) <= room
  BY <1>1
<1>3. BodiesOf(With(body, i, x), ids, room, n)
  BY <1>2, BodyChanged
<1> QED BY <1>1, <1>3

\* What a step of C does to its messages.
LEMMA CaptureTyped ==
  ASSUME DataTyped, Fresh, Capture \/ (GetFreeMsg /\ captured < MaxCaplets)
  PROVE  Pools' /\ captured' = captured + 1
<1>1. captured \in Nat /\ captured' \in Nat /\ captured' = captured + 1 /\ captured <= captured'
      /\ captured' \in 0 .. MaxCaplets /\ captured' \in 1 .. captured'
  <2>1. captured \in 0 .. MaxCaplets /\ captured < MaxCaplets /\ captured' = captured + 1
    BY DEF DataTyped, Capture, GetFreeMsg
  <2> QED BY <2>1, Numbers
<1>2. /\ BodiesOf(capBody, CapIds, CapRoom, captured') /\ capUse \subseteq CapIds
      /\ BodiesOf(pageBody, PageIds, PageRoom, captured') /\ pageUse \subseteq PageIds
      /\ file \in Seq(1 .. captured')
  BY <1>1, MoreCaplets, PoolParts DEF DataTyped
<1>3. UNCHANGED <<pageBody, pageUse, file>>
  BY DEF Capture, GetFreeMsg, pages, ioVars
<1>4. capUse' \subseteq CapIds /\ BodiesOf(capBody', CapIds, CapRoom, captured')
  <2>1. CASE Capture
    <3>1. PICK i \in CapIds :
            /\ IF currentDBMessage = None THEN capUse' = capUse \cup {i}
               ELSE i = currentDBMessage /\ UNCHANGED capUse
            /\ capBody' = With(capBody, i, Append(capBody[i], captured'))
      BY <2>1 DEF Capture, With
    <3>2. Len(capBody[i]) # CapRoom
      <4>1. CASE currentDBMessage = None
        <5>1. capBody[i] = << >>
          BY <4>1 DEF Fresh
        <5> QED BY <5>1, Numbers
      <4>2. CASE currentDBMessage # None
        BY <2>1, <3>1, <4>2 DEF Capture, NoRoom
      <4> QED BY <4>1, <4>2
    <3>3. BodiesOf(capBody', CapIds, CapRoom, captured')
      BY <1>1, <1>2, <3>1, <3>2, Numbers, CapletAdded
    <3>4. capUse' \subseteq CapIds
      BY <1>2, <3>1
    <3> QED BY <3>3, <3>4
  <2>2. CASE GetFreeMsg
    <3>1. PICK i \in CapIds : /\ capUse' = capUse \cup {i}
                              /\ capBody' = With(capBody, i, <<captured'>>)
      BY <2>2 DEF GetFreeMsg, With
    <3>2. BodiesOf(capBody', CapIds, CapRoom, captured')
      BY <1>1, <1>2, <3>1, Numbers, CapletFirst
    <3> QED BY <1>2, <3>1, <3>2
  <2> QED BY <2>1, <2>2
<1>5. /\ BodiesOf(pageBody', PageIds, PageRoom, captured') /\ pageUse' \subseteq PageIds
      /\ file' \in Seq(1 .. captured')
  BY <1>2, <1>3
<1>6. /\ PoolTyped(capBody, CapIds, capUse, CapRoom)'
      /\ PoolTyped(pageBody, PageIds, pageUse, PageRoom)'
  BY <1>4, <1>5 DEF PoolTyped, BodiesOf
<1> QED BY <1>1, <1>5, <1>6 DEF Pools

\* What is left when the bodies are not touched and messages may become free.
LEMMA StayPools ==
  ASSUME DataTyped, UNCHANGED <<captured, capBody, pageBody, file>>,
         capUse' \subseteq CapIds, pageUse' \subseteq PageIds
  PROVE  Pools'
BY DEF DataTyped, Pools, PoolTyped

\* Packing keeps the types of the pools.
LEMMA PackTyped ==
  ASSUME LoopTyped, Channels, DataTyped, WalkD, AddCaplet \/ AddToNextPage
  PROVE  Pools'
<1>1. /\ NextCaplet \in 1 .. captured /\ currentPage \in PageIds /\ ~AllPacked
  BY Packs DEF AddCaplet, AddToNextPage
<1>2. UNCHANGED <<captured, capBody, capUse, file>>
  BY DEF AddCaplet, AddToNextPage, caps, cVars, ioVars
<1>3. BodiesOf(pageBody, PageIds, PageRoom, captured) /\ pageUse \subseteq PageIds
  BY PoolParts DEF DataTyped
<1>4. pageUse' \subseteq PageIds /\ BodiesOf(pageBody', PageIds, PageRoom, captured)
  <2>1. CASE AddCaplet
    <3>1. /\ pageBody' = With(pageBody, currentPage, Append(pageBody[currentPage], NextCaplet))
          /\ pageUse' = pageUse /\ Len(pageBody[currentPage]) # PageRoom
      <4>1. Len(pageBody[currentPage]) < PageRoom
        BY <2>1 DEF AddCaplet
      <4>2. Len(pageBody[currentPage]) # PageRoom
        BY <4>1, Numbers
      <4> QED BY <2>1, <4>2 DEF AddCaplet, With
    <3>2. PICK c \in 1 .. captured : c = NextCaplet
      BY <1>1
    <3>3. BodiesOf(With(pageBody, currentPage, Append(pageBody[currentPage], c)), PageIds, PageRoom, captured)
      BY <1>1, <1>3, <3>1, <3>2, Numbers, CapletAdded
    <3> QED BY <1>3, <3>1, <3>2, <3>3
  <2>2. CASE AddToNextPage
    <3>1. PICK i \in PageIds : /\ pageUse' = pageUse \cup {i}
                               /\ pageBody' = With(pageBody, i, <<NextCaplet>>)
      BY <2>2 DEF AddToNextPage, With
    <3>2. PICK c \in 1 .. captured : c = NextCaplet
      BY <1>1
    <3>3. BodiesOf(With(pageBody, i, <<c>>), PageIds, PageRoom, captured)
      BY <1>3, Numbers, CapletFirst
    <3> QED BY <1>3, <3>1, <3>2, <3>3
  <2> QED BY <2>1, <2>2
<1>5. captured' = captured /\ PoolTyped(pageBody, PageIds, pageUse, PageRoom)'
  BY <1>2, <1>4 DEF PoolTyped, BodiesOf
<1> QED BY <1>2, <1>5 DEF DataTyped, Pools, PoolTyped

\* Writing a page keeps the types of the pools.
LEMMA WriteTyped ==
  ASSUME LoopTyped, Channels, DataTyped, WalkD, WritePage
  PROVE  Pools'
<1>1. left[IO] >= 1 /\ Head(holder[IO])[1] = "PAGE"
  BY BusyLeft, ThreadIds, WritePage DEF WritePage, Handling
<1>2. Id(IO) \in PageIds
  BY <1>1, FirstPage
<1>3. PICK b \in Seq(1 .. captured) : b = pageBody[Id(IO)]
  BY <1>2 DEF DataTyped, PoolTyped
<1>4. PICK f \in Seq(1 .. captured) : f = IF isOpen THEN file ELSE << >>
  BY EmptySeq DEF DataTyped
<1>5. f \o b \in Seq(1 .. captured)
  BY ConcatProperties
<1>6. file' = f \o b /\ UNCHANGED <<captured, capBody, capUse, pageBody>> /\ pageUse' \subseteq pageUse
  BY <1>3, <1>4, WritePage DEF WritePage, caps, cVars
<1> QED BY <1>5, <1>6 DEF DataTyped, Pools, PoolTyped

\* Every step keeps the types of the data.
LEMMA DataStep ==
  ASSUME LoopTyped, Channels, DataTyped, WalkC, WalkD, Fresh, [Next]_vars
  PROVE  DataTyped'
<1>1. Scalars'
  BY ScalarStep
<1>2. capUse \subseteq CapIds /\ pageUse \subseteq PageIds /\ 1 \in PageIds
  BY Numbers DEF DataTyped, PoolTyped
<1>3. Pools'
  <2>1. CASE UNCHANGED vars
    BY <1>2, <2>1, StayPools DEF vars, caps, pages, cVars, ioVars
  <2>2. CASE NextC
    <3>1. CASE GetFreeMsg
      BY <3>1, CaptureTyped DEF GetFreeMsg, WalkC
    <3>2. CASE Capture
      BY <3>2, CaptureTyped
    <3>3. CASE Start(C) \/ Connect \/ SendCaplets \/ CloseC \/ SendLastCaplets \/ CloseDBPhoton \/ ClosedDBPhoton
      BY <1>2, <3>3, StayPools DEF Start, Connect, SendCaplets, CloseC, SendLastCaplets, CloseDBPhoton,
         Close, ClosedDBPhoton, caps, pages, cVars, ioVars
    <3> QED BY <2>2, <3>1, <3>2, <3>3 DEF NextC
  <2>3. CASE NextD
    <3>1. CASE AddCaplet \/ AddToNextPage
      BY <3>1, PackTyped
    <3>2. CASE Poll(D) \/ SpawnIO \/ RegisterPhoton \/ SendPage \/ WroteCaplets \/ ShutdownD
      BY <1>2, <3>2, StayPools DEF Poll, Start, Recv, Pop, SpawnIO, RegisterPhoton, SendPage, WroteCaplets,
         ShutdownD, caps, pages, cVars, ioVars
    <3>3. CASE CloseD \/ SendLastPage \/ CloseIOPhoton \/ ClosedIOPhoton \/ MarkThreadAsFree \/ WriteCaplets
      BY <1>2, <3>3, StayPools DEF CloseD, SendLastPage, CloseIOPhoton, Close, ClosedIOPhoton,
         MarkThreadAsFree, WriteCaplets, caps, pages, cVars, ioVars
    <3> QED BY <2>3, <3>1, <3>2, <3>3 DEF NextD
  <2>4. CASE NextIO
    <3>1. CASE WritePage
      BY <3>1, WriteTyped
    <3>2. CASE Poll(IO) \/ ShutdownIO \/ CloseIO
      BY <1>2, <3>2, StayPools DEF Poll, Start, Recv, Pop, ShutdownIO, CloseIO, caps, pages, cVars, ioVars
    <3> QED BY <2>4, <3>1, <3>2 DEF NextIO
  <2>5. CASE NextS \/ AskShutdown
    BY <1>2, <2>5, StayPools DEF NextS, Pop, NewConnection, HandleShutdown, Tell, ToldAll, Join, JoinedAll,
       AskShutdown, caps, pages, cVars, ioVars
  <2> QED BY <2>1, <2>2, <2>3, <2>4, <2>5 DEF Next
<1> QED BY <1>1, <1>3 DEF DataTyped, Scalars, Pools

-----------------------------------------------------------------------------
(* What a step does to the streams.                                        *)

\* A map that reads messages.
View(f) == Maps(f, Messages, MsgIds)

\* What t still has to read, seen through f.
Through(f, t, p) == Seen(f, holder[t], Sent(channel[p]))

\* What is seen depends on a holder and a channel only.
LEMMA ThroughKept ==
  ASSUME NEW f, NEW t, NEW p, holder'[t] = holder[t], Sent(channel'[p]) = Sent(channel[p])
  PROVE  Through(f, t, p)' = Through(f, t, p)
BY DEF Through

\* The readers of the two channels.
LEMMA ReadsTypes ==
  ASSUME NEW t, NEW p, Reads(t, p)
  PROVE  /\ t \in Threads /\ t \in {D, IO} /\ p \in Photons
         /\ MessagesOf(p) \subseteq Messages /\ MessagesOf(p) \subseteq Held(t)
BY MessageSets, ThreadIds DEF Reads, Photons, MessagesOf

\* The types of what they read.
LEMMA ThroughTypes ==
  ASSUME LoopTyped, Channels, NEW t, NEW p, Reads(t, p)
  PROVE  holder[t] \in Seq(Messages) /\ Sent(channel[p]) \in Seq(Messages)
BY Streams, ReadsTypes DEF Reads

\* Recv moves a message from a channel to the end of a holder: nothing is seen of it.
LEMMA RecvThrough ==
  ASSUME LoopTyped, Channels, Pooling, NEW f, NEW u, NEW q, Reads(u, q), NEW t \in {D, IO}, Recv(t)
  PROVE  Through(f, u, q)' = Through(f, u, q)
<1>1. CASE UNCHANGED <<holder, channel>>
  BY <1>1, ThroughKept
<1>2. CASE \E p \in Polled(t) : /\ CanReceive(channel[p])
                                /\ holder' = [holder EXCEPT ![t] = Append(@, Received(channel[p]))]
                                /\ channel' = [channel EXCEPT ![p] = Receive(@)]
  <2>1. PICK p \in Polled(t) : /\ CanReceive(channel[p])
                               /\ holder' = [holder EXCEPT ![t] = Append(@, Received(channel[p]))]
                               /\ channel' = [channel EXCEPT ![p] = Receive(@)]
    BY <1>2
  <2>2. Reads(t, p) /\ p \in Photons /\ t \in Threads
    <3>1. pc[t] = "recv"
      BY Recv(t) DEF Recv
    <3> QED BY <2>1, <3>1, OwnPhoton, ThreadIds DEF Reads, Photons
  <2>3. PICK h, e, a, b : h = holder[t] /\ e = Received(channel[p]) /\ a = Sent(channel[p])
                          /\ b = Sent(channel'[p])
    OBVIOUS
  <2>4. e \in MessagesOf(p) /\ b \in Seq(MessagesOf(p)) /\ a = <<e>> \o b
        /\ \A o \in Photons \ {p} : channel'[o] = channel[o]
    BY <2>1, <2>2, <2>3, Gets
  <2>5. h \in Seq(Messages) /\ e \in Messages /\ b \in Seq(Messages)
    <3>1. MessagesOf(p) \subseteq Messages
      BY <2>2, ReadsTypes
    <3> QED BY <2>2, <2>3, <2>4, <3>1, ThroughTypes, SeqSubset
  <2>6. holder'[t] = Append(h, e) /\ \A v \in Threads \ {t} : holder'[v] = holder[v]
    BY <2>1, <2>2, <2>3 DEF LoopTyped
  <2>7. Seen(f, Append(h, e), b) = Seen(f, h, <<e>> \o b)
    BY <2>5, SeenRecv
  <2>8. Through(f, t, p)' = Through(f, t, p)
    BY <2>3, <2>4, <2>6, <2>7 DEF Through
  <2>9. CASE u = t /\ q = p
    BY <2>8, <2>9
  <2>10. CASE u # t /\ q # p
    BY <2>4, <2>6, <2>10, ReadsTypes, ThroughKept
  <2>11. (u = t /\ q = p) \/ (u # t /\ q # p)
    BY <2>2, ThreadIds DEF Reads
  <2> QED BY <2>9, <2>10, <2>11
<1> QED BY <1>1, <1>2, Recv(t) DEF Recv

\* A control message is not seen by f.
LEMMA PopThrough ==
  ASSUME LoopTyped, Channels, NEW f, View(f), NEW u, NEW q, Reads(u, q), NEW t \in {S, D, IO}, Pop(t),
         \A m \in Told(u) : f[m] = << >>
  PROVE  Through(f, u, q)' = Through(f, u, q)
<1>1. UNCHANGED channel /\ t \in Threads /\ u \in Threads
  BY Pop(t), ReadsTypes, ThreadIds DEF Pop, photons
<1>2. CASE UNCHANGED holder
  BY <1>1, <1>2, ThroughKept
<1>3. CASE ctrl[t] # << >>
  <2>1. /\ holder' = [holder EXCEPT ![t] = Append(@, Head(ctrl[t]))]
        /\ ctrl' = [ctrl EXCEPT ![t] = Tail(@)]
    BY <1>3, Pop(t) DEF Pop
  <2>2. PICK e \in Told(t) : e = Head(ctrl[t])
    BY <1>1, <1>3, <2>1, Popped
  <2>3. holder' = [holder EXCEPT ![t] = Append(holder[t], e)]
    BY <2>1, <2>2
  <2>4. CASE u # t
    <3>1. holder'[u] = holder[u]
      BY <1>1, <2>3, <2>4 DEF LoopTyped
    <3> QED BY <1>1, <3>1, ThroughKept
  <2>5. CASE u = t
    <3>1. holder'[u] = Append(holder[u], e) /\ e \in Messages /\ f[e] = << >>
      BY <1>1, <2>2, <2>3, <2>5, MessageSets DEF LoopTyped
    <3>2. PICK h \in Seq(Messages), a \in Seq(Messages) : h = holder[u] /\ a = Sent(channel[q])
      BY ThroughTypes
    <3>3. Seen(f, Append(h, e), a) = Seen(f, h, a)
      BY <3>1, SeenPush DEF View
    <3> QED BY <1>1, <3>1, <3>2, <3>3 DEF Through
  <2> QED BY <2>4, <2>5
<1> QED BY <1>2, <1>3, Pop(t) DEF Pop

\* The first message is put back: f does not see it.
LEMMA DeferThrough ==
  ASSUME LoopTyped, Channels, NEW f, View(f), NEW u, NEW q, Reads(u, q), left[u] >= 1,
         holder'[u] = Append(Tail(holder[u]), Head(holder[u])), f[Head(holder[u])] = << >>,
         Sent(channel'[q]) = Sent(channel[q])
  PROVE  Through(f, u, q)' = Through(f, u, q)
<1>1. PICK h \in Seq(Messages), a \in Seq(Messages) : h = holder[u] /\ a = Sent(channel[q])
  BY ThroughTypes
<1>2. PICK e, r : e = Head(h) /\ r = Tail(h)
  OBVIOUS
<1>3. h # << >>
  BY <1>1, ReadsTypes, HeadHeld
<1>4. e \in Messages /\ r \in Seq(Messages)
  BY <1>2, <1>3, Split
<1>5. f[e] = << >>
  BY <1>1, <1>2
<1>6. Seen(f, Append(r, e), a) = Seen(f, r, a)
  BY <1>4, <1>5, SeenPush DEF View
<1>7. SeenHead(f, h, a, e, r)
  BY <1>2, <1>3, SeenFirst DEF View
<1>8. Seen(f, r, a) \in Seq(MsgIds)
  BY <1>2, <1>3, SeenRest DEF View
<1>9. << >> \o Seen(f, r, a) = Seen(f, r, a)
  BY <1>8, SeenNothing
<1> QED BY <1>1, <1>2, <1>5, <1>6, <1>7, <1>9 DEF Through, SeenHead

\* A message is sent.
LEMMA SendThrough ==
  ASSUME LoopTyped, Channels, NEW f, View(f), NEW u, NEW q, Reads(u, q),
         NEW m \in MessagesOf(q), SendTo(q, m), holder'[u] = holder[u]
  PROVE  Through(f, u, q)' = Through(f, u, q) \o f[m]
<1>1. PICK h \in Seq(Messages), a \in Seq(Messages) : h = holder[u] /\ a = Sent(channel[q])
  BY ThroughTypes
<1>2. Sent(channel'[q]) = Append(a, m) /\ m \in Messages
  BY <1>1, Sends, ReadsTypes
<1>3. Seen(f, h, Append(a, m)) = Seen(f, h, a) \o f[m]
  BY <1>2, SeenSend DEF View
<1> QED BY <1>1, <1>2, <1>3 DEF Through

\* Control messages are seen by none of the four maps.
LEMMA Unseen ==
  /\ \A t \in Threads : \A m \in Told(t) : /\ W[m] = << >> /\ WX[m] = << >>
                                          /\ P[m] = << >> /\ PX[m] = << >>
  /\ \A m \in Messages : m[1] \in {"REGISTER", "SHUTDOWN"} =>
       W[m] = << >> /\ WX[m] = << >> /\ P[m] = << >> /\ PX[m] = << >>
BY ToldCodes, ViewValues

\* The readers are threads.
LEMMA Threaded ==
  /\ UC = Through(W, D, "cap") /\ UCX = Through(WX, D, "cap")
  /\ UP = Through(P, IO, "io") /\ UPX = Through(PX, IO, "io")
  /\ UC' = Through(W, D, "cap")' /\ UCX' = Through(WX, D, "cap")'
  /\ UP' = Through(P, IO, "io")' /\ UPX' = Through(PX, IO, "io")'
BY Views, ViewsNext DEF Through

\* The four maps read messages.
LEMMA AllViews == View(W) /\ View(WX) /\ View(P) /\ View(PX)
BY ViewMaps DEF View

\* Both workers read their channel.
LEMMA BothRead == Reads(D, "cap") /\ Reads(IO, "io")
BY DEF Reads

\* The caplet messages on their way stay.
SameCaps == UC' = UC /\ UCX' = UCX
\* The page messages on their way stay.
SamePages == UP' = UP /\ UPX' = UPX

\* They do if holder and channel of D do.
LEMMA CapsKept ==
  ASSUME holder'[D] = holder[D], Sent(channel'["cap"]) = Sent(channel["cap"])
  PROVE  SameCaps
BY Threaded, ThroughKept DEF SameCaps

\* They do if holder and channel of IO do.
LEMMA PagesKept ==
  ASSUME holder'[IO] = holder[IO], Sent(channel'["io"]) = Sent(channel["io"])
  PROVE  SamePages
BY Threaded, ThroughKept DEF SamePages

\* Recv changes neither.
LEMMA QuietRecv ==
  ASSUME LoopTyped, Channels, Pooling, NEW t \in {D, IO}, Recv(t)
  PROVE  SameCaps /\ SamePages
BY Threaded, BothRead, RecvThrough DEF SameCaps, SamePages

\* Pop changes neither.
LEMMA QuietPop ==
  ASSUME LoopTyped, Channels, NEW t \in {S, D, IO}, Pop(t)
  PROVE  SameCaps /\ SamePages
<1>1. /\ Through(W, D, "cap")' = Through(W, D, "cap") /\ Through(WX, D, "cap")' = Through(WX, D, "cap")
  BY AllViews, BothRead, Unseen, PopThrough, ThreadIds
<1>2. /\ Through(P, IO, "io")' = Through(P, IO, "io") /\ Through(PX, IO, "io")' = Through(PX, IO, "io")
  BY AllViews, BothRead, Unseen, PopThrough, ThreadIds
<1> QED BY <1>1, <1>2, Threaded DEF SameCaps, SamePages

\* SHUTDOWN is put back.
LEMMA QuietDeferCaps ==
  ASSUME LoopTyped, Channels, left[D] >= 1, Head(holder[D])[1] \in {"REGISTER", "SHUTDOWN"},
         holder'[D] = Append(Tail(holder[D]), Head(holder[D])), UNCHANGED channel
  PROVE  SameCaps
<1>1. PICK e : e = Head(holder[D])
  OBVIOUS
<1>2. e \in Messages
  BY <1>1, HeadHeld, MessageSets, ThreadIds
<1>3. W[e] = << >> /\ WX[e] = << >>
  BY <1>1, <1>2, Unseen
<1>4. /\ Through(W, D, "cap")' = Through(W, D, "cap") /\ Through(WX, D, "cap")' = Through(WX, D, "cap")
  BY <1>1, <1>3, AllViews, BothRead, DeferThrough
<1> QED BY <1>4, Threaded DEF SameCaps

\* The same for IO.
LEMMA QuietDeferPages ==
  ASSUME LoopTyped, Channels, left[IO] >= 1, Head(holder[IO])[1] \in {"REGISTER", "SHUTDOWN"},
         holder'[IO] = Append(Tail(holder[IO]), Head(holder[IO])), UNCHANGED channel
  PROVE  SamePages
<1>1. PICK e : e = Head(holder[IO])
  OBVIOUS
<1>2. e \in Messages
  BY <1>1, HeadHeld, MessageSets, ThreadIds
<1>3. P[e] = << >> /\ PX[e] = << >>
  BY <1>1, <1>2, Unseen
<1>4. /\ Through(P, IO, "io")' = Through(P, IO, "io") /\ Through(PX, IO, "io")' = Through(PX, IO, "io")
  BY <1>1, <1>3, AllViews, BothRead, DeferThrough
<1> QED BY <1>4, Threaded DEF SamePages

\* The first message is handled.
LEMMA HandledCaps ==
  ASSUME holder'[D] = Tail(holder[D]), UNCHANGED channel
  PROVE  UC' = RestCaps /\ UCX' = RestCapsX
BY ViewsNext DEF RestCaps, RestCapsX

\* The same for IO.
LEMMA HandledPages ==
  ASSUME holder'[IO] = Tail(holder[IO]), UNCHANGED channel
  PROVE  UP' = RestPages /\ UPX' = RestPagesX
BY ViewsNext DEF RestPages, RestPagesX

\* A message is sent.
LEMMA SentCaps ==
  ASSUME LoopTyped, Channels, UNCHANGED holder
  PROVE  /\ \A i \in CapIds : SendTo("cap", <<"WRITE", i>>) =>
              UC' = UC \o <<i>> /\ UCX' = UCX \o <<i>> /\ SamePages
         /\ SendTo("cap", Plain("CLOSE")) => UC' = UC /\ UCX' = UCX \o <<None>> /\ SamePages
<1>1. ASSUME NEW m \in MessagesOf("cap"), SendTo("cap", m)
      PROVE  UC' = UC \o W[m] /\ UCX' = UCX \o WX[m] /\ SamePages
  <2>1. /\ Through(W, D, "cap")' = Through(W, D, "cap") \o W[m]
        /\ Through(WX, D, "cap")' = Through(WX, D, "cap") \o WX[m]
    BY <1>1, AllViews, BothRead, SendThrough
  <2>2. channel'["io"] = channel["io"]
    BY <1>1, Sends DEF Photons
  <2> QED BY <2>1, <2>2, Threaded, PagesKept
<1>2. ASSUME NEW i \in CapIds, SendTo("cap", <<"WRITE", i>>)
      PROVE  UC' = UC \o <<i>> /\ UCX' = UCX \o <<i>> /\ SamePages
  <2>1. PICK m : m = <<"WRITE", i>>
    OBVIOUS
  <2>2. m \in MessagesOf("cap") /\ m \in Messages /\ m[1] = "WRITE" /\ m[2] = i
    BY <2>1, MessageSets DEF MessagesOf, CapMessages
  <2>3. W[m] = <<i>> /\ WX[m] = <<i>>
    BY <2>2, ViewValues
  <2> QED BY <1>1, <1>2, <2>1, <2>2, <2>3
<1>3. ASSUME SendTo("cap", Plain("CLOSE")) PROVE UC' = UC /\ UCX' = UCX \o <<None>> /\ SamePages
  <2>1. PICK m : m = Plain("CLOSE")
    OBVIOUS
  <2>2. m \in MessagesOf("cap") /\ m \in Messages /\ m[1] = "CLOSE" /\ m[2] = None
    BY <2>1, MessageSets DEF MessagesOf, CapMessages, Plain
  <2>3. W[m] = << >> /\ WX[m] = <<None>>
    BY <2>2, ViewValues
  <2>4. UC \o << >> = UC
    BY ViewTypes, ConcatEmptySeq
  <2> QED BY <1>1, <1>3, <2>1, <2>2, <2>3, <2>4
<1> QED BY <1>2, <1>3

\* The same for IO.
LEMMA SentPages ==
  ASSUME LoopTyped, Channels, UNCHANGED holder
  PROVE  /\ \A i \in PageIds : SendTo("io", <<"PAGE", i>>) =>
              UP' = UP \o <<i>> /\ UPX' = UPX \o <<i>> /\ SameCaps
         /\ SendTo("io", Plain("CLOSE")) => UP' = UP /\ UPX' = UPX \o <<None>> /\ SameCaps
<1>1. ASSUME NEW m \in MessagesOf("io"), SendTo("io", m)
      PROVE  UP' = UP \o P[m] /\ UPX' = UPX \o PX[m] /\ SameCaps
  <2>1. /\ Through(P, IO, "io")' = Through(P, IO, "io") \o P[m]
        /\ Through(PX, IO, "io")' = Through(PX, IO, "io") \o PX[m]
    BY <1>1, AllViews, BothRead, SendThrough
  <2>2. channel'["cap"] = channel["cap"]
    BY <1>1, Sends DEF Photons
  <2> QED BY <2>1, <2>2, Threaded, CapsKept
<1>2. ASSUME NEW i \in PageIds, SendTo("io", <<"PAGE", i>>)
      PROVE  UP' = UP \o <<i>> /\ UPX' = UPX \o <<i>> /\ SameCaps
  <2>1. PICK m : m = <<"PAGE", i>>
    OBVIOUS
  <2>2. m \in MessagesOf("io") /\ m \in Messages /\ m[1] = "PAGE" /\ m[2] = i
    BY <2>1, MessageSets DEF MessagesOf, IOMessages
  <2>3. P[m] = <<i>> /\ PX[m] = <<i>>
    BY <2>2, ViewValues
  <2> QED BY <1>1, <1>2, <2>1, <2>2, <2>3
<1>3. ASSUME SendTo("io", Plain("CLOSE")) PROVE UP' = UP /\ UPX' = UPX \o <<None>> /\ SameCaps
  <2>1. PICK m : m = Plain("CLOSE")
    OBVIOUS
  <2>2. m \in MessagesOf("io") /\ m \in Messages /\ m[1] = "CLOSE" /\ m[2] = None
    BY <2>1, MessageSets DEF MessagesOf, IOMessages, Plain
  <2>3. P[m] = << >> /\ PX[m] = <<None>>
    BY <2>2, ViewValues
  <2>4. UP \o << >> = UP
    BY ViewTypes, ConcatEmptySeq
  <2> QED BY <1>1, <1>3, <2>1, <2>2, <2>3, <2>4
<1> QED BY <1>2, <1>3

-----------------------------------------------------------------------------
(* The steps that leave all streams as they are.                           *)

\* Steps of C.
LEMMA QuietC ==
  ASSUME LoopTyped, Channels,
         Start(C) \/ Connect \/ Capture \/ GetFreeMsg \/ CloseC \/ ClosedDBPhoton
  PROVE  SameCaps /\ SamePages
<1>1. UNCHANGED holder
  BY DEF Start, Connect, Capture, GetFreeMsg, CloseC, ClosedDBPhoton, loop
<1>2. Sent(channel'["cap"]) = Sent(channel["cap"]) /\ Sent(channel'["io"]) = Sent(channel["io"])
  <2>1. CASE ClosedDBPhoton
    BY <2>1, Drains DEF ClosedDBPhoton, Photons
  <2>2. CASE Start(C) \/ Connect \/ Capture \/ GetFreeMsg \/ CloseC
    BY <2>2 DEF Start, Connect, Capture, GetFreeMsg, CloseC, photons
  <2> QED BY <2>1, <2>2
<1> QED BY <1>1, <1>2, CapsKept, PagesKept

\* A D whose photon is its own got a new one, ...
LEMMA SpawnOwn == ASSUME OwnStep, SpawnIO PROVE phToIO' = "io" /\ UNCHANGED channel
BY Gotten DEF OwnStep, Reused, NewPhoton, Photons

\* ... and it has it when it handles a message.
LEMMA OwnHandles == ASSUME OwnStep, NEW code, Handling(D, code) PROVE phToIO = "io"
BY OwnPhoton DEF OwnStep, Handling, Spawned

\* Whatever it does with a photon is done to that one.
LEMMA OwnUses ==
  ASSUME OwnStep
  PROVE  /\ WriteCaplets \/ SendPage \/ SendLastPage \/ CloseIOPhoton \/ ClosedIOPhoton \/ ShutdownD => phToIO = "io"
         /\ SpawnIO => phToIO' = "io" /\ UNCHANGED channel
<1>1. WriteCaplets \/ ShutdownD => phToIO = "io"
  BY OwnHandles DEF WriteCaplets, ShutdownD
<1>2. SendPage \/ SendLastPage \/ CloseIOPhoton \/ ClosedIOPhoton => phToIO = "io"
  BY OwnPhoton DEF SendPage, SendLastPage, CloseIOPhoton, Close, ClosedIOPhoton, Drained, OwnStep
<1> QED BY <1>1, <1>2, SpawnOwn

\* Steps of D.
LEMMA QuietD ==
  ASSUME LoopTyped, Channels, WalkD, OwnStep,
         \/ Poll(D) \/ SpawnIO \/ RegisterPhoton \/ (WriteCaplets /\ "io" \in isConnected)
         \/ AddCaplet \/ AddToNextPage \/ ShutdownD \/ CloseD \/ ClosedIOPhoton
  PROVE  SameCaps /\ SamePages
<1>1. CASE Recv(D) \/ Pop(D)
  BY <1>1, QuietRecv, QuietPop DEF OwnStep
<1>2. CASE Start(D) \/ SpawnIO \/ AddCaplet \/ AddToNextPage \/ CloseD \/ ClosedIOPhoton
  <2>1. UNCHANGED holder
    BY <1>2 DEF Start, SpawnIO, AddCaplet, AddToNextPage, CloseD, ClosedIOPhoton, loop
  <2>2. Sent(channel'["cap"]) = Sent(channel["cap"]) /\ Sent(channel'["io"]) = Sent(channel["io"])
    <3>1. CASE ClosedIOPhoton
      <4>1. Drained(D, "io")
        BY <3>1, OwnPhoton DEF ClosedIOPhoton, Drained, OwnStep
      <4> QED BY <4>1, Drains DEF Photons
    <3>2. CASE Start(D) \/ SpawnIO \/ AddCaplet \/ AddToNextPage \/ CloseD
      BY <3>2, SpawnOwn DEF Start, AddCaplet, AddToNextPage, CloseD, photons
    <3> QED BY <1>2, <3>1, <3>2
  <2> QED BY <2>1, <2>2, CapsKept, PagesKept
<1>3. CASE WriteCaplets /\ "io" \in isConnected
  BY <1>3, OwnHandles, CapsKept, PagesKept DEF WriteCaplets, photons
<1>4. CASE RegisterPhoton
  <2>1. left[D] >= 1 /\ pc[D] = "handle" /\ Head(holder[D])[1] = "REGISTER" /\ Handled(D)
        /\ UNCHANGED channel
    BY <1>4, BusyLeft, ThreadIds DEF RegisterPhoton, Handling, photons
  <2>2. holder'[D] = Tail(holder[D]) /\ holder'[IO] = holder[IO]
    BY <2>1, HandledTyped, ThreadIds
  <2>3. UC = RestCaps /\ UCX = RestCapsX
    BY <2>1, FirstCap
  <2> QED BY <2>1, <2>2, <2>3, HandledCaps, PagesKept DEF SameCaps
<1>5. CASE ShutdownD
  <2>1. left[D] >= 1 /\ pc[D] = "handle" /\ Head(holder[D])[1] = "SHUTDOWN" /\ UNCHANGED channel
        /\ (Defer(D) \/ UNCHANGED holder)
    BY <1>5, BusyLeft, ThreadIds DEF ShutdownD, Handling, photons
  <2>2. CASE UNCHANGED holder
    BY <2>1, <2>2, CapsKept, PagesKept
  <2>3. CASE Defer(D)
    <3>1. holder'[D] = Append(Tail(holder[D]), Head(holder[D])) /\ holder'[IO] = holder[IO]
      BY <2>1, <2>3, HandledTyped, ThreadIds
    <3> QED BY <2>1, <3>1, QuietDeferCaps, PagesKept
  <2> QED BY <2>1, <2>2, <2>3
<1> QED BY <1>1, <1>2, <1>3, <1>4, <1>5 DEF Poll

\* Steps of IO.
LEMMA QuietIO ==
  ASSUME LoopTyped, Channels, WalkD, Pooling, Poll(IO) \/ ShutdownIO
  PROVE  SameCaps /\ SamePages
<1>1. CASE Recv(IO) \/ Pop(IO)
  BY <1>1, QuietRecv, QuietPop
<1>2. CASE Start(IO)
  BY <1>2, CapsKept, PagesKept DEF Start, photons
<1>3. CASE ShutdownIO
  <2>1. left[IO] >= 1 /\ pc[IO] = "handle" /\ Head(holder[IO])[1] = "SHUTDOWN" /\ UNCHANGED channel
        /\ (Defer(IO) \/ LastHandled(IO))
    BY <1>3, BusyLeft, ThreadIds DEF ShutdownIO, Handling, photons
  <2>2. holder'[D] = holder[D]
    BY <2>1, HandledTyped, ThreadIds
  <2>3. CASE Defer(IO)
    <3>1. holder'[IO] = Append(Tail(holder[IO]), Head(holder[IO]))
      BY <2>1, <2>3, HandledTyped, ThreadIds
    <3> QED BY <2>1, <2>2, <3>1, QuietDeferPages, CapsKept
  <2>4. CASE LastHandled(IO)
    <3>1. holder'[IO] = Tail(holder[IO])
      BY <2>1, <2>4, HandledTyped, ThreadIds
    <3>2. UP = RestPages /\ UPX = RestPagesX
      BY <2>1, FirstPage
    <3> QED BY <2>1, <2>2, <3>1, <3>2, HandledPages, CapsKept DEF SamePages
  <2> QED BY <2>1, <2>3, <2>4
<1> QED BY <1>1, <1>2, <1>3 DEF Poll

\* Steps of S.
LEMMA QuietS ==
  ASSUME LoopTyped, Channels, WalkD, NextS \/ AskShutdown
  PROVE  SameCaps /\ SamePages
<1>1. CASE Pop(S)
  BY <1>1, QuietPop
<1>2. CASE ~Pop(S)
  <2>1. UNCHANGED channel
    BY <1>2 DEF NextS, NewConnection, HandleShutdown, Tell, ToldAll, Join, JoinedAll, AskShutdown, photons
  <2>2. holder'[D] = holder[D] /\ holder'[IO] = holder[IO]
    <3>1. CASE NewConnection
      BY <3>1, NewConnectionTyped, ThreadIds
    <3>2. CASE JoinedAll
      <4>1. left[S] >= 1 /\ pc[S] = "join" /\ LastHandled(S)
        BY <3>2, BusyLeft DEF JoinedAll
      <4> QED BY <4>1, HandledTyped, ThreadIds
    <3>3. CASE HandleShutdown \/ Tell \/ ToldAll \/ Join \/ AskShutdown
      BY <3>3 DEF HandleShutdown, Tell, ToldAll, Join, AskShutdown, loop
    <3> QED BY <1>2, <3>1, <3>2, <3>3 DEF NextS
  <2> QED BY <2>1, <2>2, CapsKept, PagesKept
<1> QED BY <1>1, <1>2

-----------------------------------------------------------------------------
(* What the steps of one thread leave of another.                          *)

\* A step leaves t where it is.
Left(t) == holder'[t] = holder[t] /\ left'[t] = left[t] /\ pc'[t] = pc[t]

\* A step of t that changes its place leaves the others.
LEMMA MovesOther ==
  ASSUME LoopTyped, NEW t \in Threads, NEW at, Moves(t, at)
  PROVE  \A u \in Threads \ {t} : Left(u)
BY DEF Moves, Goto, LoopTyped, Left

\* So does a poll, ...
LEMMA PollOther ==
  ASSUME LoopTyped, NEW t \in Threads, Recv(t) \/ Pop(t)
  PROVE  \A u \in Threads \ {t} : Left(u)
<1>1. CASE Recv(t)
  BY <1>1 DEF Recv, Goto, LoopTyped, Left
<1>2. CASE Pop(t)
  BY <1>2 DEF Pop, Goto, LoopTyped, Left
<1> QED BY <1>1, <1>2

\* ... and a handler.
LEMMA HandledOther ==
  ASSUME LoopTyped, NEW t \in {S, D, IO}, left[t] >= 1, pc[t] # "done",
         Handled(t) \/ LastHandled(t) \/ Defer(t)
  PROVE  \A u \in Threads \ {t} : Left(u)
BY HandledTyped DEF Left

\* Nobody moves.
LEMMA SameLeft ==
  ASSUME UNCHANGED <<status, pc, holder, left>>
  PROVE  \A u \in Threads : Left(u)
BY DEF Left

\* C leaves the others where they are.
LEMMA LeftByC ==
  ASSUME LoopTyped, NextC
  PROVE  Left(D) /\ Left(IO) /\ Left(S)
BY MovesC, MovesOther, SameLeft, ThreadIds

\* D leaves the others but for SpawnIO.
LEMMA LeftByD ==
  ASSUME LoopTyped, WalkD, NextD
  PROVE  Left(C) /\ Left(S) /\ (~SpawnIO => Left(IO))
<1>1. CASE SpawnIO
  <2>1. UNCHANGED <<holder, left>>
    BY <1>1 DEF SpawnIO
  <2> QED BY <1>1, <2>1, SpawnTyped DEF Left
<1>2. CASE ~SpawnIO
  BY <1>2, MovesD, MovesOther, SameLeft, PollOther, HandledOther, BusyLeft, ThreadIds
<1> QED BY <1>1, <1>2

\* IO leaves the others where they are.
LEMMA LeftByIO ==
  ASSUME LoopTyped, WalkD, NextIO
  PROVE  Left(C) /\ Left(S) /\ Left(D)
BY MovesIO, MovesOther, PollOther, HandledOther, BusyLeft, ThreadIds

\* S leaves the others but for NewConnection.
LEMMA LeftByS ==
  ASSUME LoopTyped, WalkD, NextS \/ AskShutdown
  PROVE  Left(C) /\ Left(IO) /\ (~NewConnection => Left(D))
<1>1. CASE NewConnection
  BY <1>1, NewConnectionTyped, ThreadIds DEF Left
<1>2. CASE ~NewConnection
  BY <1>2, MovesS, MovesOther, SameLeft, PollOther, HandledOther, BusyLeft, ThreadIds
<1> QED BY <1>1, <1>2

\* Nobody but C touches C's variables, the bodies of its messages or its photon.
LEMMA FrameC ==
  ASSUME LoopTyped, WalkD, NextD \/ NextIO \/ NextS \/ AskShutdown \/ UNCHANGED vars
  PROVE  /\ pc'[C] = pc[C] /\ UNCHANGED <<captured, currentDBMessage, closed, capBody>>
         /\ OwnStep => ("cap" \in isConnected' <=> "cap" \in isConnected)
<1>1. pc'[C] = pc[C]
  BY LeftByD, LeftByIO, LeftByS DEF Left, vars, loop
<1>2. CASE NextD
  <2>1. UNCHANGED cVars /\ UNCHANGED capBody
    BY <1>2 DEF NextD, Poll, Start, Recv, Pop, SpawnIO, RegisterPhoton, WriteCaplets, AddCaplet,
       AddToNextPage, SendPage, WroteCaplets, ShutdownD, CloseD, SendLastPage, CloseIOPhoton, Close,
       ClosedIOPhoton, MarkThreadAsFree, caps
  <2>2. OwnStep => isConnected' \in {isConnected, isConnected \cup {"io"}, isConnected \ {"io"}}
    BY <1>2, OwnUses DEF NextD, Poll, Start, Recv, Pop, SpawnIO, RegisterPhoton, WriteCaplets, AddCaplet,
       AddToNextPage, SendPage, WroteCaplets, ShutdownD, CloseD, SendLastPage, CloseIOPhoton, Close,
       ClosedIOPhoton, Drained, MarkThreadAsFree, photons
  <2> QED BY <1>1, <2>1, <2>2 DEF cVars
<1>3. CASE NextIO
  BY <1>1, <1>3 DEF NextIO, Poll, Start, Recv, Pop, WritePage, ShutdownIO, CloseIO, caps, photons, cVars
<1>4. CASE NextS \/ AskShutdown
  BY <1>1, <1>4 DEF NextS, Pop, NewConnection, HandleShutdown, Tell, ToldAll, Join, JoinedAll, AskShutdown,
     caps, photons, cVars
<1>5. CASE UNCHANGED vars
  BY <1>1, <1>5 DEF vars, caps, photons, cVars
<1> QED BY <1>2, <1>3, <1>4, <1>5

\* Nobody but D touches D's; S makes it start.
LEMMA FrameD ==
  ASSUME LoopTyped, WalkD, NextC \/ NextIO \/ NextS \/ AskShutdown \/ UNCHANGED vars
  PROVE  /\ holder'[D] = holder[D] /\ left'[D] = left[D]
         /\ UNCHANGED <<registered, currentPage, dbm, packed, full, available, pageBody>>
         /\ "io" \in isConnected' <=> "io" \in isConnected
         /\ ~NewConnection => pc'[D] = pc[D]
<1>1. /\ holder'[D] = holder[D] /\ left'[D] = left[D] /\ (~NewConnection => pc'[D] = pc[D])
  <2>1. CASE NewConnection
    BY <2>1, NewConnectionTyped, ThreadIds
  <2>2. CASE ~NewConnection
    BY <2>2, LeftByC, LeftByIO, LeftByS DEF Left, vars, loop
  <2> QED BY <2>1, <2>2
<1>2. CASE NextC
  <2>1. UNCHANGED dVars /\ UNCHANGED pageBody
    BY <1>2 DEF NextC, Start, Connect, Capture, SendCaplets, GetFreeMsg, CloseC, SendLastCaplets,
       CloseDBPhoton, Close, ClosedDBPhoton, pages
  <2>2. isConnected' \in {isConnected, isConnected \cup {"cap"}, isConnected \ {"cap"}}
    BY <1>2 DEF NextC, Start, Connect, Capture, SendCaplets, GetFreeMsg, CloseC, SendLastCaplets,
       CloseDBPhoton, Close, ClosedDBPhoton, Drained, photons
  <2> QED BY <1>1, <2>1, <2>2 DEF dVars
<1>3. CASE NextIO
  BY <1>1, <1>3 DEF NextIO, Poll, Start, Recv, Pop, WritePage, ShutdownIO, CloseIO, pages, photons, dVars
<1>4. CASE NextS \/ AskShutdown
  BY <1>1, <1>4 DEF NextS, Pop, NewConnection, HandleShutdown, Tell, ToldAll, Join, JoinedAll, AskShutdown,
     pages, photons, dVars
<1>5. CASE UNCHANGED vars
  BY <1>1, <1>5 DEF vars, pages, photons, dVars
<1> QED BY <1>2, <1>3, <1>4, <1>5

\* The file is written and closed by IO.
LEMMA FrameIO ==
  ASSUME NextC \/ NextD \/ NextS \/ AskShutdown \/ UNCHANGED vars
  PROVE  UNCHANGED <<file, isOpen>>
<1>1. CASE NextC
  BY <1>1 DEF NextC, Start, Connect, Capture, SendCaplets, GetFreeMsg, CloseC, SendLastCaplets,
       CloseDBPhoton, Close, ClosedDBPhoton, ioVars
<1>2. CASE NextD
  BY <1>2 DEF NextD, Poll, Start, Recv, Pop, SpawnIO, RegisterPhoton, WriteCaplets, AddCaplet,
       AddToNextPage, SendPage, WroteCaplets, ShutdownD, CloseD, SendLastPage, CloseIOPhoton, Close,
       ClosedIOPhoton, MarkThreadAsFree, ioVars
<1>3. CASE NextS \/ AskShutdown \/ UNCHANGED vars
  BY <1>3 DEF NextS, Pop, NewConnection, HandleShutdown, Tell, ToldAll, Join, JoinedAll, AskShutdown,
     vars, ioVars
<1> QED BY <1>1, <1>2, <1>3

\* Places of C are kept.
LEMMA GotoAt ==
  ASSUME LoopTyped, NEW t \in Threads, NEW at, Goto(t, at)
  PROVE  pc'[t] = at
BY DEF Goto, LoopTyped

\* Every step keeps WalkC.
LEMMA WalkCStep ==
  ASSUME OwnStep, LoopTyped, DataTyped, WalkC, WalkD, [Next]_vars
  PROVE  WalkC'
<1> C \in Threads
  BY ThreadIds
<1>1. CASE NextD \/ NextIO \/ NextS \/ AskShutdown \/ UNCHANGED vars
  BY <1>1, FrameC DEF WalkC
<1>2. CASE Start(C)
  <2>1. pc'[C] = "connect" /\ pc[C] = "start" /\ UNCHANGED currentDBMessage
    BY <1>2, GotoAt, ThreadIds DEF Start, cVars
  <2> QED BY <2>1 DEF WalkC
<1>3. CASE Connect
  <2>1. pc'[C] = "idle" /\ isConnected' = isConnected \cup {"cap"}
    BY <1>3, GotoAt DEF Connect
  <2> QED BY <2>1 DEF WalkC
<1>4. CASE Capture
  <2>1. pc'[C] = pc[C] /\ pc[C] = "idle" /\ UNCHANGED <<closed, isConnected>>
    BY <1>4 DEF Capture, loop, photons
  <2> QED BY <2>1 DEF WalkC
<1>5. CASE SendCaplets
  <2>1. pc'[C] = "getFree" /\ pc[C] = "idle" /\ ~closed /\ captured < MaxCaplets
        /\ UNCHANGED <<closed, captured, isConnected>>
    BY <1>5, GotoAt DEF SendCaplets, cVars
  <2> QED BY <2>1 DEF WalkC
<1>6. CASE GetFreeMsg
  <2>1. pc'[C] = "idle" /\ pc[C] = "getFree" /\ UNCHANGED <<closed, isConnected>>
    BY <1>6, GotoAt DEF GetFreeMsg, photons
  <2> QED BY <2>1 DEF WalkC
<1>7. CASE CloseC
  <2>1. /\ closed' = TRUE /\ UNCHANGED isConnected
        /\ pc'[C] = "done" \/ (pc'[C] = "lastCaplets" /\ "cap" \in isConnected)
    BY <1>7, GotoAt DEF CloseC, photons
  <2> QED BY <2>1 DEF WalkC
<1>8. CASE SendLastCaplets \/ CloseDBPhoton
  <2>1. pc[C] \in {"lastCaplets", "close"} /\ pc'[C] \in {"close", "drain"} /\ UNCHANGED closed
    BY <1>8, GotoAt DEF SendLastCaplets, CloseDBPhoton, Close, cVars
  <2> QED BY <2>1 DEF WalkC
<1>9. CASE ClosedDBPhoton
  <2>1. pc[C] = "drain" /\ pc'[C] \in {"done", "idle"} /\ UNCHANGED closed
    BY <1>9, GotoAt DEF ClosedDBPhoton, Drained, cVars
  <2> QED BY <2>1 DEF WalkC
<1> QED BY <1>1, <1>2, <1>3, <1>4, <1>5, <1>6, <1>7, <1>8, <1>9 DEF Next, NextC

-----------------------------------------------------------------------------
(* S hears of one connection.                                              *)

\* NEW_CONNECTION.
N == IdIf({"NEW_CONNECTION"})

\* What N makes of the messages of S.
LEMMA Greetings ==
  /\ View(N) /\ N[Plain("NEW_CONNECTION")] = <<None>> /\ N[Plain("SHUTDOWN")] = << >>
  /\ UN = Seen(N, holder[S], ctrl[S]) /\ UN' = Seen(N, holder'[S], ctrl'[S])
<1>1. Plain("NEW_CONNECTION") \in Messages /\ Plain("SHUTDOWN") \in Messages
  BY ToldMessages, MessageSets, ThreadIds
<1>2. Plain("NEW_CONNECTION")[1] = "NEW_CONNECTION" /\ Plain("NEW_CONNECTION")[2] = None
      /\ Plain("SHUTDOWN")[1] = "SHUTDOWN"
  BY DEF Plain
<1>3. N[Plain("NEW_CONNECTION")] = <<None>> /\ N[Plain("SHUTDOWN")] = << >>
  BY <1>1, <1>2, IdIfMaps DEF N
<1>4. View(N)
  BY IdIfMaps DEF N, View
<1> QED BY <1>3, <1>4 DEF UN, Seen, N

\* Holders and control messages are messages.
LEMMA ToldTypes ==
  ASSUME LoopTyped, NEW t \in Threads
  PROVE  holder[t] \in Seq(Messages) /\ ctrl[t] \in Seq(Messages)
BY MessageSets, SeqSubset DEF LoopTyped

\* One more control message.
LEMMA PushSeen ==
  ASSUME LoopTyped, NEW m \in Messages, UNCHANGED holder, Push(S, m)
  PROVE  /\ N[m] = << >> => UN' = UN
         /\ UN = << >> => UN' = N[m]
<1>1. PICK h \in Seq(Messages), c \in Seq(Messages) : h = holder[S] /\ c = ctrl[S]
  BY ToldTypes, ThreadIds
<1>2. ctrl'[S] = <<m>> \o c
  BY <1>1, ThreadIds DEF Push, LoopTyped
<1>3. UN = Seen(N, h, c) /\ UN' = Seen(N, h, <<m>> \o c)
  BY <1>1, <1>2, Greetings
<1>4. Seen(N, h, <<m>> \o c) = Seen(N, Append(h, m), c)
  BY SeenRecv
<1>5. ASSUME N[m] = << >> PROVE UN' = UN
  <2>1. Seen(N, Append(h, m), c) = Seen(N, h, c)
    BY <1>5, Greetings, SeenPush DEF View
  <2> QED BY <1>3, <1>4, <2>1
<1>6. ASSUME UN = << >> PROVE UN' = N[m]
  <2>1. PICK g \in Seq(Messages) : g = Append(h, m)
    BY Appended
  <2>2. Seen(N, g, c) = Each(N, g) \o Each(N, c)
    BY Greetings, SeenSplit DEF View
  <2>3. Seen(N, h, c) = Each(N, h) \o Each(N, c)
    BY Greetings, SeenSplit DEF View
  <2>4. Each(N, g) = Each(N, h) \o N[m]
    BY <2>1, Greetings, EachAppend DEF View
  <2>5. PICK x \in Seq(MsgIds), y \in Seq(MsgIds), z \in Seq(MsgIds) :
          x = Each(N, h) /\ y = Each(N, c) /\ z = N[m]
    <3>1. Each(N, h) \in Seq(MsgIds) /\ Each(N, c) \in Seq(MsgIds) /\ N[m] \in Seq(MsgIds)
      <4>1. Maps(N, Messages, MsgIds)
        BY Greetings DEF View
      <4>2. N[m] \in Seq(MsgIds)
        BY <4>1 DEF Maps
      <4> QED BY <4>1, <4>2, EachType
    <3> QED BY <3>1
  <2>6. x \o y = << >>
    BY <1>3, <1>6, <2>3, <2>5
  <2>7. x = << >> /\ y = << >>
    BY <2>6, ConcatEqualIffEmpty
  <2>8. << >> \o z = z /\ z \o << >> = z
    BY ConcatEmptySeq
  <2>9. Each(N, g) = z
    BY <2>4, <2>5, <2>7, <2>8
  <2>10. Seen(N, g, c) = z \o << >>
    BY <2>2, <2>5, <2>7, <2>9
  <2> QED BY <1>3, <1>4, <2>1, <2>5, <2>8, <2>10
<1> QED BY <1>5, <1>6

\* Pop moves a control message from its list to the holder.
LEMMA PopSeen ==
  ASSUME LoopTyped, NEW t \in {S, D, IO}, Pop(t)
  PROVE  UN' = UN
<1>1. t \in Threads /\ S \in Threads
  BY ThreadIds
<1>2. CASE ctrl[t] = << >> \/ t # S
  <2>1. holder'[S] = holder[S] /\ ctrl'[S] = ctrl[S]
    BY <1>1, <1>2, Pop(t) DEF Pop, LoopTyped
  <2> QED BY <2>1, Greetings
<1>3. CASE ctrl[t] # << >> /\ t = S
  <2>1. PICK h \in Seq(Messages), c \in Seq(Messages) : h = holder[S] /\ c = ctrl[S]
    BY ToldTypes, ThreadIds
  <2>2. PICK e, r : e = Head(c) /\ r = Tail(c)
    OBVIOUS
  <2>3. e \in Messages /\ r \in Seq(Messages) /\ c = <<e>> \o r
    BY <1>3, <2>1, <2>2, Split
  <2>4. holder'[S] = Append(h, e) /\ ctrl'[S] = r
    BY <1>1, <1>3, <2>1, <2>2, Pop(t) DEF Pop, LoopTyped
  <2>5. Seen(N, Append(h, e), r) = Seen(N, h, <<e>> \o r)
    BY <2>3, SeenRecv
  <2> QED BY <2>1, <2>3, <2>4, <2>5, Greetings
<1> QED BY <1>2, <1>3

\* A message is handled: it was the one, or none.
LEMMA HandleSeen ==
  ASSUME LoopTyped, left[S] >= 1, holder'[S] = Tail(holder[S]), UNCHANGED ctrl \/ ctrl'[S] = ctrl[S],
         UN = << >> \/ UN = <<None>>
  PROVE  /\ UN' = << >> \/ UN' = UN
         /\ Head(holder[S])[1] = "NEW_CONNECTION" => UN # << >> /\ UN' = << >>
<1>1. PICK h \in Seq(Messages), c \in Seq(Messages) : h = holder[S] /\ c = ctrl[S]
  BY ToldTypes, ThreadIds
<1>2. PICK e, r : e = Head(h) /\ r = Tail(h)
  OBVIOUS
<1>3. h # << >> /\ e \in Messages /\ r \in Seq(Messages) /\ e \in Told(S)
  <2>1. Held(S) = Told(S)
    BY ThreadIds DEF Held
  <2> QED BY <1>1, <1>2, <2>1, HeadHeld, Split, MessageSets, ThreadIds
<1>4. SeenHead(N, h, c, e, r)
  BY <1>2, <1>3, Greetings, SeenFirst DEF View
<1>5. PICK x \in Seq(MsgIds) : x = Seen(N, r, c)
  <2>1. Seen(N, r, c) \in Seq(MsgIds)
    BY <1>2, <1>3, Greetings, SeenRest DEF View
  <2> QED BY <2>1
<1>6. UN = N[e] \o x /\ UN' = x
  BY <1>1, <1>2, <1>4, <1>5, Greetings DEF SeenHead
<1>7. e = Plain("NEW_CONNECTION") \/ e = Plain("SHUTDOWN")
  BY <1>3, ThreadIds DEF Told
<1>8. CASE e = Plain("SHUTDOWN")
  <2>1. UN = << >> \o x
    BY <1>6, <1>8, Greetings
  <2>2. UN = x
    BY <2>1, ConcatEmptySeq
  <2>3. e[1] = "SHUTDOWN"
    BY <1>8 DEF Plain
  <2> QED BY <1>1, <1>2, <1>6, <2>2, <2>3
<1>9. CASE e = Plain("NEW_CONNECTION")
  <2>1. PICK o \in Seq(MsgIds) : o = <<None>>
    BY One, MessageIds
  <2>2. UN = o \o x /\ o # << >>
    BY <1>6, <1>9, <2>1, Greetings
  <2>3. UN # << >>
    BY <2>2, ConcatEqualIffEmpty
  <2>4. o \o x = o
    BY <2>1, <2>2, <2>3
  <2>5. x = << >>
    BY <2>4, ConcatEqualIffEmpty
  <2> QED BY <1>6, <2>3, <2>5
<1> QED BY <1>7, <1>8, <1>9

\* What the steps do to what S hears.
LEMMA HeardStep ==
  ASSUME LoopTyped, WalkD, [Next]_vars, UN = << >> \/ UN = <<None>>, Connect => UN = << >>
  PROVE  /\ Connect => UN' = <<None>>
         /\ NewConnection => UN # << >> /\ UN' = << >>
         /\ ~Connect => UN' = << >> \/ UN' = UN
<1>0. Plain("SHUTDOWN") \in Messages /\ Plain("NEW_CONNECTION") \in Messages
  BY ToldMessages, MessageSets, ThreadIds
<1>1. CASE Connect
  <2>1. UNCHANGED holder /\ Push(S, Plain("NEW_CONNECTION")) /\ pc[C] = "connect" /\ pc'[C] = "idle"
    BY <1>1, GotoAt, ThreadIds DEF Connect
  <2>2. UN' = <<None>>
    BY <1>0, <1>1, <2>1, PushSeen, Greetings
  <2>3. ~NewConnection
    <3>1. SUFFICES ASSUME NewConnection PROVE FALSE
      OBVIOUS
    <3>2. Left(C)
      BY <3>1, LeftByS DEF NextS
    <3> QED BY <2>1, <3>2 DEF Left
  <2> QED BY <1>1, <2>2, <2>3
<1>2. CASE NewConnection
  <2>1. left[S] >= 1 /\ holder'[S] = Tail(holder[S]) /\ Head(holder[S])[1] = "NEW_CONNECTION"
        /\ ctrl'[S] = ctrl[S]
    BY <1>2, BusyLeft, NewConnectionTyped, ThreadIds DEF NewConnection, Handling, Push, LoopTyped
  <2>2. UN # << >> /\ UN' = << >>
    BY <2>1, HandleSeen
  <2>3. ~Connect
    <3>1. SUFFICES ASSUME Connect PROVE FALSE
      OBVIOUS
    <3> QED BY <2>2, <3>1
  <2> QED BY <2>2, <2>3
<1>3. CASE ~Connect /\ ~NewConnection
  <2>1. CASE UNCHANGED <<holder, ctrl>>
    BY <1>3, <2>1, Greetings
  <2>2. CASE holder'[S] = holder[S] /\ ctrl'[S] = ctrl[S]
    BY <1>3, <2>2, Greetings
  <2>3. CASE NextC
    <3>1. holder'[S] = holder[S]
      BY <2>3, LeftByC DEF Left
    <3>2. ctrl'[S] = ctrl[S]
      BY <1>3, <2>3, ThreadIds DEF NextC, Start, Capture, SendCaplets, GetFreeMsg, CloseC, SendLastCaplets,
         CloseDBPhoton, Close, ClosedDBPhoton, loop, LoopTyped
    <3> QED BY <2>2, <3>1, <3>2
  <2>4. CASE NextD
    <3>1. CASE Pop(D)
      BY <1>3, <3>1, PopSeen
    <3>2. CASE ~Pop(D)
      <4>1. holder'[S] = holder[S]
        BY <2>4, LeftByD DEF Left
      <4>2. ctrl' = ctrl
        BY <2>4, <3>2 DEF NextD, Poll, Start, Recv, SpawnIO, RegisterPhoton, WriteCaplets, AddCaplet,
           AddToNextPage, SendPage, WroteCaplets, ShutdownD, CloseD, SendLastPage, CloseIOPhoton,
           Close, ClosedIOPhoton, MarkThreadAsFree, loop
      <4> QED BY <2>2, <4>1, <4>2
    <3> QED BY <3>1, <3>2
  <2>5. CASE NextIO
    <3>1. CASE Pop(IO)
      BY <1>3, <3>1, PopSeen
    <3>2. CASE ~Pop(IO)
      <4>1. holder'[S] = holder[S]
        BY <2>5, LeftByIO DEF Left
      <4>2. ctrl' = ctrl
        BY <2>5, <3>2 DEF NextIO, Poll, Start, Recv, WritePage, ShutdownIO, CloseIO
      <4> QED BY <2>2, <4>1, <4>2
    <3> QED BY <3>1, <3>2
  <2>6. CASE Pop(S)
    BY <1>3, <2>6, PopSeen
  <2>7. CASE HandleShutdown \/ ToldAll \/ Join
    <3>1. UNCHANGED <<holder, ctrl>>
      BY <2>7 DEF HandleShutdown, ToldAll, Join, loop
    <3> QED BY <2>1, <3>1
  <2>8. CASE Tell
    <3>1. UNCHANGED holder /\ (UNCHANGED ctrl \/ \E t \in Threads : Push(t, Plain("SHUTDOWN")))
      BY <2>8 DEF Tell, Running
    <3>2. ASSUME NEW t \in Threads, Push(t, Plain("SHUTDOWN"))
          PROVE  ctrl'[S] = ctrl[S] \/ Push(S, Plain("SHUTDOWN"))
      BY <3>2, ThreadIds DEF Push, LoopTyped
    <3>3. CASE Push(S, Plain("SHUTDOWN"))
      BY <1>0, <1>3, <3>1, <3>3, PushSeen, Greetings
    <3> QED BY <2>1, <2>2, <3>1, <3>2, <3>3
  <2>9. CASE AskShutdown
    <3>1. UNCHANGED holder /\ Push(S, Plain("SHUTDOWN"))
      BY <2>9 DEF AskShutdown
    <3> QED BY <1>0, <1>3, <3>1, PushSeen, Greetings
  <2>10. CASE JoinedAll
    <3>1. left[S] >= 1 /\ pc[S] = "join" /\ LastHandled(S) /\ UNCHANGED ctrl
      BY <2>10, BusyLeft DEF JoinedAll
    <3>2. holder'[S] = Tail(holder[S])
      BY <3>1, HandledTyped, ThreadIds
    <3> QED BY <1>3, <3>1, <3>2, HandleSeen
  <2>11. CASE UNCHANGED vars
    BY <2>1, <2>11 DEF vars, loop
  <2> QED BY <1>3, <2>3, <2>4, <2>5, <2>6, <2>7, <2>8, <2>9, <2>10, <2>11 DEF Next, NextS
<1> QED BY <1>1, <1>2, <1>3

\* Every step keeps Greeting: one connection, one D.
LEMMA GreetingStep ==
  ASSUME LoopTyped, WalkD, Greeting, [Next]_vars
  PROVE  Greeting' /\ (NewConnection => pc[D] = "none")
<1>1. Connect => UN = << >> /\ pc[D] = "none"
  BY DEF Connect, Greeting
<1>2. /\ Connect => UN' = <<None>>
      /\ NewConnection => UN # << >> /\ UN' = << >>
      /\ ~Connect => UN' = << >> \/ UN' = UN
  BY <1>1, HeardStep DEF Greeting
<1>3. pc[D] = "none" /\ ~NewConnection => pc'[D] = "none"
  <2>1. CASE NextD
    <3>1. pc[D] # "none"
      BY <2>1 DEF NextD, Poll, Start, Recv, Pop, SpawnIO, RegisterPhoton, WriteCaplets, AddCaplet, Handling,
           AddToNextPage, SendPage, WroteCaplets, ShutdownD, CloseD, SendLastPage, CloseIOPhoton,
           Close, ClosedIOPhoton, Drained, MarkThreadAsFree
    <3> QED BY <3>1
  <2>2. CASE ~NextD
    BY <2>2, FrameD DEF Next
  <2> QED BY <2>1, <2>2
<1>4. pc'[C] \in {"start", "connect"} => pc[C] \in {"start", "connect"} /\ ~Connect
  <2>1. CASE NextC
    <3>1. CASE Start(C)
      BY <3>1 DEF Start, Connect
    <3>2. CASE ~Start(C)
      <4>1. pc'[C] \notin {"start", "connect"} \/ pc'[C] = pc[C]
        BY <2>1, <3>2, GotoAt, ThreadIds DEF NextC, Connect, Capture, SendCaplets, GetFreeMsg, CloseC,
           SendLastCaplets, CloseDBPhoton, Close, ClosedDBPhoton, loop
      <4>2. Connect => pc'[C] = "idle"
        BY GotoAt, ThreadIds DEF Connect
      <4> QED BY <4>1, <4>2
    <3> QED BY <3>1, <3>2
  <2>2. CASE ~NextC
    BY <2>2, FrameC DEF Next, NextC
  <2> QED BY <2>1, <2>2
<1>5. NewConnection => ~Connect
  BY <1>1, <1>2
<1>6. NewConnection => pc[C] \notin {"start", "connect"}
  BY <1>2 DEF Greeting
<1> QED BY <1>1, <1>2, <1>3, <1>4, <1>5, <1>6 DEF Greeting

\* Every step keeps Fresh.
LEMMA FreshStep ==
  ASSUME LoopTyped, Channels, DataTyped, WalkD, Fresh, [Next]_vars
  PROVE  Fresh'
<1>1. currentDBMessage' = None => \A i \in CapIds : capBody'[i] = << >>
  <2>1. CASE NextC
    <3>1. CASE Capture \/ GetFreeMsg
      <4>1. currentDBMessage' \in CapIds
        BY <3>1 DEF Capture, GetFreeMsg
      <4> QED BY <4>1, Numbers
    <3>2. CASE ~(Capture \/ GetFreeMsg)
      BY <2>1, <3>2 DEF NextC, Start, Connect, SendCaplets, CloseC, SendLastCaplets, CloseDBPhoton, Close,
         ClosedDBPhoton, caps, cVars, Fresh
    <3> QED BY <3>1, <3>2
  <2>2. CASE ~NextC
    BY <2>2, FrameC DEF Next, Fresh
  <2> QED BY <2>1, <2>2
<1>2. currentPage' = None => pageUse' = {} /\ \A i \in PageIds : pageBody'[i] = << >>
  <2>1. CASE NextD
    <3>1. CASE AddToNextPage \/ WriteCaplets
      <4>1. currentPage' \in PageIds \/ (UNCHANGED <<currentPage, pages>>)
        BY <3>1, Numbers DEF AddToNextPage, WriteCaplets, pages
      <4> QED BY <4>1, Numbers DEF Fresh, pages
    <3>2. CASE AddCaplet
      <4>1. currentPage' \in PageIds
        BY <3>2, Packs DEF AddCaplet
      <4> QED BY <4>1, Numbers
    <3>3. CASE ~(AddToNextPage \/ WriteCaplets \/ AddCaplet)
      BY <2>1, <3>3 DEF NextD, Poll, Start, Recv, Pop, SpawnIO, RegisterPhoton, SendPage, WroteCaplets,
         ShutdownD, CloseD, SendLastPage, CloseIOPhoton, Close, ClosedIOPhoton, MarkThreadAsFree,
         pages, dVars, Fresh
    <3> QED BY <3>1, <3>2, <3>3
  <2>2. CASE ~NextD
    <3>1. UNCHANGED <<currentPage, pageBody>>
      BY <2>2, FrameD DEF Next
    <3>2. pageUse' \subseteq pageUse
      BY <2>2 DEF Next, NextC, Start, Connect, Capture, SendCaplets, GetFreeMsg, CloseC, SendLastCaplets,
         CloseDBPhoton, Close, ClosedDBPhoton, NextIO, Poll, Recv, Pop, WritePage, ShutdownIO, CloseIO,
         NextS, NewConnection, HandleShutdown, Tell, ToldAll, Join, JoinedAll, AskShutdown, vars, pages
    <3> QED BY <3>1, <3>2 DEF Fresh
  <2> QED BY <2>1, <2>2
<1> QED BY <1>1, <1>2 DEF Fresh

-----------------------------------------------------------------------------
(* Where D and the others are.                                             *)

\* A thread in a handler has a message to handle.
BusyTyped(t) == Busy(t) => left[t] >= 1

\* It does if it is left where it is.
LEMMA BusyKept ==
  ASSUME NEW t, BusyTyped(t), Left(t)
  PROVE  BusyTyped(t)'
BY DEF BusyTyped, Left, Busy

\* It does after a move inside the handler or out of it.
LEMMA BusyMoves ==
  ASSUME LoopTyped, NEW t \in {S, D, IO}, NEW at, Moves(t, at), Busy(t) \/ at \in {"spawn", "recv"}, BusyTyped(t)
  PROVE  BusyTyped(t)'
<1>1. pc'[t] = at /\ left'[t] = left[t]
  BY GotoAt, ThreadIds DEF Moves
<1> QED BY <1>1 DEF BusyTyped, Busy

\* It does after a poll.
LEMMA BusyPoll ==
  ASSUME LoopTyped, NEW t \in {S, D, IO}, Recv(t) \/ Pop(t), BusyTyped(t)
  PROVE  BusyTyped(t)'
<1>0. t \in Threads
  BY ThreadIds
<1>1. CASE Recv(t)
  <2>1. pc[t] = "recv" /\ (pc'[t] = pc[t] \/ pc'[t] = "pop")
    BY <1>0, <1>1, GotoAt DEF Recv
  <2> QED BY <2>1 DEF BusyTyped, Busy
<1>2. CASE Pop(t)
  <2>1. CASE ctrl[t] # << >> \/ holder[t] = << >>
    <3>1. pc'[t] \in {"pop", "recv"}
      BY <1>0, <1>2, <2>1, GotoAt DEF Pop, Again
    <3> QED BY <3>1 DEF BusyTyped, Busy
  <2>2. CASE ctrl[t] = << >> /\ holder[t] # << >>
    <3>1. left'[t] = Len(holder[t])
      BY <1>0, <1>2, <2>2 DEF Pop, LoopTyped
    <3>2. Len(holder[t]) >= 1
      BY <1>0, <2>2, Split DEF LoopTyped
    <3> QED BY <3>1, <3>2 DEF BusyTyped
  <2> QED BY <2>1, <2>2
<1> QED BY <1>1, <1>2

\* It does after a handler.
LEMMA BusyHandled ==
  ASSUME LoopTyped, NEW t \in {S, D, IO}, left[t] >= 1, pc[t] # "done",
         Handled(t) \/ LastHandled(t) \/ Defer(t)
  PROVE  BusyTyped(t)'
<1>1. pc'[t] = "done" \/ pc'[t] = Again(t) \/ (pc'[t] = "handle" /\ left'[t] >= 1)
  BY HandledTyped
<1> QED BY <1>1 DEF BusyTyped, Busy, Again

\* Every step keeps it.
LEMMA BusyStep ==
  ASSUME LoopTyped, WalkD, [Next]_vars
  PROVE  BusyTyped(S)' /\ BusyTyped(D)' /\ BusyTyped(IO)'
<1>1. BusyTyped(S) /\ BusyTyped(D) /\ BusyTyped(IO)
  BY DEF WalkD, BusyTyped
<1>2. CASE UNCHANGED vars
  BY <1>1, <1>2, BusyKept DEF vars, loop, Left
<1>3. CASE NextC
  BY <1>1, <1>3, BusyKept, LeftByC
<1>4. CASE NextD
  <2>1. CASE SpawnIO
    BY <1>1, <2>1, SpawnTyped, BusyKept, LeftByD, <1>4 DEF BusyTyped, Busy
  <2>2. CASE ~SpawnIO
    <3>1. BusyTyped(S)' /\ BusyTyped(IO)'
      BY <1>1, <1>4, <2>2, BusyKept, LeftByD
    <3>2. CASE UNCHANGED <<status, pc, holder, left>>
      <4>1. BusyTyped(D)'
        BY <1>1, <3>2, SameLeft, ThreadIds, BusyKept
      <4> QED BY <3>1, <4>1
    <3>3. CASE \E at \in PlacesOf(D) : Moves(D, at) /\ (at = "spawn" \/ Busy(D))
      BY <1>1, <3>1, <3>3, BusyMoves
    <3>4. CASE Recv(D) \/ Pop(D)
      BY <1>1, <3>1, <3>4, BusyPoll
    <3>5. CASE /\ pc[D] \in {"handle", "add", "free"}
               /\ Handled(D) \/ LastHandled(D) \/ Defer(D)
      BY <3>1, <3>5, BusyHandled, BusyLeft
    <3> QED BY <1>4, <2>2, <3>2, <3>3, <3>4, <3>5, MovesD
  <2> QED BY <2>1, <2>2
<1>5. CASE NextIO
  <2>1. BusyTyped(S)' /\ BusyTyped(D)'
    BY <1>1, <1>5, BusyKept, LeftByIO
  <2>2. BusyTyped(IO)'
    BY <1>1, <1>5, MovesIO, BusyMoves, BusyPoll, BusyHandled, BusyLeft
  <2> QED BY <2>1, <2>2
<1>6. CASE NextS \/ AskShutdown
  <2>1. CASE NewConnection
    BY <1>1, <1>6, <2>1, NewConnectionTyped, BusyKept, LeftByS DEF BusyTyped, Busy
  <2>2. CASE ~NewConnection
    <3>1. BusyTyped(IO)' /\ BusyTyped(D)'
      BY <1>1, <1>6, <2>2, BusyKept, LeftByS
    <3>2. CASE UNCHANGED <<status, pc, holder, left>>
      <4>1. BusyTyped(S)'
        BY <1>1, <3>2, SameLeft, ThreadIds, BusyKept
      <4> QED BY <3>1, <4>1
    <3>3. CASE \E at \in PlacesOf(S) : Moves(S, at) /\ Busy(S)
      BY <1>1, <3>1, <3>3, BusyMoves
    <3>4. CASE Pop(S)
      BY <1>1, <3>1, <3>4, BusyPoll
    <3>5. CASE pc[S] = "join" /\ LastHandled(S)
      BY <3>1, <3>5, BusyHandled, BusyLeft
    <3> QED BY <1>6, <2>2, <3>2, <3>3, <3>4, <3>5, MovesS
  <2> QED BY <2>1, <2>2
<1> QED BY <1>2, <1>3, <1>4, <1>5, <1>6 DEF Next

-----------------------------------------------------------------------------
(* Sequences without repetitions and an end mark.                          *)

\* Sequences with a first element.
Led(e, s) == <<e>> \o s

\* Equal ones have equal parts.
LEMMA LedSame ==
  ASSUME NEW T, NEW x \in Seq(T), NEW y \in Seq(T), NEW a \in T, NEW b \in T, Led(a, x) = Led(b, y)
  PROVE  a = b /\ x = y
<1>1. PICK o \in Seq(T), p \in Seq(T) : /\ o = <<a>> /\ Len(o) = 1 /\ o[1] = a
                                        /\ p = <<b>> /\ Len(p) = 1 /\ p[1] = b
  <2>1. PICK o \in Seq(T) : o = <<a>> /\ Len(o) = 1 /\ o[1] = a
    BY One
  <2>2. PICK p \in Seq(T) : p = <<b>> /\ Len(p) = 1 /\ p[1] = b
    BY One
  <2> QED BY <2>1, <2>2
<1>2. o \o x = p \o y
  BY <1>1 DEF Led
<1>3. (o \o x)[1] = o[1] /\ (p \o y)[1] = p[1]
  <2>1. 1 \in 1 .. 1
    OBVIOUS
  <2>2. \A i \in 1 .. Len(o) : (o \o x)[i] = o[i]
    BY Concat
  <2>3. \A i \in 1 .. Len(p) : (p \o y)[i] = p[i]
    BY Concat
  <2> QED BY <1>1, <2>1, <2>2, <2>3
<1>4. a = b
  BY <1>1, <1>2, <1>3
<1>5. o \o x = o \o y
  BY <1>1, <1>2, <1>4
<1>6. x = y
  BY <1>5, ConcatSimplifications
<1> QED BY <1>4, <1>6

\* An element before and one behind.
LEMMA LedEnd ==
  ASSUME NEW T, NEW t \in Seq(T), NEW e \in T, NEW n \in T
  PROVE  EndedBy(t, n) \in Seq(T) /\ EndedBy(Led(e, t), n) = Led(e, EndedBy(t, n))
<1>1. PICK o \in Seq(T) : o = <<n>>
  BY One
<1>2. PICK p \in Seq(T) : p = <<e>>
  BY One
<1>3. (p \o t) \o o = p \o (t \o o)
  BY Assoc
<1>4. t \o o \in Seq(T)
  BY ConcatProperties
<1> QED BY <1>1, <1>2, <1>3, <1>4 DEF EndedBy, Led

\* The first of two parts loses its head.
LEMMA DistinctHead ==
  ASSUME NEW T, NEW e \in T, NEW r \in Seq(T), NEW v \in Seq(T), NEW used,
         NEW u, u = <<e>> \o r, Distinct(u \o v, used)
  PROVE  e \in used /\ Distinct(r \o v, used \ {e})
<1>1. PICK o \in Seq(T) : o = <<e>>
  BY One
<1>2. (o \o r) \o v = o \o (r \o v)
  BY Assoc
<1>3. PICK w \in Seq(T) : w = r \o v
  BY ConcatProperties
<1>4. Distinct(<<e>> \o w, used)
  BY <1>1, <1>2, <1>3
<1> QED BY <1>3, <1>4, DistinctFirst

\* The messages on their way and those to be sent: all that are in use.
InUse(u, v, used) == Distinct(u \o v, used)

\* The end mark is read after everything else.
LEMMA EndRead ==
  ASSUME NEW T, NEW u \in Seq(T), NEW v \in Seq(T), NEW r \in Seq(T), NEW n \in T, NEW used,
         NEW ux, n \notin used, InUse(u, v, used), ux = u \/ ux = EndedBy(u, n), ux = Led(n, r)
  PROVE  ux # u /\ u = << >> /\ r = << >>
<1>1. u # <<n>> \o r
  BY DistinctHead DEF InUse
<1>2. u = << >>
  <2>1. SUFFICES ASSUME u # << >> PROVE FALSE
    OBVIOUS
  <2>2. PICK e, t : e = Head(u) /\ t = Tail(u)
    OBVIOUS
  <2>3. e \in T /\ t \in Seq(T) /\ u = <<e>> \o t
    BY <2>1, <2>2, Split
  <2>4. EndedBy(t, n) \in Seq(T) /\ EndedBy(Led(e, t), n) = Led(e, EndedBy(t, n))
    BY <2>3, LedEnd
  <2>5. Led(n, r) = Led(e, EndedBy(t, n))
    BY <1>1, <2>3, <2>4 DEF Led
  <2>6. n = e
    BY <2>3, <2>4, <2>5, LedSame
  <2>7. e \in used
    BY <2>3, DistinctHead DEF InUse
  <2> QED BY <2>6, <2>7
<1>3. PICK o \in Seq(T) : o = <<n>>
  BY One
<1>4. ux = o
  <2>1. ux = u \o o
    BY <1>1, <1>3 DEF EndedBy, Led
  <2>2. << >> \o o = o
    BY ConcatEmptySeq
  <2> QED BY <1>2, <2>1, <2>2
<1>5. o \o r = o
  BY <1>3, <1>4 DEF Led
<1>6. r = << >>
  BY <1>5, ConcatEqualIffEmpty
<1> QED BY <1>1, <1>2, <1>6 DEF Led

\* The first is handled: with or without the end mark the same is left.
LEMMA FirstHandled ==
  ASSUME NEW T, NEW u, NEW ux, NEW r \in Seq(T), NEW rx \in Seq(T), NEW e \in T, NEW n \in T,
         u = Led(e, r), ux = Led(e, rx), ux = u \/ ux = EndedBy(u, n)
  PROVE  /\ ux = u => rx = r
         /\ ux # u => rx = EndedBy(r, n)
<1>1. EndedBy(r, n) \in Seq(T) /\ EndedBy(Led(e, r), n) = Led(e, EndedBy(r, n))
  BY LedEnd
<1>2. CASE ux = u
  BY <1>2, LedSame
<1>3. CASE ux # u
  <2>1. Led(e, rx) = Led(e, EndedBy(r, n))
    BY <1>1, <1>3
  <2>2. rx = EndedBy(r, n)
    BY <1>1, <2>1, LedSame
  <2> QED BY <1>3, <2>2
<1> QED BY <1>2, <1>3

-----------------------------------------------------------------------------
(* The messages that are in use.                                           *)

\* The types of what is still to be sent.
LEMMA UnsentTypes ==
  ASSUME DataTyped, WalkD
  PROVE  UnsentCaps \in Seq(MsgIds) /\ UnsentPages \in Seq(MsgIds)
<1>1. UnsentCaps \in Seq(MsgIds)
  BY MessageIds DEF UnsentCaps, DataTyped
<1>2. PICK x \in Seq(MsgIds), y \in Seq(MsgIds) :
        /\ x = IF full = None THEN << >> ELSE <<full>>
        /\ y = IF dbm = "write" THEN <<currentPage>> ELSE << >>
  <2>1. (IF full = None THEN << >> ELSE <<full>>) \in Seq(MsgIds)
    BY MessageIds DEF DataTyped
  <2>2. (IF dbm = "write" THEN <<currentPage>> ELSE << >>) \in Seq(MsgIds)
    BY MessageIds DEF DataTyped
  <2> QED BY <2>1, <2>2
<1>3. x \o y \in Seq(MsgIds)
  BY ConcatProperties
<1> QED BY <1>1, <1>2, <1>3 DEF UnsentPages

\* Used by Distinct.
LEMMA UsedDistinct ==
  Used <=> Distinct(UC \o UnsentCaps, capUse) /\ Distinct(UP \o UnsentPages, pageUse)
BY DEF Used, CS, PS, Distinct

\* None is the id of no message.
LEMMA NoneUnused ==
  ASSUME DataTyped
  PROVE  None \notin capUse /\ None \notin pageUse
BY Numbers DEF DataTyped, PoolTyped

\* The message that D handles.
LEMMA FirstCapUsed ==
  ASSUME LoopTyped, Channels, DataTyped, WalkD, Used, left[D] >= 1, Head(holder[D])[1] = "WRITE"
  PROVE  Id(D) \in capUse /\ Distinct(RestCaps \o UnsentCaps, capUse \ {Id(D)})
<1>1. RestCaps \in Seq(MsgIds) /\ Id(D) \in MsgIds /\ UC = <<Id(D)>> \o RestCaps
  BY FirstCap, MessageIds
<1>2. Distinct(UC \o UnsentCaps, capUse) /\ UnsentCaps \in Seq(MsgIds)
  BY UsedDistinct, UnsentTypes
<1> QED BY <1>1, <1>2, DistinctHead

\* The message that IO handles.
LEMMA FirstPageUsed ==
  ASSUME LoopTyped, Channels, DataTyped, WalkD, Used, left[IO] >= 1, Head(holder[IO])[1] = "PAGE"
  PROVE  Id(IO) \in pageUse /\ Distinct(RestPages \o UnsentPages, pageUse \ {Id(IO)})
<1>1. RestPages \in Seq(MsgIds) /\ Id(IO) \in MsgIds /\ UP = <<Id(IO)>> \o RestPages
  BY FirstPage, MessageIds
<1>2. Distinct(UP \o UnsentPages, pageUse) /\ UnsentPages \in Seq(MsgIds)
  BY UsedDistinct, UnsentTypes
<1> QED BY <1>1, <1>2, DistinctHead

\* CLOSE is the last message.
LEMMA CloseIsLast ==
  ASSUME LoopTyped, Channels, DataTyped, WalkD, Used, Flow, left[D] >= 1, Head(holder[D])[1] = "CLOSE"
  PROVE  CapClosed /\ UC = << >> /\ RestCaps = << >> /\ RestCapsX = << >>
<1>1. UCX = <<None>> \o RestCapsX /\ RestCapsX \in Seq(MsgIds) /\ UC \in Seq(MsgIds) /\ UC = RestCaps
  BY FirstCap, ViewTypes
<1>2. InUse(UC, UnsentCaps, capUse) /\ UnsentCaps \in Seq(MsgIds) /\ None \notin capUse /\ None \in MsgIds
  BY UsedDistinct, UnsentTypes, NoneUnused, MessageIds DEF InUse
<1>3. UCX = UC \/ UCX = EndedBy(UC, None)
  BY DEF Flow, EndedBy
<1>5. UCX = Led(None, RestCapsX)
  BY <1>1 DEF Led
<1>4. UCX # UC /\ UC = << >> /\ RestCapsX = << >>
  BY <1>1, <1>2, <1>3, <1>5, EndRead
<1> QED BY <1>1, <1>4 DEF Flow

\* The same for IO.
LEMMA CloseIsLastPage ==
  ASSUME LoopTyped, Channels, DataTyped, WalkD, Used, Flow, left[IO] >= 1, Head(holder[IO])[1] = "CLOSE"
  PROVE  IOClosed /\ UP = << >> /\ RestPages = << >> /\ RestPagesX = << >>
<1>1. UPX = <<None>> \o RestPagesX /\ RestPagesX \in Seq(MsgIds) /\ UP \in Seq(MsgIds) /\ UP = RestPages
  BY FirstPage, ViewTypes
<1>2. InUse(UP, UnsentPages, pageUse) /\ UnsentPages \in Seq(MsgIds) /\ None \notin pageUse /\ None \in MsgIds
  BY UsedDistinct, UnsentTypes, NoneUnused, MessageIds DEF InUse
<1>3. UPX = UP \/ UPX = EndedBy(UP, None)
  BY DEF Flow, EndedBy
<1>5. UPX = Led(None, RestPagesX)
  BY <1>1 DEF Led
<1>4. UPX # UP /\ UP = << >> /\ RestPagesX = << >>
  BY <1>1, <1>2, <1>3, <1>5, EndRead
<1> QED BY <1>1, <1>4 DEF Flow

\* C fills no message that D may see.
LEMMA CapBodyKept ==
  ASSUME LoopTyped, Channels, DataTyped, WalkC, WalkD, Used, NextC,
         left[D] >= 1, Head(holder[D])[1] = "WRITE"
  PROVE  capBody'[Id(D)] = capBody[Id(D)]
<1>1. Id(D) \in CapIds /\ RestCaps \in Seq(MsgIds)
  BY FirstCap
<1>2. Id(D) \in capUse /\ Distinct(RestCaps \o UnsentCaps, capUse \ {Id(D)})
  BY FirstCapUsed
<1>3. DOMAIN capBody = CapIds
  BY DEF DataTyped, PoolTyped
<1>4. ASSUME NEW i \in CapIds, i # Id(D), NEW x, capBody' = [capBody EXCEPT ![i] = x]
      PROVE  capBody'[Id(D)] = capBody[Id(D)]
  BY <1>1, <1>3, <1>4
<1>5. CASE Capture
  <2>1. PICK i \in CapIds : /\ IF currentDBMessage = None THEN FirstFree(CapIds, capUse, i)
                               ELSE i = currentDBMessage
                            /\ capBody' = [capBody EXCEPT ![i] = Append(@, captured')]
    BY <1>5 DEF Capture
  <2>2. i # Id(D)
    <3>1. CASE currentDBMessage = None
      BY <1>2, <2>1, <3>1 DEF FirstFree
    <3>2. CASE currentDBMessage # None
      <4>1. UnsentCaps = <<i>>
        BY <1>5, <2>1, <3>2 DEF Capture, UnsentCaps, WalkC
      <4>2. i \in MsgIds /\ Distinct(RestCaps \o <<i>>, capUse \ {Id(D)})
        BY <1>2, <4>1, MessageIds
      <4> QED BY <1>1, <4>2, DistinctLast
    <3> QED BY <3>1, <3>2
  <2> QED BY <1>4, <2>1, <2>2
<1>6. CASE GetFreeMsg
  <2>1. PICK i \in CapIds : /\ FirstFree(CapIds, capUse, i)
                            /\ capBody' = [capBody EXCEPT ![i] = <<captured'>>]
    BY <1>6 DEF GetFreeMsg
  <2> QED BY <1>2, <1>4, <2>1 DEF FirstFree
<1>7. CASE ~(Capture \/ GetFreeMsg)
  BY <1>7, NextC DEF NextC, Start, Connect, SendCaplets, CloseC, SendLastCaplets, CloseDBPhoton, Close,
     ClosedDBPhoton, caps
<1> QED BY <1>5, <1>6, <1>7

\* After a message D is elsewhere.
LEMMA AfterHandled ==
  ASSUME LoopTyped, left[D] >= 1, pc[D] \in {"handle", "add", "free"}, Handled(D) \/ Defer(D)
  PROVE  pc'[D] \in {"done", "recv", "handle"}
BY HandledTyped, ThreadIds DEF Again

\* Every step keeps WalkD.
LEMMA WalkDStep ==
  ASSUME OwnStep, LoopTyped, Channels, DataTyped, WalkC, WalkD, Greeting, Used, [Next]_vars
  PROVE  WalkD'
<1> D \in Threads
  BY ThreadIds
<1>1. \A t \in {S, D, IO} : Busy(t)' => left'[t] >= 1
  BY BusyStep DEF BusyTyped
<1>2. CASE ~NextD
  <2>1. /\ holder'[D] = holder[D] /\ UNCHANGED <<currentPage, dbm, packed, full>>
        /\ "io" \in isConnected' <=> "io" \in isConnected
        /\ ~NewConnection => pc'[D] = pc[D]
    BY <1>2, FrameD DEF Next
  <2>2. CASE NewConnection
    <3>1. pc[D] = "none" /\ pc'[D] = "start"
      BY <2>2, GreetingStep, NewConnectionTyped
    <3> QED BY <1>1, <2>1, <3>1 DEF WalkD, Ended, IOClosed, Spawned, Busy
  <2>3. CASE ~NewConnection
    <3>1. pc[D] \in {"add", "sendPage"} => Len(capBody'[Id(D)]) = Len(capBody[Id(D)])
      <4>1. CASE NextC
        BY <4>1, CapBodyKept, BusyLeft DEF WalkD
      <4>2. CASE ~NextC
        BY <4>2, <1>2, FrameC DEF Next
      <4> QED BY <4>1, <4>2
    <3>2. Id(D)' = Id(D)
      BY <2>1 DEF Id
    <3>3. Ended' <=> Ended
      BY <2>1, <2>3 DEF Ended, IOClosed, Spawned
    <3>4. pc[D] \in {"add", "sendPage"} => packed' <= Len(capBody'[Id(D)'])
      BY <2>1, <3>1, <3>2 DEF WalkD
    <3> QED BY <1>1, <2>1, <2>3, <3>2, <3>3, <3>4 DEF WalkD, Busy
  <2> QED BY <2>2, <2>3
<1>3. CASE Start(D) \/ Recv(D) \/ Pop(D)
  <2>1. UNCHANGED <<currentPage, dbm, full, isConnected>>
    BY <1>3 DEF Start, Recv, Pop, dVars, photons
  <2>2. \/ pc[D] = "start" /\ pc'[D] = "spawn"
        \/ pc[D] \in {"recv", "pop"} /\ pc'[D] \in {"recv", "pop", "handle"}
    BY <1>3, GotoAt, ThreadIds DEF Start, Recv, Pop, Again
  <2> QED BY <1>1, <2>1, <2>2 DEF WalkD, Ended, IOClosed, Spawned
<1>4. CASE SpawnIO
  <2>1. UNCHANGED <<currentPage, dbm, full>> /\ pc[D] = "spawn" /\ pc'[D] = "recv"
    BY <1>4, SpawnTyped DEF SpawnIO, dVars
  <2> QED BY <1>1, <2>1 DEF WalkD, Ended, IOClosed, Spawned
<1>5. CASE RegisterPhoton \/ WroteCaplets \/ MarkThreadAsFree
  <2>1. UNCHANGED <<currentPage, dbm, full, isConnected>> /\ pc[D] \in {"handle", "add", "free"} /\ Handled(D)
    BY <1>5 DEF RegisterPhoton, WroteCaplets, MarkThreadAsFree, dVars, photons, Handling
  <2>2. pc'[D] \in {"done", "recv", "handle"}
    BY <2>1, BusyLeft, AfterHandled
  <2> QED BY <1>1, <2>1, <2>2 DEF WalkD, Ended, IOClosed, Spawned
<1>6. CASE WriteCaplets
  <2>1. pc[D] = "handle" /\ left[D] >= 1 /\ Head(holder[D])[1] = "WRITE" /\ UNCHANGED <<full, isConnected, capBody>>
    BY <1>6, BusyLeft, ThreadIds DEF WriteCaplets, Handling, photons
  <2>2. CASE "io" \in isConnected
    <3>1. /\ pc'[D] = "add" /\ holder' = holder /\ packed' = 0
          /\ IF currentPage = None THEN currentPage' = 1 /\ dbm' = "write" ELSE UNCHANGED <<currentPage, dbm>>
      BY OwnUses, <1>6, <2>2, GotoAt DEF WriteCaplets
    <3>2. dbm' = "write" /\ currentPage' # None
      BY <2>1, <2>2, <3>1, Numbers DEF WalkD, Ended, IOClosed, DataTyped
    <3>3. Id(D) \in CapIds
      BY <2>1, FirstCap
    <3>4. Len(capBody[Id(D)]) \in Nat
      BY <3>3, LenProperties DEF DataTyped, PoolTyped
    <3>5. packed' <= Len(capBody'[Id(D)'])
      BY <2>1, <3>1, <3>4 DEF Id
    <3> QED BY <1>1, <2>1, <2>2, <3>1, <3>2, <3>5 DEF WalkD
  <2>3. CASE "io" \notin isConnected
    <3>1. Handled(D) /\ UNCHANGED <<currentPage, dbm>>
      BY OwnUses, <1>6, <2>3 DEF WriteCaplets
    <3>2. pc'[D] \in {"done", "recv", "handle"}
      BY <2>1, <3>1, AfterHandled
    <3> QED BY <1>1, <2>1, <2>3, <3>1, <3>2 DEF WalkD, Ended, IOClosed, Spawned
  <2> QED BY <2>2, <2>3
<1>7. CASE AddCaplet \/ AddToNextPage
  <2>1. pc[D] = "add" /\ ~AllPacked /\ packed' = packed + 1 /\ UNCHANGED <<dbm, isConnected, holder, capBody>>
    BY <1>7 DEF AddCaplet, AddToNextPage, loop, photons, caps
  <2>2. packed' <= Len(capBody'[Id(D)'])
    <3>1. PICK n : n = Len(capBody[Id(D)])
      OBVIOUS
    <3>2. n \in Nat /\ packed \in Nat /\ packed <= n /\ packed # n
      BY <2>1, <3>1, Packs, Numbers DEF AllPacked
    <3>3. packed + 1 <= n
      BY <3>2
    <3> QED BY <2>1, <3>1, <3>3 DEF Id
  <2>3. currentPage \in PageIds /\ currentPage # None
    BY <2>1, Packs, Numbers
  <2>4. CASE AddCaplet
    <3>1. pc'[D] = "add" /\ UNCHANGED <<currentPage, full>>
      BY <2>4 DEF AddCaplet, loop
    <3> QED BY <1>1, <2>1, <2>2, <2>3, <3>1 DEF WalkD
  <2>5. CASE AddToNextPage
    <3>1. pc'[D] = "sendPage" /\ full' = currentPage /\ currentPage' \in PageIds
      BY <2>5, GotoAt DEF AddToNextPage
    <3>2. currentPage' # None
      BY <3>1, Numbers
    <3>3. dbm = "write"
      BY <2>1 DEF WalkD
    <3> QED BY <1>1, <2>1, <2>2, <2>3, <3>1, <3>2, <3>3 DEF WalkD
  <2> QED BY <1>7, <2>4, <2>5
<1>8. CASE SendPage
  <2>1. /\ pc[D] = "sendPage" /\ pc'[D] = "add" /\ full' = None
        /\ UNCHANGED <<currentPage, dbm, packed, holder, isConnected, capBody>>
    BY <1>8, GotoAt DEF SendPage, caps
  <2>2. Id(D)' = Id(D)
    BY <2>1 DEF Id
  <2> QED BY <1>1, <2>1, <2>2 DEF WalkD, Ended, IOClosed, Spawned
<1>9. CASE ShutdownD \/ CloseD
  <2>1. /\ pc[D] = "handle" /\ left[D] >= 1 /\ Head(holder[D])[1] \in {"CLOSE", "SHUTDOWN"}
        /\ UNCHANGED <<currentPage, dbm, full, isConnected>>
        /\ Defer(D) \/ (pc'[D] = "lastPage" /\ UNCHANGED holder)
    BY <1>9, GotoAt, BusyLeft DEF ShutdownD, CloseD, Handling, dVars, photons
  <2>2. Defer(D) => pc'[D] \in {"done", "recv", "handle"}
    BY <2>1, AfterHandled
  <2> QED BY <1>1, <2>1, <2>2 DEF WalkD, Ended, IOClosed, Spawned
<1>10. CASE SendLastPage
  <2>1. /\ pc[D] = "lastPage" /\ dbm' = "uninit" /\ UNCHANGED <<currentPage, full, isConnected, holder>>
        /\ pc'[D] = IF "io" \in isConnected THEN "close" ELSE "free"
    BY OwnUses, <1>10, GotoAt DEF SendLastPage
  <2> QED BY <1>1, <2>1 DEF WalkD, Ended, IOClosed, Spawned
<1>11. CASE CloseIOPhoton
  <2>1. /\ pc[D] = "close" /\ pc'[D] = "drain" /\ UNCHANGED <<currentPage, dbm, full, isConnected, holder>>
    BY <1>11, GotoAt DEF CloseIOPhoton, Close, dVars
  <2> QED BY <1>1, <2>1 DEF WalkD, Ended, IOClosed, Spawned
<1>12. CASE ClosedIOPhoton
  <2>1. /\ pc[D] = "drain" /\ pc'[D] = "free" /\ UNCHANGED <<currentPage, dbm, full, holder>>
        /\ isConnected' = isConnected \ {"io"}
    BY OwnUses, <1>12, GotoAt DEF ClosedIOPhoton, Drained, dVars
  <2> QED BY <1>1, <2>1 DEF WalkD, Ended, IOClosed, Spawned
<1> QED BY <1>2, <1>3, <1>4, <1>5, <1>6, <1>7, <1>8, <1>9, <1>10, <1>11, <1>12 DEF NextD, Poll

-----------------------------------------------------------------------------
(* Closing: what is closed stays closed, and nothing is sent after that.   *)

\* The photon to D.
LEMMA CapsClose ==
  ASSUME OwnStep, LoopTyped, WalkC, WalkD, Flow, [Next]_vars
  PROVE  /\ CapClosed => CapClosed'
         /\ CapClosed' /\ ~CapClosed => CloseDBPhoton
         /\ CapClosed' => closed'
<1> C \in Threads
  BY ThreadIds
<1>1. CASE ~NextC
  <2>1. /\ pc'[C] = pc[C] /\ closed' = closed
        /\ "cap" \in isConnected' <=> "cap" \in isConnected
    BY <1>1, FrameC DEF Next
  <2> QED BY <2>1 DEF CapClosed, Flow
<1>2. CASE Start(C) \/ Connect \/ SendCaplets \/ GetFreeMsg \/ SendLastCaplets
  <2>1. CASE Start(C)
    <3>1. pc'[C] = "connect" /\ pc[C] = "start"
      BY <2>1, GotoAt, ThreadIds DEF Start
    <3> QED BY <3>1 DEF CapClosed
  <2>2. CASE Connect
    <3>1. pc'[C] = "idle" /\ pc[C] = "connect" /\ "cap" \in isConnected'
      BY <2>2, GotoAt DEF Connect
    <3> QED BY <3>1 DEF CapClosed
  <2>3. CASE SendCaplets
    <3>1. pc'[C] = "getFree" /\ pc[C] = "idle" /\ ~closed
      BY <2>3, GotoAt DEF SendCaplets
    <3> QED BY <3>1 DEF CapClosed, Flow
  <2>4. CASE GetFreeMsg
    <3>1. pc'[C] = "idle" /\ pc[C] = "getFree" /\ "cap" \in isConnected'
      BY <2>4, GotoAt DEF GetFreeMsg, photons, WalkC
    <3> QED BY <3>1 DEF CapClosed
  <2>5. CASE SendLastCaplets
    <3>1. pc'[C] = "close" /\ pc[C] = "lastCaplets"
      BY <2>5, GotoAt DEF SendLastCaplets
    <3> QED BY <3>1 DEF CapClosed
  <2> QED BY <1>2, <2>1, <2>2, <2>3, <2>4, <2>5
<1>3. CASE Capture
  BY <1>3 DEF Capture, loop, photons, CapClosed, Flow
<1>4. CASE CloseC
  <2>1. /\ pc[C] = "idle" /\ closed' = TRUE /\ isConnected' = isConnected
        /\ pc'[C] = IF "cap" \notin isConnected THEN "done" ELSE "lastCaplets"
    BY <1>4, GotoAt DEF CloseC, photons
  <2> QED BY <2>1 DEF CapClosed
<1>5. CASE CloseDBPhoton
  <2>1. pc[C] = "close" /\ pc'[C] = "drain" /\ closed' = closed
    BY <1>5, GotoAt DEF CloseDBPhoton, Close, cVars
  <2> QED BY <1>5, <2>1 DEF CapClosed, WalkC
<1>6. CASE ClosedDBPhoton
  <2>1. pc[C] = "drain" /\ pc'[C] \in {"done", "idle"} /\ closed' = closed /\ isConnected' = isConnected \ {"cap"}
    BY <1>6, GotoAt DEF ClosedDBPhoton, Drained, cVars
  <2> QED BY <2>1 DEF CapClosed, Flow
<1> QED BY <1>1, <1>2, <1>3, <1>4, <1>5, <1>6 DEF NextC

\* The photon to IO.
LEMMA PagesClose ==
  ASSUME OwnStep, LoopTyped, WalkD, Greeting, [Next]_vars
  PROVE  /\ IOClosed => IOClosed'
         /\ Ended => Ended'
         /\ Ended' /\ ~Ended => SendLastPage
<1> D \in Threads
  BY ThreadIds
<1>1. CASE ~NextD
  <2>1. /\ "io" \in isConnected' <=> "io" \in isConnected
        /\ pc'[D] = pc[D] \/ (pc[D] = "none" /\ pc'[D] = "start")
    BY <1>1, FrameD, GreetingStep, NewConnectionTyped DEF Next
  <2> QED BY <2>1 DEF Ended, IOClosed, Spawned
<1>2. CASE Start(D) \/ Recv(D) \/ Pop(D) \/ SpawnIO
  <2>1. \/ pc[D] = "start" /\ pc'[D] = "spawn" /\ UNCHANGED isConnected
        \/ pc[D] \in {"recv", "pop"} /\ pc'[D] \in {"recv", "pop", "handle"} /\ UNCHANGED isConnected
        \/ pc[D] = "spawn" /\ pc'[D] = "recv" /\ "io" \in isConnected'
    BY OwnUses, <1>2, GotoAt, SpawnTyped, ThreadIds DEF Start, Recv, Pop, Again, SpawnIO, photons
  <2> QED BY <2>1 DEF Ended, IOClosed, Spawned
<1>3. CASE RegisterPhoton \/ WroteCaplets \/ MarkThreadAsFree \/ ShutdownD \/ CloseD \/ WriteCaplets
  <2>1. /\ UNCHANGED isConnected /\ pc[D] \in {"handle", "add", "free"} /\ left[D] >= 1
        /\ Handled(D) \/ Defer(D) \/ pc'[D] \in {"lastPage", "add"}
    BY <1>3, BusyLeft, GotoAt DEF RegisterPhoton, WroteCaplets, MarkThreadAsFree, ShutdownD, CloseD, WriteCaplets,
       photons, Handling
  <2>2. pc'[D] \in {"done", "recv", "handle", "lastPage", "add"}
    BY <2>1, AfterHandled
  <2> QED BY <2>1, <2>2 DEF Ended, IOClosed, Spawned
<1>4. CASE AddCaplet \/ AddToNextPage \/ SendPage
  <2>1. UNCHANGED isConnected /\ pc[D] \in {"add", "sendPage"} /\ pc'[D] \in {"add", "sendPage"}
    BY <1>4, GotoAt DEF AddCaplet, AddToNextPage, SendPage, loop, photons
  <2> QED BY <2>1 DEF Ended, IOClosed, Spawned
<1>5. CASE SendLastPage
  <2>1. UNCHANGED isConnected /\ pc[D] = "lastPage" /\ pc'[D] = IF "io" \in isConnected THEN "close" ELSE "free"
    BY OwnUses, <1>5, GotoAt DEF SendLastPage
  <2> QED BY <1>5, <2>1 DEF Ended, IOClosed, Spawned
<1>6. CASE CloseIOPhoton \/ ClosedIOPhoton
  <2>1. \/ pc[D] = "close" /\ pc'[D] = "drain"
        \/ pc[D] = "drain" /\ pc'[D] = "free" /\ isConnected' = isConnected \ {"io"}
    BY OwnUses, <1>6, GotoAt DEF CloseIOPhoton, Close, ClosedIOPhoton, Drained
  <2> QED BY <2>1 DEF Ended, IOClosed, Spawned, WalkD
<1> QED BY <1>1, <1>2, <1>3, <1>4, <1>5, <1>6 DEF NextD, Poll

\* What may happen to the stream of caplets, and to that of pages.
CapSent(i) == ~CapClosed /\ i \in CapIds /\ UC' = EndedBy(UC, i) /\ UCX' = EndedBy(UCX, i) /\ SamePages
\* C sends CLOSE.
CapEnd == ~CapClosed /\ CapClosed' /\ UC' = UC /\ UCX' = EndedBy(UCX, None) /\ SamePages
\* D is done with a message of caplets.
CapHandled ==
  /\ Id(D) \in CapIds /\ RestCaps \in Seq(MsgIds) /\ RestCapsX \in Seq(MsgIds)
  /\ UC = Led(Id(D), RestCaps) /\ UCX = Led(Id(D), RestCapsX)
  /\ UC' = RestCaps /\ UCX' = RestCapsX /\ SamePages
\* D is done with CLOSE.
CapEndHandled == Ended /\ UC' = UC /\ UCX' = UC /\ SamePages
\* D sends page message i.
PageSent(i) == ~Ended /\ i \in PageIds /\ UP' = EndedBy(UP, i) /\ UPX' = EndedBy(UPX, i) /\ SameCaps
\* D sends CLOSE.
PageEnd == ~IOClosed /\ IOClosed' /\ Ended /\ UP' = UP /\ UPX' = EndedBy(UPX, None) /\ SameCaps
\* IO is done with a page.
PageHandled ==
  /\ Id(IO) \in PageIds /\ RestPages \in Seq(MsgIds) /\ RestPagesX \in Seq(MsgIds)
  /\ UP = Led(Id(IO), RestPages) /\ UPX = Led(Id(IO), RestPagesX)
  /\ UP' = RestPages /\ UPX' = RestPagesX /\ SameCaps
\* IO is done with CLOSE.
PageEndHandled == IOClosed /\ UP = << >> /\ UP' = << >> /\ UPX' = << >> /\ SameCaps

\* What the steps of C do to the streams.
LEMMA CapStream ==
  ASSUME OwnStep, LoopTyped, Channels, DataTyped, WalkC, WalkD, Flow, Used, NextC
  PROVE  \/ SameCaps /\ SamePages
         \/ (SendCaplets \/ SendLastCaplets) /\ currentDBMessage \in CapIds /\ CapSent(currentDBMessage)
         \/ CloseDBPhoton /\ CapEnd
<1> C \in Threads
  BY ThreadIds
<1>1. CASE Start(C) \/ Connect \/ Capture \/ GetFreeMsg \/ CloseC \/ ClosedDBPhoton
  BY <1>1, QuietC
<1>2. CASE SendCaplets \/ SendLastCaplets
  <2>1. UNCHANGED holder
    BY <1>2 DEF SendCaplets, SendLastCaplets
  <2>2. CASE currentDBMessage = None
    <3>1. UNCHANGED channel
      BY <1>2, <2>2 DEF SendCaplets, NoRoom, SendLastCaplets
    <3> QED BY <2>1, <3>1, CapsKept, PagesKept
  <2>3. CASE currentDBMessage # None
    <3>1. currentDBMessage \in CapIds /\ SendTo("cap", <<"WRITE", currentDBMessage>>)
      BY <1>2, <2>3 DEF SendCaplets, SendLastCaplets, DataTyped
    <3>2. ~CapClosed
      BY <1>2 DEF SendCaplets, SendLastCaplets, CapClosed, Flow
    <3> QED BY <1>2, <2>1, <3>1, <3>2, SentCaps DEF CapSent, EndedBy
  <2> QED BY <2>2, <2>3
<1>3. CASE CloseDBPhoton
  <2>1. UNCHANGED holder /\ SendTo("cap", Plain("CLOSE")) /\ pc[C] = "close" /\ pc'[C] = "drain"
    BY <1>3, GotoAt DEF CloseDBPhoton, Close
  <2> QED BY <1>3, <2>1, SentCaps DEF CapEnd, EndedBy, CapClosed
<1> QED BY <1>1, <1>2, <1>3, NextC DEF NextC

\* No caplet comes after IO was closed: WriteCaplets never drops one.
LEMMA NeverDropped ==
  ASSUME OwnStep, LoopTyped, Channels, DataTyped, WalkC, WalkD, Flow, Used
  PROVE  ~(WriteCaplets /\ "io" \notin isConnected)
<1>1. SUFFICES ASSUME WriteCaplets, "io" \notin isConnected PROVE FALSE
  OBVIOUS
<1>2. left[D] >= 1 /\ Head(holder[D])[1] = "WRITE" /\ pc[D] = "handle"
  BY <1>1, BusyLeft, ThreadIds DEF WriteCaplets, Handling
<1>3. Ended
  BY <1>1, <1>2 DEF Ended, IOClosed, Spawned
<1>4. UC = << >>
  BY <1>3 DEF Flow
<1>5. PICK o \in Seq(MsgIds) : o = <<Id(D)>>
  <2>1. Id(D) \in MsgIds
    BY <1>2, FirstCap, MessageIds
  <2> QED BY <2>1, One
<1>6. UC = <<Id(D)>> \o RestCaps /\ RestCaps \in Seq(MsgIds)
  BY <1>2, FirstCap
<1>7. o # << >> /\ o \o RestCaps = << >>
  BY <1>4, <1>5, <1>6
<1> QED BY <1>6, <1>7, ConcatEqualIffEmpty

\* What the steps of D do to the streams.
LEMMA DStream ==
  ASSUME OwnStep, LoopTyped, Channels, DataTyped, WalkC, WalkD, Flow, Used, NextD
  PROVE  \/ SameCaps /\ SamePages /\ ~SendPage /\ ~WroteCaplets
         \/ SendPage /\ full \in PageIds /\ PageSent(full)
         \/ SendLastPage /\ dbm = "write" /\ currentPage \in PageIds /\ PageSent(currentPage)
         \/ CloseIOPhoton /\ PageEnd
         \/ WroteCaplets /\ CapHandled
         \/ MarkThreadAsFree /\ CapEndHandled
<1> D \in Threads
  BY ThreadIds
<1>0. ~(WriteCaplets /\ "io" \notin isConnected)
  BY NeverDropped
<1>1. CASE \/ Poll(D) \/ SpawnIO \/ RegisterPhoton \/ WriteCaplets
           \/ AddCaplet \/ AddToNextPage \/ ShutdownD \/ CloseD \/ ClosedIOPhoton
  <2>1. SameCaps /\ SamePages
    BY OwnUses, <1>0, <1>1, QuietD
  <2>2. ~SendPage
    <3>1. SendPage => pc[D] = "sendPage"
      BY DEF SendPage
    <3>2. pc[D] # "sendPage"
      BY <1>1 DEF Poll, Start, Recv, Pop, SpawnIO, RegisterPhoton, WriteCaplets, AddCaplet, AddToNextPage,
         ShutdownD, CloseD, ClosedIOPhoton, Drained, Handling
    <3> QED BY <3>1, <3>2
  <2>3. ~WroteCaplets
    <3>1. WroteCaplets => pc[D] = "add" /\ AllPacked
      BY DEF WroteCaplets
    <3>2. pc[D] # "add" \/ ~AllPacked
      BY <1>1 DEF Poll, Start, Recv, Pop, SpawnIO, RegisterPhoton, WriteCaplets, AddCaplet, AddToNextPage,
         ShutdownD, CloseD, ClosedIOPhoton, Drained, Handling
    <3> QED BY <3>1, <3>2
  <2> QED BY <2>1, <2>2, <2>3
<1>2. CASE SendPage
  <2>1. UNCHANGED holder /\ SendTo("io", <<"PAGE", full>>) /\ pc[D] = "sendPage" /\ full \in PageIds
    BY OwnUses, <1>2 DEF SendPage, WalkD, DataTyped
  <2>2. ~Ended
    BY <2>1 DEF Flow, WalkD
  <2> QED BY <1>2, <2>1, <2>2, SentPages DEF PageSent, EndedBy
<1>3. CASE SendLastPage
  <2>1. UNCHANGED holder /\ pc[D] = "lastPage"
    BY <1>3 DEF SendLastPage
  <2>2. CASE UNCHANGED channel
    <3>1. SameCaps /\ SamePages
      BY <2>1, <2>2, CapsKept, PagesKept
    <3> QED BY <2>1, <3>1 DEF SendPage, WroteCaplets
  <2>3. CASE currentPage # None /\ dbm = "write" /\ SendTo("io", <<"PAGE", currentPage>>)
    <3>1. currentPage \in PageIds /\ ~Ended
      BY <2>3 DEF DataTyped, Flow
    <3> QED BY <1>3, <2>1, <2>3, <3>1, SentPages DEF PageSent, EndedBy
  <2> QED BY OwnUses, <1>3, <2>2, <2>3 DEF SendLastPage
<1>4. CASE CloseIOPhoton
  <2>1. UNCHANGED holder /\ SendTo("io", Plain("CLOSE")) /\ pc[D] = "close" /\ pc'[D] = "drain"
        /\ "io" \in isConnected
    BY OwnUses, <1>4, GotoAt DEF CloseIOPhoton, Close, WalkD
  <2> QED BY <1>4, <2>1, SentPages DEF PageEnd, EndedBy, IOClosed, Ended
<1>5. CASE WroteCaplets
  <2>1. left[D] >= 1 /\ Head(holder[D])[1] = "WRITE" /\ pc[D] = "add" /\ Handled(D) /\ UNCHANGED channel
    BY <1>5, BusyLeft, ThreadIds DEF WroteCaplets, WalkD, photons
  <2>2. holder'[D] = Tail(holder[D]) /\ holder'[IO] = holder[IO]
    BY <2>1, HandledTyped, ThreadIds
  <2> QED BY <1>5, <2>1, <2>2, HandledCaps, FirstCap, PagesKept DEF CapHandled, Led
<1>6. CASE MarkThreadAsFree
  <2>1. left[D] >= 1 /\ Head(holder[D])[1] \in {"CLOSE", "SHUTDOWN"} /\ pc[D] = "free" /\ Handled(D)
        /\ UNCHANGED channel /\ Ended
    BY <1>6, BusyLeft, ThreadIds DEF MarkThreadAsFree, WalkD, photons, Ended, IOClosed, Spawned
  <2>2. holder'[D] = Tail(holder[D]) /\ holder'[IO] = holder[IO]
    BY <2>1, HandledTyped, ThreadIds
  <2>3. UC' = RestCaps /\ UCX' = RestCapsX /\ SamePages
    BY <2>1, <2>2, HandledCaps, PagesKept
  <2>4. CASE Head(holder[D])[1] = "CLOSE"
    <3>1. UC = << >> /\ RestCaps = << >> /\ RestCapsX = << >>
      BY <2>1, <2>4, CloseIsLast
    <3> QED BY <1>6, <2>1, <2>3, <3>1 DEF CapEndHandled
  <2>5. CASE Head(holder[D])[1] = "SHUTDOWN"
    <3>1. UC = RestCaps /\ UCX = RestCapsX
      BY <2>1, <2>5, FirstCap
    <3>2. SameCaps /\ SamePages
      BY <2>3, <3>1 DEF SameCaps
    <3> QED BY <2>1, <3>2 DEF SendPage, WroteCaplets
  <2> QED BY <2>1, <2>4, <2>5
<1> QED BY <1>1, <1>2, <1>3, <1>4, <1>5, <1>6, NextD DEF NextD

\* What the steps of IO do to the streams.
LEMMA IOStream ==
  ASSUME OwnStep, LoopTyped, Channels, DataTyped, WalkC, WalkD, Flow, Used, NextIO
  PROVE  \/ SameCaps /\ SamePages /\ ~WritePage /\ ~CloseIO
         \/ WritePage /\ PageHandled
         \/ CloseIO /\ PageEndHandled
<1> IO \in Threads
  BY ThreadIds
<1>1. CASE Poll(IO) \/ ShutdownIO
  <2>1. SameCaps /\ SamePages
    BY <1>1, QuietIO DEF OwnStep
  <2>2. pc[IO] # "handle" \/ Head(holder[IO])[1] = "SHUTDOWN"
    BY <1>1 DEF Poll, Start, Recv, Pop, ShutdownIO, Handling
  <2> QED BY <2>1, <2>2 DEF WritePage, CloseIO, Handling
<1>2. CASE WritePage \/ CloseIO
  <2>1. left[IO] >= 1 /\ pc[IO] = "handle" /\ Handled(IO) /\ UNCHANGED channel
        /\ Head(holder[IO])[1] = IF WritePage THEN "PAGE" ELSE "CLOSE"
    BY <1>2, BusyLeft, ThreadIds DEF WritePage, CloseIO, Handling, photons
  <2>2. holder'[IO] = Tail(holder[IO]) /\ holder'[D] = holder[D]
    BY <2>1, HandledTyped, ThreadIds
  <2>3. UP' = RestPages /\ UPX' = RestPagesX /\ SameCaps
    BY <2>1, <2>2, HandledPages, CapsKept
  <2>4. CASE WritePage
    BY <2>1, <2>3, <2>4, FirstPage DEF PageHandled, Led
  <2>5. CASE ~WritePage
    <3>1. IOClosed /\ UP = << >> /\ RestPages = << >> /\ RestPagesX = << >>
      BY <2>1, <2>5, CloseIsLastPage
    <3> QED BY <1>2, <2>3, <2>5, <3>1 DEF PageEndHandled
  <2> QED BY <2>4, <2>5
<1> QED BY <1>1, <1>2, NextIO DEF NextIO

\* A stuttering step does nothing to them.
LEMMA StutterStream == ASSUME UNCHANGED vars PROVE SameCaps /\ SamePages
BY CapsKept, PagesKept DEF vars, loop, photons

\* What any step does to the stream of caplet messages.
LEMMA CapsStep ==
  ASSUME OwnStep, LoopTyped, Channels, DataTyped, WalkC, WalkD, Flow, Used, [Next]_vars
  PROVE  \/ SameCaps
         \/ \E i \in CapIds : CapSent(i)
         \/ CapEnd
         \/ CapHandled
         \/ CapEndHandled
<1>1. CASE NextC
  BY <1>1, CapStream
<1>2. CASE NextD
  BY <1>2, DStream DEF PageSent, PageEnd
<1>3. CASE NextIO
  BY <1>3, IOStream DEF PageHandled, PageEndHandled
<1>4. CASE NextS \/ AskShutdown \/ UNCHANGED vars
  BY <1>4, QuietS, StutterStream
<1> QED BY <1>1, <1>2, <1>3, <1>4 DEF Next

\* What any step does to the stream of page messages.
LEMMA PagesStep ==
  ASSUME OwnStep, LoopTyped, Channels, DataTyped, WalkC, WalkD, Flow, Used, [Next]_vars
  PROVE  \/ SamePages /\ ~CloseIO
         \/ \E i \in PageIds : PageSent(i) /\ ~NextIO
         \/ PageEnd /\ ~NextIO
         \/ WritePage /\ PageHandled
         \/ CloseIO /\ PageEndHandled
<1>0. CloseIO => NextIO /\ Left(C) /\ Left(S) /\ Left(D)
  BY LeftByIO DEF NextIO
<1>1. CASE NextIO
  BY <1>1, IOStream
<1>2. CASE ~NextIO
  <2>1. CASE NextC
    BY <1>0, <1>2, <2>1, CapStream DEF CapSent, CapEnd
  <2>2. CASE NextD
    BY <1>0, <1>2, <2>2, DStream DEF CapHandled, CapEndHandled
  <2>3. CASE NextS \/ AskShutdown \/ UNCHANGED vars
    BY <1>0, <1>2, <2>3, QuietS, StutterStream
  <2> QED BY <1>2, <2>1, <2>2, <2>3 DEF Next
<1> QED BY <1>1, <1>2

\* The part of Flow about caplet messages.
LEMMA FlowCaps ==
  ASSUME OwnStep, LoopTyped, Channels, DataTyped, WalkC, WalkD, Flow, Used, [Next]_vars
  PROVE  /\ UCX' = UC' \/ (CapClosed' /\ UCX' = EndedBy(UC', None))
         /\ CapClosed /\ UC = << >> => UC' = << >>
<1>1. UCX = UC \/ (CapClosed /\ UCX = EndedBy(UC, None))
  BY DEF Flow, EndedBy
<1>2. CapClosed => CapClosed'
  BY CapsClose
<1>3. CASE SameCaps
  BY <1>1, <1>2, <1>3 DEF SameCaps
<1>4. CASE \E i \in CapIds : CapSent(i)
  BY <1>1, <1>4 DEF CapSent
<1>5. CASE CapEnd
  BY <1>1, <1>5 DEF CapEnd
<1>6. CASE CapHandled
  <2>1. None \in MsgIds /\ Id(D) \in MsgIds
    BY <1>6, MessageIds DEF CapHandled
  <2>2. /\ UCX = UC => RestCapsX = RestCaps
        /\ UCX # UC => RestCapsX = EndedBy(RestCaps, None)
    <3>1. RestCaps \in Seq(MsgIds) /\ RestCapsX \in Seq(MsgIds)
      BY <1>6 DEF CapHandled
    <3>2. UC = Led(Id(D), RestCaps) /\ UCX = Led(Id(D), RestCapsX)
      BY <1>6 DEF CapHandled
    <3>3. PICK r \in Seq(MsgIds), rx \in Seq(MsgIds), e \in MsgIds, u \in Seq(MsgIds), ux \in Seq(MsgIds) :
            r = RestCaps /\ rx = RestCapsX /\ e = Id(D) /\ u = UC /\ ux = UCX
      BY <2>1, <3>1, ViewTypes
    <3>4. u = Led(e, r) /\ ux = Led(e, rx) /\ (ux = u \/ ux = EndedBy(u, None))
      BY <1>1, <3>2, <3>3
    <3>5. (ux = u => rx = r) /\ (ux # u => rx = EndedBy(r, None))
      <4>1. CASE ux = u
          BY <3>4, <4>1, LedSame
        <4>2. CASE ux # u
          <5>1. EndedBy(r, None) \in Seq(MsgIds) /\ EndedBy(Led(e, r), None) = Led(e, EndedBy(r, None))
            BY <2>1, LedEnd
          <5>2. Led(e, rx) = Led(e, EndedBy(r, None))
            BY <3>4, <4>2, <5>1
          <5> QED BY <4>2, <5>1, <5>2, LedSame
        <4> QED BY <4>1, <4>2
    <3> QED BY <3>3, <3>5
  <2>3. UC # << >>
    <3>1. PICK o \in Seq(MsgIds) : o = <<Id(D)>>
      BY <2>1, One
    <3>2. UC = o \o RestCaps /\ RestCaps \in Seq(MsgIds)
      BY <1>6, <3>1 DEF CapHandled, Led
    <3>3. o # << >>
      BY <3>1
    <3> QED BY <3>2, <3>3, ConcatEqualIffEmpty
  <2> QED BY <1>1, <1>2, <1>6, <2>2, <2>3 DEF CapHandled
<1>7. CASE CapEndHandled
  BY <1>7 DEF CapEndHandled
<1> QED BY <1>3, <1>4, <1>5, <1>6, <1>7, CapsStep

\* The part of Flow about page messages.
LEMMA FlowPages ==
  ASSUME OwnStep, LoopTyped, Channels, DataTyped, WalkC, WalkD, Flow, Used, Greeting, [Next]_vars
  PROVE  /\ UPX' = UP' \/ (IOClosed' /\ UPX' = EndedBy(UP', None))
         /\ Ended /\ UP = << >> => UP' = << >>
<1>1. UPX = UP \/ (IOClosed /\ UPX = EndedBy(UP, None))
  BY DEF Flow, EndedBy
<1>2. IOClosed => IOClosed'
  BY PagesClose
<1>3. CASE SamePages
  BY <1>1, <1>2, <1>3 DEF SamePages
<1>4. CASE \E i \in PageIds : PageSent(i)
  BY <1>1, <1>4 DEF PageSent, Ended
<1>5. CASE PageEnd
  BY <1>1, <1>5 DEF PageEnd
<1>6. CASE PageHandled
  <2>1. None \in MsgIds /\ Id(IO) \in MsgIds
    BY <1>6, MessageIds DEF PageHandled
  <2>2. /\ UPX = UP => RestPagesX = RestPages
        /\ UPX # UP => RestPagesX = EndedBy(RestPages, None)
    <3>1. RestPages \in Seq(MsgIds) /\ RestPagesX \in Seq(MsgIds)
      BY <1>6 DEF PageHandled
    <3>2. UP = Led(Id(IO), RestPages) /\ UPX = Led(Id(IO), RestPagesX)
      BY <1>6 DEF PageHandled
    <3>3. PICK r \in Seq(MsgIds), rx \in Seq(MsgIds), e \in MsgIds, u \in Seq(MsgIds), ux \in Seq(MsgIds) :
            r = RestPages /\ rx = RestPagesX /\ e = Id(IO) /\ u = UP /\ ux = UPX
      BY <2>1, <3>1, ViewTypes
    <3>4. u = Led(e, r) /\ ux = Led(e, rx) /\ (ux = u \/ ux = EndedBy(u, None))
      BY <1>1, <3>2, <3>3
    <3>5. (ux = u => rx = r) /\ (ux # u => rx = EndedBy(r, None))
      <4>1. CASE ux = u
          BY <3>4, <4>1, LedSame
        <4>2. CASE ux # u
          <5>1. EndedBy(r, None) \in Seq(MsgIds) /\ EndedBy(Led(e, r), None) = Led(e, EndedBy(r, None))
            BY <2>1, LedEnd
          <5>2. Led(e, rx) = Led(e, EndedBy(r, None))
            BY <3>4, <4>2, <5>1
          <5> QED BY <4>2, <5>1, <5>2, LedSame
        <4> QED BY <4>1, <4>2
    <3> QED BY <3>3, <3>5
  <2>3. UP # << >>
    <3>1. PICK o \in Seq(MsgIds) : o = <<Id(IO)>>
      BY <2>1, One
    <3>2. UP = o \o RestPages /\ RestPages \in Seq(MsgIds)
      BY <1>6, <3>1 DEF PageHandled, Led
    <3>3. o # << >>
      BY <3>1
    <3> QED BY <3>2, <3>3, ConcatEqualIffEmpty
  <2> QED BY <1>1, <1>2, <1>6, <2>2, <2>3 DEF PageHandled
<1>7. CASE PageEndHandled
  BY <1>7 DEF PageEndHandled
<1> QED BY <1>3, <1>4, <1>5, <1>6, <1>7, PagesStep

\* Every step keeps Flow: CLOSE stays behind all that was sent.
LEMMA FlowStep ==
  ASSUME OwnStep, LoopTyped, Channels, DataTyped, WalkC, WalkD, Flow, Used, Greeting, [Next]_vars
  PROVE  Flow'
<1> D \in Threads
  BY ThreadIds
<1>1. UCX' = UC' \/ (CapClosed' /\ UCX' = UC' \o <<None>>)
  BY FlowCaps DEF EndedBy
<1>2. UPX' = UP' \/ (IOClosed' /\ UPX' = UP' \o <<None>>)
  BY FlowPages DEF EndedBy
<1>3. CapClosed' => closed'
  BY CapsClose
<1>4. Ended' \/ pc'[D] = "lastPage" => CapClosed' /\ UC' = << >>
  <2>1. SUFFICES ASSUME Ended' \/ pc'[D] = "lastPage" PROVE CapClosed /\ UC = << >>
    BY <2>1, CapsClose, FlowCaps
  <2>2. CASE Ended \/ pc[D] = "lastPage"
    BY <2>2 DEF Flow
  <2>3. CASE ~Ended /\ pc[D] # "lastPage"
    <3>1. ~Ended'
      BY <2>3, PagesClose DEF SendLastPage
    <3>2. pc'[D] = "lastPage"
      BY <2>1, <3>1
    <3>3. NextD
      BY <2>3, <3>2, FrameD, NewConnectionTyped DEF Next
    <3>4. ShutdownD \/ CloseD
      <4>0. SUFFICES ASSUME ~ShutdownD, ~CloseD PROVE FALSE
        OBVIOUS
      <4>2. CASE Start(D) \/ Recv(D) \/ Pop(D) \/ SpawnIO \/ (WriteCaplets /\ "io" \in isConnected)
        BY OwnUses, <2>3, <3>2, <4>2, GotoAt, SpawnTyped, ThreadIds DEF Start, Recv, Pop, Again, WriteCaplets
      <4>3. CASE RegisterPhoton \/ (WriteCaplets /\ "io" \notin isConnected) \/ WroteCaplets \/ MarkThreadAsFree
        BY OwnUses, <3>2, <4>3, AfterHandled, BusyLeft DEF RegisterPhoton, WriteCaplets, WroteCaplets, MarkThreadAsFree, Handling
      <4>4. CASE AddCaplet \/ AddToNextPage \/ SendPage \/ SendLastPage \/ CloseIOPhoton \/ ClosedIOPhoton
        BY <2>3, <3>2, <4>4, GotoAt DEF AddCaplet, AddToNextPage, SendPage, SendLastPage, CloseIOPhoton, Close, ClosedIOPhoton,
           loop
      <4>5. ~WriteCaplets
        <5>1. CASE "io" \in isConnected
          BY <4>2, <5>1
        <5>2. CASE "io" \notin isConnected
          BY <4>3, <5>2
        <5> QED BY <5>1, <5>2
      <4> QED BY <2>3, <3>3, <4>0, <4>2, <4>3, <4>4, <4>5 DEF NextD, Poll
    <3>5. pc[D] = "handle" /\ left[D] >= 1
      BY <3>4, BusyLeft DEF ShutdownD, CloseD, Handling
    <3>6. CASE CloseD
      BY <3>5, <3>6, CloseIsLast DEF CloseD, Handling
    <3>7. CASE ShutdownD
      <4>1. "io" \notin isConnected
        BY OwnUses, <3>2, <3>5, <3>7, AfterHandled DEF ShutdownD
      <4>2. Ended
        BY <3>5, <4>1 DEF Ended, IOClosed, Spawned
      <4> QED BY <2>3, <4>2
    <3> QED BY <3>4, <3>6, <3>7
  <2> QED BY <2>2, <2>3
<1>5. Ended' => dbm' = "uninit" /\ full' = None
  <2>1. SUFFICES ASSUME Ended' PROVE dbm' = "uninit" /\ full' = None
    OBVIOUS
  <2>2. CASE SendLastPage
    <3>1. dbm' = "uninit" /\ full' = full /\ pc[D] = "lastPage"
      BY <2>2 DEF SendLastPage
    <3> QED BY <3>1 DEF WalkD
  <2>3. CASE ~SendLastPage
    <3>1. Ended
      BY <2>1, <2>3, PagesClose
    <3>2. dbm = "uninit" /\ full = None /\ pc[D] # "add" /\ ~(pc[D] = "handle" /\ "io" \in isConnected)
          /\ pc[D] # "sendPage"
      BY <3>1 DEF Flow, WalkD, Ended, IOClosed, Spawned
    <3>3. CASE NextD
      <4>1. ~(WriteCaplets /\ "io" \in isConnected) /\ ~AddToNextPage /\ ~SendPage /\ ~AddCaplet
        BY <3>2 DEF WriteCaplets, AddToNextPage, Handling, SendPage, AddCaplet
      <4> QED BY OwnUses, <2>3, <3>2, <3>3, <4>1 DEF NextD, Poll, Start, Recv, Pop, SpawnIO, RegisterPhoton, WriteCaplets,
            WroteCaplets, ShutdownD, CloseD, CloseIOPhoton, Close, ClosedIOPhoton, MarkThreadAsFree, dVars
    <3>4. CASE ~NextD
      BY <3>2, <3>4, FrameD DEF Next
    <3> QED BY <3>3, <3>4
  <2> QED BY <2>2, <2>3
<1>6. ~isOpen' /\ file' # << >> => Ended' /\ UP' = << >>
  <2>1. CASE ~NextIO
    <3>1. isOpen' = isOpen /\ file' = file
      BY <2>1, FrameIO DEF Next
    <3> QED BY <3>1, FlowPages, PagesClose DEF Flow
  <2>2. CASE NextIO
    <3>1. CASE WritePage
      BY <3>1 DEF WritePage
    <3>2. CASE CloseIO
      <4>1. PageEndHandled \/ PageHandled \/ (SamePages /\ ~CloseIO)
        BY <2>2, IOStream
      <4>2. CASE PageEndHandled
        BY <4>2, PagesClose DEF PageEndHandled, Ended
      <4>3. CASE ~PageEndHandled
        <5>1. WritePage
          BY <2>2, <3>2, <4>3, IOStream
        <5> QED BY <5>1 DEF WritePage
      <4> QED BY <4>2, <4>3
    <3>3. CASE ~(WritePage \/ CloseIO)
      <4>1. isOpen' = isOpen /\ file' = file
        BY <2>2, <3>3 DEF NextIO, Poll, Start, Recv, Pop, ShutdownIO, ioVars
      <4> QED BY <4>1, FlowPages, PagesClose DEF Flow
    <3> QED BY <3>1, <3>2, <3>3
  <2> QED BY <2>1, <2>2
<1> QED BY <1>1, <1>2, <1>3, <1>4, <1>5, <1>6 DEF Flow

-----------------------------------------------------------------------------
(* What may happen to the caplet messages that are in use.                 *)

\* No message is taken, filled or given back.
CapsSame == CS' = CS /\ UNCHANGED <<capUse, capBody, captured>>
\* A caplet is added to the current message i.
CapletIn(i) ==
  /\ i \in CapIds /\ UnsentCaps = <<i>> /\ CS' = CS /\ UNCHANGED capUse
  /\ captured' = captured + 1 /\ capBody' = With(capBody, i, Append(capBody[i], captured + 1))
\* Message i is taken, with its first caplet.
CapletNew(i) ==
  /\ i \in CapIds \ capUse /\ CS' = EndedBy(CS, i) /\ capUse' = capUse \cup {i}
  /\ captured' = captured + 1 /\ capBody' = With(capBody, i, <<captured + 1>>)
\* D gives a message back.
CapsPacked ==
  /\ Id(D) \in CapIds /\ RestCaps \in Seq(MsgIds) /\ UC = Led(Id(D), RestCaps)
  /\ UnsentCaps' = UnsentCaps /\ CS' = RestCaps \o UnsentCaps
  /\ capUse' = capUse \ {Id(D)} /\ UNCHANGED <<capBody, captured>>

\* GetFreeMsg and the first Capture take a message.
LEMMA NewCaplet ==
  ASSUME LoopTyped, Channels, DataTyped, WalkC, NEW i \in CapIds, FirstFree(CapIds, capUse, i),
         capUse' = capUse \cup {i}, captured' = captured + 1, capBody' = With(capBody, i, <<captured + 1>>),
         UC' = UC, UnsentCaps = << >>, UnsentCaps' = <<i>>
  PROVE  CapletNew(i)
<1>1. UC \in Seq(MsgIds)
  BY ViewTypes
<1>2. UC \o << >> = UC
  BY <1>1, ConcatEmptySeq
<1> QED BY <1>2 DEF CapletNew, CS, EndedBy, FirstFree

\* Steps of C.
LEMMA CapsUseC ==
  ASSUME OwnStep, LoopTyped, Channels, DataTyped, WalkC, WalkD, Flow, Used, Fresh, NextC
  PROVE  \/ CapsSame
         \/ \E i \in CapIds : CapletIn(i)
         \/ \E i \in CapIds : CapletNew(i)
<1> C \in Threads
  BY ThreadIds
<1>1. CASE Start(C)
  <2>1. pc[C] = "start" /\ pc'[C] = "connect" /\ UNCHANGED <<currentDBMessage, capUse, capBody, captured>>
    BY <1>1, GotoAt, ThreadIds DEF Start, cVars, caps
  <2>2. SameCaps
    BY <1>1, QuietC
  <2> QED BY <2>1, <2>2 DEF CapsSame, CS, UnsentCaps, WalkC, SameCaps
<1>2. CASE Connect
  <2>1. pc[C] = "connect" /\ pc'[C] = "idle" /\ UNCHANGED <<currentDBMessage, capUse, capBody, captured>>
    BY <1>2, GotoAt DEF Connect, cVars, caps
  <2>2. SameCaps
    BY <1>2, QuietC
  <2> QED BY <2>1, <2>2 DEF CapsSame, CS, UnsentCaps, WalkC, SameCaps
<1>3. CASE Capture
  <2>1. PICK i \in CapIds :
          /\ IF currentDBMessage = None
             THEN /\ FirstFree(CapIds, capUse, i)
                  /\ capUse' = capUse \cup {i}
             ELSE i = currentDBMessage /\ UNCHANGED capUse
          /\ currentDBMessage' = i
          /\ capBody' = [capBody EXCEPT ![i] = Append(@, captured')]
    BY <1>3 DEF Capture
  <2>2. /\ pc[C] = "idle" /\ pc'[C] = "idle" /\ "cap" \in isConnected /\ "cap" \in isConnected'
        /\ captured' = captured + 1
    BY <1>3 DEF Capture, loop, photons, WalkC
  <2>3. UC' = UC
    BY <1>3, QuietC DEF SameCaps
  <2>4. i # None
    BY Numbers
  <2>5. UnsentCaps' = <<i>>
    BY <2>1, <2>2, <2>4 DEF UnsentCaps
  <2>6. capBody' = With(capBody, i, Append(capBody[i], captured + 1))
    BY <2>1, <2>2 DEF With
  <2>7. CASE currentDBMessage = None
    <3>1. UnsentCaps = << >>
      BY <2>7 DEF UnsentCaps
    <3>2. capBody[i] = << >>
      BY <2>7 DEF Fresh
    <3>3. capBody' = With(capBody, i, <<captured + 1>>)
      BY <2>6, <3>2
    <3>4. FirstFree(CapIds, capUse, i) /\ capUse' = capUse \cup {i}
      BY <2>1, <2>7
    <3> QED BY <2>2, <2>3, <2>5, <3>1, <3>3, <3>4, NewCaplet
  <2>8. CASE currentDBMessage # None
    <3>1. UnsentCaps = <<i>> /\ UNCHANGED capUse
      BY <2>1, <2>2, <2>8 DEF UnsentCaps
    <3>2. CS' = CS
      BY <2>3, <2>5, <3>1 DEF CS
    <3> QED BY <2>2, <2>6, <3>1, <3>2 DEF CapletIn
  <2> QED BY <2>7, <2>8
<1>4. CASE SendCaplets \/ SendLastCaplets
  <2>1. /\ UNCHANGED <<currentDBMessage, capUse, capBody, captured, isConnected>>
        /\ pc[C] \in {"idle", "lastCaplets"} /\ pc'[C] \in {"getFree", "close"}
        /\ pc[C] = "idle" => ~closed
    BY <1>4, GotoAt DEF SendCaplets, SendLastCaplets, cVars, caps
  <2>2. UnsentCaps' = << >>
    BY <2>1 DEF UnsentCaps
  <2>3. UC \in Seq(MsgIds)
    BY ViewTypes
  <2>4. CASE currentDBMessage \in CapIds /\ CapSent(currentDBMessage)
    <3>1. UnsentCaps = <<currentDBMessage>>
      BY <2>1, <2>4, Numbers DEF UnsentCaps, WalkC
    <3>2. PICK v \in Seq(MsgIds) : v = UC \o UnsentCaps
      <4>1. UnsentCaps \in Seq(MsgIds)
        BY UnsentTypes
      <4> QED BY <2>3, <4>1, ConcatProperties
    <3>3. UC' = v
      BY <2>4, <3>1, <3>2 DEF CapSent, EndedBy
    <3>4. v \o << >> = v
      BY ConcatEmptySeq
    <3> QED BY <2>1, <2>2, <3>2, <3>3, <3>4 DEF CapsSame, CS
  <2>5. CASE ~(currentDBMessage \in CapIds /\ CapSent(currentDBMessage))
    <3>1. UC' = UC
      BY <1>4, <2>5, CapStream DEF SameCaps, CapEnd
    <3>2. currentDBMessage = None
      <4>1. SUFFICES ASSUME currentDBMessage # None PROVE FALSE
        OBVIOUS
      <4>2. currentDBMessage \in CapIds /\ SendTo("cap", <<"WRITE", currentDBMessage>>) /\ UNCHANGED holder
        BY <1>4, <4>1 DEF SendCaplets, SendLastCaplets, DataTyped
      <4>3. UC' = UC \o <<currentDBMessage>>
        BY <4>2, SentCaps
      <4>4. PICK o \in Seq(MsgIds) : o = <<currentDBMessage>> /\ o # << >>
        BY <4>2, One, MessageIds
      <4>5. UC = UC \o o
        BY <3>1, <4>3, <4>4
      <4> QED BY <2>3, <4>4, <4>5, ConcatEqualIffEmpty
    <3>3. UnsentCaps = << >>
      BY <3>2 DEF UnsentCaps
    <3> QED BY <2>1, <2>2, <3>1, <3>3 DEF CapsSame, CS
  <2> QED BY <2>4, <2>5
<1>5. CASE GetFreeMsg
  <2>1. PICK i \in CapIds :
          /\ FirstFree(CapIds, capUse, i)
          /\ capUse' = capUse \cup {i}
          /\ capBody' = [capBody EXCEPT ![i] = <<captured'>>]
          /\ currentDBMessage' = i
    BY <1>5 DEF GetFreeMsg
  <2>2. /\ pc[C] = "getFree" /\ pc'[C] = "idle" /\ "cap" \in isConnected /\ "cap" \in isConnected'
        /\ captured' = captured + 1
    BY <1>5, GotoAt DEF GetFreeMsg, photons, WalkC
  <2>3. UC' = UC
    BY <1>5, QuietC DEF SameCaps
  <2>4. UnsentCaps' = <<i>> /\ UnsentCaps = << >>
    BY <2>1, <2>2, Numbers DEF UnsentCaps
  <2>5. capBody' = With(capBody, i, <<captured + 1>>)
    BY <2>1, <2>2 DEF With
  <2> QED BY <2>1, <2>2, <2>3, <2>4, <2>5, NewCaplet
<1>6. CASE CloseC
  <2>1. /\ pc[C] = "idle" /\ UNCHANGED <<currentDBMessage, capUse, capBody, captured, isConnected>>
        /\ pc'[C] = IF "cap" \notin isConnected THEN "done" ELSE "lastCaplets"
    BY <1>6, GotoAt DEF CloseC, caps, photons
  <2>2. SameCaps
    BY <1>6, QuietC
  <2> QED BY <2>1, <2>2 DEF CapsSame, CS, UnsentCaps, SameCaps
<1>7. CASE CloseDBPhoton
  <2>1. /\ pc[C] = "close" /\ pc'[C] = "drain" /\ UNCHANGED <<capUse, capBody, captured>>
    BY <1>7, GotoAt DEF CloseDBPhoton, Close, cVars, caps
  <2>2. UC' = UC
    BY <1>7, CapStream DEF SameCaps, CapEnd, CapSent, CloseDBPhoton, Close, SendCaplets, SendLastCaplets
  <2> QED BY <2>1, <2>2 DEF CapsSame, CS, UnsentCaps
<1>8. CASE ClosedDBPhoton
  <2>1. /\ pc[C] = "drain" /\ pc'[C] \in {"done", "idle"} /\ isConnected' = isConnected \ {"cap"}
        /\ UNCHANGED <<capUse, capBody, captured>>
    BY <1>8, GotoAt DEF ClosedDBPhoton, Drained, cVars, caps
  <2>2. SameCaps
    BY <1>8, QuietC
  <2> QED BY <2>1, <2>2 DEF CapsSame, CS, UnsentCaps, SameCaps
<1> QED BY <1>1, <1>2, <1>3, <1>4, <1>5, <1>6, <1>7, <1>8, NextC DEF NextC

\* Any step.
LEMMA CapsUse ==
  ASSUME OwnStep, LoopTyped, Channels, DataTyped, WalkC, WalkD, Flow, Used, Fresh, [Next]_vars
  PROVE  \/ CapsSame /\ ~WroteCaplets
         \/ \E i \in CapIds : CapletIn(i) /\ NextC
         \/ \E i \in CapIds : CapletNew(i) /\ NextC
         \/ WroteCaplets /\ CapsPacked
<1>1. CASE NextC
  <2>1. ~WroteCaplets
    <3>1. /\ WroteCaplets => pc'[D] \in {"done", "recv", "handle"} /\ pc[D] = "add"
      BY BusyLeft, AfterHandled, ThreadIds DEF WroteCaplets
    <3>2. pc'[D] = pc[D]
      BY <1>1, LeftByC DEF Left
    <3> QED BY <3>1, <3>2
  <2> QED BY <1>1, <2>1, CapsUseC
<1>2. CASE ~NextC
  <2>1. UnsentCaps' = UnsentCaps /\ UNCHANGED <<captured, capBody>>
    BY <1>2, FrameC DEF UnsentCaps, Next
  <2>2. CASE WroteCaplets
    <3>1. CapHandled
      <4>1. NextD
        BY <2>2 DEF NextD
      <4>2. left[D] >= 1 /\ Head(holder[D])[1] = "WRITE" /\ Handled(D) /\ UNCHANGED channel
            /\ pc[D] = "add"
        BY <2>2, BusyLeft, ThreadIds DEF WroteCaplets, WalkD, photons
      <4>3. holder'[D] = Tail(holder[D]) /\ holder'[IO] = holder[IO]
        BY <4>2, HandledTyped, ThreadIds
      <4> QED BY <4>2, <4>3, HandledCaps, FirstCap, PagesKept DEF CapHandled, Led
    <3>2. capUse' = capUse \ {Id(D)}
      BY <2>2 DEF WroteCaplets
    <3> QED BY <2>1, <2>2, <3>1, <3>2 DEF CapHandled, CapsPacked, CS
  <2>3. CASE ~WroteCaplets
    <3>1. UC' = UC
      <4>1. CASE NextD
        BY <2>3, <4>1, DStream DEF SameCaps, PageSent, PageEnd, CapEndHandled
      <4>2. CASE NextIO
        BY <4>2, IOStream DEF PageHandled, PageEndHandled, SameCaps
      <4>3. CASE NextS \/ AskShutdown \/ UNCHANGED vars
        BY <4>3, QuietS, StutterStream DEF SameCaps
      <4> QED BY <1>2, <4>1, <4>2, <4>3 DEF Next
    <3>2. capUse' = capUse
      <4>1. CASE NextD
        <5>1. ~(WriteCaplets /\ "io" \notin isConnected)
          BY NeverDropped
        <5> QED BY OwnUses, <2>3, <4>1, <5>1 DEF NextD, Poll, Start, Recv, Pop, SpawnIO, RegisterPhoton, WriteCaplets,
              AddCaplet, AddToNextPage, SendPage, ShutdownD, CloseD, SendLastPage, CloseIOPhoton, Close,
              ClosedIOPhoton, MarkThreadAsFree, caps
      <4>2. CASE NextIO
        BY <4>2 DEF NextIO, Poll, Start, Recv, Pop, WritePage, ShutdownIO, CloseIO, caps
      <4>3. CASE NextS \/ AskShutdown \/ UNCHANGED vars
        BY <4>3 DEF NextS, Pop, NewConnection, HandleShutdown, Tell, ToldAll, Join, JoinedAll, AskShutdown,
           vars, caps
      <4> QED BY <1>2, <4>1, <4>2, <4>3 DEF Next
    <3> QED BY <2>1, <2>3, <3>1, <3>2 DEF CapsSame, CS
  <2> QED BY <2>2, <2>3
<1> QED BY <1>1, <1>2

-----------------------------------------------------------------------------
(* What may happen to the page messages that are in use.                   *)

\* No page is taken, filled, written or given back.
PagesSame == PS' = PS /\ UNCHANGED <<pageUse, pageBody, file>>
\* The first page is taken.
PageStart ==
  /\ PS = << >> /\ PS' = <<1>> /\ pageUse = {} /\ pageUse' = {1} /\ UNCHANGED <<pageBody, file>>
  /\ \A i \in PageIds : pageBody[i] = << >>
\* A caplet is added to the current page.
PageGrows ==
  /\ currentPage \in PageIds /\ PS = EndedBy(UP, currentPage) /\ PS' = PS /\ UNCHANGED <<pageUse, file>>
  /\ pageBody' = With(pageBody, currentPage, Append(pageBody[currentPage], NextCaplet))
\* Page i is taken, with its first caplet.
PageNew(i) ==
  /\ i \in PageIds \ pageUse /\ PS' = EndedBy(PS, i) /\ pageUse' = pageUse \cup {i}
  /\ pageBody' = With(pageBody, i, <<NextCaplet>>) /\ UNCHANGED file
\* IO writes a page and gives it back.
PageWritten ==
  /\ Id(IO) \in PageIds /\ RestPages \in Seq(MsgIds) /\ UP = Led(Id(IO), RestPages)
  /\ UnsentPages' = UnsentPages /\ PS' = RestPages \o UnsentPages
  /\ pageUse' = pageUse \ {Id(IO)} /\ UNCHANGED pageBody
  /\ file' = (IF isOpen THEN file ELSE << >>) \o pageBody[Id(IO)]

\* UnsentPages, case by case.
LEMMA Unsent ==
  /\ full = None /\ dbm # "write" => UnsentPages = << >>
  /\ full = None /\ dbm = "write" => UnsentPages = <<currentPage>>
  /\ full # None /\ dbm = "write" => UnsentPages = <<full>> \o <<currentPage>>
<1>1. \A e : << >> \o <<e>> = <<e>>
  OBVIOUS
<1>2. << >> \o << >> = << >>
  OBVIOUS
<1> QED BY <1>1, <1>2 DEF UnsentPages

\* The same after a step.
LEMMA UnsentNext ==
  /\ full' = None /\ dbm' # "write" => UnsentPages' = << >>
  /\ full' = None /\ dbm' = "write" => UnsentPages' = <<currentPage'>>
  /\ full' # None /\ dbm' = "write" => UnsentPages' = <<full'>> \o <<currentPage'>>
  /\ UNCHANGED <<full, dbm, currentPage>> => UnsentPages' = UnsentPages
<1>1. \A e : << >> \o <<e>> = <<e>>
  OBVIOUS
<1>2. << >> \o << >> = << >>
  OBVIOUS
<1> QED BY <1>1, <1>2 DEF UnsentPages

\* No page is on its way if none is in use.
LEMMA NothingUsed ==
  ASSUME LoopTyped, Channels, DataTyped, WalkD, Used, pageUse = {}
  PROVE  PS = << >>
<1>1. PS \in Seq(MsgIds)
  <2>1. UP \in Seq(MsgIds) /\ UnsentPages \in Seq(MsgIds)
    BY ViewTypes, UnsentTypes
  <2> QED BY <2>1, ConcatProperties DEF PS
<1>2. ToSet(PS) = {}
  BY DEF Used
<1>3. PICK s \in Seq(MsgIds) : s = PS /\ ToSet(s) = {}
  BY <1>1, <1>2
<1>4. SUFFICES ASSUME s # << >> PROVE FALSE
  BY <1>3
<1>5. Len(s) \in Nat /\ Len(s) # 0 /\ DOMAIN s = 1 .. Len(s)
  BY <1>4, LenProperties, EmptySeq
<1>6. 1 \in DOMAIN s
  BY <1>5
<1>7. s[1] \in ToSet(s)
  BY <1>6 DEF ToSet
<1> QED BY <1>3, <1>7

\* Steps of D.
LEMMA PagesUseD ==
  ASSUME OwnStep, LoopTyped, Channels, DataTyped, WalkC, WalkD, Flow, Used, Fresh, NextD
  PROVE  \/ PagesSame /\ ~AddCaplet /\ ~AddToNextPage
         \/ WriteCaplets /\ PageStart
         \/ AddCaplet /\ PageGrows
         \/ AddToNextPage /\ \E i \in PageIds : PageNew(i)
<1> D \in Threads
  BY ThreadIds
<1>1. UP \in Seq(MsgIds) /\ UnsentPages \in Seq(MsgIds) /\ UNCHANGED file
  BY ViewTypes, UnsentTypes, FrameIO
<1>2. CASE WriteCaplets /\ "io" \in isConnected
  <2>1. /\ UP' = UP /\ pc[D] = "handle" /\ UNCHANGED <<full, pageBody>>
        /\ IF currentPage = None
           THEN currentPage' = 1 /\ pageUse' = {1} /\ dbm' = "write"
           ELSE UNCHANGED <<currentPage, pageUse, dbm>>
    BY OwnUses, <1>2, QuietD DEF WriteCaplets, SamePages, Handling
  <2>2. ~AddCaplet /\ ~AddToNextPage
    BY <2>1 DEF AddCaplet, AddToNextPage
  <2>3. CASE currentPage = None
    <3>1. pageUse = {} /\ \A i \in PageIds : pageBody[i] = << >>
      BY <2>3 DEF Fresh
    <3>2. PS = << >>
      BY <3>1, NothingUsed
    <3>3. full' = None /\ dbm' = "write" /\ currentPage' = 1
      BY <2>1, <2>3 DEF WalkD
    <3>4. UnsentPages' = <<1>>
      BY <3>3, UnsentNext
    <3>5. UP = << >>
      BY <1>1, <3>2, ConcatEqualIffEmpty, ConcatEmptySeq DEF PS
    <3>6. PS' = << >> \o <<1>>
      BY <2>1, <3>4, <3>5 DEF PS
    <3>7. << >> \o <<1>> = <<1>>
      OBVIOUS
    <3>8. PS' = <<1>>
      BY <3>6, <3>7
    <3> QED BY <1>1, <1>2, <2>1, <2>3, <3>1, <3>2, <3>8 DEF PageStart
  <2>4. CASE currentPage # None
    <3>1. UnsentPages' = UnsentPages
      BY <2>1, <2>4, UnsentNext
    <3> QED BY <1>1, <2>1, <2>2, <2>4, <3>1 DEF PagesSame, PS
  <2> QED BY <2>3, <2>4
<1>3. CASE AddCaplet
  <2>1. pc[D] = "add" /\ UNCHANGED <<full, dbm, currentPage, pageUse>>
        /\ pageBody' = [pageBody EXCEPT ![currentPage] = Append(@, NextCaplet)]
    BY <1>3 DEF AddCaplet
  <2>2. full = None /\ dbm = "write" /\ currentPage \in PageIds
    BY <2>1, Packs DEF WalkD
  <2>3. UnsentPages = <<currentPage>> /\ UnsentPages' = UnsentPages
    BY <2>1, <2>2, Unsent, UnsentNext
  <2>4. UP' = UP
    BY OwnUses, <1>3, QuietD DEF SamePages
  <2>5. PS' = PS /\ PS = EndedBy(UP, currentPage)
    BY <2>3, <2>4 DEF PS, EndedBy
  <2>6. pageBody' = With(pageBody, currentPage, Append(pageBody[currentPage], NextCaplet))
    BY <2>1 DEF With
  <2> QED BY <1>1, <1>3, <2>1, <2>2, <2>5, <2>6 DEF PageGrows
<1>4. CASE AddToNextPage
  <2>1. PICK i \in PageIds : /\ FirstFree(PageIds, pageUse, i)
                             /\ pageUse' = pageUse \cup {i}
                             /\ pageBody' = [pageBody EXCEPT ![i] = <<NextCaplet>>]
                             /\ currentPage' = i
    BY <1>4 DEF AddToNextPage
  <2>2. pc[D] = "add" /\ full' = currentPage /\ dbm' = dbm
    BY <1>4 DEF AddToNextPage
  <2>3. full = None /\ dbm = "write" /\ currentPage \in PageIds
    BY <2>2, Packs DEF WalkD
  <2>4. full' # None
    BY <2>2, <2>3, Numbers
  <2>5. UnsentPages = <<currentPage>> /\ UnsentPages' = <<currentPage>> \o <<i>>
    BY <2>1, <2>2, <2>3, <2>4, Unsent, UnsentNext
  <2>6. UP' = UP
    BY OwnUses, <1>4, QuietD DEF SamePages
  <2>7. PICK a \in Seq(MsgIds), b \in Seq(MsgIds) : a = <<currentPage>> /\ b = <<i>>
    BY <2>1, <2>3, One, MessageIds
  <2>8. UP \o (a \o b) = (UP \o a) \o b
    BY <1>1, Assoc
  <2>9. PS' = UP \o (a \o b) /\ PS = UP \o a
    BY <2>5, <2>6, <2>7 DEF PS
  <2>10. PS' = EndedBy(PS, i)
    BY <2>7, <2>8, <2>9 DEF EndedBy
  <2>11. pageBody' = With(pageBody, i, <<NextCaplet>>)
    BY <2>1 DEF With
  <2> QED BY <1>1, <1>4, <2>1, <2>10, <2>11 DEF PageNew, FirstFree
<1>5. CASE SendPage
  <2>1. pc[D] = "sendPage" /\ full' = None /\ UNCHANGED <<dbm, currentPage, pageUse, pageBody>>
        /\ UNCHANGED holder /\ SendTo("io", <<"PAGE", full>>)
    BY OwnUses, <1>5 DEF SendPage, pages
  <2>2. full # None /\ dbm = "write" /\ full \in PageIds /\ currentPage \in PageIds
    <3>1. full # None /\ dbm = "write"
      BY <2>1 DEF WalkD
    <3> QED BY <3>1 DEF WalkD, DataTyped
  <2>3. UnsentPages = <<full>> \o <<currentPage>> /\ UnsentPages' = <<currentPage>>
    BY <2>1, <2>2, Unsent, UnsentNext
  <2>4. UP' = UP \o <<full>>
    BY <2>1, <2>2, SentPages
  <2>5. PICK a \in Seq(MsgIds), b \in Seq(MsgIds) : a = <<full>> /\ b = <<currentPage>>
    BY <2>2, One, MessageIds
  <2>6. UP \o (a \o b) = (UP \o a) \o b
    <3>1. PICK u \in Seq(MsgIds) : u = UP
      BY <1>1
    <3>2. (u \o a) \o b = u \o (a \o b)
      BY Assoc
    <3> QED BY <3>1, <3>2
  <2>7. PS' = (UP \o a) \o b /\ PS = UP \o (a \o b)
    BY <2>3, <2>4, <2>5 DEF PS
  <2>8. ~AddCaplet /\ ~AddToNextPage
    BY <2>1 DEF AddCaplet, AddToNextPage
  <2> QED BY <1>1, <2>1, <2>6, <2>7, <2>8 DEF PagesSame
<1>6. CASE SendLastPage
  <2>1. pc[D] = "lastPage" /\ dbm' = "uninit" /\ UNCHANGED <<full, currentPage, pageUse, pageBody, holder>>
    BY <1>6 DEF SendLastPage, pages
  <2>2. full = None
    BY <2>1 DEF WalkD
  <2>3. UnsentPages' = << >>
    BY <2>1, <2>2, UnsentNext
  <2>4. ~AddCaplet /\ ~AddToNextPage
    BY <2>1 DEF AddCaplet, AddToNextPage
  <2>5. CASE currentPage # None /\ dbm = "write"
    <3>1. SendTo("io", <<"PAGE", currentPage>>) /\ currentPage \in PageIds
      BY OwnUses, <1>6, <2>5 DEF SendLastPage, DataTyped
    <3>2. UP' = UP \o <<currentPage>>
      BY <2>1, <3>1, SentPages
    <3>3. UnsentPages = <<currentPage>>
      BY <2>2, <2>5, Unsent
    <3>4. PICK v \in Seq(MsgIds) : v = UP \o UnsentPages
      BY <1>1, ConcatProperties
    <3>5. UP' = v
      BY <3>2, <3>3, <3>4
    <3>6. v \o << >> = v
      BY ConcatEmptySeq
    <3>7. PS' = PS
      BY <2>3, <3>4, <3>5, <3>6 DEF PS
    <3> QED BY <1>1, <2>1, <2>4, <3>7 DEF PagesSame
  <2>6. CASE ~(currentPage # None /\ dbm = "write")
    <3>1. UNCHANGED channel /\ dbm # "write"
      BY <1>6, <2>6 DEF SendLastPage, WalkD
    <3>2. UnsentPages = << >>
      BY <2>2, <3>1, Unsent
    <3>3. UP' = UP
      BY <2>1, <3>1, PagesKept DEF SamePages
    <3> QED BY <1>1, <2>1, <2>3, <2>4, <3>2, <3>3 DEF PagesSame, PS
  <2> QED BY <2>5, <2>6
<1>7. CASE ~(WriteCaplets \/ AddCaplet \/ AddToNextPage \/ SendPage \/ SendLastPage)
  <2>1. UP' = UP
    BY <1>7, DStream DEF SamePages, PageEnd, CapHandled, CapEndHandled
  <2>2. UNCHANGED <<full, dbm, currentPage, pageUse, pageBody>>
    BY <1>7, NextD DEF NextD, Poll, Start, Recv, Pop, SpawnIO, RegisterPhoton, WroteCaplets, ShutdownD, CloseD,
       CloseIOPhoton, Close, ClosedIOPhoton, MarkThreadAsFree, dVars, pages
  <2>3. UnsentPages' = UnsentPages
    BY <2>2, UnsentNext
  <2> QED BY <1>1, <1>7, <2>1, <2>2, <2>3 DEF PagesSame, PS
<1>8. CASE WriteCaplets
  BY <1>2, <1>8, NeverDropped
<1> QED BY <1>3, <1>4, <1>5, <1>6, <1>7, <1>8

\* Any step.
LEMMA PagesUse ==
  ASSUME OwnStep, LoopTyped, Channels, DataTyped, WalkC, WalkD, Flow, Used, Fresh, [Next]_vars
  PROVE  \/ PagesSame /\ ~WritePage /\ ~AddCaplet /\ ~AddToNextPage
         \/ WriteCaplets /\ PageStart
         \/ AddCaplet /\ PageGrows
         \/ AddToNextPage /\ \E i \in PageIds : PageNew(i)
         \/ WritePage /\ PageWritten
<1>1. CASE NextD
  <2>1. ~WritePage
    <3>1. UNCHANGED file
      BY <1>1, FrameIO
    <3>2. /\ WritePage => pc[IO] = "handle" /\ left[IO] >= 1
      BY BusyLeft DEF WritePage, Handling
    <3>3. WritePage => left'[IO] = left[IO] - 1
      <4>1. SUFFICES ASSUME WritePage PROVE left'[IO] = left[IO] - 1
        OBVIOUS
      <4> QED BY <4>1, ThreadIds DEF WritePage, Handled, NextMessage, LoopTyped
    <3>4. ~SpawnIO => left'[IO] = left[IO]
      BY <1>1, LeftByD DEF Left
    <3>5. SpawnIO => left' = left
      BY DEF SpawnIO
    <3>6. left[IO] \in Nat
      BY ThreadIds DEF LoopTyped
    <3> QED BY <3>2, <3>3, <3>4, <3>5, <3>6
  <2> QED BY <1>1, <2>1, PagesUseD
<1>2. CASE ~NextD
  <2>1. UnsentPages' = UnsentPages /\ UNCHANGED pageBody
    BY <1>2, FrameD, UnsentNext DEF Next
  <2>0. ~AddCaplet /\ ~AddToNextPage
    BY <1>2 DEF NextD
  <2>2. CASE WritePage
    <3>1. PageHandled
      <4>1. left[IO] >= 1 /\ Head(holder[IO])[1] = "PAGE" /\ Handled(IO) /\ UNCHANGED channel
            /\ pc[IO] = "handle"
        BY <2>2, BusyLeft, ThreadIds DEF WritePage, Handling, photons
      <4>2. holder'[IO] = Tail(holder[IO]) /\ holder'[D] = holder[D]
        BY <4>1, HandledTyped, ThreadIds
      <4> QED BY <4>1, <4>2, HandledPages, FirstPage, CapsKept DEF PageHandled, Led
    <3>2. pageUse' = pageUse \ {Id(IO)} /\ file' = (IF isOpen THEN file ELSE << >>) \o pageBody[Id(IO)]
      BY <2>2 DEF WritePage
    <3> QED BY <2>1, <2>2, <3>1, <3>2 DEF PageHandled, PageWritten, PS
  <2>3. CASE ~WritePage
    <3>1. UP' = UP
      <4>1. CASE NextC
        BY <4>1, CapStream DEF SamePages, CapSent, CapEnd
      <4>2. CASE NextIO
        BY <2>3, <4>2, IOStream DEF PageEndHandled, SamePages
      <4>3. CASE NextS \/ AskShutdown \/ UNCHANGED vars
        BY <4>3, QuietS, StutterStream DEF SamePages
      <4> QED BY <1>2, <4>1, <4>2, <4>3 DEF Next
    <3>2. pageUse' = pageUse /\ file' = file
      <4>1. CASE NextC
        BY <4>1 DEF NextC, Start, Connect, Capture, SendCaplets, GetFreeMsg, CloseC, SendLastCaplets,
           CloseDBPhoton, Close, ClosedDBPhoton, pages, ioVars
      <4>2. CASE NextIO
        BY <2>3, <4>2 DEF NextIO, Poll, Start, Recv, Pop, ShutdownIO, CloseIO, pages, ioVars
      <4>3. CASE NextS \/ AskShutdown \/ UNCHANGED vars
        BY <4>3 DEF NextS, Pop, NewConnection, HandleShutdown, Tell, ToldAll, Join, JoinedAll, AskShutdown,
           vars, pages, ioVars
      <4> QED BY <1>2, <4>1, <4>2, <4>3 DEF Next
    <3> QED BY <2>0, <2>1, <2>3, <3>1, <3>2 DEF PagesSame, PS
  <2> QED BY <2>2, <2>3
<1> QED BY <1>1, <1>2

\* The types of the messages in use.
LEMMA InUseTypes ==
  ASSUME LoopTyped, Channels, DataTyped, WalkD
  PROVE  CS \in Seq(MsgIds) /\ PS \in Seq(MsgIds)
<1>1. UC \in Seq(MsgIds) /\ UP \in Seq(MsgIds) /\ UnsentCaps \in Seq(MsgIds) /\ UnsentPages \in Seq(MsgIds)
  BY ViewTypes, UnsentTypes
<1> QED BY <1>1, ConcatProperties DEF CS, PS

\* Used by Distinct.
LEMMA UsedParts == Used <=> Distinct(CS, capUse) /\ Distinct(PS, pageUse)
BY DEF Used, Distinct

\* One more element that is new.
LEMMA DistinctEnd ==
  ASSUME NEW T, NEW s \in Seq(T), NEW used, Distinct(s, used), NEW e \in T, e \notin used
  PROVE  Distinct(EndedBy(s, e), used \cup {e})
BY DistinctAppend DEF EndedBy

\* One element is distinct.
LEMMA DistinctOne == ASSUME NEW e PROVE Distinct(<<e>>, {e})
BY DEF Distinct, ToSet, Injective

\* Every step keeps the caplet messages in use distinct, ...
LEMMA UsedCaps ==
  ASSUME OwnStep, LoopTyped, Channels, DataTyped, WalkC, WalkD, Flow, Used, Fresh, [Next]_vars
  PROVE  Distinct(CS', capUse')
<1>1. CS \in Seq(MsgIds) /\ Distinct(CS, capUse)
  BY InUseTypes, UsedParts
<1>2. CASE CapsSame
  BY <1>1, <1>2 DEF CapsSame
<1>3. CASE \E i \in CapIds : CapletIn(i)
  BY <1>1, <1>3 DEF CapletIn
<1>4. CASE \E i \in CapIds : CapletNew(i)
  <2>1. PICK i \in CapIds : CapletNew(i)
    BY <1>4
  <2>2. i \in MsgIds /\ i \notin capUse /\ CS' = EndedBy(CS, i) /\ capUse' = capUse \cup {i}
    BY <2>1, MessageIds DEF CapletNew
  <2>3. PICK s \in Seq(MsgIds) : s = CS
    BY <1>1
  <2>4. Distinct(EndedBy(s, i), capUse \cup {i})
    BY <1>1, <2>2, <2>3, DistinctEnd
  <2> QED BY <2>2, <2>3, <2>4
<1>5. CASE WroteCaplets /\ CapsPacked
  <2>1. left[D] >= 1 /\ Head(holder[D])[1] = "WRITE"
    BY <1>5, BusyLeft, ThreadIds DEF WroteCaplets, WalkD
  <2>2. Distinct(RestCaps \o UnsentCaps, capUse \ {Id(D)})
    BY <2>1, FirstCapUsed
  <2> QED BY <1>5, <2>2 DEF CapsPacked
<1> QED BY <1>2, <1>3, <1>4, <1>5, CapsUse

\* ... and the pages.
LEMMA UsedPages ==
  ASSUME OwnStep, LoopTyped, Channels, DataTyped, WalkC, WalkD, Flow, Used, Fresh, [Next]_vars
  PROVE  Distinct(PS', pageUse')
<1>1. PS \in Seq(MsgIds) /\ Distinct(PS, pageUse)
  BY InUseTypes, UsedParts
<1>2. CASE PagesSame
  BY <1>1, <1>2 DEF PagesSame
<1>3. CASE PageStart
  <2>1. PS' = <<1>> /\ pageUse' = {1}
    BY <1>3 DEF PageStart
  <2>2. Distinct(<<1>>, {1})
    BY DistinctOne
  <2> QED BY <2>1, <2>2
<1>4. CASE PageGrows
  BY <1>1, <1>4 DEF PageGrows
<1>5. CASE \E i \in PageIds : PageNew(i)
  <2>1. PICK i \in PageIds : PageNew(i)
    BY <1>5
  <2>2. i \in MsgIds /\ i \notin pageUse /\ PS' = EndedBy(PS, i) /\ pageUse' = pageUse \cup {i}
    BY <2>1, MessageIds DEF PageNew
  <2>3. PICK s \in Seq(MsgIds) : s = PS
    BY <1>1
  <2>4. Distinct(EndedBy(s, i), pageUse \cup {i})
    BY <1>1, <2>2, <2>3, DistinctEnd
  <2> QED BY <2>2, <2>3, <2>4
<1>6. CASE WritePage /\ PageWritten
  <2>1. left[IO] >= 1 /\ Head(holder[IO])[1] = "PAGE"
    BY <1>6, BusyLeft, ThreadIds DEF WritePage, Handling
  <2>2. Distinct(RestPages \o UnsentPages, pageUse \ {Id(IO)})
    BY <2>1, FirstPageUsed
  <2> QED BY <1>6, <2>2 DEF PageWritten
<1> QED BY <1>2, <1>3, <1>4, <1>5, <1>6, PagesUse

\* Every step keeps Used.
LEMMA UsedStep ==
  ASSUME OwnStep, LoopTyped, Channels, DataTyped, WalkC, WalkD, Flow, Used, Fresh, [Next]_vars
  PROVE  Used'
<1>1. Distinct(CS', capUse') /\ Distinct(PS', pageUse')
  BY UsedCaps, UsedPages
<1> QED BY <1>1 DEF Distinct, Used, Injective

-----------------------------------------------------------------------------
(* What is left of a sequence after its first elements.                    *)

\* Without the first k.
Drop(s, k) == SubSeq(s, k + 1, Len(s))
\* The caplets in the order of capture.
Counted(n) == [i \in 1 .. n |-> i]

\* What Drop leaves.
LEMMA DropType ==
  ASSUME NEW T, NEW s \in Seq(T), NEW k \in Nat, k <= Len(s)
  PROVE  /\ Drop(s, k) \in Seq(T) /\ Len(Drop(s, k)) = Len(s) - k
         /\ \A i \in 1 .. Len(s) - k : Drop(s, k)[i] = s[k + i]
<1>1. PICK n \in Nat : n = Len(s)
  BY LenProperties
<1>2. \A i \in k + 1 .. n : s[i] \in T
  BY <1>1, ElementOfSeq
<1>3. k + 1 \in Int /\ n \in Int
  OBVIOUS
<1>4. /\ SubSeq(s, k + 1, n) \in Seq(T)
      /\ Len(SubSeq(s, k + 1, n)) = IF k + 1 <= n THEN n - (k + 1) + 1 ELSE 0
      /\ \A i \in 1 .. n - (k + 1) + 1 : SubSeq(s, k + 1, n)[i] = s[(k + 1) + i - 1]
  BY <1>2, <1>3, SubSeqProperties
<1>5. (IF k + 1 <= n THEN n - (k + 1) + 1 ELSE 0) = n - k /\ n - (k + 1) + 1 = n - k
  BY <1>1
<1>6. \A i \in 1 .. n - k : (k + 1) + i - 1 = k + i
  BY <1>1
<1> QED BY <1>1, <1>4, <1>5, <1>6 DEF Drop

\* Without the first of two parts.
LEMMA DropPrefix ==
  ASSUME NEW T, NEW a \in Seq(T), NEW b \in Seq(T)
  PROVE  Drop(a \o b, Len(a)) = b
<1>1. PICK s \in Seq(T), n \in Nat, m \in Nat : /\ s = a \o b /\ n = Len(a) /\ m = Len(b) /\ Len(s) = n + m
                              /\ \A i \in 1 .. m : s[n + i] = b[i]
  <2>1. PICK n \in Nat, m \in Nat : n = Len(a) /\ m = Len(b)
    BY LenProperties
  <2>2. PICK s : s = a \o b
    OBVIOUS
  <2>3. s \in Seq(T) /\ Len(s) = Len(a) + Len(b)
    BY <2>2, ConcatProperties
  <2>4. \A i \in 1 .. Len(b) : s[Len(a) + i] = b[i]
    BY <2>2, Concat
  <2> QED BY <2>1, <2>2, <2>3, <2>4
<1>2. n <= n + m /\ (n + m) - n = m
  OBVIOUS
<1>3. /\ Drop(s, n) \in Seq(T) /\ Len(Drop(s, n)) = m
      /\ \A i \in 1 .. m : Drop(s, n)[i] = s[n + i]
  <2>1. n <= Len(s) /\ Len(s) - n = m
    BY <1>1, <1>2
  <2>2. /\ Drop(s, n) \in Seq(T) /\ Len(Drop(s, n)) = Len(s) - n
        /\ \A i \in 1 .. Len(s) - n : Drop(s, n)[i] = s[n + i]
    BY <2>1, DropType
  <2> QED BY <2>1, <2>2
<1>4. Drop(s, n) = b
  BY <1>1, <1>3, SeqEqual
<1> QED BY <1>1, <1>4

\* Nothing is dropped.
LEMMA DropNone == ASSUME NEW T, NEW s \in Seq(T) PROVE Drop(s, 0) = s
<1>1. SubSeq(s, 1, Len(s)) = s
  BY SubSeqFull
<1> QED BY <1>1 DEF Drop

\* One more is dropped.
LEMMA DropNext ==
  ASSUME NEW T, NEW s \in Seq(T), NEW k \in Nat, k < Len(s)
  PROVE  Drop(s, k) = <<s[k + 1]>> \o Drop(s, k + 1)
<1>1. PICK n \in Nat : n = Len(s)
  BY LenProperties
<1>2. k + 1 \in 1 .. n /\ n \in k + 1 .. n
  BY <1>1
<1>3. SubSeq(s, k + 1, n) = <<s[k + 1]>> \o SubSeq(s, (k + 1) + 1, n)
  BY <1>1, <1>2, SubSeqRecursiveFirst
<1> QED BY <1>1, <1>3 DEF Drop

\* Drop and Append.
LEMMA DropAppend ==
  ASSUME NEW T, NEW s \in Seq(T), NEW k \in Nat, k <= Len(s), NEW e \in T
  PROVE  Drop(Append(s, e), k) = Append(Drop(s, k), e)
<1>1. PICK n \in Nat : n = Len(s)
  BY LenProperties
<1>2. PICK q \in Seq(T) : /\ q = Append(s, e) /\ Len(q) = n + 1
                          /\ (\A i \in 1 .. n : q[i] = s[i]) /\ q[n + 1] = e
  BY <1>1, Appended
<1>3. PICK d \in Seq(T) : d = Drop(s, k) /\ Len(d) = n - k /\ \A i \in 1 .. n - k : d[i] = s[k + i]
  <2>1. /\ Drop(s, k) \in Seq(T) /\ Len(Drop(s, k)) = Len(s) - k
        /\ \A i \in 1 .. Len(s) - k : Drop(s, k)[i] = s[k + i]
    BY DropType
  <2> QED BY <1>1, <2>1
<1>4. PICK x \in Seq(T) : /\ x = Append(d, e) /\ Len(x) = (n - k) + 1
                          /\ (\A i \in 1 .. n - k : x[i] = d[i]) /\ x[(n - k) + 1] = e
  <2>1. PICK x : x = Append(d, e)
    OBVIOUS
  <2>2. /\ x \in Seq(T) /\ Len(x) = Len(d) + 1 /\ (\A i \in 1 .. Len(d) : x[i] = d[i])
        /\ x[Len(d) + 1] = e
    BY <2>1, Appended
  <2> QED BY <1>3, <2>1, <2>2
<1>5. k <= n + 1 /\ (n + 1) - k = (n - k) + 1
  BY <1>1
<1>6. PICK y \in Seq(T) : y = Drop(q, k) /\ Len(y) = (n - k) + 1 /\ \A i \in 1 .. (n - k) + 1 : y[i] = q[k + i]
  <2>1. k <= Len(q) /\ Len(q) - k = (n - k) + 1
    BY <1>2, <1>5
  <2>2. /\ Drop(q, k) \in Seq(T) /\ Len(Drop(q, k)) = Len(q) - k
        /\ \A i \in 1 .. Len(q) - k : Drop(q, k)[i] = q[k + i]
    BY <2>1, DropType
  <2> QED BY <2>1, <2>2
<1>7. \A i \in 1 .. (n - k) + 1 : x[i] = y[i]
  <2>1. ASSUME NEW i \in 1 .. (n - k) + 1 PROVE x[i] = y[i]
    <3>1. CASE i = (n - k) + 1
      <4>1. k + i = n + 1
        BY <1>1, <3>1
      <4> QED BY <1>2, <1>4, <1>6, <3>1, <4>1
    <3>2. CASE i # (n - k) + 1
      <4>1. i \in 1 .. n - k /\ k + i \in 1 .. n
        <5>1. n - k \in Nat
          BY <1>1
        <5>2. PICK m \in Nat : m = n - k
          BY <5>1
        <5>3. i \in 1 .. m
          BY <2>1, <3>2, <5>2
        <5>4. k + i \in 1 .. n
          BY <1>1, <5>2, <5>3
        <5> QED BY <5>2, <5>3, <5>4
      <4> QED BY <1>2, <1>3, <1>4, <1>6, <4>1
    <3> QED BY <3>1, <3>2
  <2> QED BY <2>1
<1>8. x = y
  BY <1>4, <1>6, <1>7, SeqEqual
<1> QED BY <1>2, <1>3, <1>4, <1>6, <1>8

\* One more caplet is captured.
LEMMA CountedNext == ASSUME NEW n \in Nat PROVE Counted(n + 1) = Append(Counted(n), n + 1)
<1>1. PICK s : s = Counted(n)
  OBVIOUS
<1>2. s \in Seq(Nat) /\ Len(s) = n /\ \A i \in 1 .. n : s[i] = i
  BY <1>1 DEF Counted
<1>3. PICK x \in Seq(Nat) : /\ x = Append(s, n + 1) /\ Len(x) = n + 1
                            /\ (\A i \in 1 .. n : x[i] = s[i]) /\ x[n + 1] = n + 1
  <2>1. n + 1 \in Nat
    OBVIOUS
  <2>2. PICK x : x = Append(s, n + 1)
    OBVIOUS
  <2>3. /\ x \in Seq(Nat) /\ Len(x) = Len(s) + 1 /\ (\A i \in 1 .. Len(s) : x[i] = s[i])
        /\ x[Len(s) + 1] = n + 1
    BY <1>2, <2>1, <2>2, Appended
  <2> QED BY <1>2, <2>2, <2>3
<1>4. PICK y : y = Counted(n + 1)
  OBVIOUS
<1>5. y \in Seq(Nat) /\ Len(y) = n + 1 /\ \A i \in 1 .. n + 1 : y[i] = i
  BY <1>4 DEF Counted
<1>6. \A i \in 1 .. n + 1 : x[i] = y[i]
  BY <1>2, <1>3, <1>5
<1>7. x = y
  BY <1>3, <1>5, <1>6, SeqEqual
<1> QED BY <1>1, <1>3, <1>4, <1>7

\* The elements of a sequence tell its type.
LEMMA InSubset ==
  ASSUME NEW T, NEW s \in Seq(T), NEW A, ToSet(s) \subseteq A
  PROVE  s \in Seq(A)
<1>1. PICK n \in Nat : n = Len(s) /\ DOMAIN s = 1 .. n /\ s \in [1 .. n -> T]
  BY LenProperties
<1>2. \A i \in 1 .. n : s[i] \in A
  BY <1>1 DEF ToSet
<1>3. s \in [1 .. n -> A]
  BY <1>1, <1>2
<1> QED BY <1>3

\* What is written, in the pages and not yet packed.
Remaining(packing, k, cs) == IF packing THEN Drop(cs, k) ELSE cs
\* The file, the pages, and what is not packed.
Total(f, ps, rest) == (f \o ps) \o rest

\* A caplet is captured.
Grown(f, ps, rest, c) == Total(f, ps, Append(rest, c)) = Append(Total(f, ps, rest), c)

\* A captured caplet comes last.
LEMMA TotalGrows ==
  ASSUME NEW f \in Seq(Nat), NEW ps \in Seq(Nat), NEW rest \in Seq(Nat), NEW c \in Nat
  PROVE  Grown(f, ps, rest, c)
<1>1. f \o ps \in Seq(Nat)
  BY ConcatProperties
<1> QED BY <1>1, ConcatAppend DEF Total, Grown

\* A caplet is packed.
LEMMA TotalPacked ==
  ASSUME NEW f \in Seq(Nat), NEW ps \in Seq(Nat), NEW rest \in Seq(Nat), NEW c \in Nat
  PROVE  Total(f, Append(ps, c), rest) = Total(f, ps, <<c>> \o rest)
<1>1. PICK g \in Seq(Nat), o \in Seq(Nat) : g = f \o ps /\ o = <<c>>
  BY ConcatProperties, One
<1>2. f \o Append(ps, c) = Append(g, c)
  BY <1>1, ConcatAppend
<1>3. Append(g, c) = g \o o
  BY <1>1, AppendIsConcat
<1>4. (g \o o) \o rest = g \o (o \o rest)
  BY <1>1, Assoc
<1> QED BY <1>1, <1>2, <1>3, <1>4 DEF Total

\* A page is written.
LEMMA TotalWritten ==
  ASSUME NEW f \in Seq(Nat), NEW b \in Seq(Nat), NEW ps \in Seq(Nat), NEW rest
  PROVE  Total(f \o b, ps, rest) = Total(f, b \o ps, rest)
<1>1. (f \o b) \o ps = f \o (b \o ps)
  BY Assoc
<1> QED BY <1>1 DEF Total

-----------------------------------------------------------------------------
(* The caplets in the messages that are in use.                            *)

\* Caplets in the messages of C, and in those of D.
CB == Each(capBody, CS)
PB == Each(pageBody, PS)
\* D is in the middle of a message.
Packing == pc[D] \in {"add", "sendPage"}

\* Intact by Total.
LEMMA Whole == Intact <=> Total(file, PB, Remaining(Packing, packed, CB)) = Counted(captured)
BY DEF Intact, Total, Remaining, Drop, NotPacked, Packing, CB, PB, CS, PS, UC, UP, Counted

\* The same after a step.
LEMMA WholeNext ==
  Intact' <=> Total(file', PB', Remaining(Packing', packed', CB')) = Counted(captured')
BY DEF Intact, Total, Remaining, Drop, NotPacked, Packing, CB, PB, CS, PS, UC, UP, Counted

\* The types of the bodies.
LEMMA Bodies ==
  ASSUME DataTyped, Shaped
  PROVE  Maps(capBody, CapIds, Nat) /\ Maps(pageBody, PageIds, Nat) /\ file \in Seq(Nat) /\ captured \in Nat
<1>1. captured \in Nat /\ 1 .. captured \subseteq Nat
  BY Numbers DEF DataTyped
<1>2. /\ DOMAIN capBody = CapIds /\ \A i \in CapIds : capBody[i] \in Seq(1 .. captured)
      /\ DOMAIN pageBody = PageIds /\ \A i \in PageIds : pageBody[i] \in Seq(1 .. captured)
      /\ file \in Seq(1 .. captured)
  BY DEF DataTyped, PoolTyped
<1>3. \A s \in Seq(1 .. captured) : s \in Seq(Nat)
  BY <1>1, SeqMonotonic
<1>4. /\ \A i \in CapIds : capBody[i] \in Seq(Nat)
      /\ \A i \in PageIds : pageBody[i] \in Seq(Nat)
  BY <1>2, <1>3
<1>5. capBody \in [CapIds -> Seq(Nat)] /\ pageBody \in [PageIds -> Seq(Nat)]
  BY <1>2, <1>4 DEF Shaped, Function
<1> QED BY <1>1, <1>2, <1>3, <1>5 DEF Maps

\* Goto keeps pc a function.
LEMMA GotoFunction == ASSUME NEW t, NEW at, Goto(t, at) PROVE Function(pc')
BY DEF Goto, Function

\* Push keeps ctrl a function.
LEMMA PushFunction == ASSUME NEW t, NEW m, Push(t, m) PROVE Function(ctrl')
BY DEF Push, Function

\* A handler keeps pc and holder functions.
LEMMA NextMessageFunction ==
  ASSUME NEW t, Handled(t) \/ LastHandled(t) \/ Defer(t)
  PROVE  Function(pc') /\ Function(holder')
BY DEF Handled, LastHandled, Defer, NextMessage, Goto, Function

\* Polling keeps all functions.
LEMMA PollFunction ==
  ASSUME Shaped, NEW t, Start(t) \/ Recv(t) \/ Pop(t)
  PROVE  Shaped'
<1>1. UNCHANGED <<capBody, pageBody>>
  BY DEF Start, Recv, Pop, caps, pages
<1>2. Function(pc')
  BY GotoFunction DEF Start, Recv, Pop, Shaped
<1>3. Function(ctrl')
  BY DEF Start, Recv, Pop, Shaped, Function
<1>4. Function(holder')
  BY DEF Start, Recv, Pop, Shaped, Function
<1> QED BY <1>1, <1>2, <1>3, <1>4 DEF Shaped

\* Every step keeps Shaped.
LEMMA ShapedStep ==
  ASSUME Shaped, [Next]_vars
  PROVE  Shaped'
<1>1. CASE UNCHANGED vars
  BY <1>1 DEF vars, loop, caps, pages, Shaped
<1>2. CASE NextC
  <2>1. UNCHANGED <<holder, pageBody>>
    BY <1>2 DEF NextC, Start, Connect, Capture, SendCaplets, GetFreeMsg, CloseC, SendLastCaplets,
       CloseDBPhoton, Close, ClosedDBPhoton, loop, pages
  <2>2. Function(pc')
    BY <1>2, GotoFunction DEF NextC, Start, Connect, Capture, SendCaplets, GetFreeMsg, CloseC, SendLastCaplets,
       CloseDBPhoton, Close, ClosedDBPhoton, loop, Shaped
  <2>3. Function(ctrl')
    <3>1. CASE CloseC
      BY <3>1 DEF CloseC, Shaped, Function
    <3>2. CASE ~CloseC
      BY <1>2, <3>2, PushFunction DEF NextC, Start, Connect, Capture, SendCaplets, GetFreeMsg, SendLastCaplets,
         CloseDBPhoton, Close, ClosedDBPhoton, loop, Shaped
    <3> QED BY <3>1, <3>2
  <2>4. Function(capBody')
    <3>1. CASE Capture \/ GetFreeMsg
      BY <3>1 DEF Capture, GetFreeMsg, Function
    <3>2. CASE ~(Capture \/ GetFreeMsg)
      BY <1>2, <3>2 DEF NextC, Start, Connect, SendCaplets, CloseC, SendLastCaplets,
         CloseDBPhoton, Close, ClosedDBPhoton, caps, Shaped
    <3> QED BY <3>1, <3>2
  <2> QED BY <2>1, <2>2, <2>3, <2>4 DEF Shaped
<1>3. CASE Poll(D) \/ Poll(IO) \/ Pop(S)
  BY <1>3, PollFunction DEF Poll
<1>4. CASE NextD /\ ~Poll(D)
  <2>1. UNCHANGED <<ctrl, capBody>>
    BY <1>4 DEF NextD, SpawnIO, RegisterPhoton, WriteCaplets, AddCaplet, AddToNextPage, SendPage,
       WroteCaplets, ShutdownD, CloseD, SendLastPage, CloseIOPhoton, Close, ClosedIOPhoton, MarkThreadAsFree,
       loop, caps
  <2>2. Function(pc')
    <3>1. CASE SpawnIO
      BY <3>1 DEF SpawnIO, Function
    <3>2. CASE ~SpawnIO
      BY <1>4, <3>2, GotoFunction, NextMessageFunction DEF NextD, RegisterPhoton, WriteCaplets, AddCaplet,
         AddToNextPage, SendPage, WroteCaplets, ShutdownD, CloseD, SendLastPage, CloseIOPhoton, Close,
         ClosedIOPhoton, MarkThreadAsFree, loop, Shaped
    <3> QED BY <3>1, <3>2
  <2>3. Function(holder')
    BY <1>4, NextMessageFunction DEF NextD, SpawnIO, RegisterPhoton, WriteCaplets, AddCaplet,
       AddToNextPage, SendPage, WroteCaplets, ShutdownD, CloseD, SendLastPage, CloseIOPhoton, Close,
       ClosedIOPhoton, MarkThreadAsFree, loop, Shaped
  <2>4. Function(pageBody')
    <3>1. CASE AddCaplet \/ AddToNextPage
      BY <3>1 DEF AddCaplet, AddToNextPage, Function
    <3>2. CASE ~(AddCaplet \/ AddToNextPage)
      BY <1>4, <3>2 DEF NextD, SpawnIO, RegisterPhoton, WriteCaplets, SendPage, WroteCaplets, ShutdownD, CloseD,
         SendLastPage, CloseIOPhoton, Close, ClosedIOPhoton, MarkThreadAsFree, pages, Shaped
    <3> QED BY <3>1, <3>2
  <2> QED BY <2>1, <2>2, <2>3, <2>4 DEF Shaped
<1>5. CASE NextIO /\ ~Poll(IO)
  BY <1>5, NextMessageFunction DEF NextIO, WritePage, ShutdownIO, CloseIO, caps, pages, Shaped
<1>6. CASE (NextS /\ ~Pop(S)) \/ AskShutdown
  <2>1. UNCHANGED <<capBody, pageBody>>
    BY <1>6 DEF NextS, NewConnection, HandleShutdown, Tell, ToldAll, Join, JoinedAll, AskShutdown, caps, pages
  <2>2. Function(ctrl')
    BY <1>6, PushFunction DEF NextS, NewConnection, HandleShutdown, Tell, ToldAll, Join, JoinedAll, AskShutdown,
       loop, Shaped
  <2>3. Function(pc') /\ Function(holder')
    <3>1. CASE NewConnection
      BY <3>1 DEF NewConnection, Function
    <3>2. CASE ~NewConnection
      BY <1>6, <3>2, GotoFunction, NextMessageFunction DEF NextS, HandleShutdown, Tell, ToldAll, Join, JoinedAll,
         AskShutdown, loop, Shaped
    <3> QED BY <3>1, <3>2
  <2> QED BY <2>1, <2>2, <2>3 DEF Shaped
<1> QED BY <1>1, <1>2, <1>3, <1>4, <1>5, <1>6 DEF Next, NextS

\* The parts of a concatenation have its type.
LEMMA ConcatParts ==
  ASSUME NEW T, NEW a \in Seq(T), NEW b \in Seq(T), NEW A, a \o b \in Seq(A)
  PROVE  a \in Seq(A) /\ b \in Seq(A)
<1>1. PICK s \in Seq(A), n \in Nat, m \in Nat : s = a \o b /\ n = Len(a) /\ m = Len(b)
  <2>1. Len(a) \in Nat /\ Len(b) \in Nat
    BY LenProperties
  <2> QED BY <2>1
<1>2. /\ DOMAIN s = 1 .. n + m /\ DOMAIN a = 1 .. n /\ DOMAIN b = 1 .. m
      /\ (\A i \in 1 .. n : s[i] = a[i]) /\ \A i \in 1 .. m : s[n + i] = b[i]
  BY <1>1, Concat
<1>3. \A i \in 1 .. n + m : s[i] \in A
  BY <1>1, <1>2, ElementOfSeq, LenProperties
<1>4. \A i \in 1 .. n : a[i] \in A
  BY <1>2, <1>3
<1>5. \A i \in 1 .. m : b[i] \in A
  <2>1. ASSUME NEW i \in 1 .. m PROVE b[i] \in A
    <3>1. n + i \in 1 .. n + m
      OBVIOUS
    <3> QED BY <1>2, <1>3, <3>1
  <2> QED BY <2>1
<1>6. a \in [1 .. n -> T] /\ b \in [1 .. m -> T]
  BY <1>1, LenProperties
<1>7. a \in [1 .. n -> A] /\ b \in [1 .. m -> A]
  BY <1>4, <1>5, <1>6
<1> QED BY <1>7

\* The messages in use are those of the pools.
LEMMA InUseIds ==
  ASSUME LoopTyped, Channels, DataTyped, WalkD, Used
  PROVE  /\ CS \in Seq(CapIds) /\ UC \in Seq(CapIds) /\ UnsentCaps \in Seq(CapIds)
         /\ PS \in Seq(PageIds) /\ UP \in Seq(PageIds) /\ UnsentPages \in Seq(PageIds)
<1>1. /\ UC \in Seq(MsgIds) /\ UP \in Seq(MsgIds)
      /\ UnsentCaps \in Seq(MsgIds) /\ UnsentPages \in Seq(MsgIds)
      /\ CS \in Seq(MsgIds) /\ PS \in Seq(MsgIds)
  BY ViewTypes, UnsentTypes, InUseTypes
<1>2. ToSet(CS) \subseteq CapIds /\ ToSet(PS) \subseteq PageIds
  BY DEF Used, DataTyped, PoolTyped
<1>3. CS \in Seq(CapIds) /\ PS \in Seq(PageIds)
  BY <1>1, <1>2, InSubset
<1>4. UC \in Seq(CapIds) /\ UnsentCaps \in Seq(CapIds)
  BY <1>1, <1>3, ConcatParts DEF CS
<1>5. UP \in Seq(PageIds) /\ UnsentPages \in Seq(PageIds)
  BY <1>1, <1>3, ConcatParts DEF PS
<1> QED BY <1>3, <1>4, <1>5

\* What is in them are caplets.
LEMMA InUseBodies ==
  ASSUME LoopTyped, Channels, DataTyped, Shaped, WalkD, Used
  PROVE  CB \in Seq(Nat) /\ PB \in Seq(Nat)
BY InUseIds, Bodies, EachType DEF CB, PB

\* The body of the first message comes first.
LedBody(f, e, r, v) == Each(f, Led(e, r) \o v) = f[e] \o Each(f, r \o v)
\* The last body grows.
LastBody(f, e, c, s) == Each(With(f, e, Append(f[e], c)), EndedBy(s, e)) = Append(Each(f, EndedBy(s, e)), c)

\* Each of a first message and the others.
LEMMA EachLed ==
  ASSUME NEW T, NEW U, NEW f, Maps(f, T, U), NEW e \in T, NEW r \in Seq(T), NEW v \in Seq(T)
  PROVE  LedBody(f, e, r, v)
<1>1. PICK o \in Seq(T), w \in Seq(T) : o = <<e>> /\ w = r \o v
  <2>1. <<e>> \in Seq(T) /\ r \o v \in Seq(T)
    BY One, ConcatProperties
  <2> QED BY <2>1
<1>2. (o \o r) \o v = o \o (r \o v)
  BY <1>1, Assoc
<1>3. Each(f, o \o w) = Each(f, o) \o Each(f, w)
  <2>1. o \in Seq(T) /\ w \in Seq(T)
    BY <1>1
  <2> QED BY <2>1, EachConcat
<1>4. Each(f, o) = f[e]
  BY <1>1, EachOne
<1> QED BY <1>1, <1>2, <1>3, <1>4 DEF Led, LedBody

\* A caplet added to the last message comes last.
LEMMA EachLast ==
  ASSUME NEW T, NEW U, NEW f, Maps(f, T, U), NEW s \in Seq(T), NEW e \in T, NEW used,
         Distinct(EndedBy(s, e), used), NEW c \in U
  PROVE  LastBody(f, e, c, s)
<1>1. e \notin ToSet(s)
  BY DistinctLast DEF EndedBy
<1> QED BY <1>1, EachGrow DEF EndedBy, LastBody

\* Another message comes last.
LEMMA EachMore ==
  ASSUME NEW T, NEW U, NEW f, Maps(f, T, U), NEW s \in Seq(T), NEW e \in T, NEW used,
         Distinct(s, used), e \notin used, NEW c \in U
  PROVE  NewBody(f, e, c, s)
<1>1. e \notin ToSet(s)
  BY DEF Distinct
<1> QED BY <1>1, EachNew

-----------------------------------------------------------------------------
(* What a step does to them.                                               *)

\* What a step does to the caplets in the messages of C.
LEMMA CapsEffect ==
  ASSUME OwnStep, LoopTyped, Channels, DataTyped, Shaped, WalkC, WalkD, Flow, Used, Fresh, [Next]_vars
  PROVE  \/ CB' = CB /\ captured' = captured /\ ~WroteCaplets
         \/ CB' = Append(CB, captured + 1) /\ captured' = captured + 1 /\ NextC
         \/ WroteCaplets /\ CB = capBody[Id(D)] \o CB' /\ CB' \in Seq(Nat) /\ captured' = captured
<1>1. /\ CS \in Seq(CapIds) /\ UC \in Seq(CapIds) /\ UnsentCaps \in Seq(CapIds)
      /\ Maps(capBody, CapIds, Nat) /\ captured + 1 \in Nat
  BY InUseIds, Bodies
<1>2. Distinct(CS, capUse)
  BY UsedParts
<1>3. CASE CapsSame /\ ~WroteCaplets
  BY <1>3 DEF CapsSame, CB
<1>4. CASE \E i \in CapIds : CapletIn(i) /\ NextC
  <2>1. PICK i \in CapIds : CapletIn(i) /\ NextC
    BY <1>4
  <2>2. CS = EndedBy(UC, i)
    BY <2>1 DEF CapletIn, CS, EndedBy
  <2>3. CB' = Each(With(capBody, i, Append(capBody[i], captured + 1)), EndedBy(UC, i))
    BY <2>1, <2>2 DEF CapletIn, CB
  <2>4. PICK u \in Seq(CapIds), c \in Nat : u = UC /\ c = captured + 1
    BY <1>1
  <2>5. LastBody(capBody, i, c, u)
    BY <1>1, <1>2, <2>2, <2>4, EachLast
  <2> QED BY <2>1, <2>2, <2>3, <2>4, <2>5 DEF CapletIn, CB, LastBody
<1>5. CASE \E i \in CapIds : CapletNew(i) /\ NextC
  <2>1. PICK i \in CapIds : CapletNew(i) /\ NextC
    BY <1>5
  <2>2. CB' = Each(With(capBody, i, <<captured + 1>>), EndedBy(CS, i)) /\ i \notin capUse
    BY <2>1 DEF CapletNew, CB
  <2>3. PICK u \in Seq(CapIds), c \in Nat : u = CS /\ c = captured + 1
    BY <1>1
  <2>4. NewBody(capBody, i, c, u)
    BY <1>1, <1>2, <2>2, <2>3, EachMore
  <2> QED BY <2>1, <2>2, <2>3, <2>4 DEF CapletNew, CB, NewBody
<1>6. CASE WroteCaplets /\ CapsPacked
  <2>1. /\ Id(D) \in CapIds /\ UC = Led(Id(D), RestCaps) /\ RestCaps \in Seq(MsgIds)
        /\ CS' = RestCaps \o UnsentCaps /\ UNCHANGED <<capBody, captured>>
    BY <1>6 DEF CapsPacked
  <2>2. RestCaps \in Seq(CapIds)
    <3>1. <<Id(D)>> \in Seq(MsgIds) /\ UC = <<Id(D)>> \o RestCaps
      BY <2>1, MessageIds, One DEF Led
    <3> QED BY <1>1, <2>1, <3>1, ConcatParts
  <2>3. PICK e \in CapIds, r \in Seq(CapIds), v \in Seq(CapIds) : e = Id(D) /\ r = RestCaps /\ v = UnsentCaps
    BY <1>1, <2>1, <2>2
  <2>4. LedBody(capBody, e, r, v)
    BY <1>1, <2>3, EachLed
  <2>5. Each(capBody, r \o v) \in Seq(Nat)
    <3>1. r \o v \in Seq(CapIds)
      BY <2>3, ConcatProperties
    <3> QED BY <1>1, <3>1, EachType
  <2>6. CB = Each(capBody, Led(e, r) \o v) /\ CB' = Each(capBody, r \o v)
    BY <2>1, <2>3 DEF CB, CS
  <2> QED BY <1>6, <2>1, <2>3, <2>4, <2>5, <2>6 DEF LedBody
<1> QED BY <1>3, <1>4, <1>5, <1>6, CapsUse

\* What a step does to the caplets in pages and file.
LEMMA PagesEffect ==
  ASSUME OwnStep, LoopTyped, Channels, DataTyped, Shaped, WalkC, WalkD, Flow, Used, Fresh, [Next]_vars
  PROVE  \/ PB' = PB /\ file' = file /\ ~WritePage /\ ~AddCaplet /\ ~AddToNextPage
         \/ (AddCaplet \/ AddToNextPage) /\ PB' = Append(PB, NextCaplet) /\ file' = file /\ NextCaplet \in Nat
         \/ WritePage /\ PB = pageBody[Id(IO)] \o PB' /\ PB' \in Seq(Nat) /\ pageBody[Id(IO)] \in Seq(Nat)
              /\ file' = file \o pageBody[Id(IO)]
<1>1. /\ PS \in Seq(PageIds) /\ UP \in Seq(PageIds) /\ UnsentPages \in Seq(PageIds)
      /\ Maps(pageBody, PageIds, Nat)
  BY InUseIds, Bodies
<1>2. Distinct(PS, pageUse)
  BY UsedParts
<1>0. AddCaplet \/ AddToNextPage => NextCaplet \in Nat
  <2>1. AddCaplet \/ AddToNextPage => pc[D] = "add" /\ ~AllPacked
    BY DEF AddCaplet, AddToNextPage
  <2> QED BY <2>1, Packs
<1>3. CASE PagesSame /\ ~WritePage /\ ~AddCaplet /\ ~AddToNextPage
  BY <1>3 DEF PagesSame, PB
<1>4. CASE WriteCaplets /\ PageStart
  <2>1. /\ PS = << >> /\ PS' = <<1>> /\ UNCHANGED <<pageBody, file>> /\ pageBody[1] = << >> /\ 1 \in PageIds
    BY <1>4, Numbers DEF PageStart
  <2>2. PB = << >>
    BY <2>1, EachEmpty DEF PB
  <2>3. Each(pageBody, <<1>>) = pageBody[1]
    BY <1>1, <2>1, EachOne
  <2>4. PB' = << >>
    BY <2>1, <2>3 DEF PB
  <2>5. pc[D] = "handle"
    BY <1>4 DEF WriteCaplets, Handling
  <2>6. ~AddCaplet /\ ~AddToNextPage
    BY <2>5 DEF AddCaplet, AddToNextPage
  <2>7. ~WritePage
    <3>1. NextD
      BY <1>4 DEF NextD
    <3>2. WritePage => NextIO
      BY DEF NextIO
    <3>3. WritePage => pc[IO] = "handle" /\ left[IO] >= 1 /\ left'[IO] = left[IO] - 1 /\ left[IO] \in Nat
      BY BusyLeft, ThreadIds DEF WritePage, Handling, Handled, NextMessage, LoopTyped
    <3>4. left'[IO] = left[IO]
      <4>1. ~SpawnIO
        BY <2>5 DEF SpawnIO
      <4> QED BY <3>1, <4>1, LeftByD DEF Left
    <3> QED BY <3>3, <3>4
  <2> QED BY <2>1, <2>2, <2>4, <2>6, <2>7
<1>5. CASE AddCaplet /\ PageGrows
  <2>1. /\ currentPage \in PageIds /\ PS = EndedBy(UP, currentPage) /\ PS' = PS /\ UNCHANGED file
        /\ pageBody' = With(pageBody, currentPage, Append(pageBody[currentPage], NextCaplet))
    BY <1>5 DEF PageGrows
  <2>2. PICK u \in Seq(PageIds), e \in PageIds, c \in Nat : u = UP /\ e = currentPage /\ c = NextCaplet
    BY <1>0, <1>1, <1>5, <2>1
  <2>3. LastBody(pageBody, e, c, u)
    BY <1>1, <1>2, <2>1, <2>2, EachLast
  <2>4. PB' = Append(PB, NextCaplet)
    BY <2>1, <2>2, <2>3 DEF PB, LastBody
  <2> QED BY <1>0, <1>5, <2>1, <2>4
<1>6. CASE AddToNextPage /\ \E i \in PageIds : PageNew(i)
  <2>1. PICK i \in PageIds : PageNew(i)
    BY <1>6
  <2>2. /\ PB' = Each(With(pageBody, i, <<NextCaplet>>), EndedBy(PS, i)) /\ i \notin pageUse /\ UNCHANGED file
    BY <2>1 DEF PageNew, PB
  <2>3. PICK u \in Seq(PageIds), c \in Nat : u = PS /\ c = NextCaplet
    BY <1>0, <1>1, <1>6
  <2>4. NewBody(pageBody, i, c, u)
    BY <1>1, <1>2, <2>2, <2>3, EachMore
  <2>5. PB' = Append(PB, NextCaplet)
    BY <2>2, <2>3, <2>4 DEF PB, NewBody
  <2> QED BY <1>0, <1>6, <2>2, <2>5
<1>7. CASE WritePage /\ PageWritten
  <2>1. /\ Id(IO) \in PageIds /\ UP = Led(Id(IO), RestPages) /\ RestPages \in Seq(MsgIds)
        /\ PS' = RestPages \o UnsentPages /\ UNCHANGED pageBody
        /\ file' = (IF isOpen THEN file ELSE << >>) \o pageBody[Id(IO)]
    BY <1>7 DEF PageWritten
  <2>2. PICK o \in Seq(MsgIds) : o = <<Id(IO)>> /\ o # << >>
    BY <2>1, MessageIds, One
  <2>3. UP = o \o RestPages
    BY <2>1, <2>2 DEF Led
  <2>4. RestPages \in Seq(PageIds)
    BY <1>1, <2>1, <2>2, <2>3, ConcatParts
  <2>5. (IF isOpen THEN file ELSE << >>) = file
    <3>1. UP # << >>
      BY <2>1, <2>2, <2>3, ConcatEqualIffEmpty
    <3> QED BY <3>1 DEF Flow
  <2>6. PICK e \in PageIds, r \in Seq(PageIds), v \in Seq(PageIds) :
          e = Id(IO) /\ r = RestPages /\ v = UnsentPages
    BY <1>1, <2>1, <2>4
  <2>7. LedBody(pageBody, e, r, v)
    BY <1>1, <2>6, EachLed
  <2>8. Each(pageBody, r \o v) \in Seq(Nat) /\ pageBody[e] \in Seq(Nat)
    <3>1. r \o v \in Seq(PageIds)
      BY <2>6, ConcatProperties
    <3>2. Each(pageBody, r \o v) \in Seq(Nat)
      BY <1>1, <3>1, EachType
    <3> QED BY <1>1, <3>2 DEF Maps
  <2>9. PB = Each(pageBody, Led(e, r) \o v) /\ PB' = Each(pageBody, r \o v)
    BY <2>1, <2>6 DEF PB, PS
  <2> QED BY <1>7, <2>1, <2>5, <2>6, <2>7, <2>8, <2>9 DEF LedBody
<1> QED BY <1>3, <1>4, <1>5, <1>6, <1>7, PagesUse

\* What D packs is the beginning of all caplets in C's messages.
LEMMA PackingHead ==
  ASSUME LoopTyped, Channels, DataTyped, Shaped, WalkD, Used, Packing
  PROVE  /\ \E r \in Seq(Nat) : CB = capBody[Id(D)] \o r
         /\ capBody[Id(D)] \in Seq(Nat) /\ packed \in Nat /\ packed <= Len(capBody[Id(D)])
<1>1. left[D] >= 1 /\ Head(holder[D])[1] = "WRITE" /\ packed <= Len(capBody[Id(D)]) /\ packed \in Nat
  BY BusyLeft, ThreadIds, Numbers DEF WalkD, Packing, DataTyped
<1>2. /\ Id(D) \in CapIds /\ UC = <<Id(D)>> \o RestCaps /\ RestCaps \in Seq(MsgIds)
  BY <1>1, FirstCap
<1>3. /\ UC \in Seq(CapIds) /\ UnsentCaps \in Seq(CapIds) /\ Maps(capBody, CapIds, Nat)
  BY InUseIds, Bodies
<1>4. RestCaps \in Seq(CapIds)
  <2>1. <<Id(D)>> \in Seq(MsgIds)
    BY <1>2, MessageIds, One
  <2> QED BY <1>2, <1>3, <2>1, ConcatParts
<1>5. PICK e \in CapIds, r \in Seq(CapIds), v \in Seq(CapIds) : e = Id(D) /\ r = RestCaps /\ v = UnsentCaps
  BY <1>2, <1>3, <1>4
<1>6. LedBody(capBody, e, r, v)
  BY <1>3, <1>5, EachLed
<1>7. r \o v \in Seq(CapIds)
  BY <1>5, ConcatProperties
<1>8. Each(capBody, r \o v) \in Seq(Nat) /\ capBody[e] \in Seq(Nat)
  <2>1. Each(capBody, r \o v) \in Seq(Nat)
    BY <1>3, <1>7, EachType
  <2> QED BY <1>3, <1>5, <2>1 DEF Maps
<1>9. CB = Each(capBody, Led(e, r) \o v)
  BY <1>2, <1>5 DEF CB, CS, Led
<1> QED BY <1>1, <1>5, <1>6, <1>8, <1>9 DEF LedBody

\* What is not packed yet.
LEMMA PackingTypes ==
  ASSUME LoopTyped, Channels, DataTyped, Shaped, WalkD, Used
  PROVE  /\ Remaining(Packing, packed, CB) \in Seq(Nat)
         /\ Packing => packed \in Nat /\ packed <= Len(CB)
         /\ Packing /\ ~AllPacked => packed < Len(CB) /\ CB[packed + 1] = NextCaplet
         /\ Packing /\ AllPacked => \A r \in Seq(Nat) : CB = capBody[Id(D)] \o r => Drop(CB, packed) = r
<1>1. CB \in Seq(Nat)
  BY InUseBodies
<1>2. CASE ~Packing
  BY <1>1, <1>2 DEF Remaining
<1>3. CASE Packing
  <2>1. PICK b \in Seq(Nat), n \in Nat, k \in Nat :
          b = capBody[Id(D)] /\ n = Len(b) /\ k = packed /\ k <= n
    <3>1. capBody[Id(D)] \in Seq(Nat) /\ packed \in Nat /\ packed <= Len(capBody[Id(D)])
      BY <1>3, PackingHead
    <3>2. Len(capBody[Id(D)]) \in Nat
      BY <3>1, LenProperties
    <3> QED BY <3>1, <3>2
  <2>2. PICK r \in Seq(Nat) : CB = b \o r
    BY <1>3, <2>1, PackingHead
  <2>3. PICK m \in Nat : m = Len(r)
    BY <2>2, LenProperties
  <2>4. Len(CB) = n + m /\ \A i \in 1 .. n : CB[i] = b[i]
    <3>1. Len(b \o r) = Len(b) + Len(r)
      BY <2>1, <2>2, ConcatProperties
    <3>2. \A i \in 1 .. Len(b) : (b \o r)[i] = b[i]
      BY <2>1, <2>2, Concat
    <3> QED BY <2>1, <2>2, <2>3, <3>1, <3>2
  <2>5. k <= n + m
    BY <2>1, <2>3
  <2>6. packed \in Nat /\ packed <= Len(CB)
    BY <2>1, <2>4, <2>5
  <2>7. Drop(CB, packed) \in Seq(Nat)
    BY <1>1, <2>6, DropType
  <2>8. ASSUME ~AllPacked PROVE packed < Len(CB) /\ CB[packed + 1] = NextCaplet
    <3>1. k # n
      BY <2>1, <2>8 DEF AllPacked
    <3>2. k < n + m /\ k + 1 \in 1 .. n
      BY <2>1, <2>3, <3>1
    <3> QED BY <2>1, <2>4, <3>2 DEF NextCaplet
  <2>9. ASSUME AllPacked, NEW q \in Seq(Nat), CB = capBody[Id(D)] \o q PROVE Drop(CB, packed) = q
    <3>1. packed = Len(b)
      BY <2>1, <2>9 DEF AllPacked
    <3>2. Drop(b \o q, Len(b)) = q
      BY <2>1, DropPrefix
    <3> QED BY <2>1, <2>9, <3>1, <3>2
  <2> QED BY <1>3, <2>6, <2>7, <2>8, <2>9 DEF Remaining
<1> QED BY <1>2, <1>3

\* Steps of two threads are not the same: each has a place of its own.
LEMMA Writes ==
  ASSUME LoopTyped, WalkD, WritePage
  PROVE  left'[IO] # left[IO]
<1>1. pc[IO] = "handle" /\ left[IO] >= 1 /\ left'[IO] = left[IO] - 1 /\ left[IO] \in Nat
  BY BusyLeft, ThreadIds DEF WritePage, Handling, Handled, NextMessage, LoopTyped
<1> QED BY <1>1

\* C does not pack.
LEMMA CAlone ==
  ASSUME LoopTyped, WalkD, NextC
  PROVE  ~WritePage
BY Writes, LeftByC DEF Left

\* Only D packs.
LEMMA DAlone ==
  ASSUME LoopTyped, WalkD, NextD
  PROVE  ~WritePage
<1>1. CASE SpawnIO
  <2>1. left' = left
    BY <1>1 DEF SpawnIO
  <2> QED BY <2>1, Writes
<1>2. CASE ~SpawnIO
  BY <1>2, Writes, LeftByD DEF Left
<1> QED BY <1>1, <1>2

\* What a step does to the progress of packing.
LEMMA PackingEffect ==
  ASSUME OwnStep, LoopTyped, Channels, DataTyped, WalkC, WalkD, Flow, Used, Greeting, [Next]_vars
  PROVE  \/ /\ AddCaplet \/ AddToNextPage
            /\ Packing /\ Packing' /\ packed' = packed + 1 /\ ~AllPacked /\ captured' = captured /\ ~WroteCaplets /\ ~WritePage
         \/ /\ WroteCaplets /\ Packing /\ ~Packing' /\ AllPacked /\ captured' = captured /\ ~WritePage
            /\ ~AddCaplet /\ ~AddToNextPage
         \/ /\ ~Packing /\ Packing' /\ packed' = 0 /\ captured' = captured /\ ~WroteCaplets /\ ~WritePage
            /\ ~AddCaplet /\ ~AddToNextPage
         \/ /\ Packing' <=> Packing
            /\ packed' = packed /\ ~WroteCaplets /\ ~AddCaplet /\ ~AddToNextPage
<1> D \in Threads
  BY ThreadIds
<1>1. CASE ~NextD
  <2>1. packed' = packed /\ ~WroteCaplets /\ ~AddCaplet /\ ~AddToNextPage
    BY <1>1, FrameD DEF Next, NextD
  <2>2. Packing' <=> Packing
    <3>1. CASE NewConnection
      BY <3>1, GreetingStep, NewConnectionTyped DEF Packing
    <3>2. CASE ~NewConnection
      BY <1>1, <3>2, FrameD DEF Next, Packing
    <3> QED BY <3>1, <3>2
  <2> QED BY <2>1, <2>2
<1>2. CASE NextD
  <2>1. ~WritePage /\ captured' = captured
    BY <1>2, DAlone, FrameC
  <2>2. CASE AddCaplet \/ AddToNextPage
    <3>1. pc[D] = "add" /\ pc'[D] \in {"add", "sendPage"} /\ packed' = packed + 1 /\ ~AllPacked
      BY <2>2, GotoAt DEF AddCaplet, AddToNextPage, loop
    <3> QED BY <2>1, <2>2, <3>1 DEF Packing, WroteCaplets
  <2>3. CASE WroteCaplets
    <3>1. pc[D] = "add" /\ AllPacked /\ pc'[D] \in {"done", "recv", "handle"}
      BY <2>3, BusyLeft, AfterHandled DEF WroteCaplets
    <3> QED BY <2>1, <2>3, <3>1 DEF Packing, AddCaplet, AddToNextPage
  <2>4. CASE WriteCaplets
    <3>1. "io" \in isConnected
      BY <2>4, NeverDropped
    <3>2. pc[D] = "handle" /\ pc'[D] = "add" /\ packed' = 0
      BY OwnUses, <2>4, <3>1, GotoAt DEF WriteCaplets, Handling
    <3> QED BY <2>1, <3>2 DEF Packing, AddCaplet, AddToNextPage, WroteCaplets
  <2>5. CASE SendPage
    <3>1. pc[D] = "sendPage" /\ pc'[D] = "add" /\ packed' = packed
      BY <2>5, GotoAt DEF SendPage
    <3> QED BY <3>1 DEF Packing, AddCaplet, AddToNextPage, WroteCaplets
  <2>6. CASE Poll(D) \/ SpawnIO \/ SendLastPage \/ CloseIOPhoton \/ ClosedIOPhoton
    <3>1. packed' = packed
      BY <2>6 DEF Poll, Start, Recv, Pop, SpawnIO, SendLastPage, CloseIOPhoton, Close, ClosedIOPhoton, dVars
    <3>2. pc[D] \in {"start", "recv", "pop", "spawn", "lastPage", "close", "drain"}
      BY <2>6 DEF Poll, Start, Recv, Pop, SpawnIO, SendLastPage, CloseIOPhoton, Close, ClosedIOPhoton, Drained
    <3>3. pc'[D] \in {"spawn", "recv", "pop", "handle", "close", "free", "drain"}
      BY <2>6, GotoAt, SpawnTyped, ThreadIds DEF Poll, Start, Recv, Pop, Again, SendLastPage, CloseIOPhoton, Close,
         ClosedIOPhoton
    <3> QED BY <3>1, <3>2, <3>3 DEF Packing, AddCaplet, AddToNextPage, WroteCaplets
  <2>7. CASE RegisterPhoton \/ ShutdownD \/ CloseD \/ MarkThreadAsFree
    <3>1. packed' = packed /\ pc[D] \in {"handle", "free"}
      BY <2>7 DEF RegisterPhoton, ShutdownD, CloseD, MarkThreadAsFree, dVars, Handling
    <3>2. pc'[D] \in {"done", "recv", "handle", "lastPage"}
      BY <2>7, <3>1, GotoAt, BusyLeft, AfterHandled DEF RegisterPhoton, ShutdownD, CloseD, MarkThreadAsFree
    <3> QED BY <3>1, <3>2 DEF Packing, AddCaplet, AddToNextPage, WroteCaplets
  <2> QED BY <1>2, <2>2, <2>3, <2>4, <2>5, <2>6, <2>7 DEF NextD
<1> QED BY <1>1, <1>2

\* Every step keeps Intact.
LEMMA IntactStep ==
  ASSUME OwnStep, LoopTyped, Channels, DataTyped, Shaped, WalkC, WalkD, Flow, Used, Fresh, Greeting, Intact, [Next]_vars
  PROVE  Intact'
<1>1. /\ CB \in Seq(Nat) /\ PB \in Seq(Nat) /\ file \in Seq(Nat) /\ captured \in Nat
      /\ Remaining(Packing, packed, CB) \in Seq(Nat)
  BY InUseBodies, Bodies, PackingTypes
<1>2. Total(file, PB, Remaining(Packing, packed, CB)) = Counted(captured)
  BY Whole
<1>0. captured + 1 # captured
  BY <1>1
<1>3. SUFFICES Total(file', PB', Remaining(Packing', packed', CB')) = Counted(captured')
  BY WholeNext
<1>4. CASE AddCaplet \/ AddToNextPage
  <2>1. Packing /\ Packing' /\ packed' = packed + 1 /\ ~AllPacked /\ captured' = captured /\ ~WroteCaplets /\ ~WritePage
    BY <1>4, PackingEffect
  <2>2. CB' = CB /\ captured' = captured
    BY <1>0, <2>1, CapsEffect
  <2>3. PB' = Append(PB, NextCaplet) /\ file' = file /\ NextCaplet \in Nat
    BY <1>4, <2>1, PagesEffect
  <2>4. packed \in Nat /\ packed < Len(CB) /\ CB[packed + 1] = NextCaplet
    BY <2>1, PackingTypes
  <2>5. Drop(CB, packed) = <<NextCaplet>> \o Drop(CB, packed + 1)
    BY <1>1, <2>4, DropNext
  <2>6. packed + 1 \in Nat /\ packed + 1 <= Len(CB)
    <3>1. Len(CB) \in Nat
      BY <1>1, LenProperties
    <3> QED BY <2>4, <3>1
  <2>7. Drop(CB, packed + 1) \in Seq(Nat)
    BY <1>1, <2>6, DropType
  <2>8. Total(file, Append(PB, NextCaplet), Drop(CB, packed + 1))
          = Total(file, PB, <<NextCaplet>> \o Drop(CB, packed + 1))
    BY <1>1, <2>3, <2>7, TotalPacked
  <2> QED BY <1>2, <2>1, <2>2, <2>3, <2>5, <2>8 DEF Remaining
<1>5. CASE WroteCaplets
  <2>1. Packing /\ ~Packing' /\ AllPacked /\ captured' = captured /\ ~WritePage /\ ~AddCaplet /\ ~AddToNextPage
    BY <1>5, PackingEffect
  <2>2. CB = capBody[Id(D)] \o CB' /\ CB' \in Seq(Nat) /\ captured' = captured
    BY <1>0, <1>5, <2>1, CapsEffect
  <2>3. PB' = PB /\ file' = file
    BY <2>1, PagesEffect
  <2>4. Drop(CB, packed) = CB'
    BY <2>1, <2>2, PackingTypes
  <2> QED BY <1>2, <2>1, <2>2, <2>3, <2>4 DEF Remaining
<1>6. CASE ~Packing /\ Packing' /\ packed' = 0 /\ captured' = captured /\ ~WroteCaplets /\ ~WritePage
           /\ ~AddCaplet /\ ~AddToNextPage
  <2>1. CB' = CB /\ captured' = captured
    BY <1>0, <1>6, CapsEffect
  <2>2. PB' = PB /\ file' = file
    BY <1>6, PagesEffect
  <2>3. Drop(CB, 0) = CB
    BY <1>1, DropNone
  <2> QED BY <1>2, <1>6, <2>1, <2>2, <2>3 DEF Remaining
<1>7. CASE (Packing' <=> Packing) /\ packed' = packed /\ ~WroteCaplets /\ ~AddCaplet /\ ~AddToNextPage
  <2>1. CASE NextC /\ CB' # CB
    <3>1. CB' = Append(CB, captured + 1) /\ captured' = captured + 1
      BY <1>7, <2>1, CapsEffect
    <3>2. PB' = PB /\ file' = file
      BY <1>7, <2>1, PagesEffect, CAlone
    <3>3. captured + 1 \in Nat
      BY <1>1
    <3>4. Remaining(Packing', packed', CB') = Append(Remaining(Packing, packed, CB), captured + 1)
      <4>1. CASE Packing
        <5>1. packed \in Nat /\ packed <= Len(CB)
          BY <4>1, PackingTypes
        <5>2. Drop(Append(CB, captured + 1), packed) = Append(Drop(CB, packed), captured + 1)
          BY <1>1, <3>3, <5>1, DropAppend
        <5> QED BY <1>7, <3>1, <4>1, <5>2 DEF Remaining
      <4>2. CASE ~Packing
        BY <1>7, <3>1, <4>2 DEF Remaining
      <4> QED BY <4>1, <4>2
    <3>5. Total(file, PB, Append(Remaining(Packing, packed, CB), captured + 1))
            = Append(Counted(captured), captured + 1)
      <4>1. PICK f \in Seq(Nat), p \in Seq(Nat), r \in Seq(Nat), c \in Nat :
              f = file /\ p = PB /\ r = Remaining(Packing, packed, CB) /\ c = captured + 1
        BY <1>1, <3>3
      <4>2. Grown(f, p, r, c)
        BY <4>1, TotalGrows
      <4> QED BY <1>2, <4>1, <4>2 DEF Grown
    <3>6. Counted(captured + 1) = Append(Counted(captured), captured + 1)
      BY <1>1, CountedNext
    <3> QED BY <3>1, <3>2, <3>4, <3>5, <3>6
  <2>2. CASE ~(NextC /\ CB' # CB)
    <3>1. CB' = CB /\ captured' = captured
      <4>1. Len(Append(CB, captured + 1)) # Len(CB)
        <5>1. captured + 1 \in Nat
          BY <1>1
        <5>2. Len(Append(CB, captured + 1)) = Len(CB) + 1 /\ Len(CB) \in Nat
          BY <1>1, <5>1, Appended
        <5> QED BY <5>2
      <4> QED BY <1>7, <2>2, <4>1, CapsEffect
    <3>2. Remaining(Packing', packed', CB') = Remaining(Packing, packed, CB)
      BY <1>7, <3>1 DEF Remaining
    <3>3. CASE WritePage
      <4>1. /\ PB = pageBody[Id(IO)] \o PB' /\ PB' \in Seq(Nat) /\ pageBody[Id(IO)] \in Seq(Nat)
            /\ file' = file \o pageBody[Id(IO)]
        BY <1>7, <3>3, PagesEffect
      <4>2. Total(file \o pageBody[Id(IO)], PB', Remaining(Packing, packed, CB))
              = Total(file, pageBody[Id(IO)] \o PB', Remaining(Packing, packed, CB))
        BY <1>1, <4>1, TotalWritten
      <4> QED BY <1>2, <3>1, <3>2, <4>1, <4>2
    <3>4. CASE ~WritePage
      <4>1. PB' = PB /\ file' = file
        BY <1>7, <3>4, PagesEffect
      <4> QED BY <1>2, <3>1, <3>2, <4>1
    <3> QED BY <3>3, <3>4
  <2> QED BY <2>1, <2>2
<1> QED BY <1>4, <1>5, <1>6, <1>7, PackingEffect

-----------------------------------------------------------------------------
(* The photon C gave back.                                                 *)

\* Who changes the pool, what D got out of it, and what is connected.
LEMMA PooledFrame ==
  ASSUME [Next]_vars
  PROVE  /\ ~SpawnIO => UNCHANGED phToIO
         /\ ~(SpawnIO \/ ClosedDBPhoton \/ ClosedIOPhoton) => UNCHANGED pool
         /\ ~(SpawnIO \/ Connect \/ ClosedDBPhoton \/ ClosedIOPhoton) => UNCHANGED isConnected
<1>1. CASE NextC
  BY <1>1 DEF NextC, Start, Connect, Capture, SendCaplets, GetFreeMsg, CloseC, SendLastCaplets, CloseDBPhoton,
     Close, ClosedDBPhoton, Drained, photons, pooled
<1>2. CASE NextD
  BY <1>2 DEF NextD, Poll, Start, Recv, Pop, RegisterPhoton, WriteCaplets, AddCaplet, AddToNextPage, SendPage,
     WroteCaplets, ShutdownD, CloseD, SendLastPage, CloseIOPhoton, Close, ClosedIOPhoton, Drained,
     MarkThreadAsFree, photons, pooled
<1>3. CASE NextIO
  BY <1>3 DEF NextIO, Poll, Start, Recv, Pop, WritePage, ShutdownIO, CloseIO, photons, pooled
<1>4. CASE NextS \/ AskShutdown \/ UNCHANGED vars
  BY <1>4 DEF NextS, Pop, NewConnection, HandleShutdown, Tell, ToldAll, Join, JoinedAll, AskShutdown, vars,
     photons, pooled
<1> QED BY <1>1, <1>2, <1>3, <1>4 DEF Next

\* D has its photon from SpawnIO on.
LEMMA SpawnedStep ==
  ASSUME LoopTyped, WalkD, Greeting, [Next]_vars
  PROVE  /\ Spawned => Spawned' /\ ~SpawnIO
         /\ Spawned' /\ ~Spawned => SpawnIO
         /\ SpawnIO => Spawned'
<1> D \in Threads
  BY ThreadIds
<1>0. SpawnIO => pc[D] = "spawn" /\ pc'[D] = "recv"
  BY SpawnTyped DEF SpawnIO
<1>1. CASE ~NextD
  <2>1. pc'[D] = pc[D] \/ (pc[D] = "none" /\ pc'[D] = "start")
    BY <1>1, FrameD, GreetingStep, NewConnectionTyped DEF Next
  <2> QED BY <1>0, <2>1 DEF Spawned
<1>2. CASE Start(D) \/ Recv(D) \/ Pop(D) \/ SpawnIO
  <2>1. \/ pc[D] = "start" /\ pc'[D] = "spawn"
        \/ pc[D] \in {"recv", "pop"} /\ pc'[D] \in {"recv", "pop", "handle"}
        \/ pc[D] = "spawn" /\ pc'[D] = "recv" /\ SpawnIO
    BY <1>0, <1>2, GotoAt, ThreadIds DEF Start, Recv, Pop, Again
  <2> QED BY <1>0, <2>1 DEF Spawned
<1>3. CASE RegisterPhoton \/ WroteCaplets \/ MarkThreadAsFree \/ ShutdownD \/ CloseD \/ WriteCaplets
  <2>1. /\ pc[D] \in {"handle", "add", "free"} /\ left[D] >= 1
        /\ Handled(D) \/ Defer(D) \/ pc'[D] \in {"lastPage", "add"}
    BY <1>3, BusyLeft, GotoAt DEF RegisterPhoton, WroteCaplets, MarkThreadAsFree, ShutdownD, CloseD, WriteCaplets,
       Handling
  <2>2. pc'[D] \in {"done", "recv", "handle", "lastPage", "add"}
    BY <2>1, AfterHandled
  <2> QED BY <1>0, <2>1, <2>2 DEF Spawned
<1>4. CASE AddCaplet \/ AddToNextPage \/ SendPage
  <2>1. pc[D] \in {"add", "sendPage"} /\ pc'[D] \in {"add", "sendPage"}
    BY <1>4, GotoAt DEF AddCaplet, AddToNextPage, SendPage, loop
  <2> QED BY <1>0, <2>1 DEF Spawned
<1>5. CASE SendLastPage \/ CloseIOPhoton \/ ClosedIOPhoton
  <2>1. pc[D] \in {"lastPage", "close", "drain"} /\ pc'[D] \in {"close", "drain", "free"}
    BY <1>5, GotoAt DEF SendLastPage, CloseIOPhoton, Close, ClosedIOPhoton, Drained
  <2> QED BY <1>0, <2>1 DEF Spawned
<1> QED BY <1>1, <1>2, <1>3, <1>4, <1>5 DEF NextD, Poll

\* C touches its own photon only.
LEMMA ChannelOfC == ASSUME Channels, NextC PROVE channel'["io"] = channel["io"]
<1>1. channel' = channel \/ \E x : channel' = [channel EXCEPT !["cap"] = x]
  BY NextC DEF NextC, Start, Connect, Capture, SendCaplets, GetFreeMsg, CloseC, SendLastCaplets, CloseDBPhoton,
     Close, ClosedDBPhoton, Drained, SendTo, photons
<1> QED BY <1>1 DEF Channels, Photons

\* Until D has its photon, nothing happens to what it will do.
LEMMA UnbornStep ==
  ASSUME LoopTyped, Channels, WalkD, Greeting, Unborn, ~Spawned, ~Spawned', [Next]_vars
  PROVE  Unborn'
<1>1. ~SpawnIO /\ ~ClosedIOPhoton /\ ~NextIO /\ (NextD => Start(D))
  <2>1. ~SpawnIO
    BY SpawnedStep
  <2>2. pc[D] \in {"none", "start", "spawn"} /\ pc[IO] = "none"
    BY DEF Spawned, Unborn
  <2>3. ~ClosedIOPhoton
    BY <2>2 DEF ClosedIOPhoton, Drained
  <2>4. ~NextIO
    BY <2>2 DEF NextIO, Poll, Start, Recv, Pop, WritePage, ShutdownIO, CloseIO, Handling
  <2>5. NextD => Start(D)
    BY <2>1, <2>2 DEF NextD, Poll, Recv, Pop, RegisterPhoton, WriteCaplets, AddCaplet, AddToNextPage, SendPage,
       WroteCaplets, ShutdownD, CloseD, SendLastPage, CloseIOPhoton, Close, ClosedIOPhoton, Drained,
       MarkThreadAsFree, Handling
  <2> QED BY <2>1, <2>3, <2>4, <2>5
<1>2. UNCHANGED phToIO /\ pool' \subseteq {"cap"}
  BY <1>1, PooledFrame DEF Unborn, ClosedDBPhoton, Drained
<1>3. UNCHANGED <<file, isOpen>>
  BY <1>1, FrameIO DEF Next
<1>4. CASE NextC
  <2>1. channel'["io"] = channel["io"]
    BY <1>4, ChannelOfC
  <2>2. pc'[IO] = pc[IO] /\ holder'[D] = holder[D] /\ holder'[IO] = holder[IO]
        /\ UNCHANGED <<currentPage, full, dbm>>
    BY <1>4, LeftByC, FrameD DEF Left
  <2> QED BY <1>2, <1>3, <2>1, <2>2 DEF Unborn, Unpacked
<1>5. CASE Start(D)
  <2>1. UNCHANGED <<holder, channel, currentPage, full, dbm>> /\ pc'[IO] = pc[IO]
    BY <1>5, ThreadIds DEF Start, Goto, LoopTyped, photons, dVars
  <2> QED BY <1>2, <1>3, <2>1 DEF Unborn, Unpacked
<1>6. CASE NextS \/ AskShutdown
  <2>1. UNCHANGED channel
    BY <1>6 DEF NextS, Pop, NewConnection, HandleShutdown, Tell, ToldAll, Join, JoinedAll, AskShutdown, photons
  <2>2. pc'[IO] = pc[IO] /\ holder'[D] = holder[D] /\ holder'[IO] = holder[IO]
        /\ UNCHANGED <<currentPage, full, dbm>>
    BY <1>6, LeftByS, FrameD DEF Left
  <2> QED BY <1>2, <1>3, <2>1, <2>2 DEF Unborn, Unpacked
<1>7. CASE UNCHANGED vars
  <2>1. UNCHANGED <<pc, holder, channel, currentPage, full, dbm>>
    BY <1>7 DEF vars, loop, photons, dVars
  <2> QED BY <1>2, <1>3, <2>1 DEF Unborn, Unpacked
<1> QED BY <1>1, <1>4, <1>5, <1>6, <1>7 DEF Next

\* D gets the photon of C: nothing comes out of it any more.
LEMMA StuckFirst ==
  ASSUME LoopTyped, Channels, WalkD, Pooling, SpawnIO, phToIO' = "cap"
  PROVE  Stuck'
<1>1. ~Spawned /\ pc[D] = "spawn"
  BY DEF SpawnIO, Spawned
<1>2. Unborn /\ "cap" \in pool /\ PooledPhoton
  BY <1>1, Gotten DEF Pooling
<1>3. closed /\ pc[C] \in {"idle", "done"}
  BY <1>2 DEF Pooling
<1>4. isConnected' = isConnected \cup {"cap"} /\ UNCHANGED <<holder, file, isOpen, closed, currentPage, full, dbm>>
  BY Gotten DEF SpawnIO, cVars, dVars, ioVars
<1>5. channel' = [channel EXCEPT !["cap"] = NewChannel]
  BY <1>2 DEF PooledPhoton
<1>6. channel'["cap"] = NewChannel /\ channel'["io"] = NewChannel
  BY <1>2, <1>5 DEF Channels, Photons, Unborn, Unpacked
<1>7. pc'[C] = pc[C] /\ pc'[D] = "recv"
  BY SpawnTyped
<1>8. \A T : << >> \in Seq(T)
  OBVIOUS
<1> QED BY <1>2, <1>3, <1>4, <1>6, <1>7, <1>8 DEF Stuck, Unborn, Unpacked

\* What the poll of a thread makes of a holder with control messages only.
LEMMA ToldPoll ==
  ASSUME LoopTyped, NEW t \in {D, IO}, holder[t] \in Seq(Told(t)), Pop(t)
  PROVE  holder'[t] \in Seq(Told(t)) /\ pc'[t] \in {"pop", "recv", "handle"}
<1>1. t \in Threads /\ Again(t) = "recv"
  BY ThreadIds DEF Again
<1>2. CASE ctrl[t] # << >>
  <2>1. PICK m : m = Head(ctrl[t])
    OBVIOUS
  <2>2. m \in Told(t)
    <3>1. ctrl' = [ctrl EXCEPT ![t] = Tail(@)]
      BY <1>2, Pop(t) DEF Pop
    <3> QED BY <1>1, <1>2, <2>1, <3>1, Popped
  <2>3. holder'[t] = Append(holder[t], m) /\ pc'[t] = pc[t] /\ pc[t] = "pop"
    BY <1>1, <1>2, <2>1, Pop(t) DEF Pop, LoopTyped
  <2>4. Append(holder[t], m) \in Seq(Told(t))
    BY <2>2, Appended
  <2> QED BY <2>3, <2>4
<1>3. CASE ctrl[t] = << >>
  <2>1. UNCHANGED holder /\ (Goto(t, "recv") \/ Goto(t, "handle"))
    BY <1>1, <1>3, Pop(t) DEF Pop
  <2> QED BY <1>1, <2>1, GotoAt
<1> QED BY <1>2, <1>3

\* ... and its handlers.
LEMMA ToldHandled ==
  ASSUME LoopTyped, NEW t \in {D, IO}, holder[t] \in Seq(Told(t)), left[t] >= 1, pc[t] = "handle",
         Handled(t) \/ LastHandled(t) \/ Defer(t)
  PROVE  holder'[t] \in Seq(Told(t)) /\ pc'[t] \in {"done", "recv", "handle"}
<1>1. t \in Threads /\ Again(t) = "recv"
  BY ThreadIds DEF Again
<1>2. holder[t] # << >>
  BY <1>1, HeadHeld
<1>3. PICK e \in Told(t), r \in Seq(Told(t)) : e = Head(holder[t]) /\ r = Tail(holder[t])
  BY <1>2, Split
<1>4. Append(r, e) \in Seq(Told(t))
  BY Appended
<1>5. holder'[t] \in {r, Append(r, e)} /\ pc'[t] \in {"done", Again(t), "handle"}
  BY <1>3, HandledTyped
<1> QED BY <1>1, <1>4, <1>5

\* The code of what it handles.
LEMMA ToldHead ==
  ASSUME LoopTyped, NEW t \in {D, IO}, holder[t] \in Seq(Told(t)), left[t] >= 1
  PROVE  Head(holder[t])[1] \in {"REGISTER", "SHUTDOWN"}
<1>1. t \in Threads
  BY ThreadIds
<1>2. holder[t] # << >>
  BY <1>1, HeadHeld
<1>3. Head(holder[t]) \in Told(t)
  BY <1>2, Split
<1> QED BY <1>3, ThreadIds DEF Told, Plain

\* D and IO go on polling, C has no photon any more.
LEMMA StuckStep ==
  ASSUME LoopTyped, Channels, WalkD, Greeting, Pooling, Reused, [Next]_vars
  PROVE  Stuck'
<1>1. Stuck /\ Spawned
  <2>1. Stuck
    BY DEF Pooling
  <2> QED BY <2>1 DEF Stuck, Spawned
<1>2. \A p \in Photons : ~CanReceive(channel[p])
  <2>1. ~CanReceive(NewChannel)
    BY DEF CanReceive, NewChannel, NextRead
  <2> QED BY <1>1, <2>1 DEF Stuck, Unpacked, Photons
<1>3. ~NextC
  <2>1. closed /\ pc[C] \in {"idle", "done"}
    BY <1>1 DEF Stuck
  <2> QED BY <2>1 DEF NextC, Start, Connect, Capture, SendCaplets, GetFreeMsg, CloseC, SendLastCaplets,
         CloseDBPhoton, Close, ClosedDBPhoton, Drained
<1>4. ~SpawnIO /\ ~NewConnection
  <2>1. NewConnection => pc[D] = "none"
    BY GreetingStep
  <2> QED BY <1>1, <2>1 DEF Stuck, SpawnIO
<1>5. CASE NextD
  <2>1. pc'[C] = pc[C] /\ holder'[IO] = holder[IO] /\ UNCHANGED <<file, isOpen, closed>>
    BY <1>4, <1>5, LeftByD, FrameC, FrameIO DEF Left
  <2>2. CASE Recv(D)
    <3>1. \A p \in Polled(D) : p \in Photons
      BY ThreadIds DEF Polled, Photons
    <3>2. Goto(D, "pop") /\ UNCHANGED <<holder, channel>>
      BY <1>2, <2>2, <3>1 DEF Recv
    <3>3. pc'[D] = "pop" /\ UNCHANGED <<isConnected, currentPage, full, dbm>>
      BY <2>2, <3>2, GotoAt, ThreadIds DEF Recv, dVars
    <3> QED BY <1>1, <2>1, <3>2, <3>3 DEF Stuck, Unpacked
  <2>3. CASE Pop(D)
    <3>1. UNCHANGED <<channel, isConnected, currentPage, full, dbm>>
      BY <2>3 DEF Pop, photons, dVars
    <3>2. holder'[D] \in Seq(Told(D)) /\ pc'[D] \in {"pop", "recv", "handle"}
      BY <1>1, <2>3, ToldPoll DEF Stuck
    <3> QED BY <1>1, <2>1, <3>1, <3>2 DEF Stuck, Unpacked
  <2>4. CASE ~Recv(D) /\ ~Pop(D)
    <3>1. pc[D] \in {"recv", "pop", "handle", "done"} /\ phToIO \in isConnected
      BY <1>1 DEF Stuck, Reused
    <3>2. pc[D] = "handle" /\ (RegisterPhoton \/ WriteCaplets \/ ShutdownD \/ CloseD)
      BY <1>4, <1>5, <2>4, <3>1 DEF NextD, Poll, Start, RegisterPhoton, WriteCaplets, AddCaplet, AddToNextPage,
         SendPage, WroteCaplets, ShutdownD, CloseD, SendLastPage, CloseIOPhoton, Close, ClosedIOPhoton, Drained,
         MarkThreadAsFree, Handling
    <3>3. left[D] >= 1
      BY <3>2, BusyLeft
    <3>4. Head(holder[D])[1] \in {"REGISTER", "SHUTDOWN"}
      BY <1>1, <3>3, ToldHead DEF Stuck
    <3>5. /\ Handled(D) \/ Defer(D)
          /\ UNCHANGED <<channel, isConnected, currentPage, full, dbm>>
      BY <3>1, <3>2, <3>4 DEF RegisterPhoton, WriteCaplets, ShutdownD, CloseD, Handling, photons, dVars
    <3>6. holder'[D] \in Seq(Told(D)) /\ pc'[D] \in {"done", "recv", "handle"}
      BY <1>1, <3>2, <3>3, <3>5, ToldHandled DEF Stuck
    <3> QED BY <1>1, <2>1, <3>5, <3>6 DEF Stuck, Unpacked
  <2> QED BY <2>2, <2>3, <2>4
<1>6. CASE NextIO
  <2>1. pc'[C] = pc[C] /\ pc'[D] = pc[D] /\ holder'[D] = holder[D] /\ UNCHANGED <<closed, currentPage, full, dbm>>
    BY <1>6, LeftByIO, FrameC, FrameD DEF Left
  <2>2. CASE Recv(IO)
    <3>1. \A p \in Polled(IO) : p \in Photons
      BY DEF Polled, Photons, Reused
    <3>2. UNCHANGED <<holder, channel, isConnected, file, isOpen>>
      BY <1>2, <2>2, <3>1 DEF Recv, ioVars
    <3> QED BY <1>1, <2>1, <3>2 DEF Stuck, Unpacked
  <2>3. CASE Pop(IO)
    <3>1. UNCHANGED <<channel, isConnected, file, isOpen>>
      BY <2>3 DEF Pop, photons, ioVars
    <3>2. holder'[IO] \in Seq(Told(IO))
      BY <1>1, <2>3, ToldPoll DEF Stuck
    <3> QED BY <1>1, <2>1, <3>1, <3>2 DEF Stuck, Unpacked
  <2>4. CASE Start(IO)
    <3>1. UNCHANGED <<holder, channel, isConnected, file, isOpen>>
      BY <2>4 DEF Start, photons, ioVars
    <3> QED BY <1>1, <2>1, <3>1 DEF Stuck, Unpacked
  <2>5. CASE WritePage \/ ShutdownIO \/ CloseIO
    <3>1. pc[IO] = "handle" /\ left[IO] >= 1
      BY <2>5, BusyLeft DEF WritePage, ShutdownIO, CloseIO, Handling
    <3>2. Head(holder[IO])[1] \in {"REGISTER", "SHUTDOWN"}
      BY <1>1, <3>1, ToldHead DEF Stuck
    <3>3. /\ LastHandled(IO) \/ Defer(IO)
          /\ UNCHANGED <<channel, isConnected, file, isOpen>>
      BY <2>5, <3>2 DEF WritePage, ShutdownIO, CloseIO, Handling, photons, ioVars
    <3>4. holder'[IO] \in Seq(Told(IO))
      BY <1>1, <3>1, <3>3, ToldHandled DEF Stuck
    <3> QED BY <1>1, <2>1, <3>3, <3>4 DEF Stuck, Unpacked
  <2> QED BY <1>6, <2>2, <2>3, <2>4, <2>5 DEF NextIO, Poll
<1>7. CASE NextS \/ AskShutdown \/ UNCHANGED vars
  <2>1. /\ pc'[C] = pc[C] /\ pc'[D] = pc[D] /\ holder'[D] = holder[D] /\ holder'[IO] = holder[IO]
        /\ UNCHANGED <<closed, currentPage, full, dbm>>
    BY <1>4, <1>7, LeftByS, FrameC, FrameD DEF Left, vars, loop
  <2>2. UNCHANGED <<channel, isConnected, file, isOpen>>
    BY <1>7 DEF NextS, Pop, NewConnection, HandleShutdown, Tell, ToldAll, Join, JoinedAll, AskShutdown, vars,
       photons, ioVars
  <2> QED BY <1>1, <2>1, <2>2 DEF Stuck, Unpacked
<1> QED BY <1>3, <1>5, <1>6, <1>7 DEF Next

\* A pooled photon of C has no user: C is through with it, and D does not have it.
LEMMA PoolStep ==
  ASSUME LoopTyped, Channels, WalkC, WalkD, Greeting, Pooling, [Next]_vars
  PROVE  /\ pool' \subseteq Photons
         /\ "cap" \in pool' => closed' /\ pc'[C] \in {"idle", "done"} /\ "cap" \notin isConnected'
<1> C \in Threads
  BY ThreadIds
<1>1. CASE SpawnIO
  <2>1. pool' = {}
    <3>1. pool \subseteq {"cap"}
      BY <1>1 DEF Pooling, Unborn, SpawnIO, Spawned
    <3> QED BY <1>1, <3>1 DEF SpawnIO, NewPhoton, PooledPhoton
  <2> QED BY <2>1
<1>2. CASE ClosedDBPhoton
  <2>1. pc[C] = "drain" /\ pc'[C] \in {"done", "idle"} /\ closed' = closed
        /\ pool' = pool \cup {"cap"} /\ isConnected' = isConnected \ {"cap"}
    BY <1>2, GotoAt DEF ClosedDBPhoton, Drained, cVars
  <2> QED BY <2>1 DEF WalkC, Pooling, Photons
<1>3. CASE ClosedIOPhoton
  <2>1. phToIO = "io"
    BY <1>3, OwnPhoton DEF ClosedIOPhoton, Drained
  <2>2. pool' = pool \cup {"io"} /\ isConnected' = isConnected \ {"io"} /\ NextD
    BY <1>3, <2>1 DEF ClosedIOPhoton, Drained, NextD
  <2>3. pc'[C] = pc[C] /\ closed' = closed
    BY <2>2, FrameC
  <2> QED BY <2>2, <2>3 DEF Pooling, Photons
<1>4. CASE ~(SpawnIO \/ ClosedDBPhoton \/ ClosedIOPhoton)
  <2>1. pool' = pool
    BY <1>4, PooledFrame
  <2>2. SUFFICES ASSUME "cap" \in pool
                 PROVE  closed' /\ pc'[C] \in {"idle", "done"} /\ "cap" \notin isConnected'
    BY <2>1 DEF Pooling
  <2>3. closed /\ pc[C] \in {"idle", "done"} /\ "cap" \notin isConnected
    BY <2>2 DEF Pooling
  <2>4. isConnected' = isConnected
    BY <1>4, <2>3, PooledFrame DEF Connect
  <2>5. CASE NextC
    <3>1. CloseC
      BY <1>4, <2>3, <2>5 DEF NextC, Start, Connect, Capture, SendCaplets, GetFreeMsg, SendLastCaplets,
         CloseDBPhoton, Close
    <3>2. closed' = TRUE /\ pc'[C] = "done"
      BY <2>3, <3>1, GotoAt DEF CloseC
    <3> QED BY <2>3, <2>4, <3>2
  <2>6. CASE ~NextC
    <3>1. pc'[C] = pc[C] /\ closed' = closed
      BY <2>6, FrameC DEF Next
    <3> QED BY <2>3, <2>4, <3>1
  <2> QED BY <2>5, <2>6
<1> QED BY <1>1, <1>2, <1>3, <1>4

\* Every step keeps Pooling, and D keeps the photon it got.
LEMMA PoolingStep ==
  ASSUME LoopTyped, Channels, WalkC, WalkD, Greeting, Pooling, [Next]_vars
  PROVE  Pooling' /\ (Reused => Reused')
<1>1. CASE SpawnIO
  <2>1. phToIO' \in Photons /\ Spawned' /\ ~Spawned
    BY <1>1, Gotten, SpawnedStep DEF SpawnIO
  <2>2. Reused' => Stuck'
    BY <1>1, StuckFirst DEF Reused
  <2>3. ~Reused
    <3>1. phToIO = None
      BY <2>1 DEF Pooling, Unborn
    <3> QED BY <3>1, NoneAssumption DEF Reused, Photons
  <2> QED BY <2>1, <2>2, <2>3, PoolStep DEF Pooling
<1>2. CASE ~SpawnIO
  <2>1. phToIO' = phToIO
    BY <1>2, PooledFrame
  <2>2. Reused' => Stuck'
    BY <2>1, StuckStep DEF Reused
  <2>3. Spawned' => Spawned
    BY <1>2, SpawnedStep
  <2>4. CASE Spawned
    BY <2>1, <2>2, <2>4, SpawnedStep, PoolStep DEF Pooling, Reused
  <2>5. CASE ~Spawned
    <3>1. Unborn'
      BY <2>3, <2>5, UnbornStep DEF Pooling
    <3> QED BY <2>1, <2>2, <2>3, <2>5, <3>1, PoolStep DEF Pooling, Reused
  <2> QED BY <2>4, <2>5
<1> QED BY <1>1, <1>2

\* Nobody is on the way any more if D got C's photon.
LEMMA StuckWalks ==
  ASSUME LoopTyped, WalkD, [Next]_vars, Stuck'
  PROVE  WalkC' /\ WalkD'
<1>1. \A t \in {S, D, IO} : Busy(t)' => left'[t] >= 1
  BY BusyStep DEF BusyTyped
<1>2. WalkC'
  BY DEF Stuck, WalkC
<1>3. WalkD'
  BY <1>1 DEF Stuck, Unpacked, WalkD
<1> QED BY <1>2, <1>3

-----------------------------------------------------------------------------
(* The invariant holds: at first, ...                                      *)

\* Empty sequences.
LEMMA Nothing ==
  /\ Each(capBody, << >>) = << >> /\ Each(pageBody, << >>) = << >>
  /\ << >> \o << >> = << >> /\ DOMAIN << >> = {} /\ Len(<< >>) = 0
  /\ Distinct(<< >>, {}) /\ Counted(0) = << >>
<1>1. << >> \o << >> = << >> /\ DOMAIN << >> = {} /\ Len(<< >>) = 0
  OBVIOUS
<1>2. Distinct(<< >>, {})
  BY <1>1 DEF Distinct, ToSet, Injective
<1>3. 1 .. 0 = {}
  OBVIOUS
<1>4. Counted(0) = << >>
  BY <1>3 DEF Counted
<1> QED BY <1>1, <1>2, <1>4, EachEmpty

\* Nothing was sent, ...
LEMMA InitLoop == ASSUME Init PROVE LoopTyped /\ WalkC /\ WalkD /\ Fresh
<1>1. /\ pc[S] = "pop" /\ pc[C] = "start" /\ pc[D] = "none" /\ pc[IO] = "none"
      /\ \A t \in Threads : status[t] \in {"none", "uninit", "init", "finished"}
  BY ThreadIds DEF Init
<1>2. \A t \in Threads : pc[t] \in PlacesOf(t)
  BY <1>1, ThreadIds DEF PlacesOf
<1>3. \A t \in Threads : ctrl[t] = << >> /\ holder[t] = << >> /\ left[t] = 0
  BY DEF Init
<1>4. \A t \in Threads : ctrl[t] \in Seq(Told(t)) /\ holder[t] \in Seq(Held(t)) /\ left[t] <= Len(holder[t])
  <2>1. \A T : << >> \in Seq(T)
    OBVIOUS
  <2>2. 0 <= Len(<< >>)
    OBVIOUS
  <2> QED BY <1>3, <2>1, <2>2
<1>5. DOMAIN pc = Threads /\ DOMAIN ctrl = Threads /\ DOMAIN holder = Threads
  BY DEF Init
<1>6. status \in [Threads -> {"none", "uninit", "init", "finished"}] /\ left \in [Threads -> Nat]
  BY <1>1 DEF Init
<1>7. LoopTyped
  BY <1>2, <1>4, <1>5, <1>6 DEF LoopTyped, Init
<1>8. currentDBMessage = None /\ currentPage = None /\ full = None /\ dbm = "uninit"
  BY DEF Init
<1>9. WalkC
  BY <1>1, <1>8 DEF WalkC
<1>10. \A t \in {S, D, IO} : ~Busy(t)
  BY <1>1 DEF Busy
<1>11. WalkD
  BY <1>1, <1>8, <1>10 DEF WalkD
<1>12. Fresh
  BY DEF Fresh, Init
<1> QED BY <1>7, <1>9, <1>11, <1>12

\* ... nothing captured, ...
LEMMA InitData == ASSUME Init PROVE DataTyped /\ Channels /\ Shaped
<1>1. \A n \in Nat : << >> \in Seq(1 .. n) /\ Len(<< >>) <= n
  OBVIOUS
<1>2. captured = 0 /\ 0 \in Nat
  BY DEF Init
<1>3. PoolTyped(capBody, CapIds, capUse, CapRoom)
  BY <1>1, <1>2, Numbers DEF PoolTyped, Init
<1>4. PoolTyped(pageBody, PageIds, pageUse, PageRoom)
  BY <1>1, <1>2, Numbers DEF PoolTyped, Init
<1>5. DataTyped
  <2>1. file \in Seq(1 .. captured) /\ captured \in 0 .. MaxCaplets /\ packed \in 0 .. CapRoom /\ next \in Nat
        /\ count \in 0 .. 4
    BY <1>1, <1>2, Numbers DEF Init
  <2> QED BY <1>3, <1>4, <2>1 DEF DataTyped, Init
<1>6. Channels
  BY NewSound DEF Channels, Init, Photons
<1>7. Shaped
  BY DEF Shaped, Function, Init
<1> QED BY <1>5, <1>6, <1>7

\* ... and nothing is on its way.
LEMMA InitStreams ==
  ASSUME Init
  PROVE  /\ UC = << >> /\ UCX = << >> /\ UP = << >> /\ UPX = << >> /\ UN = << >>
         /\ UnsentCaps = << >> /\ UnsentPages = << >>
<1>1. holder[S] = << >> /\ holder[D] = << >> /\ holder[IO] = << >> /\ ctrl[S] = << >>
  BY ThreadIds DEF Init
<1>2. Sent(channel["cap"]) = << >> /\ Sent(channel["io"]) = << >>
  BY FlattenEmpty DEF Sent, Init, Photons, NewChannel
<1>3. \A f : Seen(f, << >>, << >>) = << >>
  BY Nothing, EachEmpty DEF Seen
<1>4. UN = << >>
  BY <1>1, Nothing, EachEmpty DEF UN
<1>5. UnsentCaps = << >>
  BY DEF UnsentCaps, Init
<1>6. UnsentPages = << >>
  BY Unsent DEF Init
<1> QED BY <1>1, <1>2, <1>3, <1>4, <1>5, <1>6, Views

\* The invariant holds at first.
LEMMA AtFirst == ASSUME Init PROVE IInv
<1>1. LoopTyped /\ WalkC /\ WalkD /\ Fresh /\ DataTyped /\ Channels /\ Shaped
  BY InitLoop, InitData
<1>2. /\ UC = << >> /\ UCX = << >> /\ UP = << >> /\ UPX = << >> /\ UN = << >>
      /\ UnsentCaps = << >> /\ UnsentPages = << >>
  BY InitStreams
<1>3. CS = << >> /\ PS = << >>
  BY <1>2, Nothing DEF CS, PS
<1>4. pc[C] = "start" /\ pc[D] = "none" /\ isConnected = {} /\ file = << >> /\ captured = 0
      /\ capUse = {} /\ pageUse = {}
  BY ThreadIds DEF Init
<1>5. Flow
  BY <1>2, <1>4 DEF Flow, Ended, IOClosed, CapClosed, Spawned
<1>6. Used
  BY <1>3, <1>4, Nothing, UsedParts
<1>7. Greeting
  BY <1>2, <1>4 DEF Greeting
<1>8. Intact
  <2>1. CB = << >> /\ PB = << >> /\ ~Packing
    BY <1>3, <1>4, Nothing DEF CB, PB, Packing
  <2>2. Total(<< >>, << >>, << >>) = << >>
    BY Nothing DEF Total
  <2> QED BY <1>4, <2>1, <2>2, Nothing, Whole DEF Remaining
<1>9. Pooling
  <2>1. pool = {} /\ phToIO = None /\ pc[IO] = "none" /\ holder[D] = << >> /\ holder[IO] = << >>
    BY ThreadIds DEF Init
  <2>2. Unpacked
    BY DEF Init, Unpacked, Photons
  <2>3. ~Spawned /\ ~Reused
    BY <1>4, <2>1, NoneAssumption DEF Spawned, Reused, Photons
  <2> QED BY <2>1, <2>2, <2>3 DEF Pooling, Unborn
<1> QED BY <1>1, <1>5, <1>6, <1>7, <1>8, <1>9 DEF IInv, Base, Flowing

\* ... and after every step.
LEMMA IInvStep == ASSUME IInv, [Next]_vars PROVE IInv'
<1>1. LoopTyped /\ DataTyped /\ Channels /\ WalkC /\ WalkD /\ Fresh /\ Greeting /\ Shaped /\ Pooling
  BY DEF IInv, Base
<1>2. LoopTyped' /\ Channels' /\ DataTyped'
  BY <1>1, LoopStep, ChannelStep, DataStep
<1>3. Greeting' /\ Fresh' /\ Shaped'
  BY <1>1, GreetingStep, FreshStep, ShapedStep
<1>4. Pooling' /\ (Reused => Reused')
  BY <1>1, PoolingStep
<1>5. CASE Reused'
  <2>1. Stuck'
    BY <1>4, <1>5 DEF Pooling
  <2>2. WalkC' /\ WalkD'
    BY <1>1, <2>1, StuckWalks
  <2> QED BY <1>2, <1>3, <1>4, <1>5, <2>2 DEF IInv, Base
<1>6. CASE ~Reused'
  <2>1. OwnStep
    BY <1>1, <1>4, <1>6 DEF OwnStep
  <2>2. Flow /\ Used /\ Intact
    BY <1>4, <1>6 DEF IInv, Flowing
  <2>3. WalkC' /\ WalkD'
    BY <1>1, <2>1, <2>2, WalkCStep, WalkDStep
  <2>4. Flow' /\ Used'
    BY <1>1, <2>1, <2>2, FlowStep, UsedStep
  <2>5. Intact'
    BY <1>1, <2>1, <2>2, IntactStep
  <2> QED BY <1>2, <1>3, <1>4, <2>3, <2>4, <2>5 DEF IInv, Base, Flowing
<1> QED BY <1>5, <1>6

-----------------------------------------------------------------------------
(* What follows from it.                                                   *)

\* The types of all variables.
LEMMA IInvTypes == ASSUME IInv PROVE TypeOK
<1>1. LoopTyped /\ DataTyped /\ Channels /\ Shaped /\ Pooling
  BY DEF IInv, Base
<1>2. \A t \in Threads : PlacesOf(t) \subseteq Places
  BY ThreadIds DEF PlacesOf, Places
<1>3. pc \in [Threads -> Places]
  BY <1>1, <1>2 DEF LoopTyped, Shaped, Function
<1>4. \A t \in Threads : ctrl[t] \in Seq(Messages) /\ holder[t] \in Seq(Messages)
  BY <1>1, ToldTypes
<1>5. ctrl \in [Threads -> Seq(Messages)] /\ holder \in [Threads -> Seq(Messages)]
  BY <1>1, <1>4 DEF LoopTyped, Shaped, Function
<1>6. \A p \in Photons : /\ channel[p].arrays \in Seq(Seq(Messages))
                         /\ Len(channel[p].arrays) <= NQueues
                         /\ channel[p].produced \in BOOLEAN
                         /\ channel[p].consumed \in BOOLEAN
  <2>1. \A M : M \subseteq Messages => Seq(Seq(M)) \subseteq Seq(Seq(Messages))
    <3>1. SUFFICES ASSUME NEW M, M \subseteq Messages PROVE Seq(Seq(M)) \subseteq Seq(Seq(Messages))
      OBVIOUS
    <3>2. \A s \in Seq(M) : s \in Seq(Messages)
      BY <3>1, SeqSubset
    <3>3. Seq(M) \subseteq Seq(Messages)
      BY <3>2
    <3>4. \A s \in Seq(Seq(M)) : s \in Seq(Seq(Messages))
      BY <3>3, SeqSubset
    <3> QED BY <3>4
  <2>2. ASSUME NEW p, NEW M, M \subseteq Messages, Sound(channel[p], M)
        PROVE  /\ channel[p].arrays \in Seq(Seq(Messages))
               /\ Len(channel[p].arrays) <= NQueues
               /\ channel[p].produced \in BOOLEAN
               /\ channel[p].consumed \in BOOLEAN
    BY <2>1, <2>2 DEF Sound
  <2>3. Sound(channel["cap"], CapMessages) /\ Sound(channel["io"], IOMessages)
    BY <1>1 DEF Channels
  <2> QED BY <2>2, <2>3, MessageSets DEF Photons
<1>7. {ctrl, holder} \subseteq [Threads -> Seq(Messages)]
  BY <1>5
<1>8. pool \subseteq Photons /\ phToIO \in Photons \cup {None}
  BY <1>1 DEF Pooling
<1> QED BY <1>1, <1>3, <1>6, <1>7, <1>8 DEF TypeOK, LoopTyped, DataTyped, PoolTyped

\* A sequence without repetitions is as long as its set of elements.
LEMMA DistinctLength ==
  ASSUME NEW T, NEW s \in Seq(T), NEW used, Distinct(s, used)
  PROVE  ToSet(s) = used /\ Cardinality(used) = Len(s)
<1>1. PICK n \in Nat : n = Len(s) /\ DOMAIN s = 1 .. n
  BY LenProperties
<1>2. used = {s[i] : i \in 1 .. n} /\ ToSet(s) = used /\ \A i, j \in 1 .. n : s[i] = s[j] => i = j
  BY <1>1 DEF Distinct, ToSet, Injective
<1>3. IsFiniteSet(1 .. n) /\ Cardinality(1 .. n) = n
  <2>1. 1 \in Int /\ n \in Int
    BY <1>1
  <2>2. IsFiniteSet(1 .. n) /\ Cardinality(1 .. n) = IF 1 > n THEN 0 ELSE n - 1 + 1
    BY <2>1, FS_Interval
  <2> QED BY <1>1, <2>2
<1>4. \A i \in 1 .. n : s[i] \in used
  BY <1>2
<1>5. s \in Bijection(1 .. n, used)
  <2>1. s \in [1 .. n -> used]
    <3>1. s \in [1 .. n -> T]
      BY <1>1, LenProperties
    <3> QED BY <3>1, <1>4
  <2>2. \A u \in used : \E i \in 1 .. n : s[i] = u
    BY <1>2
  <2> QED BY <1>2, <2>1, <2>2 DEF Bijection, Injection, Surjection, IsInjective
<1>6. Cardinality(1 .. n) = Cardinality(used)
  BY <1>3, <1>5, FS_Bijection DEF ExistsBijection
<1> QED BY <1>1, <1>2, <1>3, <1>6

\* The messages in use are those on their way.
LEMMA IInvOneUser == ASSUME IInv PROVE OneUser
<1> SUFFICES ASSUME ~Reused PROVE EachOnce
  BY DEF OneUser
<1>1. CS \in Seq(MsgIds) /\ PS \in Seq(MsgIds) /\ Distinct(CS, capUse) /\ Distinct(PS, pageUse)
  BY InUseTypes, UsedParts DEF IInv, Base, Flowing
<1>2. ToSet(CS) = capUse /\ Cardinality(capUse) = Len(CS)
  BY <1>1, DistinctLength
<1>3. ToSet(PS) = pageUse /\ Cardinality(pageUse) = Len(PS)
  BY <1>1, DistinctLength
<1> QED BY <1>2, <1>3 DEF EachOnce, CS, PS, UC, UP

\* A file that was closed: nothing is on its way.
LEMMA IInvClosed == ASSUME IInv PROVE ClosedIsComplete
<1>1. SUFFICES ASSUME file # << >>, ~isOpen PROVE file = Counted(captured)
  BY DEF ClosedIsComplete, Counted
<1>0. ~Reused
  BY <1>1 DEF IInv, Base, Pooling, Stuck, Unpacked
<1>2. LoopTyped /\ DataTyped /\ Channels /\ WalkC /\ WalkD /\ Flow /\ Used /\ Intact /\ Shaped
  BY <1>0 DEF IInv, Base, Flowing
<1>3. Ended /\ UP = << >>
  BY <1>1, <1>2 DEF Flow
<1>4. CapClosed /\ UC = << >> /\ dbm = "uninit" /\ full = None
  BY <1>2, <1>3 DEF Flow
<1>5. UnsentPages = << >>
  BY <1>4, Unsent
<1>6. UnsentCaps = << >>
  BY <1>4 DEF CapClosed, UnsentCaps
<1>7. CS = << >> /\ PS = << >>
  BY <1>3, <1>4, <1>5, <1>6, Nothing DEF CS, PS
<1>8. CB = << >> /\ PB = << >>
  BY <1>7, Nothing DEF CB, PB
<1>9. ~Packing
  BY <1>2, <1>4 DEF Packing, WalkD, Ended, IOClosed
<1>10. Total(file, << >>, << >>) = Counted(captured)
  BY <1>2, <1>8, <1>9, Whole DEF Remaining
<1>11. file \in Seq(Nat)
  BY <1>2, Bodies
<1>12. Total(file, << >>, << >>) = file
  BY <1>11, ConcatEmptySeq DEF Total
<1> QED BY <1>10, <1>12

-----------------------------------------------------------------------------
(* The theorems.                                                           *)

\* The invariant from which the others follow.
THEOREM Invariant == Spec => []IInv
<1>1. Init => IInv
  BY AtFirst
<1>2. IInv /\ [Next]_vars => IInv'
  BY IInvStep
<1> QED BY <1>1, <1>2, PTL DEF Spec

\* TypeOK, for any size of pools, messages, rings and sessions.
THEOREM TypeCorrect == Spec => []TypeOK
<1>1. IInv => TypeOK
  BY IInvTypes
<1> QED BY <1>1, Invariant, PTL

\* No step of the four threads but SpawnIO, when it resets the photon that C
\* gave back, loses, repeats or reorders a caplet, whatever messages are reused
\* meanwhile: Conserved, for every value of the constants.
THEOREM NothingLost == Spec => []Conserved
<1>1. IInv => Conserved
  BY DEF IInv, Flowing, Conserved
<1> QED BY <1>1, Invariant, PTL

\* A message is AVAILABLE only after its last use (updateStatus), and none is on
\* its way twice, unless D resets C's photon: OneUser, for every value of the
\* constants.
THEOREM Exclusive == Spec => []OneUser
<1>1. IInv => OneUser
  BY IInvOneUser
<1> QED BY <1>1, Invariant, PTL

\* SHUTDOWN waits for CLOSE, and CLOSE for all pages, so that a file that was
\* closed has all caplets: ClosedIsComplete, for every value of the constants.
THEOREM Complete == Spec => []ClosedIsComplete
<1>1. IInv => ClosedIsComplete
  BY IInvClosed
<1> QED BY <1>1, Invariant, PTL

-----------------------------------------------------------------------------
(* Arrays: with room for the whole pool no flush fails.                    *)

\* What an empty first array adds that the consumer is still in.
Extra(ch) == IF ch.consumed /\ ch.arrays[1] = << >> THEN 2 ELSE 1

\* Brief by Sent.
LEMMA BriefParts ==
  ASSUME NEW ch
  PROVE  Brief(ch) <=> /\ ch.produced => Own(ch) = << >>
                       /\ \A i \in DOMAIN ch.arrays : Len(ch.arrays[i]) <= 1
                       /\ Len(ch.arrays) <= Len(Sent(ch)) + Extra(ch)
BY DEF Brief, Extra, Sent

\* What was sent is published: there is nothing to flush.
LEMMA FlushBrief == ASSUME NEW ch, Brief(ch) PROVE Flush(ch) = ch
BY DEF Brief, Flush

\* A send puts one message in one array and leaves it.
LEMMA SendBrief ==
  ASSUME NEW M, NEW ch, Sound(ch, M), Brief(ch), NEW m \in M, Len(ch.arrays) < NQueues
  PROVE  Brief(Send(ch, m))
<1>1. PICK s \in Seq(Seq(M)), n \in Nat : s = ch.arrays /\ n = Len(s) /\ n < NQueues /\ DOMAIN s = 1 .. n
  BY LenProperties DEF Sound
<1>2. PICK k \in Seq(M), z \in Seq(M) : k = <<m>> /\ Len(k) = 1 /\ k # << >> /\ z = << >> /\ Len(z) = 0
  <2>1. <<m>> \in Seq(M) /\ Len(<<m>>) = 1 /\ <<m>> # << >>
    BY One
  <2>2. << >> \in Seq(M) /\ Len(<< >>) = 0
    OBVIOUS
  <2> QED BY <2>1, <2>2
<1>3. PICK x \in Nat : x = Len(Sent(ch))
  <2>1. Sent(ch) \in Seq(M)
    BY FlattenType DEF Sound, Sent
  <2> QED BY <2>1, LenProperties
<1>4. Len(Sent(Send(ch, m))) = x + 1
  <2>1. Sent(ch) \in Seq(M) /\ Sent(Send(ch, m)) = Append(Sent(ch), m)
    <3>1. CanSend(ch)
      BY DEF CanSend, AnyFree
    <3>2. Sent(ch) \in Seq(M)
      BY FlattenType DEF Sound, Sent
    <3> QED BY <3>1, <3>2, SendSound
  <2> QED BY <1>3, <2>1, Appended
<1>5. CASE ch.produced
  <2>1. n \in 1 .. n /\ s[n] = z
    <3>1. s # << >>
      BY <1>1, <1>5 DEF Sound
    <3>2. n # 0
      BY <1>1, <3>1, EmptySeq
    <3> QED BY <1>1, <1>2, <1>5, <3>2 DEF Brief, Own
  <2>2. Fits(ch)
    <3>1. 0 < QSize
      BY QueueAssumption
    <3> QED BY <1>1, <1>2, <1>5, <2>1, <3>1 DEF Fits, Own
  <2>3. PICK r \in Seq(Seq(M)) : /\ r = [s EXCEPT ![n] = k] /\ Len(r) = n /\ DOMAIN r = 1 .. n /\ r[n] = k
                                 /\ \A i \in 1 .. n - 1 : r[i] = s[i]
    <3>1. [s EXCEPT ![n] = k] \in Seq(Seq(M)) /\ Len([s EXCEPT ![n] = k]) = n
      BY <1>1, <2>1, ExceptSeq
    <3>2. [s EXCEPT ![n] = k][n] = k /\ \A i \in 1 .. n - 1 : [s EXCEPT ![n] = k][i] = s[i]
      BY <1>1, <2>1
    <3> QED BY <3>1, <3>2, LenProperties
  <2>4. Append(s[n], m) = k
    BY <1>2, <2>1
  <2>5. PICK a : a = Add(ch, m) /\ a = [ch EXCEPT !.arrays = r]
    <3>1. Add(ch, m) = [ch EXCEPT !.arrays = [s EXCEPT ![n] = Append(s[n], m)]]
      BY <1>1, <2>2 DEF Add
    <3> QED BY <2>3, <2>4, <3>1
  <2>6. a.arrays = r /\ a.produced /\ a.consumed = ch.consumed /\ DOMAIN a = DOMAIN ch
    BY <1>5, <2>5 DEF Sound
  <2>7. PICK q \in Seq(Seq(M)) : /\ q = Append(r, z) /\ Len(q) = n + 1 /\ DOMAIN q = 1 .. n + 1
                                 /\ (\A i \in 1 .. n : q[i] = r[i]) /\ q[n + 1] = z
    <3>1. /\ Append(r, z) \in Seq(Seq(M)) /\ Len(Append(r, z)) = Len(r) + 1
          /\ DOMAIN Append(r, z) = 1 .. Len(r) + 1
          /\ \A i \in 1 .. Len(r) : Append(r, z)[i] = r[i]
          /\ Append(r, z)[Len(r) + 1] = z
      BY Appended
    <3> QED BY <2>3, <3>1
  <2>8. PICK b : b = Send(ch, m) /\ b = [a EXCEPT !.arrays = q]
    <3>1. Own(a) # << >> /\ AnyFree(a)
      BY <1>1, <1>2, <2>3, <2>6 DEF Own, AnyFree
    <3> QED BY <1>2, <2>5, <2>6, <2>7, <3>1 DEF Send, Flush
  <2>9. b.arrays = q /\ b.produced /\ b.consumed = ch.consumed
    BY <2>6, <2>8 DEF Sound
  <2>10. Own(b) = << >>
    BY <1>2, <2>7, <2>9 DEF Own
  <2>11. ASSUME NEW i \in 1 .. n + 1 PROVE Len(q[i]) <= 1
    <3>1. CASE i = n + 1
      BY <1>2, <2>7, <3>1
    <3>2. CASE i = n
      BY <1>2, <2>1, <2>3, <2>7, <3>2
    <3>3. CASE i \in 1 .. n - 1
      <4>1. q[i] = s[i] /\ i \in DOMAIN s
        BY <1>1, <2>3, <2>7, <3>3
      <4> QED BY <1>1, <4>1 DEF Brief
    <3> QED BY <3>1, <3>2, <3>3
  <2>12. n <= x + Extra(ch)
    BY <1>1, <1>3, BriefParts
  <2>13. n + 1 <= (x + 1) + Extra(b)
    <3>1. Extra(b) \in {1, 2}
      BY DEF Extra
    <3>2. CASE n = 1
      BY <3>1, <3>2
    <3>3. CASE n # 1
      <4>1. q[1] = s[1]
        BY <2>1, <2>3, <2>7, <3>3
      <4>2. Extra(b) = Extra(ch)
        BY <1>1, <2>9, <4>1 DEF Extra
      <4> QED BY <2>12, <3>1, <4>2
    <3> QED BY <3>2, <3>3
  <2>14. /\ b.produced => Own(b) = << >>
         /\ \A i \in DOMAIN b.arrays : Len(b.arrays[i]) <= 1
         /\ Len(b.arrays) <= Len(Sent(b)) + Extra(b)
    BY <1>4, <2>7, <2>8, <2>9, <2>10, <2>11, <2>13
  <2> QED BY <2>8, <2>14, BriefParts
<1>6. CASE ~ch.produced
  <2>1. s = << >> /\ ~Fits(ch) /\ ~ch.consumed
    BY <1>1, <1>6 DEF Sound, Fits
  <2>2. PICK r \in Seq(Seq(M)) : r = <<k>> /\ Len(r) = 1 /\ r[1] = k /\ Append(s, k) = r
    <3>1. <<k>> \in Seq(Seq(M)) /\ Len(<<k>>) = 1 /\ <<k>>[1] = k
      BY One
    <3>2. Append(<< >>, k) = <<k>>
      OBVIOUS
    <3> QED BY <2>1, <3>1, <3>2
  <2>3. PICK a : a = Add(ch, m) /\ a = [ch EXCEPT !.arrays = r, !.produced = TRUE]
    BY <1>1, <1>2, <2>1, <2>2 DEF Add
  <2>4. a.arrays = r /\ a.produced /\ ~a.consumed /\ DOMAIN a = DOMAIN ch
    BY <2>1, <2>3 DEF Sound
  <2>5. PICK q \in Seq(Seq(M)) : /\ q = Append(r, z) /\ Len(q) = 2 /\ DOMAIN q = 1 .. 2
                                 /\ q[1] = k /\ q[2] = z
    <3>1. /\ Append(r, z) \in Seq(Seq(M)) /\ Len(Append(r, z)) = Len(r) + 1
          /\ DOMAIN Append(r, z) = 1 .. Len(r) + 1
          /\ \A i \in 1 .. Len(r) : Append(r, z)[i] = r[i]
          /\ Append(r, z)[Len(r) + 1] = z
      BY Appended
    <3>2. 1 + 1 = 2 /\ 1 \in 1 .. 1
      OBVIOUS
    <3> QED BY <2>2, <3>1, <3>2
  <2>6. PICK b : b = Send(ch, m) /\ b = [a EXCEPT !.arrays = q]
    <3>1. Own(a) # << >> /\ AnyFree(a)
      <4>1. 1 < NQueues
        BY QueueAssumption
      <4> QED BY <1>2, <2>2, <2>4, <4>1 DEF Own, AnyFree
    <3> QED BY <1>2, <2>3, <2>4, <2>5, <3>1 DEF Send, Flush
  <2>7. b.arrays = q /\ ~b.consumed
    BY <2>4, <2>6 DEF Sound
  <2>8. Own(b) = << >>
    BY <1>2, <2>5, <2>7 DEF Own
  <2>9. \A i \in 1 .. 2 : Len(q[i]) <= 1
    <3>1. \A i \in 1 .. 2 : i = 1 \/ i = 2
      OBVIOUS
    <3> QED BY <1>2, <2>5, <3>1
  <2>10. Extra(b) = 1 /\ 2 <= (x + 1) + 1
    BY <2>7 DEF Extra
  <2>11. /\ b.produced => Own(b) = << >>
         /\ \A i \in DOMAIN b.arrays : Len(b.arrays[i]) <= 1
         /\ Len(b.arrays) <= Len(Sent(b)) + Extra(b)
    BY <1>4, <2>5, <2>6, <2>7, <2>8, <2>9, <2>10
  <2> QED BY <2>6, <2>11, BriefParts
<1> QED BY <1>5, <1>6

\* A receive empties an array.
LEMMA ReceiveBrief ==
  ASSUME NEW M, NEW ch, Sound(ch, M), Brief(ch), CanReceive(ch)
  PROVE  Brief(Receive(ch))
<1>1. PICK s \in Seq(Seq(M)), n \in Nat : s = ch.arrays /\ n = Len(s) /\ DOMAIN s = 1 .. n
  BY LenProperties DEF Sound
<1>2. ch.consumed => n # 0
  BY <1>1, EmptySeq DEF Sound
<1>3. PICK b \in Nat : b = NextRead(ch) /\ (b = 1 \/ b = 2) /\ (b = 2 <=> ch.consumed /\ s[1] = << >>)
  BY <1>1 DEF NextRead
<1>4. n # 0
  BY <1>1, <1>2, <1>3 DEF CanReceive
<1>5. ch.produced /\ s[n] = << >>
  <2>1. ch.produced
    BY <1>1, <1>4, EmptySeq DEF Sound
  <2> QED BY <1>1, <2>1 DEF Brief, Own
<1>6. b < n
  <2>1. n > b \/ (ch.consumed /\ s[1] # << >>)
    BY <1>1, <1>3 DEF CanReceive
  <2>2. n = 1 => s[1] = << >>
    BY <1>5
  <2> QED BY <1>3, <1>4, <2>1, <2>2
<1>7. s[b] # << >> /\ s[b] \in Seq(M) /\ Len(s[b]) <= 1
  <2>1. b \in 1 .. n - 1 /\ b \in 1 .. n
    BY <1>3, <1>6
  <2>2. s[b] = << >> => b = 1 /\ ch.consumed
    BY <1>1, <2>1 DEF Sound
  <2>3. s[b] \in Seq(M)
    BY <1>1, <2>1, ElementOfSeq
  <2>4. Len(s[b]) <= 1
    BY <1>1, <2>1 DEF Brief
  <2> QED BY <1>3, <2>2, <2>3, <2>4
<1>8. PICK c \in Seq(M) : c = Tail(s[b]) /\ c = << >> /\ Len(c) = 0
  <2>1. Tail(s[b]) \in Seq(M) /\ Len(Tail(s[b])) = Len(s[b]) - 1
    BY <1>7, HeadTailProperties
  <2>2. PICK l \in Nat : l = Len(s[b]) /\ l # 0 /\ l <= 1
    <3>1. Len(s[b]) \in Nat /\ Len(s[b]) # 0
      BY <1>7, EmptySeq, LenProperties
    <3> QED BY <1>7, <3>1
  <2>3. Len(Tail(s[b])) = 0
    <3>1. \A j \in Nat : j # 0 /\ j <= 1 => j = 1 /\ j - 1 = 0
      OBVIOUS
    <3> QED BY <2>1, <2>2, <3>1
  <2> QED BY <2>1, <2>3, EmptySeq
<1>9. PICK rest \in Seq(Seq(M)), k \in Nat :
        /\ rest = SubSeq(s, b, n) /\ k = n - b + 1 /\ k >= 2 /\ Len(rest) = k /\ DOMAIN rest = 1 .. k
        /\ \A i \in 1 .. k : rest[i] = s[b + i - 1]
  <2>1. \A i \in b .. n : s[i] \in Seq(M)
    <3>1. \A i \in b .. n : i \in 1 .. n
      BY <1>3
    <3> QED BY <1>1, <3>1, ElementOfSeq
  <2>2. b \in Int /\ n \in Int
    OBVIOUS
  <2>3. /\ SubSeq(s, b, n) \in Seq(Seq(M))
        /\ Len(SubSeq(s, b, n)) = IF b <= n THEN n - b + 1 ELSE 0
        /\ \A i \in 1 .. n - b + 1 : SubSeq(s, b, n)[i] = s[b + i - 1]
    BY <2>1, <2>2, SubSeqProperties
  <2>4. b <= n /\ n - b + 1 \in Nat /\ n - b + 1 >= 2
    BY <1>6
  <2> QED BY <2>3, <2>4, LenProperties
<1>10. rest[1] = s[b] /\ rest[k] = s[n]
  <2>1. 1 \in 1 .. k /\ k \in 1 .. k /\ b + 1 - 1 = b /\ b + k - 1 = n
    BY <1>9
  <2> QED BY <1>9, <2>1
<1>11. PICK r \in Seq(Seq(M)) : /\ r = [rest EXCEPT ![1] = c] /\ Len(r) = k /\ DOMAIN r = 1 .. k
                                /\ r[1] = c /\ \A i \in 2 .. k : r[i] = rest[i]
  <2>1. 1 \in 1 .. k
    BY <1>9
  <2>2. [rest EXCEPT ![1] = c] \in Seq(Seq(M)) /\ Len([rest EXCEPT ![1] = c]) = k
    BY <1>9, <2>1, ExceptSeq
  <2>3. [rest EXCEPT ![1] = c][1] = c
    BY <1>9, <2>1
  <2>4. \A i \in 2 .. k : [rest EXCEPT ![1] = c][i] = rest[i]
    <3>1. DOMAIN rest = 1 .. k /\ \A i \in 2 .. k : i \in 1 .. k /\ i # 1
      BY <1>9
    <3> QED BY <3>1
  <2> QED BY <2>2, <2>3, <2>4, LenProperties
<1>12. PICK d : d = Receive(ch) /\ d = [ch EXCEPT !.arrays = r, !.consumed = TRUE]
  <2>1. Receive(ch) = [ch EXCEPT !.arrays = [rest EXCEPT ![1] = Tail(rest[1])], !.consumed = TRUE]
    BY <1>1, <1>3, <1>9 DEF Receive
  <2> QED BY <1>8, <1>10, <1>11, <2>1
<1>13. d.arrays = r /\ d.consumed
  BY <1>12 DEF Sound
<1>14. Own(d) = << >>
  <2>1. k \in 2 .. k
    BY <1>9
  <2> QED BY <1>5, <1>10, <1>11, <1>13, <2>1 DEF Own
<1>15. ASSUME NEW i \in 1 .. k PROVE Len(r[i]) <= 1
  <2>1. CASE i = 1
    BY <1>8, <1>11, <2>1
  <2>2. CASE i # 1
    <3>1. i \in 2 .. k /\ b + i - 1 \in 1 .. n
      <4>1. k = n - b + 1 /\ b >= 1 /\ i \in 2 .. k
        BY <1>3, <1>9, <2>2
      <4> QED BY <4>1
    <3>2. r[i] = s[b + i - 1]
      BY <1>9, <1>11, <3>1
    <3> QED BY <1>1, <3>1, <3>2 DEF Brief
  <2> QED BY <2>1, <2>2
<1>16. PICK x \in Nat : x = Len(Sent(d)) /\ Len(Sent(ch)) = x + 1
  <2>1. Received(ch) \in M /\ Sent(d) \in Seq(M) /\ Sent(ch) = <<Received(ch)>> \o Sent(d)
    BY <1>12, ReceiveSound
  <2>2. <<Received(ch)>> \in Seq(M) /\ Len(<<Received(ch)>>) = 1
    BY <2>1, One
  <2>3. Len(Sent(ch)) = 1 + Len(Sent(d))
    BY <2>1, <2>2, ConcatProperties
  <2>4. Len(Sent(d)) \in Nat
    BY <2>1, LenProperties
  <2> QED BY <2>3, <2>4
<1>17. n <= (x + 1) + Extra(ch) /\ Extra(ch) = b
  <2>1. Extra(ch) = b
    BY <1>1, <1>3 DEF Extra
  <2> QED BY <1>1, <1>16, <2>1, BriefParts
<1>18. Extra(d) = 2
  BY <1>8, <1>11, <1>13 DEF Extra
<1>19. k <= x + 2
  BY <1>3, <1>9, <1>17
<1>20. /\ d.produced => Own(d) = << >>
       /\ \A i \in DOMAIN d.arrays : Len(d.arrays[i]) <= 1
       /\ Len(d.arrays) <= Len(Sent(d)) + Extra(d)
  BY <1>11, <1>13, <1>14, <1>15, <1>16, <1>18, <1>19
<1> QED BY <1>12, <1>20, BriefParts
-----------------------------------------------------------------------------
(* The messages of a pool that are on their way are no more than it has.   *)

\* f makes one element of every one.
Ones(f, M) == \A e \in M : Len(f[e]) = 1

\* Such an f keeps the length.
LEMMA EachOnes ==
  ASSUME NEW T, NEW U, NEW f, Maps(f, T, U), NEW M, M \subseteq T, Ones(f, M), NEW s \in Seq(M)
  PROVE  Len(Each(f, s)) = Len(s)
<1> DEFINE X == {r \in Seq(M) : Len(Each(f, r)) = Len(r)}
<1>1. << >> \in X
  BY EachEmpty, Nothing
<1>2. ASSUME NEW r \in Seq(M), NEW e \in M, r \in X PROVE Append(r, e) \in X
  <2>1. r \in Seq(T) /\ e \in T
    BY SeqSubset
  <2>2. Each(f, Append(r, e)) = Each(f, r) \o f[e]
    BY <2>1, EachAppend
  <2>3. Each(f, r) \in Seq(U) /\ f[e] \in Seq(U)
    <3>1. Each(f, r) \in Seq(U)
      BY <2>1, EachType
    <3> QED BY <2>1, <3>1 DEF Maps
  <2>4. Len(Each(f, r) \o f[e]) = Len(Each(f, r)) + Len(f[e])
    BY <2>3, ConcatProperties
  <2>5. Append(r, e) \in Seq(M) /\ Len(Append(r, e)) = Len(r) + 1
    BY Appended
  <2> QED BY <1>2, <2>2, <2>4, <2>5 DEF Ones
<1> HIDE DEF X
<1>3. \A r \in Seq(M) : r \in X
  BY <1>1, <1>2, SeqInduct
<1> QED BY <1>3 DEF X

\* At most a pool and CLOSE.
Few == Len(Sent(channel["cap"])) <= CapMsgs + 1 /\ Len(Sent(channel["io"])) <= PageMsgs + 1

\* The messages on their way to t are no more than the pool has, and CLOSE.
LEMMA FewOf ==
  ASSUME NEW T, NEW U, NEW f, Maps(f, T, U), NEW M, M \subseteq T, Ones(f, M),
         NEW h \in Seq(T), NEW a \in Seq(M), NEW u \in Seq(U), NEW v \in Seq(U), NEW used, NEW n \in U,
         NEW k \in Nat, used \subseteq 1 .. k, Distinct(u \o v, used),
         Seen(f, h, a) = u \/ Seen(f, h, a) = EndedBy(u, n)
  PROVE  Len(a) <= k + 1
<1>1. a \in Seq(T)
  BY SeqSubset
<1>2. PICK x \in Seq(U), y \in Seq(U) : x = Each(f, h) /\ y = Each(f, a) /\ Seen(f, h, a) = x \o y
  BY <1>1, EachType, SeenSplit
<1>3. Len(y) = Len(a)
  <2>1. Len(Each(f, a)) = Len(a)
    BY EachOnes
  <2> QED BY <1>2, <2>1
<1>4. Len(x \o y) = Len(x) + Len(y) /\ Len(u \o v) = Len(u) + Len(v) /\ Len(EndedBy(u, n)) = Len(u) + 1
  <2>1. Len(x \o y) = Len(x) + Len(y)
    BY ConcatProperties
  <2>2. Len(u \o v) = Len(u) + Len(v)
    BY ConcatProperties
  <2>3. PICK o \in Seq(U) : o = <<n>> /\ Len(o) = 1
    BY One
  <2>4. Len(u \o o) = Len(u) + Len(o)
    BY ConcatProperties
  <2> QED BY <2>1, <2>2, <2>3, <2>4 DEF EndedBy
<1>5. Len(u \o v) <= k
  <2>1. u \o v \in Seq(U)
    BY ConcatProperties
  <2>2. Cardinality(used) = Len(u \o v)
    BY <2>1, DistinctLength
  <2>3. IsFiniteSet(1 .. k) /\ Cardinality(1 .. k) = k
    <3>1. 1 \in Int /\ k \in Int
      OBVIOUS
    <3>2. IsFiniteSet(1 .. k) /\ Cardinality(1 .. k) = IF 1 > k THEN 0 ELSE k - 1 + 1
      BY <3>1, FS_Interval
    <3> QED BY <3>2
  <2>4. Cardinality(used) <= Cardinality(1 .. k)
    BY <2>3, FS_Subset
  <2> QED BY <2>2, <2>3, <2>4
<1>6. PICK i \in Nat, j \in Nat, l \in Nat, p \in Nat : i = Len(x) /\ j = Len(y) /\ l = Len(u) /\ p = Len(v)
  BY LenProperties
<1>7. i + j = l \/ i + j = l + 1
  BY <1>2, <1>4, <1>6
<1>8. l + p <= k
  BY <1>4, <1>5, <1>6
<1>9. j <= k + 1
  BY <1>7, <1>8
<1> QED BY <1>3, <1>6, <1>9

\* So it is for both photons, ...
LEMMA FewMessages == ASSUME IInv, ~Reused PROVE Few
<1>1. LoopTyped /\ Channels /\ DataTyped /\ WalkD /\ Flow /\ Used
  BY DEF IInv, Base, Flowing
<1>2. /\ holder[D] \in Seq(Messages) /\ holder[IO] \in Seq(Messages)
      /\ Sent(channel["cap"]) \in Seq(CapMessages) /\ Sent(channel["io"]) \in Seq(IOMessages)
  BY <1>1, Streams, ThreadIds
<1>3. Ones(WX, CapMessages)
  <2>1. \A m \in CapMessages : m \in Messages /\ m[1] \in {"WRITE", "CLOSE"}
    BY MessageSets DEF CapMessages, Plain
  <2>2. \A m \in CapMessages : WX[m] = <<m[2]>>
    BY <2>1, ViewValues
  <2>3. \A x : Len(<<x>>) = 1
    OBVIOUS
  <2> QED BY <2>2, <2>3 DEF Ones
<1>4. Ones(PX, IOMessages)
  <2>1. \A m \in IOMessages : m \in Messages /\ m[1] \in {"PAGE", "CLOSE"}
    BY MessageSets DEF IOMessages, Plain
  <2>2. \A m \in IOMessages : PX[m] = <<m[2]>>
    BY <2>1, ViewValues
  <2>3. \A x : Len(<<x>>) = 1
    OBVIOUS
  <2> QED BY <2>2, <2>3 DEF Ones
<1>5. /\ UC \in Seq(MsgIds) /\ UnsentCaps \in Seq(MsgIds) /\ UP \in Seq(MsgIds) /\ UnsentPages \in Seq(MsgIds)
  BY <1>1, ViewTypes, UnsentTypes
<1>6. Distinct(UC \o UnsentCaps, capUse) /\ Distinct(UP \o UnsentPages, pageUse)
  BY <1>1, UsedDistinct
<1>7. capUse \subseteq 1 .. CapMsgs /\ pageUse \subseteq 1 .. PageMsgs
  BY <1>1 DEF DataTyped, PoolTyped, CapIds, PageIds
<1>8. /\ Seen(WX, holder[D], Sent(channel["cap"])) = UC \/ Seen(WX, holder[D], Sent(channel["cap"])) = EndedBy(UC, None)
      /\ Seen(PX, holder[IO], Sent(channel["io"])) = UP \/ Seen(PX, holder[IO], Sent(channel["io"])) = EndedBy(UP, None)
  BY <1>1, Views DEF Flow, EndedBy
<1>9. Len(Sent(channel["cap"])) <= CapMsgs + 1
  BY <1>2, <1>3, <1>5, <1>6, <1>7, <1>8, FewOf, ViewMaps, MessageSets, MessageIds, Numbers
<1>10. Len(Sent(channel["io"])) <= PageMsgs + 1
  BY <1>2, <1>4, <1>5, <1>6, <1>7, <1>8, FewOf, ViewMaps, MessageSets, MessageIds, Numbers
<1> QED BY <1>9, <1>10 DEF Few

-----------------------------------------------------------------------------
(* Every step leaves published what was sent.                              *)

\* The ring has three arrays more than the pools have messages.
Roomy == NQueues >= CapMsgs + 3 /\ NQueues >= PageMsgs + 3

\* Published, photon by photon.
LEMMA PublishedOf == Published <=> \A p \in Photons : Brief(channel[p])
BY DEF Published, Photons

\* The same after a step.
LEMMA PublishedNext == Published' <=> \A p \in Photons : Brief(channel'[p])
BY DEF Published, Photons, Brief

\* ... also after a step.
LEMMA FewNext == IInv' /\ ~Reused' => Few'
<1>1. IInv /\ ~Reused => Few
  BY FewMessages
<1> QED BY <1>1, PTL

\* A new channel.
LEMMA NewBrief == Brief(NewChannel)
<1>1. NewChannel.arrays = << >> /\ ~NewChannel.produced /\ ~NewChannel.consumed
  BY DEF NewChannel
<1>2. Len(<< >>) = 0 /\ DOMAIN << >> = {} /\ Sent(NewChannel) = << >> /\ Extra(NewChannel) = 1
  BY <1>1, Nothing, FlattenEmpty DEF Sent, Extra
<1> QED BY <1>1, <1>2, BriefParts

\* Every step keeps Published, if the rings are large enough.
LEMMA PublishedStep ==
  ASSUME Roomy, IInv, Published, [Next]_vars
  PROVE  Published'
<1>1. LoopTyped /\ Channels /\ DataTyped /\ WalkD /\ Pooling
  BY DEF IInv, Base
<1>2. IInv'
  BY IInvStep
<1>0. CASE Reused'
  <2>1. Stuck'
    BY <1>0, <1>2 DEF IInv, Base, Pooling
  <2>2. \A p \in Photons : channel'[p] = NewChannel
    BY <2>1 DEF Stuck, Unpacked, Photons
  <2> QED BY <2>2, NewBrief, PublishedNext
<1> SUFFICES ASSUME ~Reused' PROVE Published'
  BY <1>0
<1>3. Few'
  BY <1>2, FewNext
<1>4. ASSUME NEW p \in Photons, NEW m \in MessagesOf(p), SendTo(p, m) PROVE Published'
  <2>1. PICK ch, after : ch = channel[p] /\ after = Send(ch, m)
    OBVIOUS
  <2>2. Sound(ch, MessagesOf(p)) /\ Brief(ch) /\ CanSend(ch)
    BY <1>1, <1>4, <2>1, PublishedOf DEF Channels, MessagesOf, Photons, SendTo
  <2>3. channel' = [channel EXCEPT ![p] = after]
    BY <1>4, <2>1 DEF SendTo
  <2>4. channel'[p] = after /\ \A q \in Photons \ {p} : channel'[q] = channel[q]
    BY <1>1, <2>3 DEF Channels
  <2>5. Len(Sent(after)) <= NQueues - 2
    <3>1. Len(Sent(channel'["cap"])) <= CapMsgs + 1 /\ Len(Sent(channel'["io"])) <= PageMsgs + 1
      BY <1>3 DEF Few, Sent
    <3>2. Len(Sent(after)) <= CapMsgs + 1 \/ Len(Sent(after)) <= PageMsgs + 1
      BY <2>4, <3>1 DEF Photons
    <3>3. PICK n \in Nat : n = Len(Sent(after))
      <4>1. Sound(after, MessagesOf(p))
        BY <2>1, <2>2, SendSound
      <4>2. Sent(after) \in Seq(MessagesOf(p))
        BY <4>1, FlattenType DEF Sound, Sent
      <4> QED BY <4>2, LenProperties
    <3> QED BY <3>2, <3>3, Numbers, QueueAssumption DEF Roomy
  <2>6. PICK n \in Nat : n = Len(Sent(ch)) /\ Len(Sent(after)) = n + 1
    <3>1. Sent(ch) \in Seq(MessagesOf(p))
      BY <2>2, FlattenType DEF Sound, Sent
    <3>2. Sent(after) = Append(Sent(ch), m)
      BY <2>1, <2>2, SendSound
    <3> QED BY <3>1, <3>2, Appended
  <2>7. Len(ch.arrays) < NQueues
    <3>1. Len(ch.arrays) <= n + Extra(ch)
      BY <2>2, <2>6, BriefParts
    <3>2. Extra(ch) = 1 \/ Extra(ch) = 2
      BY DEF Extra
    <3>3. PICK k \in Nat : k = Len(ch.arrays)
      BY <2>2, LenProperties DEF Sound
    <3> QED BY <2>5, <2>6, <3>1, <3>2, <3>3, QueueAssumption
  <2>8. Brief(after)
    BY <2>1, <2>2, <2>7, SendBrief
  <2> QED BY <2>4, <2>8, PublishedOf, PublishedNext
<1>5. ASSUME NEW p \in Photons, NEW t \in Threads, Drained(t, p) PROVE Published'
  <2>1. Flush(channel[p]) = channel[p]
    BY PublishedOf, FlushBrief
  <2>2. channel' = [channel EXCEPT ![p] = channel[p]]
    BY <1>5, <2>1 DEF Drained
  <2>3. \A q \in Photons : channel'[q] = channel[q]
    BY <1>1, <2>2 DEF Channels
  <2> QED BY <2>3, PublishedOf, PublishedNext
<1>6. ASSUME NEW p \in Photons, CanReceive(channel[p]), channel' = [channel EXCEPT ![p] = Receive(@)]
      PROVE  Published'
  <2>1. PICK ch, after : ch = channel[p] /\ after = Receive(ch)
    OBVIOUS
  <2>2. Sound(ch, MessagesOf(p)) /\ Brief(ch)
    BY <1>1, <2>1, PublishedOf DEF Channels, MessagesOf, Photons
  <2>3. Brief(after)
    BY <1>6, <2>1, <2>2, ReceiveBrief
  <2>4. channel' = [channel EXCEPT ![p] = after]
    BY <1>6, <2>1
  <2>5. channel'[p] = after /\ \A q \in Photons \ {p} : channel'[q] = channel[q]
    BY <1>1, <2>4 DEF Channels
  <2> QED BY <2>3, <2>5, PublishedOf, PublishedNext
<1>7. CASE UNCHANGED channel
  BY <1>7, PublishedOf, PublishedNext
<1>8. ASSUME NEW p \in Photons, channel' = [channel EXCEPT ![p] = NewChannel] PROVE Published'
  <2>1. channel'[p] = NewChannel /\ \A q \in Photons \ {p} : channel'[q] = channel[q]
    BY <1>1, <1>8 DEF Channels
  <2> QED BY <2>1, NewBrief, PublishedOf, PublishedNext
<1> QED BY <1>1, <1>4, <1>5, <1>6, <1>7, <1>8, ChannelMoves DEF ChannelMove

\* At first nothing was sent.
LEMMA InitPublished == ASSUME Init PROVE Published
<1>1. \A p \in Photons : channel[p] = NewChannel
  BY DEF Init
<1> QED BY <1>1, NewBrief, PublishedOf

\* sendMessageNoFail leaves no message in an array that it does not leave, if the
\* rings are larger than the pools: SentIsPublished, for all such constants.
THEOREM Flushed == ASSUME Roomy PROVE Spec => []SentIsPublished
<1>1. Init => IInv /\ Published
  BY AtFirst, InitPublished
<1>2. (IInv /\ Published) /\ [Next]_vars => (IInv /\ Published)'
  BY IInvStep, PublishedStep
<1>3. IInv /\ Published => SentIsPublished
  BY PublishedOf DEF SentIsPublished, Brief
<1> QED BY <1>1, <1>2, <1>3, PTL DEF Spec
=============================================================================
