---------------------- MODULE ConnectionHandOverProofs ----------------------
(***************************************************************************)
(* The invariant of ConnectionHandOver, for any number of clients, which   *)
(* may leave at any time.  A client is at the door (its NEW_CONNECTION not *)
(* read), waits in the holder of S, or is with a worker: with one, unless  *)
(* it is in again.                                                         *)
(***************************************************************************)
EXTENDS ConnectionHandOver, SequenceTheorems, FiniteSetTheorems,
        WellFoundedInduction, TLAPS

-----------------------------------------------------------------------------
(* The invariant.                                                          *)

Places == {"none", "select", "sense", "pop", "handle", "scan", "push", "mark",
           "free", "lost"}

Typed ==
  /\ backlog \in Seq(Clients) /\ linked \subseteq Clients /\ gone \subseteq Clients
  /\ sock \in [Clients -> Seq(New .. Close)] /\ sent \in [Clients -> Nat]
  /\ keys \in [Threads -> SUBSET Clients]
  /\ selected \in [Threads -> SUBSET (Clients \cup {S})]
  /\ DOMAIN m = Threads
  /\ pc \in [Threads -> Places]
  /\ holder \in [Threads -> Seq(Seen)] /\ ctrl \in [Workers -> Seq(Clients)]
  /\ created \in Nat /\ available \subseteq Workers /\ scan \in Nat

\* S will accept c or has it in its selector.
Listed(c) == c \in keys[S] \/ \E j \in DOMAIN backlog : backlog[j] = c

\* S did not read the NEW_CONNECTION of c, and never will if c left before it
\* sent that.
Door(c) == c \notin linked \/ sent[c] = 0 \/ Listed(c)

\* A client is in the backlog once, or known to the selector of S, until it has
\* sent something or left.
Doors ==
  /\ \A i, j \in DOMAIN backlog : backlog[i] = backlog[j] => i = j
  /\ \A i \in DOMAIN backlog : backlog[i] \in linked /\ backlog[i] \notin keys[S]
  /\ keys[S] \subseteq linked
  /\ S \in selected[S] => backlog # << >>
  /\ \A c \in linked \ gone : sent[c] = 0 => Listed(c)

\* NEW_CONNECTION is the first message of a socket, until it is read.
Sockets ==
  \A c \in Clients :
    IF Door(c)
    THEN Len(sock[c]) = sent[c] /\ \A j \in DOMAIN sock[c] : sock[c][j] = j
    ELSE sent[c] >= 1 /\ \A j \in DOMAIN sock[c] : sock[c][j] > New

\* S holds connections only, each once but for those in again; so is what it read
\* last.
Waiting ==
  /\ \A j \in DOMAIN holder[S] : holder[S][j][2] = New /\ ~Door(holder[S][j][1])
  /\ \A i, j \in DOMAIN holder[S] :
       holder[S][i][1] = holder[S][j][1] => i = j \/ holder[S][i][1] \in again
  /\ m[S] # None => \E c \in Clients : m[S] = <<c, New>> /\ ~Door(c)
  /\ pc[S] \in {"scan", "push", "mark"} => holder[S] # << >>
  /\ pc[S] \in {"push", "mark"} => chosen \in available

\* What a worker has of a client: a control message, the same in its holder, or
\* the socket, with one message that was read.  Its key is cancelled when another
\* worker that has the client finds it gone.
Empty(w) == keys[w] = {} /\ ctrl[w] = << >> /\ holder[w] = << >>
Told(w, c) == keys[w] = {} /\ ctrl[w] = <<c>> /\ holder[w] = << >>
Taken(w, c) == keys[w] = {} /\ ctrl[w] = << >> /\ holder[w] = <<<<c, Register>>>>
Open(w, c) == /\ ctrl[w] = << >>
              /\ \/ keys[w] = {c} /\ holder[w] = << >>
                 \/ /\ keys[w] \subseteq {c}
                    /\ \E i \in New + 1 .. Close : holder[w] = <<<<c, i>>>>
With(w, c) == Told(w, c) \/ Taken(w, c) \/ Open(w, c)

Phases ==
  /\ \A w \in Workers : Empty(w) \/ \E c \in Clients : With(w, c)
  /\ \A v, w \in Workers, c \in Clients : 
       With(v, c) /\ With(w, c) => v = w \/ c \in again

\* A client with a worker is nowhere else, unless S is about to mark the worker or
\* was given the client once more.
Placed ==
  \A w \in Workers, c \in Clients : With(w, c) =>
    /\ ~Door(c)
    /\ pc[w] \notin {"none", "free", "lost"}
    /\ \A j \in DOMAIN holder[S] : holder[S][j][1] = c =>
         c \in again \/ (j = 1 /\ pc[S] = "mark" /\ chosen = w)

\* Where a worker is in its loop; it senses one key at most.
Loops ==
  \A w \in Workers :
    /\ pc[w] \in {"select", "sense"} => holder[w] = << >>
    /\ pc[w] = "sense" => \E c \in Clients : selected[w] = {c}
    /\ pc[w] \in {"none", "free", "lost"} => Empty(w)
    /\ w > created => pc[w] = "none"
    /\ m[w] = None

\* An available worker has no client, unless S is about to mark it.
Offered ==
  \A w \in available :
    \/ pc[S] = "mark" /\ chosen = w
    \/ Empty(w) /\ pc[w] \notin {"none", "free", "lost"}

IInv == /\ Typed /\ Doors /\ Sockets /\ Waiting /\ Phases /\ Placed /\ Loops
        /\ Offered

-----------------------------------------------------------------------------
(* Sequences and threads.                                                  *)

\* What Append adds.
LEMMA Appended ==
  ASSUME NEW T, NEW s \in Seq(T), NEW e \in T
  PROVE  /\ Append(s, e) \in Seq(T) /\ Append(s, e) # << >>
         /\ Len(s) \in Nat /\ Len(Append(s, e)) = Len(s) + 1
         /\ DOMAIN s = 1 .. Len(s) /\ DOMAIN Append(s, e) = 1 .. Len(s) + 1
         /\ \A i \in 1 .. Len(s) : Append(s, e)[i] = s[i]
         /\ Append(s, e)[Len(s) + 1] = e
BY AppendProperties, LenProperties

\* What Tail leaves.
LEMMA Rest ==
  ASSUME NEW T, NEW s \in Seq(T), s # << >>
  PROVE  /\ Head(s) = s[1] /\ Head(s) \in T /\ 1 \in DOMAIN s /\ Tail(s) \in Seq(T)
         /\ Len(s) \in Nat /\ Len(Tail(s)) = Len(s) - 1
         /\ \A i \in DOMAIN s : i \in Nat /\ i >= 1
         /\ \A i \in DOMAIN s : i # 1 => i - 1 \in DOMAIN Tail(s) /\ Tail(s)[i - 1] = s[i]
         /\ \A i \in DOMAIN Tail(s) : /\ i \in Nat /\ i >= 1
                                      /\ i + 1 \in DOMAIN s /\ Tail(s)[i] = s[i + 1]
<1>1. Len(s) \in Nat \ {0} /\ DOMAIN s = 1 .. Len(s)
  BY EmptySeq, LenProperties
<1>2. /\ Head(s) \in T /\ Tail(s) \in Seq(T) /\ Len(Tail(s)) = Len(s) - 1
      /\ \A i \in 1 .. Len(Tail(s)) : Tail(s)[i] = s[i + 1]
  BY HeadTailProperties
<1>3. DOMAIN Tail(s) = 1 .. Len(s) - 1
  BY <1>2, LenProperties
<1>4. Head(s) = s[1]
  OBVIOUS
<1> QED BY <1>1, <1>2, <1>3, <1>4

\* Sequences of one element.
LEMMA Single ==
  ASSUME NEW T, NEW e \in T
  PROVE  /\ Append(<< >>, e) = <<e>> /\ <<e>> \o << >> = <<e>>
         /\ Head(<<e>>) = e /\ Tail(<<e>>) = << >> /\ <<e>> # << >>
         /\ ToSet(<<e>>) = {e}
<1>1. <<e>> \in Seq(T) /\ <<e>> # << >> /\ DOMAIN <<e>> = {1} /\ <<e>>[1] = e
  OBVIOUS
<1>2. <<e>> \o << >> = <<e>>
  BY <1>1, ConcatEmptySeq
<1>3. Append(<< >>, e) = <<e>> /\ Tail(<<e>>) = << >> /\ Head(<<e>>) = e
  OBVIOUS
<1>4. ToSet(<<e>>) = {e}
  BY <1>1 DEF ToSet
<1> QED BY <1>1, <1>2, <1>3, <1>4

\* Workers have ids of their own, and there is one at least.
LEMMA Ids == /\ Workers \subseteq Nat /\ Workers \subseteq Threads /\ S \in Threads
             /\ \A w \in Workers : w # S
             /\ 1 \in Workers /\ Close \in Nat /\ Register = 0 /\ New = 1 /\ Close >= 2
<1>1. Cardinality(Clients) \in Nat /\ Cardinality(Clients) # 0
  BY ClientAssumption, FS_CardinalityType, FS_EmptySet
<1> QED BY <1>1, ClientAssumption, WorkerAssumption DEF Threads, Register, New, Close

\* A worker is with one client, whatever it has of it.
LEMMA WithOne ==
  /\ \A w : Empty(w) => \A c : ~With(w, c)
  /\ \A w, c, d : With(w, c) /\ With(w, d) => c = d
<1>1. \A c, i : /\ <<c>> # << >> /\ <<c>>[1] = c
                /\ <<<<c, i>>>> # << >> /\ <<<<c, i>>>>[1][1] = c
  OBVIOUS
<1>2. \A w : Empty(w) => \A c : ~With(w, c)
  BY <1>1 DEF Empty, With, Told, Taken, Open
<1>3. ASSUME NEW w, NEW c, NEW d, With(w, c), With(w, d) PROVE c = d
  <2>1. CASE Told(w, c)
    <3>1. ctrl[w] = <<c>> /\ ctrl[w] # << >> /\ keys[w] = {}
      BY <2>1, <1>1 DEF Told
    <3>2. ctrl[w] = <<d>>
      BY <3>1, <1>3 DEF With, Told, Taken, Open
    <3> QED BY <3>1, <3>2, <1>1
  <2>2. CASE Taken(w, c)
    <3>1. holder[w][1][1] = c /\ holder[w] # << >> /\ keys[w] = {}
      BY <2>2, <1>1 DEF Taken
    <3>2. holder[w][1][1] = d
      BY <3>1, <1>1, <1>3 DEF With, Told, Taken, Open
    <3> QED BY <3>1, <3>2
  <2>3. CASE Open(w, c)
    <3>1. CASE keys[w] = {c}
      BY <3>1, <1>3 DEF With, Told, Taken, Open
    <3>2. CASE keys[w] # {c}
      <4>1. holder[w][1][1] = c /\ holder[w] # << >> /\ ctrl[w] = << >>
        BY <2>3, <3>2, <1>1 DEF Open
      <4>2. holder[w][1][1] = d
        BY <4>1, <1>1, <1>3 DEF With, Told, Taken, Open
      <4> QED BY <4>1, <4>2
    <3> QED BY <3>1, <3>2
  <2> QED BY <2>1, <2>2, <2>3, <1>3 DEF With
<1> QED BY <1>2, <1>3

\* The same after a step.
LEMMA WithOneNext ==
  /\ \A w : Empty(w)' => \A c : ~With(w, c)'
  /\ \A w, c, d : With(w, c)' /\ With(w, d)' => c = d
<1>1. (/\ \A w : Empty(w) => \A c : ~With(w, c)
       /\ \A w, c, d : With(w, c) /\ With(w, d) => c = d)'
  BY WithOne, PTL
<1> QED BY <1>1

\* What a worker has is of the client it is with.
LEMMA WithWhom ==
  ASSUME IInv, NEW w \in Workers
  PROVE  /\ \A c \in keys[w] : c \in Clients /\ With(w, c) /\ Open(w, c)
         /\ ctrl[w] # << >> => \E c \in Clients : With(w, c) /\ Told(w, c)
         /\ holder[w] # << >> =>
              \E c \in Clients : With(w, c) /\ (Taken(w, c) \/ Open(w, c))
<1>1. Empty(w) \/ \E c \in Clients : With(w, c)
  BY DEF IInv, Phases
<1> QED BY <1>1 DEF Empty, With, Told, Taken, Open

\* Types: every step keeps them.
LEMMA TypedStep == IInv /\ [Next]_vars => Typed'
<1> SUFFICES ASSUME IInv, [Next]_vars PROVE Typed'
  OBVIOUS
<1> Typed
  BY DEF IInv
<1> USE Ids
<1>1. CASE UNCHANGED vars
  BY <1>1 DEF vars, net, clients, sensor, busy, Typed, Seen
<1>2. ASSUME NEW c \in Clients, Connect(c) PROVE Typed'
  <2>1. backlog' \in Seq(Clients) /\ linked' \subseteq Clients
    BY <1>2, Appended DEF Connect, Typed
  <2> QED BY <1>2, <2>1 DEF Connect, sensor, busy, Typed, Seen
<1>3. ASSUME NEW c \in Clients, SendNext(c) PROVE Typed'
  <2>1. /\ sent[c] + 1 \in New .. Close /\ sock[c] \in Seq(New .. Close)
        /\ sent' = [sent EXCEPT ![c] = sent[c] + 1]
    BY <1>3 DEF SendNext, Typed
  <2>2. sent'[c] = sent[c] + 1
    BY <2>1 DEF Typed
  <2>3. Append(sock[c], sent'[c]) \in Seq(New .. Close)
    BY <2>1, <2>2, Appended
  <2>4. sock' = [sock EXCEPT ![c] = Append(sock[c], sent'[c])]
    BY <1>3 DEF SendNext
  <2>5. sock' \in [Clients -> Seq(New .. Close)]
    BY <2>3, <2>4 DEF Typed
  <2>6. sent' \in [Clients -> Nat]
    BY <2>1 DEF Typed
  <2> QED BY <1>3, <2>5, <2>6 DEF SendNext, sensor, busy, Typed, Seen
<1>4. ASSUME NEW c \in Clients, Leave(c) PROVE Typed'
  BY <1>4 DEF Leave, sensor, busy, Typed, Seen
<1>5. ASSUME NEW t \in Threads, Select(t) PROVE Typed'
  <2>1. {c \in keys[t] : Readable(c)} \cup Acceptable(t) \subseteq Clients \cup {S}
    BY DEF Typed, Acceptable
  <2>2. selected' \in [Threads -> SUBSET (Clients \cup {S})]
    BY <1>5, <2>1 DEF Select, Typed
  <2> QED BY <1>5, <2>2 DEF Select, Goto, net, clients, busy, Places, Typed, Seen
<1>6. ASSUME NEW t \in Threads, NEW k, NEW l, Sensed(t, k, l)
      PROVE  /\ selected' \in [Threads -> SUBSET (Clients \cup {S})]
             /\ DOMAIN m' = Threads /\ pc' \in [Threads -> Places]
  BY <1>6 DEF Sensed, Goto, AfterSensor, Typed, Places
<1>7. CASE Accept
  <2>1. backlog # << >>
    BY <1>7 DEF Accept, IInv, Doors
  <2>2. Tail(backlog) \in Seq(Clients) /\ Head(backlog) \in Clients
    BY <2>1, Rest DEF Typed
  <2>3. backlog' \in Seq(Clients) /\ keys' \in [Threads -> SUBSET Clients]
    BY <1>7, <2>2 DEF Accept, Typed
  <2>4. UNCHANGED <<linked, gone, sock, sent, holder, ctrl, created, available, scan>>
    BY <1>7 DEF Accept, clients, busy
  <2>5. selected' \in [Threads -> SUBSET (Clients \cup {S})]
        /\ DOMAIN m' = Threads /\ pc' \in [Threads -> Places]
    BY <1>6, <1>7 DEF Accept
  <2> QED BY <2>3, <2>4, <2>5 DEF Typed
<1>8. ASSUME NEW t \in Threads, NEW c \in Clients, Read(t, c) PROVE Typed'
  <2>1. /\ Head(sock[c]) \in New .. Close /\ Tail(sock[c]) \in Seq(New .. Close)
        /\ <<c, Head(sock[c])>> \in Seen
    <3>1. sock[c] \in Seq(New .. Close) /\ sock[c] # << >>
      BY <1>8 DEF Read, Typed
    <3>2. Head(sock[c]) \in New .. Close /\ Tail(sock[c]) \in Seq(New .. Close)
      BY <3>1, Rest
    <3> QED BY <3>2 DEF Seen
  <2>2. Append(holder[t], <<c, Head(sock[c])>>) \in Seq(Seen)
    BY <2>1, Appended DEF Typed
  <2>3. holder' \in [Threads -> Seq(Seen)]
    BY <1>8, <2>2 DEF Read, Typed
  <2>4. sock' \in [Clients -> Seq(New .. Close)] /\ keys' \in [Threads -> SUBSET Clients]
    BY <1>8, <2>1 DEF Read, Typed
  <2>5. UNCHANGED <<backlog, linked, gone, sent, ctrl, created, available, scan>>
    BY <1>8 DEF Read, clients, busy
  <2>6. selected' \in [Threads -> SUBSET (Clients \cup {S})]
        /\ DOMAIN m' = Threads /\ pc' \in [Threads -> Places]
    BY <1>6, <1>8 DEF Read
  <2> QED BY <2>3, <2>4, <2>5, <2>6 DEF Typed
<1>9. ASSUME NEW t \in Threads, NEW c \in Clients, ReadEnd(t, c) PROVE Typed'
  <2>1. m[t] # None => m[t] \in Seen
    <3>1. \A d \in Clients : <<d, New>> \in Seen
      BY DEF Seen
    <3> QED BY <3>1 DEF IInv, Waiting, Loops, Threads
  <2>2. holder' \in [Threads -> Seq(Seen)]
    <3>1. \/ holder' = holder
          \/ m[t] # None /\ holder' = [holder EXCEPT ![t] = Append(holder[t], m[t])]
          \/ holder' = [holder EXCEPT ![t] = holder[t]]
      BY <1>9 DEF ReadEnd
    <3>2. m[t] # None => Append(holder[t], m[t]) \in Seq(Seen)
      BY <2>1, Appended DEF Typed
    <3> QED BY <3>1, <3>2 DEF Typed
  <2>3. keys' \in [Threads -> SUBSET Clients]
    <3>1. keys' = keys \/ keys' = [u \in Threads |-> keys[u] \ {c}]
      BY <1>9 DEF ReadEnd
    <3> QED BY <3>1 DEF Typed
  <2>4. UNCHANGED <<backlog, linked, gone, sock, sent, ctrl, created, available, scan>>
    BY <1>9 DEF ReadEnd, net, clients, busy
  <2> QED BY <1>6, <1>9, <2>2, <2>3, <2>4 DEF ReadEnd, Typed
<1>10. ASSUME NEW t \in Threads, EndHandling(t) PROVE Typed'
  BY <1>10 DEF EndHandling, Goto, net, clients, sensor, busy, Places, Typed, Seen
<1>11. ASSUME NEW t \in Threads, holder[t] # << >>
       PROVE  /\ Client(t) \in Clients /\ Tail(holder[t]) \in Seq(Seen)
              /\ Handled(t) => holder' \in [Threads -> Seq(Seen)]
  <2>1. Head(holder[t]) \in Seen /\ Tail(holder[t]) \in Seq(Seen)
    BY <1>11, Rest DEF Typed
  <2>2. Head(holder[t])[1] \in Clients
    BY <2>1 DEF Seen
  <2>3. Handled(t) => holder' \in [Threads -> Seq(Seen)]
    BY <2>1 DEF Handled, Typed
  <2> QED BY <2>1, <2>2, <2>3 DEF Client
<1>12. ASSUME NewConnection \/ Scan PROVE Typed'
  <2>1. pc' \in [Threads -> Places] /\ scan' \in Nat
    <3>1. NewConnection => pc' \in [Threads -> Places] /\ scan' \in Nat
      BY DEF NewConnection, Goto, Typed, Places
    <3>2. Scan => pc' \in [Threads -> Places] /\ scan' \in Nat
      <4>1. Scan => /\ pc' = pc \/ pc' = [pc EXCEPT ![S] = "push"]
                    /\ scan' = scan \/ scan' = scan + 1
        BY DEF Scan, Goto
      <4>2. "push" \in Places
        BY DEF Places
      <4>3. pc \in [Threads -> Places] /\ scan \in Nat
        BY DEF Typed
      <4> QED BY <4>1, <4>2, <4>3
    <3> QED BY <1>12, <3>1, <3>2
  <2>2. UNCHANGED <<net, sensor, holder, ctrl, created, available>>
    BY <1>12 DEF NewConnection, Scan
  <2> QED BY <2>1, <2>2 DEF net, clients, sensor, Typed
<1>13. CASE Create
  <2>1. holder[S] # << >>
    BY <1>13 DEF Create, IInv, Waiting
  <2>2. <<Client(S)>> \in Seq(Clients)
    BY <1>11, <2>1
  <2>3. ctrl' \in [Workers -> Seq(Clients)] /\ pc' \in [Threads -> Places]
    BY <1>13, <2>2 DEF Create, Places, Typed
  <2>4. holder' \in [Threads -> Seq(Seen)] /\ created' \in Nat
    BY <1>11, <1>13, <2>1 DEF Create, Typed
  <2>5. UNCHANGED <<net, sensor, available, scan>>
    BY <1>13 DEF Create
  <2> QED BY <2>3, <2>4, <2>5 DEF net, clients, sensor, Typed
<1>14. CASE PushCtrlMessage
  <2>1. holder[S] # << >> /\ chosen \in Workers
    BY <1>14 DEF PushCtrlMessage, IInv, Waiting, Typed
  <2>2. <<Client(S)>> \o ctrl[chosen] \in Seq(Clients)
    BY <1>11, <2>1, ConcatProperties DEF Typed
  <2>3. ctrl' \in [Workers -> Seq(Clients)] /\ pc' \in [Threads -> Places]
    BY <1>14, <2>2 DEF PushCtrlMessage, Goto, Places, Typed
  <2> QED BY <1>14, <2>3 DEF PushCtrlMessage, net, clients, sensor, busy, Typed, Seen
<1>15. CASE MarkThreadAsNotFree
  <2>1. holder[S] # << >>
    BY <1>15 DEF MarkThreadAsNotFree, IInv, Waiting
  <2> QED BY <1>11, <1>15, <2>1
        DEF MarkThreadAsNotFree, Goto, net, clients, sensor, Places, Typed, Seen
<1>16. ASSUME NEW w \in Workers, Pop(w) PROVE Typed'
  <2>1. CASE ctrl[w] = << >>
    BY <1>16, <2>1 DEF Pop, Goto, net, clients, sensor, busy, Places, Typed, Seen
  <2>2. CASE ctrl[w] # << >>
    <3>1. Head(ctrl[w]) \in Clients /\ Tail(ctrl[w]) \in Seq(Clients)
      BY <2>2, Rest DEF Typed
    <3>2. <<Head(ctrl[w]), Register>> \in Seen
      BY <3>1 DEF Seen
    <3>3. Append(holder[w], <<Head(ctrl[w]), Register>>) \in Seq(Seen)
      BY <3>2, Appended DEF Typed
    <3>4. /\ holder' = [holder EXCEPT
                          ![w] = Append(holder[w], <<Head(ctrl[w]), Register>>)]
          /\ ctrl' = [ctrl EXCEPT ![w] = Tail(ctrl[w])]
      BY <1>16, <2>2 DEF Pop
    <3>5. holder' \in [Threads -> Seq(Seen)] /\ ctrl' \in [Workers -> Seq(Clients)]
      BY <3>1, <3>3, <3>4 DEF Typed
    <3> QED BY <1>16, <2>2, <3>5 DEF Pop, net, clients, sensor, busy, Typed, Seen
  <2> QED BY <2>1, <2>2
<1>17. ASSUME NEW w \in Workers, RegisterPhoton(w) PROVE Typed'
  <2>1. holder' \in [Threads -> Seq(Seen)] /\ Client(w) \in Clients
    BY <1>11, <1>17 DEF RegisterPhoton, Handling
  <2>2. keys' \in [Threads -> SUBSET Clients]
    <3>1. keys' = keys \/ keys' = [keys EXCEPT ![w] = keys[w] \cup {Client(w)}]
      BY <1>17 DEF RegisterPhoton
    <3>2. keys[w] \cup {Client(w)} \in SUBSET Clients
      BY <2>1 DEF Typed
    <3> QED BY <3>1, <3>2 DEF Typed
  <2>3. pc' \in [Threads -> Places]
    BY <1>17 DEF RegisterPhoton, Goto, Places, Typed
  <2> QED BY <1>17, <2>1, <2>2, <2>3
        DEF RegisterPhoton, net, clients, busy, Typed, Seen
<1>18. ASSUME NEW w \in Workers, HandleData(w) PROVE Typed'
  <2>1. holder' \in [Threads -> Seq(Seen)]
    BY <1>11, <1>18 DEF HandleData, Handling
  <2> QED BY <1>18, <2>1 DEF HandleData, net, clients, sensor, busy, Typed, Seen
<1>19. ASSUME NEW w \in Workers, CloseConnection(w) PROVE Typed'
  <2>1. holder' \in [Threads -> Seq(Seen)]
    BY <1>11, <1>19 DEF CloseConnection, Handling
  <2>2. keys' \in [Threads -> SUBSET Clients]
    BY <1>19 DEF CloseConnection, Goto, Typed
  <2>3. pc' \in [Threads -> Places]
    BY <1>19 DEF CloseConnection, Goto, Places, Typed
  <2> QED BY <1>19, <2>1, <2>2, <2>3 DEF CloseConnection, net, clients, busy, Typed, Seen
<1>20. ASSUME NEW w \in Workers, MarkThreadAsFree(w) PROVE Typed'
  BY <1>20 DEF MarkThreadAsFree, Goto, net, clients, sensor, Places, Typed, Seen
<1> QED BY <1>1, <1>2, <1>3, <1>4, <1>5, <1>7, <1>8, <1>9, <1>10, <1>12, <1>13,
           <1>14, <1>15, <1>16, <1>17, <1>18, <1>19, <1>20
        DEF Next, NextS, NextW, NextC, Sense

-----------------------------------------------------------------------------
(* Steps of the clients: they change their sockets only.                   *)

\* Who is at the door depends on these.
LEMMA SameDoor ==
  ASSUME UNCHANGED <<backlog, linked, sent>>, keys'[S] = keys[S]
  PROVE  \A c : (Door(c)' <=> Door(c)) /\ (Listed(c)' <=> Listed(c))
BY DEF Door, Listed

\* A step that changes nothing but backlog, linked, gone, sock and sent.
LEMMA ClientStep ==
  ASSUME IInv, UNCHANGED <<keys, selected, m, again, pc, holder, ctrl, created,
                           available, chosen>>,
         Doors', \A c \in Clients : Door(c)' <=> Door(c)
  PROVE  Waiting' /\ Phases' /\ Placed' /\ Loops' /\ Offered'
<1> USE DEF IInv
<1>1. \A w \in Workers, c \in Clients : With(w, c)' <=> With(w, c)
  BY DEF With, Told, Taken, Open
<1>2. \A w \in Workers : Empty(w)' <=> Empty(w)
  BY DEF Empty
<1>3. Phases'
  BY <1>1, <1>2 DEF Phases
<1>7. Loops'
  BY <1>2 DEF Loops
<1>8. Offered'
  BY <1>2 DEF Offered, Typed
<1>4. \A j \in DOMAIN holder[S] : holder[S][j] \in Seen /\ holder[S][j][1] \in Clients
  BY Ids, LenProperties, ElementOfSeq DEF Typed, Seen
<1>5. Waiting'
  BY <1>4 DEF Waiting
<1>6. Placed'
  BY <1>1 DEF Placed
<1> QED BY <1>3, <1>5, <1>6, <1>7, <1>8

\* A client at the door connects: it is in the backlog now.
LEMMA ConnectStep ==
  ASSUME IInv, Typed', NEW c \in Clients, Connect(c) PROVE IInv'
<1> USE DEF IInv
<1>1. /\ c \notin linked /\ c \notin gone /\ linked' = linked \cup {c}
      /\ backlog' = Append(backlog, c)
      /\ UNCHANGED <<gone, sock, sent, keys, selected, m, again, pc, holder, ctrl,
                     created, available, chosen>>
  BY DEF Connect, sensor, closed, busy
<1>2. /\ Append(backlog, c) # << >> /\ Len(backlog) \in Nat
      /\ DOMAIN backlog = 1 .. Len(backlog)
      /\ DOMAIN Append(backlog, c) = 1 .. Len(backlog) + 1
      /\ \A i \in 1 .. Len(backlog) : Append(backlog, c)[i] = backlog[i]
      /\ Append(backlog, c)[Len(backlog) + 1] = c
  <2>1. backlog \in Seq(Clients)
    BY DEF Typed
  <2> QED BY <2>1, Appended
<1>3. \A i \in DOMAIN backlog : backlog[i] # c
  BY <1>1 DEF Doors
<1>4. /\ \A d : Listed(d)' <=> Listed(d) \/ d = c
      /\ \A d \in Clients : Door(d)' <=> Door(d)
  <2>1. \A d : Listed(d)' <=> Listed(d) \/ d = c
    BY <1>1, <1>2 DEF Listed
  <2> QED BY <1>1, <2>1 DEF Door
<1>5. Doors'
  <2>1. \A i, j \in DOMAIN backlog' : backlog'[i] = backlog'[j] => i = j
    BY <1>1, <1>2, <1>3 DEF Doors
  <2>2. \A i \in DOMAIN backlog' : backlog'[i] \in linked' /\ backlog'[i] \notin keys'[S]
    BY <1>1, <1>2, Ids DEF Doors, Typed
  <2> QED BY <1>1, <1>2, <1>4, <2>1, <2>2 DEF Doors, Typed
<1>6. Sockets'
  BY <1>1, <1>4 DEF Sockets
<1> QED BY <1>1, <1>4, <1>5, <1>6, ClientStep

\* A client that sends was not away.
LEMMA SendDoor ==
  ASSUME IInv, NEW c \in Clients, SendNext(c)
  PROVE  \A d \in Clients : Door(d)' <=> Door(d)
<1> USE DEF IInv
<1>1. /\ sent' = [sent EXCEPT ![c] = sent[c] + 1] /\ c \in linked \ gone
      /\ UNCHANGED <<backlog, linked, keys>>
  BY DEF SendNext, sensor
<1>2. sent'[c] # 0 /\ \A d \in Clients : d # c => sent'[d] = sent[d]
  BY <1>1 DEF Typed
<1>3. \A d : Listed(d)' <=> Listed(d)
  BY <1>1 DEF Listed
<1>4. sent[c] = 0 => Listed(c)
  BY <1>1 DEF Doors
<1> QED BY <1>1, <1>2, <1>3, <1>4 DEF Door

\* One more message is on its way.
LEMMA SendNextStep ==
  ASSUME IInv, Typed', NEW c \in Clients, SendNext(c) PROVE IInv'
<1> USE DEF IInv
<1>1. /\ sent' = [sent EXCEPT ![c] = sent[c] + 1]
      /\ sock' = [sock EXCEPT ![c] = Append(sock[c], sent'[c])]
      /\ sent[c] < Close
      /\ UNCHANGED <<backlog, gone, linked, keys, selected, m, again, pc, holder,
                     ctrl, created, available, chosen>>
  BY DEF SendNext, sensor, closed, busy
<1>2. sent'[c] = sent[c] + 1 /\ sent'[c] \in New .. Close
  BY <1>1, Ids DEF Typed
<1>3. \A d \in Clients : Door(d)' <=> Door(d)
  BY SendDoor
<1>4. Doors'
  <2>1. \A d : Listed(d)' <=> Listed(d)
    BY <1>1 DEF Listed
  <2>2. \A d \in Clients : sent'[d] = 0 => sent[d] = 0
    BY <1>1, <1>2, Ids DEF Typed
  <2> QED BY <1>1, <2>1, <2>2 DEF Doors, Typed
<1>5. /\ Len(sock[c]) \in Nat /\ Len(sock'[c]) = Len(sock[c]) + 1
      /\ DOMAIN sock[c] = 1 .. Len(sock[c])
      /\ DOMAIN sock'[c] = 1 .. Len(sock[c]) + 1
      /\ \A i \in 1 .. Len(sock[c]) : sock'[c][i] = sock[c][i]
      /\ sock'[c][Len(sock[c]) + 1] = sent[c] + 1
  <2>1. sock'[c] = Append(sock[c], sent[c] + 1) /\ sock[c] \in Seq(New .. Close)
    BY <1>1, <1>2 DEF Typed
  <2>2. sent[c] + 1 \in New .. Close
    BY <1>2
  <2> QED BY <2>1, <2>2, Appended
<1>6. Sockets'
  <2>1. ASSUME NEW d \in Clients, d # c
        PROVE  sent'[d] = sent[d] /\ sock'[d] = sock[d]
    BY <1>1, <2>1 DEF Typed
  <2>2. CASE Door(c)
    <3>2. Len(sock[c]) = sent[c] /\ \A j \in DOMAIN sock[c] : sock[c][j] = j
      BY <2>2 DEF Sockets
    <3>1. /\ Len(sock'[c]) = sent'[c]
          /\ \A j \in DOMAIN sock'[c] : sock'[c][j] = j
      <4>1. \A j \in 1 .. Len(sock[c]) : sock'[c][j] = j
        BY <1>5, <3>2
      <4>3. \A j \in 1 .. Len(sock[c]) + 1 :
              j \in 1 .. Len(sock[c]) \/ j = Len(sock[c]) + 1
        BY <1>5
      <4> QED BY <1>2, <1>5, <3>2, <4>1, <4>3
    <3> QED BY <1>3, <2>1, <2>2, <3>1 DEF Sockets
  <2>3. CASE ~Door(c)
    <3>2. /\ sent[c] \in Nat /\ sent[c] >= 1
          /\ \A j \in DOMAIN sock[c] : sock[c][j] > New
      BY <2>3 DEF Sockets, Typed
    <3>1. sent'[c] >= 1 /\ \A j \in DOMAIN sock'[c] : sock'[c][j] > New
      <4>1. \A j \in 1 .. Len(sock[c]) : sock'[c][j] > New
        BY <1>5, <3>2
      <4>2. sock'[c][Len(sock[c]) + 1] > New
        BY <1>5, <3>2, Ids
      <4>3. \A j \in 1 .. Len(sock[c]) + 1 :
              j \in 1 .. Len(sock[c]) \/ j = Len(sock[c]) + 1
        BY <1>5
      <4> QED BY <1>2, <1>5, <3>2, <4>1, <4>2, <4>3
    <3> QED BY <1>3, <2>1, <2>3, <3>1 DEF Sockets
  <2> QED BY <2>2, <2>3
<1> QED BY <1>1, <1>3, <1>4, <1>6, ClientStep

\* A client leaves: whoever has it finds out when it reads the socket.
LEMMA LeaveStep ==
  ASSUME IInv, Typed', NEW c \in Clients, Leave(c) PROVE IInv'
<1> USE DEF IInv
<1>1. /\ gone' = gone \cup {c}
      /\ UNCHANGED <<backlog, sock, sent, linked, keys, selected, m, again, pc,
                     holder, ctrl, created, available, chosen>>
  BY DEF Leave, sensor, closed, busy
<1>2. \A d : (Door(d)' <=> Door(d)) /\ (Listed(d)' <=> Listed(d))
  BY <1>1, SameDoor
<1>3. Doors'
  BY <1>1, <1>2 DEF Doors
<1>4. Sockets'
  BY <1>1, <1>2 DEF Sockets
<1> QED BY <1>1, <1>2, <1>3, <1>4, ClientStep

-----------------------------------------------------------------------------
(* Steps of the workers: they change what one worker has of its client.    *)

\* The places of a worker that serves nobody.
Away == {"none", "free", "lost"}

\* Nothing changes for the other threads, but that keys of workers are cancelled.
Alone(w) ==
  /\ UNCHANGED <<backlog, linked, gone, sent, again, created, chosen>>
  /\ keys'[S] = keys[S]
  /\ \A t \in Threads : t # w =>
       /\ holder'[t] = holder[t] /\ pc'[t] = pc[t]
       /\ selected'[t] = selected[t] /\ m'[t] = m[t]
       /\ keys'[t] = keys[t] \/ keys'[t] = {}
  /\ \A v \in Workers : v # w => ctrl'[v] = ctrl[v]
  /\ available \subseteq available' /\ available' \subseteq available \cup {w}

\* w is where it may be, with what it has.
Placeable(w) ==
  /\ Empty(w) \/ pc[w] \notin Away
  /\ pc[w] \in {"select", "sense"} => holder[w] = << >>
  /\ pc[w] = "sense" => \E c \in Clients : selected[w] = {c}
  /\ m[w] = None

\* What is on its way depends on these.
LEMMA SameSockets ==
  ASSUME IInv, UNCHANGED <<backlog, linked, sock, sent>>, keys'[S] = keys[S]
  PROVE  Sockets'
BY SameDoor DEF IInv, Sockets

\* If w keeps its client or is free of it, the others notice nothing.
LEMMA WorkerStep ==
  ASSUME IInv, NEW w \in Workers, Alone(w), Placeable(w)', pc[w] # "none",
         Empty(w)' \/ \E c \in Clients : With(w, c) /\ With(w, c)',
         w \in available' => \/ w \in available /\ ~Empty(w)
                             \/ Empty(w)' /\ pc'[w] \notin Away
  PROVE  Doors' /\ Waiting' /\ Phases' /\ Placed' /\ Loops' /\ Offered'
<1> USE DEF IInv, Away
<1>1. /\ UNCHANGED <<backlog, linked, gone, sent, again, created, chosen>>
      /\ keys'[S] = keys[S] /\ holder'[S] = holder[S] /\ pc'[S] = pc[S]
      /\ selected'[S] = selected[S] /\ m'[S] = m[S]
      /\ available \subseteq available' /\ available' \subseteq available \cup {w}
  BY Ids DEF Alone
<1>2. \A c : (Door(c)' <=> Door(c)) /\ (Listed(c)' <=> Listed(c))
  BY <1>1, SameDoor
<1>3. ASSUME NEW v \in Workers, v # w
      PROVE  /\ Empty(v) => Empty(v)'
             /\ \A c \in Clients : With(v, c)' => With(v, c)
             /\ Empty(v)' \/ \E c \in Clients : With(v, c)'
  <2>1. /\ ctrl'[v] = ctrl[v] /\ holder'[v] = holder[v]
        /\ keys'[v] = keys[v] \/ keys'[v] = {}
    BY <1>3, Ids DEF Alone
  <2>2. Empty(v) => Empty(v)'
    BY <2>1 DEF Empty
  <2>3. \A c \in Clients : With(v, c) => Empty(v)' \/ With(v, c)'
    BY <2>1 DEF Empty, With, Told, Taken, Open
  <2>4. Empty(v) \/ \E c \in Clients : With(v, c)
    BY DEF Phases
  <2>5. \A c \in Clients : With(v, c)' => With(v, c)
    BY <2>2, <2>3, <2>4, WithOneNext
  <2> QED BY <2>2, <2>3, <2>4, <2>5
<1>4. \A c \in Clients : With(w, c)' => With(w, c)
  BY WithOne, WithOneNext
<1>5. \A v \in Workers, c \in Clients : With(v, c)' => With(v, c)
  BY <1>3, <1>4
<1>6. Doors'
  BY <1>1, <1>2 DEF Doors
<1>7. Waiting'
  BY <1>1, <1>2 DEF Waiting
<1>8. Phases'
  <2>1. \A v \in Workers : Empty(v)' \/ \E c \in Clients : With(v, c)'
    BY <1>3 DEF Phases
  <2>2. again' = again
    BY <1>1
  <2> QED BY <1>5, <2>1, <2>2 DEF Phases
<1>9. Placed'
  <2>1. \A v \in Workers, c \in Clients : With(v, c)' => pc'[v] \notin Away
    <3> SUFFICES ASSUME NEW v \in Workers, NEW c \in Clients, With(v, c)'
                 PROVE  pc'[v] \notin Away
      OBVIOUS
    <3>1. CASE v = w
      BY <3>1, WithOneNext DEF Placeable
    <3>2. CASE v # w
      BY <1>5, <3>2, Ids DEF Alone, Placed
    <3> QED BY <3>1, <3>2
  <2> QED BY <1>1, <1>2, <1>5, <2>1 DEF Placed
<1>10. Loops'
  <2> SUFFICES ASSUME NEW v \in Workers
               PROVE  /\ pc'[v] \in {"select", "sense"} => holder'[v] = << >>
                      /\ pc'[v] = "sense" => \E c \in Clients : selected'[v] = {c}
                      /\ pc'[v] \in Away => Empty(v)'
                      /\ v > created' => pc'[v] = "none"
                      /\ m'[v] = None
    BY DEF Loops
  <2>1. CASE v = w
    BY <1>1, <2>1 DEF Placeable, Loops
  <2>2. CASE v # w
    BY <1>1, <1>3, <2>2, Ids DEF Alone, Loops
  <2> QED BY <2>1, <2>2
<1>11. Offered'
  <2> SUFFICES ASSUME NEW v \in available'
               PROVE  \/ pc'[S] = "mark" /\ chosen' = v
                      \/ Empty(v)' /\ pc'[v] \notin Away
    BY DEF Offered
  <2>1. CASE v = w
    BY <1>1, <2>1 DEF Offered
  <2>2. CASE v # w
    BY <1>1, <1>3, <2>2, Ids DEF Alone, Offered, Typed
  <2> QED BY <2>1, <2>2
<1> QED BY <1>6, <1>7, <1>8, <1>9, <1>10, <1>11

\* A worker selects: its own client, if it has something to read.
LEMMA SelectStep ==
  ASSUME IInv, Typed', NEW w \in Workers, Select(w) PROVE IInv'
<1> USE DEF IInv, Away
<1>1. /\ pc[w] = "select" /\ w \in Threads /\ w # S /\ holder[w] = << >>
      /\ UNCHANGED <<backlog, linked, gone, sock, sent, keys, m, again, holder,
                     ctrl, created, available, chosen>>
  BY Ids DEF Select, net, clients, closed, busy, Loops
<1>2. /\ selected' = [selected EXCEPT ![w] = selected'[w]]
      /\ selected'[w] \subseteq keys[w]
  BY <1>1, Ids DEF Select, Acceptable, Typed
<1>3. /\ pc' = [pc EXCEPT ![w] = pc'[w]]
      /\ pc'[w] \in {"pop", "sense"}
      /\ pc'[w] = "sense" => \E c \in Clients : selected'[w] = {c}
  <2>1. keys[w] = {} \/ \E c \in Clients : keys[w] = {c}
    BY DEF Phases, Empty, With, Told, Taken, Open
  <2>2. /\ pc' = [pc EXCEPT ![w] = pc'[w]]
        /\ pc'[w] = IF selected'[w] = {} THEN "pop" ELSE "sense"
    BY <1>1 DEF Select, Goto, Typed
  <2> QED BY <1>2, <2>1, <2>2
<1>4. Alone(w)
  BY <1>1, <1>2, <1>3 DEF Alone, Typed
<1>5. /\ Empty(w)' <=> Empty(w)
      /\ \A c : With(w, c)' <=> With(w, c)
  BY <1>1 DEF Empty, With, Told, Taken, Open
<1>6. Placeable(w)'
  BY <1>1, <1>3 DEF Placeable, Loops
<1>7. w \in available' => \/ w \in available /\ ~Empty(w)
                          \/ Empty(w)' /\ pc'[w] \notin Away
  BY <1>1, <1>3, <1>5
<1>8. Sockets'
  BY <1>1, SameSockets
<1>9. Empty(w)' \/ \E c \in Clients : With(w, c) /\ With(w, c)'
  BY <1>5 DEF Phases
<1> QED BY <1>1, <1>4, <1>6, <1>7, <1>8, <1>9, WorkerStep

\* Only the client of a worker is in its selector.
LEMMA Sensing ==
  ASSUME IInv, NEW w \in Workers, NEW c \in Clients, Valid(w, c)
  PROVE  /\ pc[w] = "sense" /\ With(w, c) /\ ~Door(c) /\ w # S /\ w \in Threads
         /\ keys[w] = {c} /\ ctrl[w] = << >> /\ holder[w] = << >>
         /\ selected[w] = {c}
<1>1. With(w, c) /\ Open(w, c)
  BY WithWhom DEF Valid
<1>2. holder[w] = << >> /\ \E d \in Clients : selected[w] = {d}
  BY DEF Valid, IInv, Loops
<1> QED BY <1>1, <1>2, Ids DEF Valid, Open, IInv, Placed

\* The worker reads one message of its client.
LEMMA ReadStep ==
  ASSUME IInv, Typed', NEW w \in Workers, NEW c \in Clients, Read(w, c) PROVE IInv'
<1> USE DEF IInv, Away
<1> DEFINE i == Head(sock[c])
<1>1. /\ pc[w] = "sense" /\ With(w, c) /\ ~Door(c) /\ w # S /\ w \in Threads
      /\ keys[w] = {c} /\ ctrl[w] = << >> /\ holder[w] = << >>
      /\ selected[w] = {c}
  BY Sensing DEF Read
<1>2. /\ sock[c] \in Seq(New .. Close) /\ sock[c] # << >>
      /\ \A j \in DOMAIN sock[c] : sock[c][j] > New
  BY <1>1 DEF Read, Typed, Sockets
<1>3. /\ i = sock[c][1] /\ i \in New .. Close /\ 1 \in DOMAIN sock[c]
      /\ \A j \in DOMAIN Tail(sock[c]) : /\ j + 1 \in DOMAIN sock[c]
                                         /\ Tail(sock[c])[j] = sock[c][j + 1]
  BY <1>2, Rest
<1>4. i \in New + 1 .. Close /\ i # New
  BY <1>2, <1>3, Ids
<1>5. \A j \in DOMAIN Tail(sock[c]) : Tail(sock[c])[j] > New
  BY <1>2, <1>3
<1>6. /\ UNCHANGED <<backlog, linked, gone, sent, again, ctrl, created, available,
                     chosen>>
      /\ sock' = [sock EXCEPT ![c] = Tail(sock[c])]
      /\ holder' = [holder EXCEPT ![w] = Append(holder[w], <<c, i>>)]
      /\ Sensed(w, c, <<c, i>>)
  BY DEF Read, clients, closed, busy
<1>7. /\ keys' = [keys EXCEPT ![w] = keys[w]]
      /\ keys' = keys
  BY <1>4 DEF Read, Typed
<1>8. /\ pc' = [pc EXCEPT ![w] = "pop"] /\ m' = [m EXCEPT ![w] = None]
      /\ selected' = [selected EXCEPT ![w] = selected[w] \ {c}]
  BY <1>1, <1>6 DEF Sensed, Goto, AfterSensor
<1>9. pc'[w] = "pop" /\ m'[w] = None
  BY <1>1, <1>8 DEF Typed
<1>10. holder'[w] = <<<<c, i>>>>
  <2>1. <<c, i>> \in Seen
    BY <1>3, Ids DEF Seen
  <2>2. holder'[w] = Append(<< >>, <<c, i>>)
    BY <1>1, <1>6 DEF Typed
  <2> QED BY <2>1, <2>2, Single
<1>11. Alone(w)
  BY <1>1, <1>6, <1>7, <1>8 DEF Alone, Typed
<1>12. With(w, c)'
  BY <1>1, <1>4, <1>6, <1>7, <1>10 DEF With, Open
<1>13. Placeable(w)'
  BY <1>9 DEF Placeable
<1>14. Sockets'
  <2>1. \A d \in Clients : Door(d)' <=> Door(d)
    BY <1>6, <1>7, SameDoor
  <2>2. /\ \A d \in Clients : d # c => sock'[d] = sock[d]
        /\ sock'[c] = Tail(sock[c])
    BY <1>6 DEF Typed
  <2>3. \A d \in Clients : d # c =>
          IF Door(d)'
          THEN /\ Len(sock'[d]) = sent'[d]
               /\ \A j \in DOMAIN sock'[d] : sock'[d][j] = j
          ELSE sent'[d] >= 1 /\ \A j \in DOMAIN sock'[d] : sock'[d][j] > New
    BY <1>6, <2>1, <2>2 DEF Sockets
  <2>4. ~Door(c)' /\ sent'[c] >= 1 /\ \A j \in DOMAIN sock'[c] : sock'[c][j] > New
    BY <1>1, <1>5, <1>6, <2>1, <2>2 DEF Sockets
  <2> QED BY <2>3, <2>4 DEF Sockets
<1>15. ~Empty(w)
  BY <1>1, WithOne
<1> QED BY <1>1, <1>6, <1>11, <1>12, <1>13, <1>14, <1>15, WorkerStep

\* The client is gone, and with it all the worker has, and the keys of any other.
LEMMA ReadEndStep ==
  ASSUME IInv, Typed', NEW w \in Workers, NEW c \in Clients, ReadEnd(w, c)
  PROVE  IInv'
<1> USE DEF IInv, Away
<1>1. /\ pc[w] = "sense" /\ w # S /\ w \in Threads /\ holder[w] = << >>
      /\ selected[w] = {c} /\ m[w] = None
  BY Ids DEF ReadEnd, Loops
<1>2. /\ UNCHANGED <<backlog, linked, gone, sock, sent, ctrl, created, available,
                     chosen>>
      /\ holder' = holder \/ holder' = [holder EXCEPT ![w] = holder[w]]
      /\ again' = again /\ Sensed(w, c, None)
      /\ \/ keys' = keys
         \/ c \in keys[w] /\ keys' = [u \in Threads |-> keys[u] \ {c}]
  BY <1>1 DEF ReadEnd, net, clients, closed, busy
<1>3. c \in keys[w] => c \notin keys[S] /\ keys[w] = {c}
  <2>1. c \in keys[w] => With(w, c) /\ Open(w, c)
    BY WithWhom
  <2> QED BY <2>1 DEF Open, Placed, Door, Listed
<1>4. \A v \in Workers : keys[v] = {} \/ \E d : keys[v] = {d}
  BY DEF Phases, Empty, With, Told, Taken, Open
<1>5. /\ keys'[S] = keys[S]
      /\ \A v \in Workers : keys'[v] = keys[v] \/ keys'[v] = {}
      /\ keys' = keys \/ keys'[w] = {}
  <2>1. CASE keys' = keys
    BY <2>1
  <2>2. CASE c \in keys[w] /\ keys' = [u \in Threads |-> keys[u] \ {c}]
    <3>1. \A t \in Threads : keys'[t] = keys[t] \ {c}
      BY <2>2
    <3>2. keys'[S] = keys[S]
      BY <1>3, <2>2, <3>1, Ids
    <3>3. \A v \in Workers : keys'[v] = keys[v] \/ keys'[v] = {}
      <4> SUFFICES ASSUME NEW v \in Workers
                   PROVE  keys'[v] = keys[v] \/ keys'[v] = {}
        OBVIOUS
      <4>1. keys'[v] = keys[v] \ {c}
        BY <3>1, Ids
      <4>2. keys[v] = {} \/ \E d : keys[v] = {d}
        BY <1>4
      <4> HIDE DEF IInv
      <4> QED BY <4>1, <4>2
    <3>4. keys'[w] = {}
      <4>1. keys'[w] = keys[w] \ {c} /\ keys[w] = {c}
        BY <1>3, <2>2, <3>1, Ids
      <4> QED BY <4>1
    <3> QED BY <3>2, <3>3, <3>4
  <2> QED BY <1>2, <2>1, <2>2
<1>6. holder' = holder
  BY <1>1, <1>2 DEF Typed
<1>7. /\ pc' = [pc EXCEPT ![w] = "pop"] /\ m' = [m EXCEPT ![w] = None]
      /\ selected' = [selected EXCEPT ![w] = selected[w] \ {c}]
  BY <1>1, <1>2 DEF Sensed, Goto, AfterSensor
<1>8. pc'[w] = "pop" /\ m'[w] = None
  BY <1>1, <1>7 DEF Typed
<1>9. Alone(w)
  BY <1>1, <1>2, <1>5, <1>6, <1>7 DEF Alone, Typed, Threads
<1>10. /\ Empty(w) => Empty(w)'
       /\ \A d \in Clients : With(w, d) => Empty(w)' \/ With(w, d)'
  BY <1>2, <1>5, <1>6 DEF Empty, With, Told, Taken, Open
<1>11. Empty(w)' \/ \E d \in Clients : With(w, d) /\ With(w, d)'
  BY <1>10 DEF Phases
<1>12. w \in available' => \/ w \in available /\ ~Empty(w)
                           \/ Empty(w)' /\ pc'[w] \notin Away
  BY <1>2, <1>8, <1>10
<1>13. Placeable(w)'
  BY <1>8 DEF Placeable
<1>14. Sockets'
  BY <1>2, <1>5, SameSockets
<1> QED BY <1>1, <1>9, <1>11, <1>12, <1>13, <1>14, WorkerStep

\* Steps of w that leave its client where it is.
LEMMA PopStep ==
  ASSUME IInv, Typed', NEW w \in Workers, Pop(w) PROVE IInv'
<1> USE DEF IInv, Away
<1>1. /\ pc[w] = "pop" /\ w \in Threads /\ w # S
      /\ UNCHANGED <<backlog, linked, gone, sock, sent, keys, selected, m, again,
                     created, available, chosen>>
  BY Ids DEF Pop, net, clients, sensor, closed, busy
<1>2. Sockets'
  BY <1>1, SameSockets
<1>3. m'[w] = None
  BY <1>1 DEF Loops
<1>4. CASE ctrl[w] = << >>
  <2>1. /\ UNCHANGED <<holder, ctrl>> /\ pc' = [pc EXCEPT ![w] = "handle"]
    BY <1>4 DEF Pop, Goto
  <2>2. pc'[w] = "handle"
    BY <1>1, <2>1 DEF Typed
  <2>3. Alone(w)
    BY <1>1, <2>1 DEF Alone, Typed
  <2>4. (Empty(w)' <=> Empty(w)) /\ \A c : With(w, c)' <=> With(w, c)
    BY <1>1, <2>1 DEF Empty, With, Told, Taken, Open
  <2>5. Placeable(w)'
    BY <1>3, <2>2 DEF Placeable
  <2>6. Empty(w)' \/ \E c \in Clients : With(w, c) /\ With(w, c)'
    BY <2>4 DEF Phases
  <2> QED BY <1>1, <1>2, <2>2, <2>3, <2>4, <2>5, <2>6, WorkerStep
<1>5. CASE ctrl[w] # << >>
  <2>1. PICK c \in Clients : With(w, c) /\ Told(w, c)
    BY <1>5, WithWhom
  <2>2. keys[w] = {} /\ ctrl[w] = <<c>> /\ holder[w] = << >>
    BY <2>1 DEF Told
  <2>3. Head(ctrl[w]) = c /\ Tail(ctrl[w]) = << >>
    BY <2>2, Single
  <2>4. /\ UNCHANGED pc /\ ctrl' = [ctrl EXCEPT ![w] = << >>]
        /\ holder' = [holder EXCEPT ![w] = Append(<< >>, <<c, Register>>)]
    BY <1>5, <2>2, <2>3 DEF Pop
  <2>5. <<c, Register>> \in Seen
    BY Ids DEF Seen
  <2>6. holder'[w] = <<<<c, Register>>>> /\ ctrl'[w] = << >>
    BY <1>1, <2>4, <2>5, Single DEF Typed
  <2>7. With(w, c)'
    BY <1>1, <2>2, <2>6 DEF With, Taken
  <2>8. Alone(w)
    BY <1>1, <2>4 DEF Alone, Typed
  <2>9. Placeable(w)'
    BY <1>1, <1>3, <2>4 DEF Placeable
  <2>10. ~Empty(w)
    BY <2>1, WithOne
  <2> QED BY <1>1, <1>2, <2>1, <2>7, <2>8, <2>9, <2>10, WorkerStep
<1> QED BY <1>4, <1>5

\* The worker handled all it held.
LEMMA EndHandlingStep ==
  ASSUME IInv, Typed', NEW w \in Workers, EndHandling(w) PROVE IInv'
<1> USE DEF IInv, Away
<1>1. /\ pc[w] = "handle" /\ holder[w] = << >> /\ w \in Threads /\ w # S
      /\ pc' = [pc EXCEPT ![w] = "select"]
      /\ UNCHANGED <<backlog, linked, gone, sock, sent, keys, selected, m, again,
                     holder, ctrl, created, available, chosen>>
  BY Ids DEF EndHandling, Goto, net, clients, sensor, closed, busy
<1>2. pc'[w] = "select"
  BY <1>1 DEF Typed
<1>3. Alone(w)
  BY <1>1 DEF Alone, Typed
<1>4. (Empty(w)' <=> Empty(w)) /\ \A c : With(w, c)' <=> With(w, c)
  BY <1>1 DEF Empty, With, Told, Taken, Open
<1>5. Placeable(w)'
  BY <1>1, <1>2 DEF Placeable, Loops
<1>6. Empty(w)' \/ \E c \in Clients : With(w, c) /\ With(w, c)'
  BY <1>4 DEF Phases
<1> QED BY <1>1, <1>2, <1>3, <1>4, <1>5, <1>6, SameSockets, WorkerStep

\* Steps of w that handle the one message it holds.
LEMMA OneMessage ==
  ASSUME IInv, NEW w \in Workers, NEW i, Handling(w, i)
  PROVE  \E c \in Clients :
           /\ With(w, c) /\ Client(w) = c /\ Tail(holder[w]) = << >>
           /\ ctrl[w] = << >>
           /\ IF i = Register THEN keys[w] = {} ELSE keys[w] \subseteq {c}
<1>1. PICK c \in Clients : With(w, c) /\ (Taken(w, c) \/ Open(w, c))
  BY WithWhom DEF Handling
<1>2. \A j : /\ Head(<<<<c, j>>>>) = <<c, j>> /\ Tail(<<<<c, j>>>>) = << >>
             /\ <<c, j>>[1] = c /\ <<c, j>>[2] = j
  OBVIOUS
<1>3. CASE Taken(w, c)
  <2>1. Client(w) = c /\ Tail(holder[w]) = << >> /\ i = Register
    BY <1>2, <1>3 DEF Taken, Handling, Client
  <2> QED BY <1>1, <1>3, <2>1 DEF Taken
<1>4. CASE Open(w, c)
  <2>1. PICK j \in New + 1 .. Close : holder[w] = <<<<c, j>>>>
    BY <1>4 DEF Open, Handling
  <2>2. Client(w) = c /\ Tail(holder[w]) = << >> /\ i = j
    BY <1>2, <2>1 DEF Handling, Client
  <2>3. i # Register
    BY <2>2, Ids
  <2> QED BY <1>1, <1>4, <2>2, <2>3 DEF Open
<1> QED BY <1>1, <1>3, <1>4

\* The control message becomes a key of the selector.
LEMMA RegisterPhotonStep ==
  ASSUME IInv, Typed', NEW w \in Workers, RegisterPhoton(w) PROVE IInv'
<1> USE DEF IInv, Away
<1>1. PICK c \in Clients : /\ With(w, c) /\ Client(w) = c /\ Tail(holder[w]) = << >>
                           /\ ctrl[w] = << >> /\ keys[w] = {}
  BY OneMessage DEF RegisterPhoton
<1>2. /\ pc[w] = "handle" /\ w \in Threads /\ w # S
      /\ UNCHANGED <<backlog, linked, gone, sock, sent, selected, m, again, ctrl,
                     created, available, chosen>>
      /\ holder' = [holder EXCEPT ![w] = << >>]
  BY <1>1, Ids DEF RegisterPhoton, Handled, Handling, net, clients, closed, busy
<1>3. holder'[w] = << >> /\ m'[w] = None /\ ~Empty(w) /\ w \in Workers
  BY <1>1, <1>2, WithOne DEF Typed, Loops
<1>4. CASE c \in shut
  <2>1. pc' = [pc EXCEPT ![w] = "lost"] /\ keys' = keys
    BY <1>1, <1>4 DEF RegisterPhoton, Goto
  <2>2. pc'[w] = "lost"
    BY <1>2, <2>1 DEF Typed
  <2>3. Alone(w) /\ Empty(w)' /\ keys'[S] = keys[S]
    BY <1>1, <1>2, <1>3, <2>1 DEF Alone, Empty, Typed
  <2>4. Placeable(w)'
    BY <1>3, <2>2, <2>3 DEF Placeable
  <2> QED BY <1>2, <1>3, <2>3, <2>4, SameSockets, WorkerStep
<1>5. CASE c \notin shut
  <2>1. pc' = pc /\ keys' = [keys EXCEPT ![w] = keys[w] \cup {c}]
    BY <1>1, <1>5 DEF RegisterPhoton
  <2>2. keys'[w] = {c} /\ keys'[S] = keys[S]
    BY <1>1, <1>2, <2>1 DEF Typed
  <2>3. Alone(w)
    BY <1>2, <2>1 DEF Alone, Typed
  <2>4. With(w, c)'
    BY <1>1, <1>2, <1>3, <2>2 DEF With, Open
  <2>5. Placeable(w)'
    BY <1>2, <1>3, <2>1 DEF Placeable
  <2> QED BY <1>1, <1>2, <1>3, <2>2, <2>3, <2>4, <2>5, SameSockets, WorkerStep
<1> QED BY <1>4, <1>5

\* A message is handled, the client stays.
LEMMA HandleDataStep ==
  ASSUME IInv, Typed', NEW w \in Workers, HandleData(w) PROVE IInv'
<1> USE DEF IInv, Away
<1>1. PICK i \in New + 1 .. Close - 1 : Handling(w, i)
  BY DEF HandleData
<1>2. i # Register
  BY Ids
<1>3. PICK c \in Clients : /\ With(w, c) /\ Tail(holder[w]) = << >>
                           /\ ctrl[w] = << >> /\ keys[w] \subseteq {c}
  BY <1>1, <1>2, OneMessage
<1>4. /\ pc[w] = "handle" /\ w \in Threads /\ w # S
      /\ UNCHANGED <<backlog, linked, gone, sock, sent, keys, selected, m, again, pc,
                     ctrl, created, available, chosen>>
      /\ holder' = [holder EXCEPT ![w] = << >>]
  BY <1>1, <1>3, Ids
     DEF HandleData, Handled, Handling, net, clients, sensor, closed, busy
<1>5. holder'[w] = << >> /\ m'[w] = None /\ ~Empty(w)
  BY <1>3, <1>4, WithOne DEF Typed, Loops
<1>6. Alone(w)
  BY <1>4 DEF Alone, Typed
<1>7. (With(w, c)' \/ Empty(w)') /\ Placeable(w)'
  <2>1. keys[w] = {} \/ keys[w] = {c}
    BY <1>3
  <2> QED BY <1>3, <1>4, <1>5, <2>1 DEF With, Open, Empty, Placeable
<1> QED BY <1>3, <1>4, <1>5, <1>6, <1>7, SameSockets, WorkerStep

\* The client says CLOSE: the worker has nothing of it any more.
LEMMA CloseConnectionStep ==
  ASSUME IInv, Typed', NEW w \in Workers, CloseConnection(w) PROVE IInv'
<1> USE DEF IInv, Away
<1>1. Handling(w, Close) /\ Close # Register
  BY Ids DEF CloseConnection
<1>2. PICK c \in Clients : /\ With(w, c) /\ Client(w) = c /\ Tail(holder[w]) = << >>
                           /\ ctrl[w] = << >> /\ keys[w] \subseteq {c}
  BY <1>1, OneMessage
<1>3. /\ pc[w] = "handle" /\ w \in Threads /\ w # S
      /\ UNCHANGED <<backlog, linked, gone, sock, sent, selected, m, again, ctrl,
                     created, available, chosen>>
      /\ holder' = [holder EXCEPT ![w] = << >>]
  BY <1>1, <1>2, Ids
     DEF CloseConnection, Handled, Handling, net, clients, closed, busy
<1>4. IF c \in keys[w]
      THEN keys' = [keys EXCEPT ![w] = keys[w] \ {c}] /\ pc' = [pc EXCEPT ![w] = "free"]
      ELSE keys' = keys /\ pc' = pc
  BY <1>2 DEF CloseConnection, Goto
<1>5. /\ holder'[w] = << >> /\ m'[w] = None /\ ~Empty(w) /\ keys'[w] = {}
      /\ pc'[w] \in {"free", "handle"} /\ keys'[S] = keys[S]
  <2>1. keys \in [Threads -> SUBSET Clients] /\ pc \in [Threads -> Places]
        /\ holder \in [Threads -> Seq(Seen)]
    BY DEF Typed
  <2>2. holder'[w] = << >> /\ m'[w] = None
    BY <1>3, <2>1 DEF Loops
  <2>3. ~Empty(w)
    BY <1>2, WithOne
  <2>4. keys'[w] = {} /\ keys'[S] = keys[S]
    <3>1. keys[w] \ {c} = {} /\ (c \notin keys[w] => keys[w] = {})
      BY <1>2
    <3>2. CASE c \in keys[w]
      BY <1>3, <1>4, <2>1, <3>1, <3>2, Ids
    <3>3. CASE c \notin keys[w]
      BY <1>4, <3>1, <3>3
    <3> QED BY <3>2, <3>3
  <2>5. pc'[w] \in {"free", "handle"}
    BY <1>3, <1>4, <2>1
  <2> QED BY <2>2, <2>3, <2>4, <2>5
<1>6. Alone(w)
  <2>1. /\ keys \in [Threads -> SUBSET Clients] /\ pc \in [Threads -> Places]
        /\ holder \in [Threads -> Seq(Seen)]
    BY DEF Typed
  <2>2. /\ keys'[S] = keys[S]
        /\ \A t \in Threads : t # w => pc'[t] = pc[t] /\ keys'[t] = keys[t]
    BY <1>3, <1>4, <2>1, Ids
  <2>3. \A t \in Threads : t # w => holder'[t] = holder[t]
    BY <1>3, <2>1
  <2> QED BY <1>3, <2>2, <2>3 DEF Alone
<1>7. Empty(w)'
  BY <1>2, <1>3, <1>5 DEF Empty
<1>8. Placeable(w)'
  BY <1>5, <1>7 DEF Placeable
<1> QED BY <1>3, <1>5, <1>6, <1>7, <1>8, SameSockets, WorkerStep

\* A worker without a client offers itself.
LEMMA MarkThreadAsFreeStep ==
  ASSUME IInv, Typed', NEW w \in Workers, MarkThreadAsFree(w) PROVE IInv'
<1> USE DEF IInv, Away
<1>1. /\ pc[w] = "free" /\ w \in Threads /\ w # S /\ Empty(w)
      /\ UNCHANGED <<backlog, linked, gone, sock, sent, keys, selected, m, again,
                     holder, ctrl, created, chosen>>
      /\ pc' = [pc EXCEPT ![w] = "handle"]
      /\ available \subseteq available' /\ available' \subseteq available \cup {w}
  BY Ids DEF MarkThreadAsFree, Goto, net, clients, sensor, closed, Loops
<1>2. pc'[w] = "handle" /\ m'[w] = None
  BY <1>1 DEF Typed, Loops
<1>3. Alone(w) /\ Empty(w)'
  BY <1>1 DEF Alone, Empty, Typed
<1>4. Placeable(w)'
  BY <1>2, <1>3 DEF Placeable
<1> QED BY <1>1, <1>2, <1>3, <1>4, SameSockets, WorkerStep

-----------------------------------------------------------------------------
(* Steps of S.                                                             *)

\* S changes nothing for the workers.
Apart ==
  /\ UNCHANGED <<linked, gone, sent, ctrl, created>> /\ again \subseteq again'
  /\ \A w \in Workers :
       /\ keys'[w] = keys[w] /\ holder'[w] = holder[w] /\ pc'[w] = pc[w]
       /\ selected'[w] = selected[w] /\ m'[w] = m[w]

\* Then clients and workers belong together as before.
LEMMA ApartStep ==
  ASSUME IInv, Apart
  PROVE  /\ Phases' /\ Loops'
         /\ \A w \in Workers : /\ Empty(w)' <=> Empty(w)
                               /\ \A c \in Clients : With(w, c)' <=> With(w, c)
<1> USE DEF IInv
<1>1. \A w \in Workers : /\ Empty(w)' <=> Empty(w)
                         /\ \A c \in Clients : With(w, c)' <=> With(w, c)
  BY DEF Apart, Empty, With, Told, Taken, Open
<1>2. Phases'
  <2>1. again \subseteq again'
    BY DEF Apart
  <2> QED BY <1>1, <2>1 DEF Phases
<1>3. Loops'
  BY <1>1 DEF Apart, Loops
<1> QED BY <1>1, <1>2, <1>3

\* Unless S is about to mark a worker, no client it holds has one yet, or it is in
\* again.
LEMMA NotMarking ==
  ASSUME IInv, pc[S] # "mark"
  PROVE  /\ \A w \in Workers, c \in Clients : With(w, c) =>
              \A j \in DOMAIN holder[S] : holder[S][j][1] = c => c \in again
         /\ \A w \in available : Empty(w) /\ pc[w] \notin Away
BY DEF IInv, Placed, Offered, Away

\* S goes on without a change of what it holds.
LEMMA QuietStep ==
  ASSUME IInv, Apart, pc[S] # "mark", pc'[S] # "mark",
         UNCHANGED <<backlog, sock, available>>,
         keys'[S] = keys[S], holder'[S] = holder[S], m'[S] \in {m[S], None},
         S \in selected'[S] => backlog # << >>,
         pc'[S] \in {"scan", "push"} => holder[S] # << >>,
         pc'[S] = "push" => chosen' \in available
  PROVE  Doors' /\ Sockets' /\ Waiting' /\ Phases' /\ Placed' /\ Loops' /\ Offered'
<1> USE DEF IInv
<1>1. \A c : (Door(c)' <=> Door(c)) /\ (Listed(c)' <=> Listed(c))
  BY SameDoor DEF Apart
<1>2. Doors'
  BY <1>1 DEF Apart, Doors
<1>3. Sockets'
  BY SameSockets DEF Apart
<1>4. Waiting'
  <2>1. again \subseteq again'
    BY DEF Apart
  <2> QED BY <1>1, <2>1 DEF Waiting
<1>5. Placed'
  <2>1. (\A w \in Workers : pc'[w] = pc[w]) /\ again \subseteq again'
    BY DEF Apart
  <2> QED BY <1>1, <2>1, ApartStep, NotMarking DEF Placed
<1>6. Offered'
  <2>1. \A w \in Workers : pc'[w] = pc[w]
    BY DEF Apart
  <2> QED BY <2>1, ApartStep, NotMarking DEF Offered, Typed, Away
<1> QED BY <1>2, <1>3, <1>4, <1>5, <1>6, ApartStep

\* S selects, ends a round, or looks for a worker.
LEMMA QuietSteps ==
  ASSUME IInv, Typed', Select(S) \/ EndHandling(S) \/ NewConnection \/ Scan
  PROVE  IInv'
<1> USE DEF IInv
<1>1. CASE Select(S)
  <2>1. /\ pc[S] = "select"
        /\ UNCHANGED <<backlog, linked, gone, sock, sent, keys, m, again, holder,
                       ctrl, created, available, chosen>>
        /\ selected' = [selected EXCEPT ![S] = selected'[S]]
        /\ pc' = [pc EXCEPT ![S] = pc'[S]] /\ pc'[S] \in {"pop", "sense"}
    BY <1>1, Ids DEF Select, Goto, net, clients, closed, busy, Typed
  <2>2. S \in selected'[S] => backlog # << >>
    BY <1>1, ClientAssumption, Ids DEF Select, Acceptable, Typed
  <2>3. Apart
    BY <2>1, Ids DEF Apart, Typed
  <2> QED BY <2>1, <2>2, <2>3, QuietStep
<1>2. CASE EndHandling(S)
  <2>1. /\ pc[S] = "handle"
        /\ UNCHANGED <<backlog, linked, gone, sock, sent, keys, selected, m, again,
                       holder, ctrl, created, available, chosen>>
        /\ pc' = [pc EXCEPT ![S] = "select"]
    BY <1>2 DEF EndHandling, Goto, net, clients, sensor, closed, busy
  <2>2. Apart /\ pc'[S] = "select"
    BY <2>1, Ids DEF Apart, Typed
  <2> QED BY <2>1, <2>2, QuietStep DEF Doors
<1>3. CASE NewConnection
  <2>1. /\ pc[S] = "handle" /\ holder[S] # << >>
        /\ UNCHANGED <<backlog, linked, gone, sock, sent, keys, selected, m, again,
                       holder, ctrl, created, available, chosen>>
        /\ pc' = [pc EXCEPT ![S] = "scan"]
    BY <1>3 DEF NewConnection, Handling, Goto, net, clients, sensor, closed
  <2>2. Apart /\ pc'[S] = "scan"
    BY <2>1, Ids DEF Apart, Typed
  <2> QED BY <2>1, <2>2, QuietStep DEF Doors
<1>4. CASE Scan
  <2>1. /\ pc[S] = "scan" /\ holder[S] # << >>
        /\ UNCHANGED <<backlog, linked, gone, sock, sent, keys, selected, m, again,
                       holder, ctrl, created, available>>
        /\ \/ pc' = [pc EXCEPT ![S] = "push"] /\ chosen' \in available
           \/ pc' = pc
    BY <1>4 DEF Scan, Goto, net, clients, sensor, closed, Waiting
  <2>2. /\ Apart /\ pc'[S] \in {"push", "scan"}
        /\ pc'[S] = "push" => chosen' \in available
    BY <2>1, Ids DEF Apart, Typed
  <2> QED BY <2>1, <2>2, QuietStep DEF Doors
<1> QED BY <1>1, <1>2, <1>3, <1>4

\* S finds a client gone that said nothing: what it read last, it holds once more.
LEMMA ServiceEndStep ==
  ASSUME IInv, Typed', NEW c \in Clients, ReadEnd(S, c) PROVE IInv'
<1> USE DEF IInv
<1>1. /\ pc[S] = "sense"
      /\ UNCHANGED <<backlog, linked, gone, sock, sent, ctrl, created, available,
                     chosen>>
      /\ Sensed(S, c, m[S])
  BY DEF ReadEnd, net, clients, busy
<1>2. /\ selected' = [selected EXCEPT ![S] = selected[S] \ {c}]
      /\ m' = [m EXCEPT ![S] = m'[S]] /\ m'[S] \in {m[S], None}
      /\ pc' = [pc EXCEPT ![S] = pc'[S]] /\ pc'[S] \in {"sense", "handle"}
  BY <1>1, Ids DEF Sensed, Goto, AfterSensor, Typed
<1>3. S \in selected'[S] => backlog # << >>
  BY <1>2, Ids DEF Doors, Typed
<1>4. CASE c \notin keys[S]
  <2>1. UNCHANGED <<keys, again, holder>>
    BY <1>4 DEF ReadEnd, closed
  <2>2. Apart
    BY <1>1, <1>2, <2>1, Ids DEF Apart, Typed
  <2> QED BY <1>1, <1>2, <1>3, <2>1, <2>2, QuietStep
<1>5. CASE c \in keys[S]
  <2>1. /\ sock[c] = << >> /\ c \in gone /\ Listed(c) /\ Door(c) /\ c \in linked
        /\ keys' = [u \in Threads |-> keys[u] \ {c}]
        /\ holder' = [holder EXCEPT ![S] =
                         IF m[S] = None THEN holder[S] ELSE Append(holder[S], m[S])]
        /\ again' = IF m[S] = None THEN again ELSE again \cup {m[S][1]}
    BY <1>5 DEF ReadEnd, Doors, Door, Listed
  <2>2. sent[c] = 0
    <3>1. Len(<< >>) = 0
      OBVIOUS
    <3> QED BY <2>1, <3>1 DEF Sockets
  <2>3. /\ \A w \in Workers : keys'[w] = keys[w] /\ holder'[w] = holder[w]
        /\ keys'[S] = keys[S] \ {c}
    <3>1. \A w \in Workers : c \notin keys[w]
      BY <2>1, WithWhom DEF Placed
    <3>2. \A t \in Threads : keys'[t] = keys[t] \ {c}
      BY <2>1
    <3>3. \A w \in Workers : keys'[w] = keys[w]
      <4> SUFFICES ASSUME NEW w \in Workers PROVE keys'[w] = keys[w]
        OBVIOUS
      <4> QED BY <3>1, <3>2, Ids
    <3>4. \A w \in Workers : holder'[w] = holder[w]
      BY <2>1, Ids DEF Typed
    <3> QED BY <3>2, <3>3, <3>4, Ids
  <2>4. Apart
    BY <1>1, <1>2, <2>1, <2>3, Ids DEF Apart, Typed
  <2>5. /\ \A d : Listed(d)' => Listed(d)
        /\ \A d : d # c /\ Listed(d) => Listed(d)'
        /\ \A d : Door(d)' <=> Door(d)
    BY <1>1, <2>1, <2>2, <2>3 DEF Listed, Door
  <2>6. Doors'
    BY <1>1, <1>3, <2>1, <2>3, <2>5 DEF Doors
  <2>7. Sockets'
    BY <1>1, <2>5 DEF Sockets
  <2>8. /\ again \subseteq again'
        /\ \A j \in DOMAIN holder'[S] :
             \/ j \in DOMAIN holder[S] /\ holder'[S][j] = holder[S][j]
             \/ \E d \in Clients : holder'[S][j] = <<d, New>> /\ ~Door(d) /\ d \in again'
    <3>1. CASE m[S] = None
      BY <2>1, <3>1, Ids DEF Typed
    <3>2. CASE m[S] # None
      <4>1. PICK d \in Clients : m[S] = <<d, New>> /\ ~Door(d)
        BY <3>2 DEF Waiting
      <4>2. m[S] \in Seen /\ m[S][1] = d
        BY <4>1, Ids DEF Seen
      <4>3. holder'[S] = Append(holder[S], m[S]) /\ again' = again \cup {d}
        BY <2>1, <3>2, <4>2, Ids DEF Typed
      <4>4. /\ Len(holder[S]) \in Nat /\ DOMAIN holder[S] = 1 .. Len(holder[S])
            /\ DOMAIN holder'[S] = 1 .. Len(holder[S]) + 1
            /\ \A j \in 1 .. Len(holder[S]) : holder'[S][j] = holder[S][j]
            /\ holder'[S][Len(holder[S]) + 1] = m[S]
        <5>1. holder[S] \in Seq(Seen)
          BY Ids DEF Typed
        <5> QED BY <4>2, <4>3, <5>1, Appended
      <4>5. \A j \in DOMAIN holder'[S] :
              j \in 1 .. Len(holder[S]) \/ j = Len(holder[S]) + 1
        BY <4>4
      <4> QED BY <4>1, <4>3, <4>4, <4>5
    <3> QED BY <3>1, <3>2
  <2>9. \A d : <<d, New>>[1] = d /\ <<d, New>>[2] = New
    OBVIOUS
  <2>10. Waiting'
    <3>1. (\A j \in DOMAIN holder[S] :
             holder[S][j][2] = New /\ ~Door(holder[S][j][1]))'
      BY <2>5, <2>8, <2>9 DEF Waiting
    <3>2. \A i, j \in DOMAIN holder'[S] : holder'[S][i][1] = holder'[S][j][1] =>
            i = j \/ holder'[S][i][1] \in again'
      BY <2>8, <2>9 DEF Waiting
    <3>3. (m[S] # None => \E d \in Clients : m[S] = <<d, New>> /\ ~Door(d))'
      BY <1>2, <2>5 DEF Waiting
    <3> QED BY <1>2, <3>1, <3>2, <3>3 DEF Waiting
  <2>11. Placed'
    <3> SUFFICES ASSUME NEW w \in Workers, NEW d \in Clients, With(w, d)'
                 PROVE  /\ ~Door(d)' /\ pc'[w] \notin {"none", "free", "lost"}
                        /\ \A j \in DOMAIN holder'[S] :
                             holder'[S][j][1] = d => d \in again'
      BY DEF Placed
    <3>1. With(w, d) /\ pc'[w] = pc[w]
      BY <2>4, ApartStep DEF Apart
    <3>2. ~Door(d) /\ pc[w] \notin {"none", "free", "lost"}
      BY <3>1 DEF Placed
    <3>3. \A j \in DOMAIN holder[S] : holder[S][j][1] = d => d \in again
      BY <1>1, <3>1, NotMarking
    <3> QED BY <2>5, <2>8, <2>9, <3>1, <3>2, <3>3
  <2>12. Offered'
    BY <1>1, <2>4, ApartStep, NotMarking DEF Apart, Offered, Typed, Away
  <2> QED BY <2>4, <2>6, <2>7, <2>10, <2>11, <2>12, ApartStep
<1> QED BY <1>4, <1>5

\* A client moves from the backlog to the selector of S.
LEMMA AcceptStep == ASSUME IInv, Typed', Accept PROVE IInv'
<1> USE DEF IInv
<1>1. /\ pc[S] = "sense" /\ backlog # << >>
      /\ UNCHANGED <<linked, gone, sock, sent, again, holder, ctrl, created,
                     available, chosen>>
      /\ keys' = [keys EXCEPT ![S] = keys[S] \cup {Head(backlog)}]
      /\ backlog' = Tail(backlog)
      /\ Sensed(S, S, m[S])
  BY DEF Accept, clients, closed, busy, Doors
<1>2. /\ selected' = [selected EXCEPT ![S] = selected[S] \ {S}]
      /\ m' = [m EXCEPT ![S] = m'[S]] /\ m'[S] \in {m[S], None}
      /\ pc' = [pc EXCEPT ![S] = pc'[S]] /\ pc'[S] \in {"sense", "handle"}
  BY <1>1, Ids DEF Sensed, Goto, AfterSensor, Typed
<1>3. Apart
  BY <1>1, <1>2, Ids DEF Apart, Typed
<1> DEFINE c == Head(backlog)
<1>4. /\ c = backlog[1] /\ 1 \in DOMAIN backlog /\ c \in Clients
      /\ \A i \in DOMAIN backlog :
           i # 1 => i - 1 \in DOMAIN backlog' /\ backlog'[i - 1] = backlog[i]
      /\ \A i \in DOMAIN backlog' : /\ i \in Nat /\ i >= 1 /\ i + 1 \in DOMAIN backlog
                                    /\ backlog'[i] = backlog[i + 1]
  <2>1. backlog \in Seq(Clients) /\ backlog # << >>
    BY <1>1 DEF Typed
  <2> QED BY <1>1, <2>1, Rest
<1>5. keys'[S] = keys[S] \cup {c} /\ S \notin selected'[S]
  BY <1>1, <1>2, Ids DEF Typed
<1> HIDE DEF c
<1>6. \A d : (Door(d)' <=> Door(d)) /\ (Listed(d)' <=> Listed(d))
  <2>1. ASSUME NEW d, Listed(d) PROVE Listed(d)'
    <3>1. CASE d \in keys[S]
      BY <1>5, <3>1 DEF Listed
    <3>2. ASSUME NEW j \in DOMAIN backlog, backlog[j] = d PROVE Listed(d)'
      <4>1. CASE j = 1
        BY <1>4, <1>5, <3>2, <4>1 DEF Listed
      <4>2. CASE j # 1
        <5>1. j - 1 \in DOMAIN backlog' /\ backlog'[j - 1] = d
          BY <1>4, <3>2, <4>2
        <5> QED BY <5>1 DEF Listed
      <4> QED BY <4>1, <4>2
    <3> QED BY <2>1, <3>1, <3>2 DEF Listed
  <2>2. ASSUME NEW d, Listed(d)' PROVE Listed(d)
    BY <1>1, <1>4, <1>5, <2>2 DEF Listed
  <2> QED BY <1>1, <2>1, <2>2 DEF Door
<1>7. Doors'
  <2>1. \A i, j \in DOMAIN backlog' : backlog'[i] = backlog'[j] => i = j
    <3> SUFFICES ASSUME NEW i \in DOMAIN backlog', NEW j \in DOMAIN backlog',
                        backlog'[i] = backlog'[j]
                 PROVE  i = j
      OBVIOUS
    <3>1. i + 1 = j + 1
      BY <1>4 DEF Doors
    <3> QED BY <1>4, <3>1
  <2>2. ASSUME NEW i \in DOMAIN backlog'
        PROVE  backlog'[i] \in linked' /\ backlog'[i] \notin keys'[S]
    <3>1. i + 1 # 1 /\ i + 1 \in DOMAIN backlog /\ backlog'[i] = backlog[i + 1]
      BY <1>4
    <3>2. backlog[i + 1] # backlog[1]
      BY <1>4, <3>1 DEF Doors
    <3> QED BY <1>1, <1>4, <1>5, <3>1, <3>2 DEF Doors
  <2>3. keys'[S] \subseteq linked'
    BY <1>1, <1>4, <1>5 DEF Doors
  <2>4. \A d \in linked' \ gone' : sent'[d] = 0 => Listed(d)'
    BY <1>1, <1>6 DEF Doors
  <2> QED BY <1>5, <2>1, <2>2, <2>3, <2>4 DEF Doors
<1>8. Sockets'
  BY <1>1, <1>6 DEF Sockets
<1>9. Waiting'
  BY <1>1, <1>2, <1>6 DEF Waiting
<1>10. Placed'
  <2> SUFFICES ASSUME NEW w \in Workers, NEW d \in Clients, With(w, d)'
               PROVE  /\ ~Door(d)' /\ pc'[w] \notin {"none", "free", "lost"}
                      /\ \A j \in DOMAIN holder'[S] :
                           holder'[S][j][1] = d => d \in again'
    BY DEF Placed
  <2>1. With(w, d) /\ pc'[w] = pc[w]
    BY <1>3, ApartStep DEF Apart
  <2>2. ~Door(d) /\ pc[w] \notin {"none", "free", "lost"}
    BY <2>1 DEF Placed
  <2>3. \A j \in DOMAIN holder[S] : holder[S][j][1] = d => d \in again
    BY <1>1, <2>1, NotMarking
  <2> QED BY <1>1, <1>6, <2>1, <2>2, <2>3
<1>11. Offered'
  BY <1>1, <1>3, ApartStep, NotMarking DEF Apart, Offered, Typed, Away
<1> QED BY <1>3, <1>7, <1>8, <1>9, <1>10, <1>11, ApartStep

\* S reads NEW_CONNECTION: the client goes from the door to its holder.
LEMMA ServiceReadStep ==
  ASSUME IInv, Typed', NEW c \in Clients, Read(S, c) PROVE IInv'
<1> USE DEF IInv
<1>1. /\ pc[S] = "sense" /\ c \in keys[S] /\ sock[c] # << >> /\ c \in linked
      /\ \A j \in DOMAIN backlog : backlog[j] # c
  BY DEF Read, Valid, Doors
<1>2. Door(c)
  BY <1>1 DEF Door, Listed
<1>3. /\ sock[c] \in Seq(New .. Close) /\ Len(sock[c]) = sent[c]
      /\ \A j \in DOMAIN sock[c] : sock[c][j] = j
  BY <1>2 DEF Typed, Sockets
<1>4. /\ Head(sock[c]) = sock[c][1] /\ 1 \in DOMAIN sock[c] /\ Len(sock[c]) \in Nat
      /\ Len(sock[c]) = Len(Tail(sock[c])) + 1
      /\ \A j \in DOMAIN Tail(sock[c]) : /\ j \in Nat /\ j >= 1
                                         /\ j + 1 \in DOMAIN sock[c]
                                         /\ Tail(sock[c])[j] = sock[c][j + 1]
  BY <1>1, <1>3, Rest
<1>5. /\ Head(sock[c]) = New /\ \A j \in DOMAIN Tail(sock[c]) : Tail(sock[c])[j] > New
  BY <1>3, <1>4, Ids
<1>6. sent[c] >= 1
  <2>1. Len(sock[c]) # 0
    BY <1>1, <1>3, EmptySeq
  <2> QED BY <1>3, <1>4, <2>1
<1>7. /\ UNCHANGED <<backlog, linked, gone, sent, again, ctrl, created, available,
                     chosen>>
      /\ sock' = [sock EXCEPT ![c] = Tail(sock[c])]
      /\ keys' = [keys EXCEPT ![S] = keys[S] \ {c}]
      /\ holder' = [holder EXCEPT ![S] = Append(holder[S], <<c, New>>)]
      /\ Sensed(S, c, <<c, New>>)
  BY <1>5 DEF Read, clients, closed, busy
<1>8. /\ selected' = [selected EXCEPT ![S] = selected[S] \ {c}]
      /\ m' = [m EXCEPT ![S] = m'[S]] /\ m'[S] \in {<<c, New>>, None}
      /\ pc' = [pc EXCEPT ![S] = pc'[S]] /\ pc'[S] \in {"sense", "handle"}
  BY <1>7, Ids DEF Sensed, Goto, AfterSensor, Typed
<1>9. Apart
  BY <1>7, <1>8, Ids DEF Apart, Typed
<1>10. keys'[S] = keys[S] \ {c} /\ selected'[S] \subseteq selected[S]
  BY <1>7, <1>8, Ids DEF Typed
<1>11. \A d : /\ Listed(d)' <=> Listed(d) /\ d # c
              /\ Door(d)' <=> Door(d) /\ d # c
  <2>1. \A d : Listed(d)' <=> Listed(d) /\ d # c
    BY <1>1, <1>7, <1>10 DEF Listed
  <2>2. sent[c] # 0
    BY <1>6
  <2> QED BY <1>1, <1>7, <2>1, <2>2 DEF Door
<1>12. Doors'
  <2>1. sent[c] # 0
    BY <1>6
  <2> QED BY <1>7, <1>10, <1>11, <2>1 DEF Doors
<1>13. Sockets'
  <2>1. /\ \A d \in Clients : d # c => sock'[d] = sock[d]
        /\ sock'[c] = Tail(sock[c])
    BY <1>7 DEF Typed
  <2>2. \A d \in Clients : d # c =>
          IF Door(d)'
          THEN /\ Len(sock'[d]) = sent'[d]
               /\ \A j \in DOMAIN sock'[d] : sock'[d][j] = j
          ELSE sent'[d] >= 1 /\ \A j \in DOMAIN sock'[d] : sock'[d][j] > New
    BY <1>7, <1>11, <2>1 DEF Sockets
  <2>3. ~Door(c)' /\ sent'[c] >= 1 /\ \A j \in DOMAIN sock'[c] : sock'[c][j] > New
    BY <1>5, <1>6, <1>7, <1>11, <2>1
  <2> QED BY <2>2, <2>3 DEF Sockets
<1>14. /\ Len(holder[S]) \in Nat /\ DOMAIN holder[S] = 1 .. Len(holder[S])
       /\ DOMAIN holder'[S] = 1 .. Len(holder[S]) + 1
       /\ \A j \in 1 .. Len(holder[S]) : holder'[S][j] = holder[S][j]
       /\ holder'[S][Len(holder[S]) + 1] = <<c, New>> /\ holder'[S] # << >>
  <2>1. <<c, New>> \in Seen /\ holder[S] \in Seq(Seen)
    <3>1. <<c, New>> \in Seen
      BY Ids DEF Seen
    <3> QED BY <3>1, Ids DEF Typed
  <2>2. holder'[S] = Append(holder[S], <<c, New>>)
    BY <1>7, Ids DEF Typed
  <2> QED BY <2>1, <2>2, Appended
<1>15. \A j \in DOMAIN holder'[S] :
         \/ j \in DOMAIN holder[S] /\ holder'[S][j] = holder[S][j]
         \/ j = Len(holder[S]) + 1 /\ holder'[S][j] = <<c, New>>
  BY <1>14
<1>16. <<c, New>>[1] = c /\ <<c, New>>[2] = New
  OBVIOUS
<1>17. Waiting'
  <2>1. \A j \in DOMAIN holder[S] : holder[S][j][1] # c
    BY <1>2 DEF Waiting
  <2>2. (\A j \in DOMAIN holder[S] : holder[S][j][2] = New /\ ~Door(holder[S][j][1]))'
    BY <1>11, <1>15, <1>16 DEF Waiting
  <2>3. \A i, j \in DOMAIN holder'[S] : holder'[S][i][1] = holder'[S][j][1] =>
          i = j \/ holder'[S][i][1] \in again'
    BY <1>7, <1>15, <1>16, <2>1 DEF Waiting
  <2>4. (m[S] # None => \E d \in Clients : m[S] = <<d, New>> /\ ~Door(d))'
    BY <1>8, <1>11
  <2> QED BY <1>8, <2>2, <2>3, <2>4 DEF Waiting
<1>18. Placed'
  <2> SUFFICES ASSUME NEW w \in Workers, NEW d \in Clients, With(w, d)'
               PROVE  /\ ~Door(d)' /\ pc'[w] \notin {"none", "free", "lost"}
                      /\ \A j \in DOMAIN holder'[S] :
                           holder'[S][j][1] = d => d \in again'
    BY DEF Placed
  <2>1. With(w, d) /\ pc'[w] = pc[w]
    BY <1>9, ApartStep DEF Apart
  <2>2. ~Door(d) /\ d # c /\ pc[w] \notin {"none", "free", "lost"}
    BY <1>2, <2>1 DEF Placed
  <2>3. \A j \in DOMAIN holder[S] : holder[S][j][1] = d => d \in again
    BY <1>1, <2>1, NotMarking
  <2> QED BY <1>7, <1>11, <1>15, <1>16, <2>1, <2>2, <2>3
<1>19. Offered'
  BY <1>1, <1>7, <1>9, ApartStep, NotMarking DEF Apart, Offered, Typed, Away
<1> QED BY <1>9, <1>12, <1>13, <1>17, <1>18, <1>19, ApartStep

\* What S is handling, and the rest of its holder.
LEMMA HeldByS ==
  ASSUME IInv, holder[S] # << >>
  PROVE  /\ Client(S) \in Clients /\ ~Door(Client(S))
         /\ 1 \in DOMAIN holder[S] /\ holder[S][1][1] = Client(S)
         /\ \A j \in DOMAIN holder[S] : holder[S][j][1] = Client(S) =>
              j = 1 \/ Client(S) \in again
         /\ \A j \in DOMAIN Tail(holder[S]) :
              /\ j \in Nat /\ j >= 1
              /\ j + 1 \in DOMAIN holder[S] /\ Tail(holder[S])[j] = holder[S][j + 1]
<1> USE DEF IInv
<1>1. /\ Head(holder[S]) = holder[S][1] /\ Head(holder[S]) \in Seen
      /\ 1 \in DOMAIN holder[S]
      /\ \A j \in DOMAIN Tail(holder[S]) :
           /\ j \in Nat /\ j >= 1
           /\ j + 1 \in DOMAIN holder[S] /\ Tail(holder[S])[j] = holder[S][j + 1]
  <2>1. holder[S] \in Seq(Seen)
    BY Ids DEF Typed
  <2> QED BY <2>1, Rest
<1>2. Client(S) = holder[S][1][1] /\ Client(S) \in Clients
  BY <1>1 DEF Client, Seen
<1> QED BY <1>1, <1>2 DEF Waiting

\* What remains of Waiting when S is done with its first message.
LEMMA WaitingTail ==
  ASSUME IInv, holder[S] # << >>, UNCHANGED <<backlog, linked, sent, again>>,
         keys'[S] = keys[S], m'[S] = m[S], holder'[S] = Tail(holder[S]),
         pc'[S] = "handle"
  PROVE  Waiting'
<1> USE DEF IInv
<1>1. \A c : Door(c)' <=> Door(c)
  BY SameDoor
<1>2. \A j \in DOMAIN holder'[S] : /\ j \in Nat /\ j + 1 \in DOMAIN holder[S]
                                   /\ holder'[S][j] = holder[S][j + 1]
  BY HeldByS
<1>3. (\A j \in DOMAIN holder[S] : holder[S][j][2] = New /\ ~Door(holder[S][j][1]))'
  BY <1>1, <1>2 DEF Waiting
<1>4. ASSUME NEW i \in DOMAIN holder'[S], NEW j \in DOMAIN holder'[S],
             holder'[S][i][1] = holder'[S][j][1]
      PROVE  i = j \/ holder'[S][i][1] \in again'
  <2>1. i + 1 = j + 1 \/ holder'[S][i][1] \in again'
    BY <1>2, <1>4 DEF Waiting
  <2> QED BY <1>2, <2>1
<1> QED BY <1>1, <1>3, <1>4 DEF Waiting

\* S tells a worker that is free of its first client.
LEMMA TellStep ==
  ASSUME IInv, pc[S] # "mark", holder[S] # << >>, NEW u \in Workers, Empty(u),
         NEW c \in Clients, c = Client(S), Told(u, c)', pc'[u] \notin Away,
         again' = again,
         \A w \in Workers : w # u =>
           /\ keys'[w] = keys[w] /\ holder'[w] = holder[w] /\ ctrl'[w] = ctrl[w]
           /\ pc'[w] = pc[w]
  PROVE  /\ Phases'
         /\ \A w \in Workers : w # u =>
              /\ Empty(w)' <=> Empty(w)
              /\ \A d \in Clients : With(w, d)' <=> With(w, d)
         /\ \A d \in Clients : With(u, d)' => d = c
<1> USE DEF IInv
<1>1. \A w \in Workers : With(w, c) => c \in again
  BY HeldByS, NotMarking
<1>2. \A w \in Workers : w # u =>
        /\ Empty(w)' <=> Empty(w)
        /\ \A d \in Clients : With(w, d)' <=> With(w, d)
  BY DEF Empty, With, Told, Taken, Open
<1>3. /\ ctrl'[u] = <<c>> /\ keys'[u] = {} /\ holder'[u] = << >>
  BY DEF Told
<1>4. \A d \in Clients : With(u, d)' => d = c
  <2>1. \A d : <<d>>[1] = d /\ <<d>> # << >>
    OBVIOUS
  <2> QED BY <1>3, <2>1 DEF With, Told, Taken, Open
<1>5. With(u, c)'
  BY <1>3 DEF With, Told
<1>6. \A w \in Workers : Empty(w)' \/ \E d \in Clients : With(w, d)'
  BY <1>2, <1>5 DEF Phases
<1>7. \A v, w \in Workers, d \in Clients :
        With(v, d)' /\ With(w, d)' => v = w \/ d \in again
  BY <1>1, <1>2, <1>4 DEF Phases
<1> QED BY <1>2, <1>4, <1>6, <1>7 DEF Phases

\* A new worker starts with the client S handles.
LEMMA CreateStep == ASSUME IInv, Typed', Create PROVE IInv'
<1> USE DEF IInv
<1>0. holder[S] # << >>
  BY DEF Create, Waiting
<1> PICK c \in Clients : c = Client(S)
  BY <1>0, HeldByS
<1> PICK u : u = created + 1
  OBVIOUS
<1>1. /\ pc[S] = "scan" /\ holder[S] # << >> /\ created' = u
      /\ UNCHANGED <<backlog, linked, gone, sock, sent, keys, selected, m, again,
                     available, chosen>>
      /\ ctrl' = [ctrl EXCEPT ![u] = <<c>>]
      /\ pc' = [pc EXCEPT ![u] = "select", ![S] = "handle"]
      /\ holder' = [holder EXCEPT ![S] = Tail(holder[S])]
  BY DEF Create, Handled, net, clients, sensor, closed, Waiting
<1>2. /\ pc'[S] = "handle" /\ holder'[S] = Tail(holder[S])
      /\ \A w \in Workers : /\ holder'[w] = holder[w]
                            /\ w # u => ctrl'[w] = ctrl[w] /\ pc'[w] = pc[w]
                            /\ w = u => ctrl'[w] = <<c>> /\ pc'[w] = "select"
  BY <1>1, Ids DEF Typed
<1>3. \A d : (Door(d)' <=> Door(d)) /\ (Listed(d)' <=> Listed(d))
  BY <1>1, SameDoor
<1>4. Doors' /\ Sockets'
  BY <1>1, <1>3 DEF Doors, Sockets
<1>5. Waiting'
  BY <1>1, <1>2, WaitingTail
<1>6. u \in Workers => pc[u] = "none" /\ Empty(u) /\ u # S
  BY Ids DEF Loops, Typed
<1>7. /\ c \in Clients /\ ~Door(c)
      /\ \A j \in DOMAIN holder[S] : holder[S][j][1] = c => j = 1 \/ c \in again
      /\ \A j \in DOMAIN holder'[S] :
           /\ j \in Nat /\ j >= 1
           /\ j + 1 \in DOMAIN holder[S] /\ holder'[S][j] = holder[S][j + 1]
  <2>1. /\ ~Door(c)
        /\ \A j \in DOMAIN holder[S] : holder[S][j][1] = c => j = 1 \/ c \in again
        /\ \A j \in DOMAIN Tail(holder[S]) :
             /\ j \in Nat /\ j >= 1
             /\ j + 1 \in DOMAIN holder[S] /\ Tail(holder[S])[j] = holder[S][j + 1]
    BY <1>0, HeldByS
  <2> QED BY <1>2, <2>1
<1>8. \A j \in DOMAIN holder'[S] : holder'[S][j][1] = c => c \in again
  BY <1>7
<1>9. \A w \in Workers, d \in Clients : With(w, d) =>
        \A j \in DOMAIN holder'[S] : holder'[S][j][1] = d => d \in again
  BY <1>1, <1>7, NotMarking
<1>10. /\ Phases'
       /\ \A w \in Workers : w # u =>
            /\ Empty(w)' <=> Empty(w)
            /\ \A d \in Clients : With(w, d)' <=> With(w, d)
       /\ u \in Workers => \A d \in Clients : With(u, d)' => d = c
  <2>1. CASE u \notin Workers
    <3>1. \A w \in Workers : /\ Empty(w)' <=> Empty(w)
                             /\ \A d \in Clients : With(w, d)' <=> With(w, d)
      BY <1>1, <1>2, <2>1 DEF Empty, With, Told, Taken, Open
    <3>2. again' = again
      BY <1>1
    <3> QED BY <2>1, <3>1, <3>2 DEF Phases
  <2>2. CASE u \in Workers
    <3>1. Told(u, c)' /\ pc'[u] \notin Away
      BY <1>1, <1>2, <1>6, <2>2 DEF Told, Empty, Away
    <3>2. \A w \in Workers : w # u =>
            /\ keys'[w] = keys[w] /\ holder'[w] = holder[w] /\ ctrl'[w] = ctrl[w]
            /\ pc'[w] = pc[w]
      BY <1>1, <1>2
    <3>3. pc[S] # "mark" /\ holder[S] # << >> /\ Empty(u)
      BY <1>1, <1>6, <2>2
    <3>4. /\ Phases'
          /\ \A w \in Workers : w # u =>
               /\ Empty(w)' <=> Empty(w)
               /\ \A d \in Clients : With(w, d)' <=> With(w, d)
          /\ \A d \in Clients : With(u, d)' => d = c
      BY <1>1, <2>2, <3>1, <3>2, <3>3, TellStep
    <3> QED BY <3>4
  <2> QED BY <2>1, <2>2
<1>11. Placed'
  <2> SUFFICES ASSUME NEW w \in Workers, NEW d \in Clients, With(w, d)'
               PROVE  /\ ~Door(d)' /\ pc'[w] \notin {"none", "free", "lost"}
                      /\ \A j \in DOMAIN holder'[S] :
                           holder'[S][j][1] = d => d \in again'
    BY DEF Placed
  <2>1. CASE w = u
    BY <1>1, <1>2, <1>3, <1>7, <1>8, <1>10, <2>1
  <2>2. CASE w # u
    BY <1>1, <1>2, <1>3, <1>9, <1>10, <2>2 DEF Placed
  <2> QED BY <2>1, <2>2
<1>12. Loops'
  <2> SUFFICES ASSUME NEW w \in Workers
               PROVE  /\ pc'[w] \in {"select", "sense"} => holder'[w] = << >>
                      /\ pc'[w] = "sense" => \E d \in Clients : selected'[w] = {d}
                      /\ pc'[w] \in {"none", "free", "lost"} => Empty(w)'
                      /\ w > created' => pc'[w] = "none"
                      /\ m'[w] = None
    BY DEF Loops
  <2>1. CASE w = u
    <3>1. u \in Nat /\ ~(u > created')
      BY <1>1 DEF Typed
    <3>2. pc'[w] = "select" /\ holder'[w] = holder[w] /\ m'[w] = m[w]
      BY <1>1, <1>2, <2>1
    <3>3. holder[w] = << >> /\ m[w] = None
      BY <1>6, <2>1 DEF Loops, Empty
    <3> QED BY <2>1, <3>1, <3>2, <3>3
  <2>2. CASE w # u
    <3>1. w > created' => w > created
      BY <1>1, Ids DEF Typed
    <3>2. /\ pc'[w] = pc[w] /\ holder'[w] = holder[w] /\ m'[w] = m[w]
          /\ selected'[w] = selected[w]
          /\ Empty(w)' <=> Empty(w)
      BY <1>1, <1>2, <1>10, <2>2
    <3> QED BY <3>1, <3>2 DEF Loops
  <2> QED BY <2>1, <2>2
<1>13. Offered'
  <2>1. \A w \in available : w \in Workers /\ Empty(w) /\ pc[w] \notin Away /\ w # u
    BY <1>1, <1>6, NotMarking DEF Typed, Away
  <2> QED BY <1>1, <1>2, <1>10, <2>1 DEF Offered, Away
<1> QED BY <1>4, <1>5, <1>10, <1>11, <1>12, <1>13

\* An available worker gets the client S handles.
LEMMA PushStep == ASSUME IInv, Typed', PushCtrlMessage PROVE IInv'
<1> USE DEF IInv
<1>0. holder[S] # << >> /\ chosen \in available
  BY DEF PushCtrlMessage, Waiting
<1> PICK c \in Clients : c = Client(S)
  BY <1>0, HeldByS
<1> PICK u : u = chosen
  OBVIOUS
<1>1. /\ pc[S] = "push" /\ holder[S] # << >> /\ chosen \in available /\ u \in Workers
      /\ UNCHANGED <<backlog, linked, gone, sock, sent, keys, selected, m, again,
                     holder, created, available, chosen>>
      /\ ctrl' = [ctrl EXCEPT ![u] = <<c>> \o ctrl[u]]
      /\ pc' = [pc EXCEPT ![S] = "mark"]
  BY DEF PushCtrlMessage, Goto, net, clients, sensor, closed, busy, Waiting, Typed
<1>2. Empty(u) /\ pc[u] \notin Away
  BY <1>1, NotMarking
<1>3. c \in Clients /\ ~Door(c)
      /\ \A j \in DOMAIN holder[S] : holder[S][j][1] = c => j = 1 \/ c \in again
  BY <1>1, HeldByS
<1>4. /\ pc'[S] = "mark" /\ ctrl'[u] = <<c>>
      /\ \A w \in Workers : /\ pc'[w] = pc[w]
                            /\ w # u => ctrl'[w] = ctrl[w]
  <2>1. <<c>> \o ctrl[u] = <<c>>
    BY <1>2, <1>3, Single DEF Empty
  <2> QED BY <1>1, <2>1, Ids DEF Typed
<1>5. \A d : (Door(d)' <=> Door(d)) /\ (Listed(d)' <=> Listed(d))
  BY <1>1, SameDoor
<1>6. Doors' /\ Sockets'
  BY <1>1, <1>5 DEF Doors, Sockets
<1>7. Waiting'
  BY <1>1, <1>4, <1>5 DEF Waiting
<1>8. Told(u, c)'
  BY <1>1, <1>2, <1>4 DEF Told, Empty
<1>9. /\ Phases'
      /\ \A w \in Workers : w # u =>
           /\ Empty(w)' <=> Empty(w)
           /\ \A d \in Clients : With(w, d)' <=> With(w, d)
      /\ \A d \in Clients : With(u, d)' => d = c
  BY <1>1, <1>2, <1>4, <1>8, TellStep
<1>10. Placed'
  <2> SUFFICES ASSUME NEW w \in Workers, NEW d \in Clients, With(w, d)'
               PROVE  /\ ~Door(d)' /\ pc'[w] \notin {"none", "free", "lost"}
                      /\ \A j \in DOMAIN holder'[S] : holder'[S][j][1] = d =>
                           d \in again \/ (j = 1 /\ w = u)
    BY <1>1, <1>4 DEF Placed
  <2>1. CASE w = u
    BY <1>1, <1>2, <1>3, <1>4, <1>5, <1>9, <2>1 DEF Away
  <2>2. CASE w # u
    BY <1>1, <1>4, <1>5, <1>9, <2>2, NotMarking DEF Placed
  <2> QED BY <2>1, <2>2
<1>11. Loops'
  <2>1. pc[u] \notin Away /\ ~(u > created)
    BY <1>1, <1>2 DEF Loops, Away
  <2> QED BY <1>1, <1>4, <1>9, <2>1 DEF Loops, Away
<1>12. Offered'
  BY <1>1, <1>4, <1>9, NotMarking DEF Offered, Typed, Away
<1> QED BY <1>6, <1>7, <1>9, <1>10, <1>11, <1>12

\* The worker is told before it is marked: until then it only seems available.
LEMMA MarkStep == ASSUME IInv, Typed', MarkThreadAsNotFree PROVE IInv'
<1> USE DEF IInv
<1>1. /\ pc[S] = "mark" /\ holder[S] # << >> /\ available' = available \ {chosen}
      /\ UNCHANGED <<backlog, linked, gone, sock, sent, keys, selected, m, again,
                     ctrl, created, chosen>>
      /\ holder' = [holder EXCEPT ![S] = Tail(holder[S])]
      /\ pc' = [pc EXCEPT ![S] = "handle"]
  BY DEF MarkThreadAsNotFree, Handled, Goto, net, clients, sensor, closed, Waiting
<1>2. Apart /\ pc'[S] = "handle" /\ holder'[S] = Tail(holder[S])
  BY <1>1, Ids DEF Apart, Typed
<1>3. \A d : (Door(d)' <=> Door(d)) /\ (Listed(d)' <=> Listed(d))
  BY <1>1, SameDoor
<1>4. Doors' /\ Sockets'
  BY <1>1, <1>3 DEF Doors, Sockets
<1>5. Waiting'
  BY <1>1, <1>2, WaitingTail
<1>6. \A j \in DOMAIN holder'[S] :
        /\ j \in Nat /\ j >= 1
        /\ j + 1 \in DOMAIN holder[S] /\ holder'[S][j] = holder[S][j + 1]
  BY <1>1, <1>2, HeldByS
<1>7. \A w \in Workers, d \in Clients : With(w, d) =>
        \A j \in DOMAIN holder'[S] : holder'[S][j][1] = d => d \in again
  <2> SUFFICES ASSUME NEW w \in Workers, NEW d \in Clients, With(w, d),
                      NEW j \in DOMAIN holder'[S], holder'[S][j][1] = d,
                      d \notin again
               PROVE  FALSE
    OBVIOUS
  <2>1. j + 1 = 1
    BY <1>6 DEF Placed
  <2> QED BY <1>6, <2>1
<1>8. Placed'
  BY <1>1, <1>2, <1>3, <1>7, ApartStep DEF Apart, Placed
<1>9. Offered'
  BY <1>1, <1>2, ApartStep DEF Apart, Offered, Typed
<1> QED BY <1>2, <1>4, <1>5, <1>8, <1>9, ApartStep

-----------------------------------------------------------------------------
(* The theorems.                                                           *)

\* The invariant holds before the first client connects.
LEMMA Start == Init => IInv
<1> SUFFICES ASSUME Init PROVE IInv
  OBVIOUS
<1> USE Ids
<1>1. Cardinality({}) = 0 /\ Cardinality({1}) = 1
  BY FS_EmptySet, FS_Singleton
<1>2. /\ available \subseteq Workers /\ created \in Nat
      /\ available = {} => created = 0
      /\ available # {} => available = {1} /\ created = 1
  <2>1. available = {} \/ available = {1}
    BY DEF Init
  <2>2. created = Cardinality(available)
    BY DEF Init
  <2> QED BY <1>1, <2>1, <2>2
<1>3. Typed
  <2>1. << >> \in Seq(Clients) /\ << >> \in Seq(New .. Close) /\ << >> \in Seq(Seen)
    BY EmptySeq
  <2>2. /\ backlog \in Seq(Clients) /\ linked \subseteq Clients /\ gone \subseteq Clients
        /\ sock \in [Clients -> Seq(New .. Close)] /\ sent \in [Clients -> Nat]
    BY <2>1 DEF Init
  <2>3. /\ keys \in [Threads -> SUBSET Clients]
        /\ selected \in [Threads -> SUBSET (Clients \cup {S})] /\ DOMAIN m = Threads
    BY DEF Init
  <2>4. holder \in [Threads -> Seq(Seen)] /\ ctrl \in [Workers -> Seq(Clients)]
    BY <2>1 DEF Init
  <2>5. pc \in [Threads -> Places] /\ scan \in Nat
    BY DEF Init, Places
  <2> QED BY <1>2, <2>2, <2>3, <2>4, <2>5 DEF Typed
<1>4. /\ backlog = << >> /\ linked = {} /\ gone = {} /\ keys[S] = {} /\ selected[S] = {}
      /\ holder[S] = << >> /\ pc[S] = "select" /\ m[S] = None
      /\ \A c \in Clients : sock[c] = << >> /\ sent[c] = 0
      /\ \A w \in Workers : /\ keys[w] = {} /\ ctrl[w] = << >> /\ holder[w] = << >>
                            /\ m[w] = None
                            /\ pc[w] = IF w \in available THEN "select" ELSE "none"
  BY DEF Init
<1>5. DOMAIN << >> = {} /\ Len(<< >>) = 0
  OBVIOUS
<1>6. \A c \in Clients : Door(c)
  BY <1>4 DEF Door
<1>7. Doors /\ Sockets
  BY <1>4, <1>5, <1>6 DEF Doors, Sockets
<1>8. Waiting
  BY <1>4, <1>5 DEF Waiting
<1>9. \A w \in Workers : Empty(w) /\ \A c \in Clients : ~With(w, c)
  BY <1>4, WithOne DEF Empty
<1>10. Phases /\ Placed
  BY <1>9 DEF Phases, Placed
<1>11. Loops
  <2>1. \A w \in Workers : w > created => w \notin available
    BY <1>2
  <2> QED BY <1>4, <1>9, <2>1 DEF Loops
<1>12. Offered
  BY <1>2, <1>4, <1>9 DEF Offered
<1> QED BY <1>3, <1>7, <1>8, <1>10, <1>11, <1>12 DEF IInv

\* A step that changes nothing.
LEMMA Still == IInv /\ UNCHANGED vars => IInv'
<1> SUFFICES ASSUME IInv, UNCHANGED vars PROVE IInv'
  OBVIOUS
<1> USE DEF IInv
<1>1. /\ UNCHANGED <<backlog, linked, gone, sock, sent, keys, selected, m, again, pc,
                     holder, ctrl, created, available, scan, chosen>>
  BY DEF vars, net, clients, sensor, closed, busy
<1>2. Typed'
  BY <1>1 DEF Typed
<1>3. \A c : (Door(c)' <=> Door(c)) /\ (Listed(c)' <=> Listed(c))
  BY <1>1, SameDoor
<1>4. Doors' /\ Sockets'
  BY <1>1, <1>3 DEF Doors, Sockets, Typed
<1> QED BY <1>1, <1>2, <1>3, <1>4, ClientStep

\* Every step keeps the invariant.
LEMMA Step == IInv /\ [Next]_vars => IInv'
<1> SUFFICES ASSUME IInv, [Next]_vars PROVE IInv'
  OBVIOUS
<1>1. Typed'
  BY TypedStep
<1>2. CASE UNCHANGED vars
  BY <1>2, Still
<1>3. ASSUME NEW c \in Clients, NextC(c) PROVE IInv'
  BY <1>1, <1>3, ConnectStep, SendNextStep, LeaveStep DEF NextC
<1>4. ASSUME NEW w \in Workers, NextW(w) PROVE IInv'
  BY <1>1, <1>4, SelectStep, ReadStep, ReadEndStep, PopStep, EndHandlingStep,
     RegisterPhotonStep, HandleDataStep, CloseConnectionStep, MarkThreadAsFreeStep
     DEF NextW, Sense
<1>5. CASE NextS
  BY <1>1, <1>5, QuietSteps, AcceptStep, ServiceReadStep, ServiceEndStep, CreateStep,
     PushStep, MarkStep DEF NextS, Sense
<1> QED BY <1>2, <1>3, <1>4, <1>5 DEF Next

\* Where each client is, and what each thread has of it.
THEOREM Invariant == Spec => []IInv
<1>1. IInv /\ [Next]_vars => IInv'
  BY Step
<1> QED BY <1>1, Start, PTL DEF Spec

\* CRPService.getAvailableThread only returns threads without a connection,
\* although a thread is marked in a step of its own.
THEOREM OffersIdleThreads == Spec => []AvailableIsIdle
<1>1. IInv => AvailableIsIdle
  <2> SUFFICES ASSUME IInv PROVE AvailableIsIdle
    OBVIOUS
  <2>1. \A w : Empty(w) => Assigned(w) = {}
    BY DEF Empty, Assigned, ToSet
  <2> QED BY <2>1 DEF IInv, Waiting, Offered, AvailableIsIdle
<1> QED BY <1>1, Invariant, PTL

\* A thread is given one connection at a time, and a connection one thread,
\* however many clients connect and leave at once: except for a connection that
\* RemoteMessageSensor has added twice, after a client that said nothing.
THEOREM OneConnectionEach == Spec => []OneToOne
<1>1. IInv => OneToOne
  <2> SUFFICES ASSUME IInv PROVE OneToOne
    OBVIOUS
  <2>1. \A w : Empty(w) => Assigned(w) = {}
    BY DEF Empty, Assigned, ToSet
  <2>2. ASSUME NEW w, NEW c \in Clients, With(w, c) PROVE Assigned(w) = {c}
    <3>1. /\ ToSet(<<c>>) = {c} /\ ToSet(<< >>) = {}
          /\ \A i \in Nat : ToSet(<<<<c, i>>>>) = {<<c, i>>} /\ <<c, i>>[1] = c
      BY Single DEF ToSet
    <3>2. Register \in Nat /\ \A i \in New + 1 .. Close : i \in Nat
      BY Ids
    <3>3. \A i \in Nat : {x[1] : x \in ToSet(<<<<c, i>>>>)} = {c}
      BY <3>1
    <3> QED BY <2>2, <3>1, <3>2, <3>3 DEF With, Told, Taken, Open, Assigned
  <2>3. \A w \in Workers :
          \/ Assigned(w) = {}
          \/ \E c \in Clients : With(w, c) /\ Assigned(w) = {c}
    BY <2>1, <2>2 DEF IInv, Phases
  <2>4. \A w \in Workers : Cardinality(Assigned(w)) <= 1
    <3>1. Cardinality({}) <= 1 /\ \A c : Cardinality({c}) <= 1
      BY FS_EmptySet, FS_Singleton
    <3> QED BY <2>3, <3>1
  <2>5. \A v, w \in Workers : v # w => Assigned(v) \cap Assigned(w) \subseteq again
    BY <2>3 DEF IInv, Phases
  <2> QED BY <2>4, <2>5 DEF OneToOne
<1> QED BY <1>1, Invariant, PTL

-----------------------------------------------------------------------------
(* No more workers than clients.                                           *)

\* The steps after which S holds what it held, and all that were at the door
\* still are.
QuietNext ==
  \/ UNCHANGED vars \/ (\E c \in Clients : NextC(c)) \/ (\E w \in Workers : NextW(w))
  \/ Select(S) \/ EndHandling(S) \/ NewConnection \/ Scan \/ PushCtrlMessage
  \/ Accept

\* The other steps are four.
LEMMA Kinds ==
  [Next]_vars => \/ QuietNext \/ Create \/ MarkThreadAsNotFree
                 \/ \E c \in Clients : Read(S, c) \/ ReadEnd(S, c)
BY DEF Next, NextS, Sense, QuietNext

\* The clients that S has read of, or found gone.
Through == {c \in linked : ~Listed(c)}

\* A client that connects will be accepted first.
LEMMA ConnectThrough ==
  ASSUME IInv, NEW c \in Clients, Connect(c)
  PROVE  /\ \A d \in Clients : Door(d)' <=> Door(d)
         /\ Through' = Through
<1>1. /\ c \notin linked /\ linked' = linked \cup {c} /\ backlog' = Append(backlog, c)
      /\ keys' = keys /\ sent' = sent
  BY DEF Connect, sensor
<1>2. /\ DOMAIN backlog = 1 .. Len(backlog)
      /\ DOMAIN Append(backlog, c) = 1 .. Len(backlog) + 1 /\ Len(backlog) \in Nat
      /\ \A i \in 1 .. Len(backlog) : Append(backlog, c)[i] = backlog[i]
      /\ Append(backlog, c)[Len(backlog) + 1] = c
  <2>1. backlog \in Seq(Clients)
    BY DEF IInv, Typed
  <2> QED BY <2>1, Appended
<1>3. \A d : Listed(d)' <=> Listed(d) \/ d = c
  BY <1>1, <1>2 DEF Listed
<1> QED BY <1>1, <1>3 DEF Door, Through

\* One that is accepted was in the backlog.
LEMMA AcceptThrough ==
  ASSUME IInv, Accept
  PROVE  /\ \A d \in Clients : Door(d)' <=> Door(d)
         /\ Through' = Through
<1> DEFINE c == Head(backlog)
<1>1. /\ backlog # << >> /\ backlog \in Seq(Clients) /\ linked' = linked /\ sent' = sent
      /\ keys' = [keys EXCEPT ![S] = keys[S] \cup {c}] /\ backlog' = Tail(backlog)
  BY DEF Accept, clients, IInv, Doors, Typed
<1>2. /\ c = backlog[1] /\ 1 \in DOMAIN backlog
      /\ \A i \in DOMAIN backlog :
           i # 1 => i - 1 \in DOMAIN backlog' /\ backlog'[i - 1] = backlog[i]
      /\ \A i \in DOMAIN backlog' : i + 1 \in DOMAIN backlog /\ backlog'[i] = backlog[i + 1]
  BY <1>1, Rest
<1>3. keys'[S] = keys[S] \cup {c}
  BY <1>1, Ids DEF IInv, Typed
<1> HIDE DEF c
<1>4. ASSUME NEW d, Listed(d) PROVE Listed(d)'
  <2>1. CASE d \in keys[S] \/ d = c
    BY <1>1, <1>3, <2>1 DEF Listed
  <2>2. ASSUME NEW j \in DOMAIN backlog, backlog[j] = d, d # c PROVE Listed(d)'
    <3>1. j # 1
      BY <1>2, <2>2
    <3>2. j - 1 \in DOMAIN backlog' /\ backlog'[j - 1] = d
      BY <1>2, <2>2, <3>1
    <3> QED BY <3>2 DEF Listed
  <2> QED BY <1>4, <2>1, <2>2 DEF Listed
<1>5. ASSUME NEW d, Listed(d)' PROVE Listed(d)
  <2>1. CASE d \in keys'[S]
    BY <1>1, <1>2, <1>3, <2>1 DEF Listed
  <2>2. ASSUME NEW j \in DOMAIN backlog', backlog'[j] = d PROVE Listed(d)
    BY <1>2, <2>2 DEF Listed
  <2> QED BY <1>5, <2>1, <2>2 DEF Listed
<1> QED BY <1>1, <1>4, <1>5 DEF Door, Through

\* One that S reads of is not at the door any more, and the others are as before.
LEMMA ReadDoor ==
  ASSUME IInv, NEW c \in Clients, Read(S, c)
  PROVE  /\ Door(c) /\ ~Door(c)' /\ Head(sock[c]) = New /\ sock[c] # << >>
         /\ \A d \in Clients : d # c => (Door(d)' <=> Door(d))
         /\ c \notin Through /\ Through' = Through \cup {c}
<1>1. /\ c \in keys[S] /\ sock[c] # << >> /\ c \in linked
      /\ \A j \in DOMAIN backlog : backlog[j] # c
  BY DEF Read, Valid, IInv, Doors
<1>2. Door(c) /\ Listed(c)
  BY <1>1 DEF Door, Listed
<1>3. /\ sock[c] \in Seq(New .. Close) /\ \A j \in DOMAIN sock[c] : sock[c][j] = j
      /\ Len(sock[c]) = sent[c]
  BY <1>2 DEF IInv, Typed, Sockets
<1>4. Head(sock[c]) = sock[c][1] /\ 1 \in DOMAIN sock[c]
  BY <1>1, <1>3, Rest
<1>5. Head(sock[c]) = New
  BY <1>3, <1>4, Ids
<1>6. /\ keys' = [keys EXCEPT ![S] = keys[S] \ {c}]
      /\ backlog' = backlog /\ linked' = linked /\ sent' = sent
  BY <1>5 DEF Read, clients
<1>7. keys'[S] = keys[S] \ {c}
  BY <1>6, Ids DEF IInv, Typed
<1>8. sent[c] # 0
  BY <1>1, <1>3, EmptySeq
<1>9. \A d : Listed(d)' <=> Listed(d) /\ d # c
  BY <1>1, <1>6, <1>7 DEF Listed
<1> QED BY <1>1, <1>2, <1>5, <1>6, <1>8, <1>9 DEF Door, Through

\* One that S finds gone stays at the door, but is through with it.
LEMMA EndDoor ==
  ASSUME IInv, NEW c \in Clients, ReadEnd(S, c)
  PROVE  /\ \A d \in Clients : Door(d)' <=> Door(d)
         /\ \/ holder'[S] = holder[S] /\ Through' = Through
            \/ /\ c \notin Through /\ Through' = Through \cup {c}
               /\ \/ holder'[S] = holder[S]
                  \/ m[S] \in Seen /\ holder'[S] = Append(holder[S], m[S])
<1>1. UNCHANGED <<backlog, linked, sent>> /\ S \in Threads
  BY Ids DEF ReadEnd, net, clients
<1>2. CASE c \notin keys[S]
  <2>1. UNCHANGED <<keys, holder>>
    BY <1>2 DEF ReadEnd
  <2>2. \A d : (Door(d)' <=> Door(d)) /\ (Listed(d)' <=> Listed(d))
    BY <1>1, <2>1, SameDoor
  <2> QED BY <1>1, <2>1, <2>2 DEF Through
<1>3. CASE c \in keys[S]
  <2>1. /\ sock[c] = << >> /\ Listed(c) /\ Door(c) /\ c \in linked
        /\ \A j \in DOMAIN backlog : backlog[j] # c
        /\ keys' = [u \in Threads |-> keys[u] \ {c}]
        /\ \/ holder' = [holder EXCEPT ![S] = holder[S]]
           \/ m[S] # None /\ holder' = [holder EXCEPT ![S] = Append(holder[S], m[S])]
    BY <1>3 DEF ReadEnd, IInv, Doors, Door, Listed
  <2>2. sent[c] = 0
    <3>1. Len(<< >>) = 0
      OBVIOUS
    <3> QED BY <2>1, <3>1 DEF IInv, Sockets
  <2>3. keys'[S] = keys[S] \ {c}
    BY <1>1, <2>1
  <2>4. \A d : Listed(d)' <=> Listed(d) /\ d # c
    BY <1>1, <2>1, <2>3 DEF Listed
  <2>5. m[S] # None => m[S] \in Seen
    <3>1. New \in Register .. Close
      BY Ids
    <3>2. \A d \in Clients : <<d, New>> \in Seen
      BY <3>1 DEF Seen
    <3> QED BY <3>2 DEF IInv, Waiting
  <2>6. \/ holder'[S] = holder[S]
        \/ m[S] \in Seen /\ holder'[S] = Append(holder[S], m[S])
    BY <1>1, <2>1, <2>5 DEF IInv, Typed
  <2> QED BY <1>1, <2>1, <2>2, <2>4, <2>6 DEF Door, Through
<1> QED BY <1>2, <1>3

\* Who is at the door, and through, depends on these.
LEMMA SameThrough ==
  ASSUME UNCHANGED <<backlog, linked, sent>>, keys'[S] = keys[S]
  PROVE  (\A d : Door(d)' <=> Door(d)) /\ Through' = Through
BY SameDoor DEF Through

\* After a quiet step the same clients are at the door, and S holds what it held.
LEMMA QuietDoor ==
  ASSUME IInv, QuietNext
  PROVE  /\ \A d \in Clients : Door(d)' <=> Door(d)
         /\ Through' = Through /\ holder'[S] = holder[S]
<1> DEFINE Same == /\ \A d \in Clients : Door(d)' <=> Door(d)
                   /\ Through' = Through /\ holder'[S] = holder[S]
<1> USE Ids
<1>0. /\ holder \in [Threads -> Seq(Seen)] /\ keys \in [Threads -> SUBSET Clients]
      /\ \A w \in Workers : w \in Threads /\ w # S
  BY DEF IInv, Typed
<1>1. CASE UNCHANGED vars
  BY <1>1, SameThrough DEF vars, net, clients, sensor
<1>2. ASSUME NEW c \in Clients, NextC(c) PROVE Same
  <2>1. CASE Connect(c)
    BY <2>1, ConnectThrough DEF Connect
  <2>2. CASE SendNext(c)
    <3>1. UNCHANGED <<backlog, linked, keys, holder>>
      BY <2>2 DEF SendNext, sensor
    <3>2. Through' = Through
      BY <3>1 DEF Through, Listed
    <3> QED BY <2>2, <3>1, <3>2, SendDoor
  <2>3. CASE Leave(c)
    BY <2>3, SameThrough DEF Leave, sensor
  <2> QED BY <1>2, <2>1, <2>2, <2>3 DEF NextC
<1>3. ASSUME NEW w \in Workers, NEW c \in Clients, ReadEnd(w, c) PROVE Same
  <2>1. c \in keys[w] => ~Door(c)
    BY WithWhom DEF IInv, Placed
  <2>2. c \in keys[w] => c \notin keys[S]
    BY <2>1 DEF Door, Listed
  <2>3. keys' = keys \/ (c \in keys[w] /\ keys' = [u \in Threads |-> keys[u] \ {c}])
    BY <1>3 DEF ReadEnd
  <2>4. keys'[S] = keys[S]
    <3>1. keys[S] \subseteq Clients /\ S \in Threads
      BY <1>0
    <3>2. CASE keys' = keys
      BY <3>2
    <3>3. CASE c \in keys[w] /\ keys' = [u \in Threads |-> keys[u] \ {c}]
      BY <2>2, <3>1, <3>3
    <3> QED BY <2>3, <3>2, <3>3
  <2>5. UNCHANGED <<backlog, linked, sent>> /\ holder'[S] = holder[S]
    BY <1>0, <1>3 DEF ReadEnd, net, clients
  <2> QED BY <2>4, <2>5, SameThrough
<1>4. ASSUME NEW w \in Workers, Sense(w) PROVE Same
  <2>1. CASE Select(w)
    BY <2>1, SameThrough DEF Select, net, clients
  <2>2. ASSUME NEW c \in Clients, Read(w, c) PROVE Same
    BY <1>0, <2>2, SameThrough DEF Read, clients
  <2> QED BY <1>3, <1>4, <2>1, <2>2 DEF Sense
<1>5. ASSUME NEW w \in Workers, NextW(w) PROVE Same
  <2>1. CASE Pop(w) \/ EndHandling(w) \/ MarkThreadAsFree(w)
    BY <1>0, <2>1, SameThrough
       DEF Pop, EndHandling, MarkThreadAsFree, net, clients, sensor
  <2>2. CASE RegisterPhoton(w) \/ HandleData(w) \/ CloseConnection(w)
    <3>1. /\ UNCHANGED <<backlog, linked, sent>> /\ holder'[S] = holder[S]
          /\ keys'[S] = keys[S]
      BY <1>0, <2>2
         DEF RegisterPhoton, HandleData, CloseConnection, Handled, net, clients, sensor
    <3> QED BY <3>1, SameThrough
  <2> QED BY <1>4, <1>5, <2>1, <2>2 DEF NextW
<1>6. CASE Select(S) \/ EndHandling(S) \/ NewConnection \/ Scan \/ PushCtrlMessage
  BY <1>6, SameThrough
     DEF Select, EndHandling, NewConnection, Scan, PushCtrlMessage, net, clients, sensor
<1>7. CASE Accept
  BY <1>7, AcceptThrough DEF Accept
<1> QED BY <1>1, <1>2, <1>5, <1>6, <1>7 DEF QuietNext

\* For each client that is through S held one message at most, and created a worker
\* for each that it handled, unless there is the one that was there before any
\* came, which is the first that S will find.
Owed ==
  \/ created + Len(holder[S]) <= Cardinality(Through)
  \/ /\ created = 1 /\ available = {1} /\ (pc[S] = "scan" => scan = 1)
     /\ Len(holder[S]) <= Cardinality(Through)

\* They are clients, so not more than there are.
LEMMA ThroughFinite ==
  IInv => /\ IsFiniteSet(Through) /\ Cardinality(Through) \in Nat
          /\ Cardinality(Through) <= Cardinality(Clients)
<1> SUFFICES ASSUME IInv
             PROVE  /\ IsFiniteSet(Through) /\ Cardinality(Through) \in Nat
                    /\ Cardinality(Through) <= Cardinality(Clients)
  OBVIOUS
<1>1. Through \in SUBSET Clients
  BY DEF Through, IInv, Typed
<1>2. IsFiniteSet(Through) /\ Cardinality(Through) <= Cardinality(Clients)
  BY <1>1, ClientAssumption, FS_Subset
<1> QED BY <1>1, <1>2, FS_CardinalityType

\* The length of what S holds, before and after one more or one less.
LEMMA Lengths ==
  ASSUME IInv
  PROVE  /\ Len(holder[S]) \in Nat
         /\ \A e \in Seen : Len(Append(holder[S], e)) = Len(holder[S]) + 1
         /\ holder[S] # << >> => Len(Tail(holder[S])) = Len(holder[S]) - 1
<1>1. holder[S] \in Seq(Seen)
  BY Ids DEF IInv, Typed
<1> QED BY <1>1, Appended, Rest

\* What else is needed of the types.
More ==
  /\ shut \subseteq Clients /\ again \subseteq Clients /\ asserts \in BOOLEAN
  /\ \A t \in Threads : m[t] = None \/ m[t] \in Seen
  /\ \A c \in Clients : sent[c] <= Close
  /\ handled \in [Clients -> Seq(New + 1 .. Close)]
  /\ available \subseteq 1 .. created
  /\ scan \in 1 .. created + 1
  /\ chosen # None => chosen \in 1 .. created

\* What S looks at, and the threads that are available.
LEMMA QuietScan ==
  ASSUME IInv, More, QuietNext
  PROVE  /\ created' = created
         /\ \/ available' = available
            \/ \E w \in 1 .. created : available' = available \cup {w}
         /\ scan' \in 1 .. created + 1
         /\ chosen' = chosen \/ chosen' \in 1 .. created
         /\ pc'[S] = "scan" => \/ scan' = 1
                               \/ pc[S] = "scan" /\ scan' = scan
                               \/ pc[S] = "scan" /\ scan \notin available
<1> USE DEF More
<1>0. /\ pc \in [Threads -> Places] /\ S \in Threads /\ created \in Nat
      /\ \A w \in Workers : w \in Threads /\ w # S /\ w \in Nat /\ w >= 1
  <2>1. \A w \in Workers : w >= 1
    BY WorkerAssumption
  <2> QED BY <2>1, Ids DEF IInv, Typed
<1>1. CASE UNCHANGED vars
  BY <1>1 DEF vars, busy
<1>2. ASSUME NEW c \in Clients, NextC(c)
      PROVE  UNCHANGED <<pc, busy>>
  BY <1>2 DEF NextC, Connect, SendNext, Leave
<1>3. ASSUME NEW w \in Workers, NextW(w), ~MarkThreadAsFree(w)
      PROVE  UNCHANGED busy /\ pc'[S] = pc[S]
  BY <1>0, <1>3 DEF NextW, Sense, Select, Read, ReadEnd, Sensed, Pop, EndHandling,
     RegisterPhoton, HandleData, CloseConnection, Goto
<1>4. ASSUME NEW w \in Workers, MarkThreadAsFree(w)
      PROVE  /\ UNCHANGED <<created, scan, chosen>> /\ pc'[S] = pc[S] /\ w \in 1 .. created
             /\ available' = available \/ available' = available \cup {w}
  <2>1. pc[w] = "free" /\ pc' = [pc EXCEPT ![w] = "handle"]
    BY <1>4 DEF MarkThreadAsFree, Goto
  <2>2. ~(w > created)
    BY <2>1 DEF IInv, Loops
  <2> QED BY <1>0, <1>4, <2>1, <2>2 DEF MarkThreadAsFree
<1>5. CASE NewConnection
  <2>1. /\ scan' = 1 /\ UNCHANGED <<created, available, chosen>>
    BY <1>5 DEF NewConnection
  <2> QED BY <1>0, <2>1
<1>6. CASE Scan
  <2>1. CASE scan \in available
    <3>1. /\ chosen' = scan /\ scan' = scan /\ UNCHANGED <<created, available>>
          /\ pc' = [pc EXCEPT ![S] = "push"]
      BY <1>6, <2>1 DEF Scan, Goto
    <3>2. pc'[S] = "push"
      BY <1>0, <3>1
    <3> QED BY <2>1, <3>1, <3>2
  <2>2. CASE scan \notin available
    <3>1. /\ chosen' = chosen /\ scan' = scan + 1 /\ UNCHANGED <<created, available, pc>>
          /\ scan <= created /\ pc[S] = "scan"
      BY <1>6, <2>2 DEF Scan, Goto
    <3> QED BY <1>0, <2>2, <3>1
  <2> QED BY <2>1, <2>2
<1>7. CASE Select(S) \/ EndHandling(S) \/ PushCtrlMessage \/ Accept
  <2>1. UNCHANGED busy
    BY <1>7 DEF Select, EndHandling, PushCtrlMessage, Accept
  <2>2. \E at : at # "scan" /\ pc' = [pc EXCEPT ![S] = at]
    BY <1>7 DEF Select, EndHandling, PushCtrlMessage, Accept, Sensed, Goto,
                AfterSensor
  <2>3. pc'[S] # "scan"
    BY <1>0, <2>2
  <2> QED BY <2>1, <2>3 DEF busy
<1> QED BY <1>1, <1>2, <1>3, <1>4, <1>5, <1>6, <1>7 DEF QuietNext, busy

\* A worker is created only when S has found none, for a message that it held.
LEMMA OwedStep == IInv /\ More /\ Owed /\ [Next]_vars => Owed'
<1> SUFFICES ASSUME IInv, More, Owed, [Next]_vars PROVE Owed'
  OBVIOUS
<1>0. /\ created \in Nat /\ pc \in [Threads -> Places] /\ S \in Threads
      /\ holder \in [Threads -> Seq(Seen)] /\ Cardinality(Through) \in Nat
      /\ IsFiniteSet(Through) /\ Len(holder[S]) \in Nat
  BY Ids, ThroughFinite, Lengths DEF IInv, Typed
<1> PICK k : k = Cardinality(Through)
  OBVIOUS
<1> PICK l : l = Len(holder[S])
  OBVIOUS
<1>1. CASE QuietNext
  <2>1. Through' = Through /\ created' = created /\ holder'[S] = holder[S]
    BY <1>1, QuietDoor, QuietScan
  <2>2. CASE created + Len(holder[S]) <= Cardinality(Through)
    BY <2>1, <2>2 DEF Owed
  <2>3. CASE /\ created = 1 /\ available = {1} /\ (pc[S] = "scan" => scan = 1)
             /\ Len(holder[S]) <= Cardinality(Through)
    <3>1. available' = {1}
      <4>1. \/ available' = available
            \/ \E w \in 1 .. created : available' = available \cup {w}
        BY <1>1, QuietScan
      <4>2. 1 .. created = {1}
        BY <2>3
      <4> QED BY <2>3, <4>1, <4>2
    <3>2. pc'[S] = "scan" => scan' = 1
      <4>1. pc'[S] = "scan" => \/ scan' = 1
                               \/ pc[S] = "scan" /\ scan' = scan
                               \/ pc[S] = "scan" /\ scan \notin available
        BY <1>1, QuietScan
      <4> QED BY <2>3, <4>1
    <3> QED BY <2>1, <2>3, <3>1, <3>2 DEF Owed
  <2> QED BY <2>2, <2>3 DEF Owed
<1>2. ASSUME NEW c \in Clients, Read(S, c) \/ ReadEnd(S, c) PROVE Owed'
  <2>1. UNCHANGED <<created, available, scan>>
    BY <1>2 DEF Read, ReadEnd, busy
  <2>2. pc' = [pc EXCEPT ![S] = "sense"] \/ pc' = [pc EXCEPT ![S] = "handle"]
    BY <1>2 DEF Read, ReadEnd, Sensed, Goto, AfterSensor
  <2>3. pc'[S] # "scan"
    BY <1>0, <2>2
  <2>4. \/ Through' = Through /\ Len(holder'[S]) = l
        \/ /\ c \notin Through /\ Through' = Through \cup {c}
           /\ Len(holder'[S]) \in {l, l + 1}
    <3>1. CASE Read(S, c)
      <4>1. c \notin Through /\ Through' = Through \cup {c} /\ Head(sock[c]) = New
        BY <3>1, ReadDoor
      <4>2. holder'[S] = Append(holder[S], <<c, New>>) /\ <<c, New>> \in Seen
        BY <1>0, <3>1, <4>1, Ids DEF Read, Seen
      <4> QED BY <4>1, <4>2, Lengths
    <3>2. CASE ReadEnd(S, c)
      BY <3>2, EndDoor, Lengths
    <3> QED BY <1>2, <3>1, <3>2
  <2>5. \/ Cardinality(Through') = k /\ Len(holder'[S]) = l
        \/ Cardinality(Through') = k + 1 /\ Len(holder'[S]) \in {l, l + 1}
    BY <1>0, <2>4, FS_AddElement
  <2>6. k \in Nat /\ l \in Nat /\ created \in Nat
    BY <1>0
  <2>7. CASE created + l <= k
    <3>1. created + Len(holder'[S]) <= Cardinality(Through')
      BY <2>5, <2>6, <2>7
    <3> QED BY <2>1, <3>1 DEF Owed
  <2>8. CASE created = 1 /\ available = {1} /\ l <= k
    <3>1. Len(holder'[S]) <= Cardinality(Through')
      BY <2>5, <2>6, <2>8
    <3> QED BY <2>1, <2>3, <2>8, <3>1 DEF Owed
  <2> QED BY <2>7, <2>8 DEF Owed
<1>3. CASE Create \/ MarkThreadAsNotFree
  <2>1. holder[S] # << >> /\ holder'[S] = Tail(holder[S])
    BY <1>0, <1>3 DEF Create, MarkThreadAsNotFree, Handled, IInv, Waiting
  <2>2. Len(holder'[S]) = l - 1 /\ l \in Nat /\ k \in Nat
    BY <1>0, <2>1, Lengths
  <2>3. Through' = Through
    <3>1. UNCHANGED <<backlog, linked, sent, keys>>
      BY <1>3 DEF Create, MarkThreadAsNotFree, net, clients, sensor
    <3> QED BY <3>1, SameThrough
  <2>4. CASE Create
    <3>1. created' = created + 1 /\ pc[S] = "scan" /\ scan > created
      BY <2>4 DEF Create
    <3>2. created + l <= k
      BY <3>1 DEF Owed
    <3>3. (created + 1) + (l - 1) <= k
      BY <1>0, <2>2, <3>2
    <3> QED BY <2>2, <2>3, <3>1, <3>3 DEF Owed
  <2>5. CASE MarkThreadAsNotFree
    <3>1. created' = created
      BY <2>5 DEF MarkThreadAsNotFree
    <3>2. created + l <= k \/ (created = 1 /\ l <= k)
      BY DEF Owed
    <3>3. created + (l - 1) <= k
      BY <1>0, <2>2, <3>2
    <3> QED BY <2>2, <2>3, <3>1, <3>3 DEF Owed
  <2> QED BY <1>3, <2>4, <2>5
<1> QED BY <1>1, <1>2, <1>3, Kinds

\* Every step keeps the types, given the invariant.
LEMMA MoreStep == IInv /\ More /\ IInv' /\ [Next]_vars => More'
<1> SUFFICES ASSUME IInv, More, IInv', [Next]_vars PROVE More'
  OBVIOUS
<1> USE Ids
<1>0. /\ holder \in [Threads -> Seq(Seen)] /\ DOMAIN m = Threads /\ S \in Threads
      /\ sent \in [Clients -> Nat] /\ created \in Nat
      /\ sock \in [Clients -> Seq(New .. Close)]
  BY DEF IInv, Typed
<1>1. asserts' = asserts
  BY DEF Next, NextS, NextW, NextC, Sense, vars, Connect, SendNext, Leave, Select, Read,
     ReadEnd, Accept, EndHandling, NewConnection, Scan, Create, PushCtrlMessage,
     MarkThreadAsNotFree, Pop, RegisterPhoton, HandleData, CloseConnection,
     MarkThreadAsFree, busy
<1>2. shut' \subseteq Clients /\ again' \subseteq Clients
  <2>0. shut \subseteq Clients /\ again \subseteq Clients
    BY DEF More
  <2>1. ASSUME NEW c \in Clients, NextC(c) PROVE closed' = closed
    BY <2>1 DEF NextC, Connect, SendNext, Leave, sensor
  <2>2. ASSUME NEW t \in Threads, NEW c \in Clients, ReadEnd(t, c)
        PROVE  shut' \subseteq Clients /\ again' \subseteq Clients
    <3>1. m[t] # None => m[t][1] \in Clients
      BY DEF More, Seen
    <3> QED BY <2>0, <2>2, <3>1 DEF ReadEnd, closed
  <2>3. ASSUME NEW t \in Threads, Sense(t)
        PROVE  shut' \subseteq Clients /\ again' \subseteq Clients
    BY <2>0, <2>2, <2>3 DEF Sense, Select, Read, closed
  <2>4. ASSUME NEW w \in Workers, NextW(w), ~Sense(w) PROVE closed' = closed
    BY <2>4 DEF NextW, Pop, EndHandling, RegisterPhoton, HandleData, CloseConnection,
       MarkThreadAsFree, sensor
  <2>5. ASSUME NextS, ~Sense(S) PROVE closed' = closed
    BY <2>5 DEF NextS, Accept, EndHandling, NewConnection, Scan, Create,
       PushCtrlMessage, MarkThreadAsNotFree, sensor
  <2>6. CASE UNCHANGED vars
    <3>1. closed' = closed
      BY <2>6 DEF vars, sensor
    <3> QED BY <2>0, <3>1 DEF closed
  <2> QED BY <2>0, <2>1, <2>3, <2>4, <2>5, <2>6 DEF Next, closed
<1>3. \A t \in Threads : m'[t] = None \/ m'[t] \in Seen
  <2>1. ASSUME NEW t \in Threads, NEW k, NEW l, l = None \/ l \in Seen, Sensed(t, k, l)
        PROVE  \A u \in Threads : m'[u] = None \/ m'[u] \in Seen
    BY <1>0, <2>1 DEF Sensed, More
  <2>2. ASSUME NEW t \in Threads, NEW c \in Clients, Read(t, c)
        PROVE  \A u \in Threads : m'[u] = None \/ m'[u] \in Seen
    <3>1. Head(sock[c]) \in New .. Close
      BY <1>0, <2>2, Rest DEF Read
    <3>2. <<c, Head(sock[c])>> \in Seen
      BY <3>1 DEF Seen
    <3> QED BY <2>1, <2>2, <3>2 DEF Read
  <2>3. ASSUME NEW t \in Threads, NEW c \in Clients, ReadEnd(t, c)
        PROVE  \A u \in Threads : m'[u] = None \/ m'[u] \in Seen
    BY <2>1, <2>3 DEF ReadEnd, More
  <2>4. ASSUME Accept
        PROVE  \A u \in Threads : m'[u] = None \/ m'[u] \in Seen
    BY <1>0, <2>1, <2>4 DEF Accept, More
  <2>5. \/ m' = m \/ Accept
        \/ \E t \in Threads, c \in Clients : Read(t, c) \/ ReadEnd(t, c)
    BY DEF Next, NextS, NextW, NextC, Sense, vars, Connect, SendNext, Leave, Select,
       EndHandling, NewConnection, Scan, Create, PushCtrlMessage, MarkThreadAsNotFree,
       Pop, RegisterPhoton, HandleData, CloseConnection, MarkThreadAsFree, sensor
  <2> QED BY <2>2, <2>3, <2>4, <2>5 DEF More
<1>4. \A c \in Clients : sent'[c] <= Close
  <2>1. ASSUME NEW c \in Clients, SendNext(c) PROVE \A d \in Clients : sent'[d] <= Close
    <3>1. sent[c] < Close /\ sent' = [sent EXCEPT ![c] = sent[c] + 1]
      BY <2>1 DEF SendNext
    <3>2. sent'[c] = sent[c] + 1 /\ \A d \in Clients : d # c => sent'[d] = sent[d]
      BY <1>0, <3>1
    <3>3. sent[c] \in Nat /\ Close \in Nat
      BY <1>0
    <3> QED BY <3>1, <3>2, <3>3 DEF More
  <2>2. sent' = sent \/ \E c \in Clients : SendNext(c)
    <3>1. ASSUME NEW c \in Clients, NextC(c), ~SendNext(c) PROVE sent' = sent
      BY <3>1 DEF NextC, Connect, Leave
    <3>2. ASSUME NEW t \in Threads, Sense(t) PROVE sent' = sent
      BY <3>2 DEF Sense, Select, Read, ReadEnd, net, clients
    <3>3. ASSUME NEW w \in Workers, NextW(w), ~Sense(w) PROVE sent' = sent
      BY <3>3 DEF NextW, Pop, EndHandling, RegisterPhoton, HandleData, CloseConnection,
         MarkThreadAsFree, net, clients
    <3>4. ASSUME NextS, ~Sense(S) PROVE sent' = sent
      BY <3>4 DEF NextS, Accept, EndHandling, NewConnection, Scan, Create,
         PushCtrlMessage, MarkThreadAsNotFree, net, clients
    <3>5. CASE UNCHANGED vars
      BY <3>5 DEF vars, net, clients
    <3> QED BY <3>1, <3>2, <3>3, <3>4, <3>5 DEF Next
  <2> QED BY <2>1, <2>2 DEF More
<1>5. handled' \in [Clients -> Seq(New + 1 .. Close)]
  <2>1. ASSUME NEW w \in Workers, NEW i \in New + 1 .. Close, Handling(w, i), Serve(w)
        PROVE  handled' \in [Clients -> Seq(New + 1 .. Close)]
    <3>1. PICK c \in Clients : c = Client(w)
      BY <2>1, OneMessage
    <3>2. handled' = [handled EXCEPT ![c] = Append(handled[c], i)]
      BY <2>1, <3>1 DEF Handling, Serve
    <3>3. Append(handled[c], i) \in Seq(New + 1 .. Close)
      BY Appended DEF More
    <3> QED BY <3>2, <3>3 DEF More
  <2>2. \A i \in New + 1 .. Close - 1 : i \in New + 1 .. Close
    OBVIOUS
  <2>3. Close \in New + 1 .. Close
    OBVIOUS
  <2>4. \/ handled' = handled
        \/ \E w \in Workers, i \in New + 1 .. Close : Handling(w, i) /\ Serve(w)
    <3>1. ASSUME NEW w \in Workers, HandleData(w) \/ CloseConnection(w)
          PROVE  \E i \in New + 1 .. Close : Handling(w, i) /\ Serve(w)
      BY <2>2, <2>3, <3>1 DEF HandleData, CloseConnection
    <3> QED BY <3>1 DEF Next, NextS, NextW, NextC, Sense, vars, Connect, SendNext, Leave,
          Select, Read, ReadEnd, Accept, EndHandling, NewConnection, Scan, Create,
          PushCtrlMessage, MarkThreadAsNotFree, Pop, RegisterPhoton, MarkThreadAsFree
  <2> QED BY <2>1, <2>4 DEF More
<1>6. /\ available' \subseteq 1 .. created' /\ scan' \in 1 .. created' + 1
      /\ chosen' # None => chosen' \in 1 .. created'
  <2>1. CASE QuietNext
    BY <2>1, QuietScan DEF More
  <2>2. CASE \E c \in Clients : Read(S, c) \/ ReadEnd(S, c)
    BY <2>2 DEF Read, ReadEnd, busy, More
  <2>3. CASE Create
    BY <1>0, <2>3 DEF Create, More
  <2>4. CASE MarkThreadAsNotFree
    BY <2>4 DEF MarkThreadAsNotFree, More
  <2> QED BY <2>1, <2>2, <2>3, <2>4, Kinds
<1> QED BY <1>1, <1>2, <1>3, <1>4, <1>5, <1>6 DEF More

\* Both hold at the start, with and without a worker that was there before.
LEMMA MoreStart == Init => More /\ Owed
<1> SUFFICES ASSUME Init PROVE More /\ Owed
  OBVIOUS
<1>1. Cardinality({}) = 0 /\ Cardinality({1}) = 1
  BY FS_EmptySet, FS_Singleton
<1>2. /\ available = {} \/ available = {1}
      /\ available = {} => created = 0
      /\ available = {1} => created = 1
  BY <1>1 DEF Init
<1>3. /\ shut = {} /\ again = {} /\ holder[S] = << >> /\ asserts \in BOOLEAN /\ scan = 1 /\ chosen = None /\ linked = {}
      /\ m = [t \in Threads |-> None] /\ sent = [c \in Clients |-> 0]
      /\ handled = [c \in Clients |-> << >>]
  BY Ids DEF Init
<1>4. More
  BY <1>2, <1>3, Ids, EmptySeq DEF More
<1>5. Through = {} /\ Len(holder[S]) = 0
  BY <1>3 DEF Through
<1>6. Owed
  BY <1>1, <1>2, <1>3, <1>5 DEF Owed
<1> QED BY <1>4, <1>6

\* Every variable has its type.  That created <= Cardinality(Workers) says that
\* getAvailableThread and the creation after it never start more threads than
\* there are clients, though a thread is free again only under assertions, and a
\* connection may be handed over twice.
THEOREM TypeCorrect == Spec => []TypeOK
<1>1. IInv /\ More /\ Owed /\ [Next]_vars => IInv' /\ More' /\ Owed'
  BY Step, MoreStep, OwedStep
<1>2. Init => IInv /\ More /\ Owed
  BY Start, MoreStart
<1>3. IInv /\ More /\ Owed => TypeOK
  <2> SUFFICES ASSUME IInv, More, Owed PROVE TypeOK
    OBVIOUS
  <2> USE Ids
  <2>1. created \in 0 .. Cardinality(Workers)
    <3>1. Cardinality(Clients) \in Nat /\ Cardinality(Clients) >= 1
      BY WorkerAssumption, ClientAssumption, FS_CardinalityType
    <3>2. Cardinality(Workers) = Cardinality(Clients)
      BY <3>1, FS_Interval, WorkerAssumption
    <3>3. created \in Nat /\ Len(holder[S]) \in Nat
      BY Lengths DEF IInv, Typed
    <3>4. Cardinality(Through) \in Nat /\ Cardinality(Through) <= Cardinality(Clients)
      BY ThroughFinite
    <3>5. created + Len(holder[S]) <= Cardinality(Through) \/ created = 1
      BY DEF Owed
    <3> DEFINE k == Cardinality(Through)
               n == Cardinality(Clients)
               l == Len(holder[S])
    <3>6. k \in Nat /\ n \in Nat /\ l \in Nat /\ n >= 1 /\ k <= n
          /\ (created + l <= k \/ created = 1)
      BY <3>1, <3>3, <3>4, <3>5
    <3> HIDE DEF k, n, l
    <3>7. created \in 0 .. n
      BY <3>3, <3>6
    <3> QED BY <3>2, <3>7 DEF n
  <2>2. /\ backlog \in Seq(Clients) /\ linked \in SUBSET Clients /\ gone \in SUBSET Clients
        /\ sock \in [Clients -> Seq(New .. Close)] /\ sent \in [Clients -> Nat]
        /\ keys \in [Threads -> SUBSET Clients]
        /\ selected \in [Threads -> SUBSET (Clients \cup {S})]
        /\ pc \in [Threads -> Places] /\ holder \in [Threads -> Seq(Seen)]
        /\ ctrl \in [Workers -> Seq(Clients)] /\ created \in Nat
    BY DEF IInv, Typed
  <2>3. \A c \in Clients : sent[c] \in 0 .. Close
    BY <2>2 DEF More
  <2>4. sent \in [Clients -> 0 .. Close]
    BY <2>2, <2>3
  <2> QED BY <2>1, <2>2, <2>4 DEF More, TypeOK, Places
<1> QED BY <1>1, <1>2, <1>3, PTL DEF Spec

-----------------------------------------------------------------------------
(* What was sent is handled, held or on its way.                           *)

\* The worker of c holds a message of it.
Holds(c) == \E w \in Workers, i \in New + 1 .. Close : holder[w] = <<<<c, i>>>>
HeldNum(c) == IF Holds(c) THEN 1 ELSE 0

\* The messages from the second on are numbered without a gap.
Numbered(c) ==
  LET k == Len(handled[c])
  IN  /\ \A j \in DOMAIN handled[c] : handled[c][j] = j + 1
      /\ \A w \in Workers, i \in New + 1 .. Close : holder[w] = <<<<c, i>>>> => i = k + 2
      /\ \A j \in DOMAIN sock[c] : sock[c][j] = k + HeldNum(c) + j + 1
      /\ sent[c] = k + HeldNum(c) + Len(sock[c]) + 1

Stream == \A c \in Clients \ again : IF Door(c) THEN handled[c] = << >> ELSE Numbered(c)

\* It depends on these.
LEMMA SameStream ==
  ASSUME Stream, NEW c \in Clients \ again, Door(c)' <=> Door(c),
         handled'[c] = handled[c], sock'[c] = sock[c], sent'[c] = sent[c],
         \A w \in Workers, i \in New + 1 .. Close :
           holder'[w] = <<<<c, i>>>> <=> holder[w] = <<<<c, i>>>>
  PROVE  IF Door(c)' THEN handled'[c] = << >> ELSE Numbered(c)'
<1>1. Holds(c)' <=> Holds(c)
  BY DEF Holds
<1>2. HeldNum(c)' = HeldNum(c)
  BY <1>1 DEF HeldNum
<1> QED BY <1>2 DEF Stream, Numbered

\* Who holds a message of c is with c.
LEMMA HoldsWith ==
  ASSUME IInv, NEW w \in Workers, NEW c, NEW i, holder[w] = <<<<c, i>>>>
  PROVE  c \in Clients /\ With(w, c)
<1>1. holder[w] # << >> /\ holder[w][1][1] = c
  OBVIOUS
<1>2. PICK d \in Clients : With(w, d) /\ (Taken(w, d) \/ Open(w, d))
  BY <1>1, WithWhom
<1>3. holder[w][1][1] = d
  BY <1>1, <1>2 DEF Taken, Open
<1> QED BY <1>1, <1>2, <1>3

\* Sums.
LEMMA Shifts ==
  ASSUME NEW k \in Int, NEW j \in Int
  PROVE  /\ \A n \in Int : k + n + j + 1 + 1 = k + n + (j + 1) + 1
         /\ k + 0 + (j + 1) + 1 = k + 1 + j + 1
         /\ k + 0 + j + 1 = k + 1 + (j - 1) + 1
OBVIOUS

\* S and the clients change nothing of this, but for the two steps below.
LEMMA StreamSend ==
  ASSUME IInv, Stream, NEW c \in Clients, SendNext(c)
  PROVE  Stream'
<1> USE Ids DEF IInv
<1>1. /\ sent' = [sent EXCEPT ![c] = sent[c] + 1]
      /\ sock' = [sock EXCEPT ![c] = Append(sock[c], sent'[c])]
      /\ UNCHANGED <<holder, handled, again>> /\ sent[c] < Close
  BY DEF SendNext, sensor, closed
<1>2. \A d \in Clients : Door(d)' <=> Door(d)
  BY SendDoor
<1>3. \A d \in Clients : d # c => sent'[d] = sent[d] /\ sock'[d] = sock[d]
  BY <1>1 DEF Typed
<1>4. \A d \in Clients \ again :
        d # c => IF Door(d)' THEN handled'[d] = << >> ELSE Numbered(d)'
  BY <1>1, <1>2, <1>3, SameStream
<1>5. CASE Door(c) \/ c \in again
  BY <1>1, <1>2, <1>4, <1>5 DEF Stream
<1>6. CASE ~Door(c) /\ c \notin again
  <2>1. Numbered(c)
    BY <1>6 DEF Stream
  <2>2. sent[c] \in Nat /\ Close \in Nat /\ sock[c] \in Seq(New .. Close)
    BY DEF Typed
  <2>3. sent'[c] = sent[c] + 1 /\ sent[c] + 1 \in New .. Close
    BY <1>1, <2>2 DEF Typed
  <2>4. sock'[c] = Append(sock[c], sent[c] + 1)
    BY <1>1, <2>3 DEF Typed
  <2>5. /\ Len(sock[c]) \in Nat /\ Len(sock'[c]) = Len(sock[c]) + 1
        /\ DOMAIN sock[c] = 1 .. Len(sock[c])
        /\ DOMAIN sock'[c] = 1 .. Len(sock[c]) + 1
        /\ \A j \in 1 .. Len(sock[c]) : sock'[c][j] = sock[c][j]
        /\ sock'[c][Len(sock[c]) + 1] = sent[c] + 1
    BY <2>2, <2>3, <2>4, Appended
  <2>6. HeldNum(c)' = HeldNum(c) /\ HeldNum(c) \in Nat
    BY <1>1 DEF HeldNum, Holds
  <2> PICK k : k = Len(handled[c])
    OBVIOUS
  <2> PICK n : n = HeldNum(c)
    OBVIOUS
  <2> PICK l : l = Len(sock[c])
    OBVIOUS
  <2>7. sent[c] = k + n + l + 1
    BY <2>1 DEF Numbered
  <2>8. \A j \in 1 .. l : sock'[c][j] = k + n + j + 1
    BY <2>1, <2>5 DEF Numbered
  <2>9. sock'[c][l + 1] = k + n + l + 1 + 1 /\ sent'[c] = k + n + l + 1 + 1
    BY <2>3, <2>5, <2>7
  <2>10. Numbered(c)'
    <3>1. k \in Int /\ n \in Nat /\ l \in Nat
      BY <2>5, <2>6, <2>7, <2>2
    <3>2. \A j \in 1 .. l + 1 : j \in 1 .. l \/ j = l + 1
      BY <3>1
    <3>3. sock'[c][l + 1] = k + n + (l + 1) + 1 /\ sent'[c] = k + n + (l + 1) + 1
      <4>2. k \in Int /\ n \in Int /\ l \in Int
        BY <3>1
      <4>1. k + n + l + 1 + 1 = k + n + (l + 1) + 1
        BY ONLY <4>2, Shifts
      <4> QED BY <2>9, <4>1
    <3>4. \A j \in DOMAIN sock'[c] : sock'[c][j] = k + n + j + 1
      BY <2>5, <2>8, <3>2, <3>3
    <3> QED BY <1>1, <2>1, <2>5, <2>6, <3>3, <3>4 DEF Numbered
  <2> QED BY <1>1, <1>2, <1>4, <1>6, <2>10 DEF Stream
<1> QED BY <1>5, <1>6

\* S reads the NEW_CONNECTION: from here on the client is numbered.
LEMMA StreamServiceRead ==
  ASSUME IInv, Stream, NEW c \in Clients, Read(S, c)
  PROVE  Stream'
<1> USE Ids DEF IInv
<1>1. /\ Door(c) /\ ~Door(c)' /\ sock[c] # << >>
      /\ \A d \in Clients : d # c => (Door(d)' <=> Door(d))
  BY ReadDoor
<1>2. /\ sock' = [sock EXCEPT ![c] = Tail(sock[c])]
      /\ UNCHANGED <<sent, handled, again>>
      /\ \A w \in Workers : holder'[w] = holder[w]
  BY DEF Read, clients, closed, Typed
<1>3. \A d \in Clients : d # c => sock'[d] = sock[d]
  BY <1>2 DEF Typed
<1>4. \A d \in Clients \ again :
        d # c => IF Door(d)' THEN handled'[d] = << >> ELSE Numbered(d)'
  BY <1>1, <1>2, <1>3, SameStream
<1>0. CASE c \in again
  BY <1>0, <1>2, <1>4 DEF Stream
<1> SUFFICES ASSUME c \notin again PROVE Stream'
  BY <1>0
<1>5. sock'[c] = Tail(sock[c]) /\ handled'[c] = << >> /\ Len(handled'[c]) = 0
  BY <1>1, <1>2, EmptySeq DEF Typed, Stream
<1>6. /\ sock[c] \in Seq(New .. Close) /\ Len(sock[c]) = sent[c]
      /\ \A j \in DOMAIN sock[c] : sock[c][j] = j
  BY <1>1 DEF Typed, Sockets
<1>7. /\ Len(sock[c]) \in Nat /\ Len(Tail(sock[c])) = Len(sock[c]) - 1
      /\ \A j \in DOMAIN Tail(sock[c]) : /\ j \in Nat /\ j >= 1
                                         /\ j + 1 \in DOMAIN sock[c]
                                         /\ Tail(sock[c])[j] = sock[c][j + 1]
  BY <1>1, <1>6, Rest
<1>8. \A w \in Workers, i \in New + 1 .. Close : holder'[w] # <<<<c, i>>>>
  BY <1>1, <1>2, HoldsWith DEF Placed
<1>9. HeldNum(c)' = 0
  BY <1>8 DEF HeldNum, Holds
<1>10. Numbered(c)'
  <2>1. \A j \in DOMAIN sock'[c] : j \in Nat /\ sock'[c][j] = j + 1
    BY <1>5, <1>6, <1>7
  <2> PICK l : l = Len(sock[c])
    OBVIOUS
  <2>6. l \in Nat /\ Len(sock'[c]) = l - 1 /\ sent'[c] = l
    BY <1>2, <1>5, <1>6, <1>7
  <2>2. sent'[c] = Len(sock'[c]) + 1 /\ Len(sock'[c]) \in Int
    BY <2>6
  <2>3. DOMAIN handled'[c] = {}
    BY <1>5
  <2>4. \A j \in DOMAIN sock'[c] : sock'[c][j] = 0 + 0 + j + 1
    BY <2>1
  <2>5. sent'[c] = 0 + 0 + Len(sock'[c]) + 1
    BY <2>2
  <2> QED BY <1>5, <1>8, <1>9, <2>3, <2>4, <2>5 DEF Numbered
<1> QED BY <1>1, <1>2, <1>4, <1>10 DEF Stream

\* The worker reads the next message.
LEMMA StreamRead ==
  ASSUME IInv, IInv', Stream, NEW w \in Workers, NEW c \in Clients, Read(w, c)
  PROVE  Stream'
<1> USE Ids DEF IInv
<1> PICK i : i = Head(sock[c])
  OBVIOUS
<1>1. With(w, c) /\ ~Door(c) /\ w # S /\ w \in Threads /\ holder[w] = << >>
  BY Sensing DEF Read
<1>2. /\ sock' = [sock EXCEPT ![c] = Tail(sock[c])]
      /\ holder' = [holder EXCEPT ![w] = Append(holder[w], <<c, i>>)]
      /\ UNCHANGED <<sent, handled, again, backlog, linked>> /\ sock[c] # << >>
  BY DEF Read, clients, closed
<1>3. /\ sock[c] \in Seq(New .. Close)
      /\ i = sock[c][1] /\ i \in New .. Close /\ 1 \in DOMAIN sock[c]
      /\ Len(sock[c]) \in Nat /\ Len(Tail(sock[c])) = Len(sock[c]) - 1
      /\ \A j \in DOMAIN Tail(sock[c]) : /\ j \in Nat /\ j >= 1
                                         /\ j + 1 \in DOMAIN sock[c]
                                         /\ Tail(sock[c])[j] = sock[c][j + 1]
  <2>1. sock[c] \in Seq(New .. Close)
    BY DEF Typed
  <2> QED BY <1>2, <2>1, Rest
<1>4. i \in New + 1 .. Close
  BY <1>1, <1>3 DEF Sockets
<1>5. \A d \in Clients : Door(d)' <=> Door(d)
  BY QuietDoor DEF QuietNext, NextW, Sense
<1>6. holder'[w] = <<<<c, i>>>> /\ \A v \in Workers : v # w => holder'[v] = holder[v]
  <2>1. <<c, i>> \in Seen
    BY <1>3 DEF Seen
  <2>2. holder'[w] = Append(<< >>, <<c, i>>)
    BY <1>1, <1>2 DEF Typed
  <2> QED BY <1>2, <2>1, <2>2, Single DEF Typed
<1>7. sock'[c] = Tail(sock[c]) /\ \A d \in Clients : d # c => sock'[d] = sock[d]
  BY <1>2 DEF Typed
<1>8. ASSUME NEW d \in Clients \ again, d # c
      PROVE  IF Door(d)' THEN handled'[d] = << >> ELSE Numbered(d)'
  <2>1. \A j : holder[w] # <<<<d, j>>>> /\ holder'[w] # <<<<d, j>>>>
    <3>1. \A j : <<<<d, j>>>> # << >> /\ <<<<d, j>>>> # <<<<c, i>>>>
      BY <1>8
    <3> QED BY <1>1, <1>6, <3>1
  <2>2. \A v \in Workers, j \in New + 1 .. Close :
          holder'[v] = <<<<d, j>>>> <=> holder[v] = <<<<d, j>>>>
    BY <1>6, <2>1
  <2> QED BY <1>2, <1>5, <1>7, <1>8, <2>2, SameStream
<1>12. CASE c \in again
  BY <1>2, <1>8, <1>12 DEF Stream
<1> SUFFICES ASSUME c \notin again PROVE Stream'
  BY <1>12
<1>9. \A v \in Workers : \A j : v # w => holder[v] # <<<<c, j>>>>
  BY <1>1, HoldsWith DEF Phases
<1>10. HeldNum(c) = 0 /\ HeldNum(c)' = 1
  <2>1. ~Holds(c)
    <3>1. \A j : <<<<c, j>>>> # << >>
      OBVIOUS
    <3> QED BY <1>1, <1>9, <3>1 DEF Holds
  <2>2. Holds(c)'
    BY <1>4, <1>6 DEF Holds
  <2> QED BY <2>1, <2>2 DEF HeldNum
<1>11. Numbered(c)'
  <2> PICK k : k = Len(handled[c])
    OBVIOUS
  <2>1. Numbered(c)
    BY <1>1 DEF Stream
  <2>2. /\ \A j \in DOMAIN handled[c] : handled[c][j] = j + 1
        /\ \A j \in DOMAIN sock[c] : sock[c][j] = k + 0 + j + 1
        /\ sent[c] = k + 0 + Len(sock[c]) + 1
    BY <1>10, <2>1 DEF Numbered
  <2>3. k \in Int
    BY <1>3, <2>2 DEF Typed
  <2>4. i = k + 2
    BY <1>3, <2>2, <2>3
  <2>5. \A v \in Workers, j \in New + 1 .. Close : holder'[v] = <<<<c, j>>>> => j = k + 2
    <3>1. ASSUME NEW j, <<<<c, i>>>> = <<<<c, j>>>> PROVE i = j
      <4>1. <<<<c, i>>>>[1][2] = i /\ <<<<c, j>>>>[1][2] = j
        OBVIOUS
      <4> QED BY <3>1, <4>1
    <3> QED BY <1>6, <1>9, <2>4, <3>1
  <2>6. ASSUME NEW j \in DOMAIN Tail(sock[c])
        PROVE  Tail(sock[c])[j] = k + 1 + j + 1
    <3>1. j \in Nat /\ Tail(sock[c])[j] = k + 0 + (j + 1) + 1
      BY <1>3, <2>2
    <3>3. j \in Int
      BY <3>1
    <3>2. k + 0 + (j + 1) + 1 = k + 1 + j + 1
      BY ONLY <2>3, <3>3, Shifts
    <3> QED BY <3>1, <3>2
  <2>7. sent[c] = k + 1 + Len(Tail(sock[c])) + 1
    <3> PICK l : l = Len(sock[c])
      OBVIOUS
    <3>1. l \in Nat /\ Len(Tail(sock[c])) = l - 1 /\ sent[c] = k + 0 + l + 1
      BY <1>3, <2>2
    <3>3. l \in Int
      BY <3>1
    <3>2. k + 0 + l + 1 = k + 1 + (l - 1) + 1
      BY ONLY <2>3, <3>3, Shifts
    <3> QED BY <3>1, <3>2
  <2>8. \A j \in DOMAIN sock'[c] : sock'[c][j] = k + 1 + j + 1
    BY <1>7, <2>6
  <2>9. sent'[c] = k + 1 + Len(sock'[c]) + 1 /\ handled'[c] = handled[c]
    BY <1>2, <1>7, <2>7
  <2> QED BY <1>10, <2>2, <2>5, <2>8, <2>9 DEF Numbered
<1> QED BY <1>1, <1>2, <1>5, <1>8, <1>11 DEF Stream

\* The worker handles the message it holds.
LEMMA StreamServe ==
  ASSUME IInv, More, Stream, NEW w \in Workers, NEW i \in New + 1 .. Close,
         Handling(w, i), Serve(w), Handled(w), UNCHANGED <<sock, sent, again>>,
         \A d \in Clients : Door(d)' <=> Door(d)
  PROVE  Stream'
<1> USE Ids DEF IInv
<1>1. PICK c \in Clients : /\ With(w, c) /\ Client(w) = c /\ Tail(holder[w]) = << >>
  BY OneMessage
<1>2. /\ holder[w] # << >> /\ Head(holder[w])[2] = i /\ Head(holder[w])[1] = c
      /\ w \in Threads /\ holder' = [holder EXCEPT ![w] = << >>]
      /\ handled' = [handled EXCEPT ![c] = Append(handled[c], i)]
  BY <1>1 DEF Handling, Serve, Client, Handled
<1>3. holder[w] = <<<<c, i>>>>
  <2>1. PICK d \in Clients : Taken(w, d) \/ Open(w, d)
    BY <1>2, WithWhom
  <2>2. PICK j : holder[w] = <<<<d, j>>>>
    BY <1>2, <2>1 DEF Taken, Open
  <2>3. d = c /\ j = i
    BY <1>2, <2>2
  <2> QED BY <2>2, <2>3
<1>4. holder'[w] = << >> /\ \A v \in Workers : v # w => holder'[v] = holder[v]
  BY <1>2 DEF Typed
<1>5. \A d : d # c => \A j : <<<<d, j>>>> # <<<<c, i>>>> /\ <<<<d, j>>>> # << >>
  OBVIOUS
<1>6. ASSUME NEW d \in Clients \ again, d # c
      PROVE  IF Door(d)' THEN handled'[d] = << >> ELSE Numbered(d)'
  <2>1. handled'[d] = handled[d]
    BY <1>2, <1>6 DEF More
  <2>2. \A v \in Workers, j \in New + 1 .. Close :
          holder'[v] = <<<<d, j>>>> <=> holder[v] = <<<<d, j>>>>
    BY <1>3, <1>4, <1>5, <1>6
  <2> QED BY <2>1, <2>2, SameStream
<1>11. CASE c \in again
  BY <1>6, <1>11 DEF Stream
<1> SUFFICES ASSUME c \notin again PROVE Stream'
  BY <1>11
<1>7. \A v \in Workers : \A j : holder'[v] # <<<<c, j>>>>
  <2>1. \A j : <<<<c, j>>>> # << >>
    OBVIOUS
  <2>2. \A v \in Workers : \A j : v # w => holder[v] # <<<<c, j>>>>
    BY <1>1, HoldsWith DEF Phases
  <2> QED BY <1>4, <2>1, <2>2
<1>8. HeldNum(c) = 1 /\ HeldNum(c)' = 0
  BY <1>3, <1>7 DEF HeldNum, Holds
<1>9. ~Door(c) /\ ~Door(c)'
  BY <1>1 DEF Placed
<1>10. Numbered(c)'
  <2> PICK k : k = Len(handled[c])
    OBVIOUS
  <2>1. Numbered(c)
    BY <1>9 DEF Stream
  <2>2. /\ \A j \in DOMAIN handled[c] : handled[c][j] = j + 1
        /\ i = k + 2
        /\ \A j \in DOMAIN sock[c] : sock[c][j] = k + 1 + j + 1
        /\ sent[c] = k + 1 + Len(sock[c]) + 1
    BY <1>3, <1>8, <2>1 DEF Numbered
  <2>3. handled'[c] = Append(handled[c], i) /\ handled[c] \in Seq(New + 1 .. Close)
    BY <1>2 DEF More
  <2>4. /\ k \in Nat /\ Len(handled'[c]) = k + 1
        /\ DOMAIN handled[c] = 1 .. k /\ DOMAIN handled'[c] = 1 .. k + 1
        /\ \A j \in 1 .. k : handled'[c][j] = handled[c][j]
        /\ handled'[c][k + 1] = i
    BY <2>3, Appended
  <2>5. \A j \in 1 .. k + 1 : handled'[c][j] = j + 1
    <3>1. \A j \in 1 .. k + 1 : j \in 1 .. k \/ j = k + 1
      BY <2>4
    <3>2. \A j \in 1 .. k : handled'[c][j] = j + 1
      BY <2>2, <2>4
    <3>3. handled'[c][k + 1] = (k + 1) + 1
      BY <2>2, <2>4
    <3> QED BY <3>1, <3>2, <3>3
  <2>6. /\ \A j \in DOMAIN sock[c] : sock[c][j] = (k + 1) + 0 + j + 1
        /\ sent[c] = (k + 1) + 0 + Len(sock[c]) + 1
    BY <2>2, <2>4
  <2> QED BY <1>7, <1>8, <2>4, <2>5, <2>6 DEF Numbered
<1> QED BY <1>6, <1>9, <1>10 DEF Stream

\* Pop and registerPhoton move what is no message, the other steps nothing.
LEMMA StreamRest ==
  ASSUME IInv, Stream, UNCHANGED <<sock, sent, handled>>, again \subseteq again',
         \A d \in Clients : Door(d)' <=> Door(d),
         \A w \in Workers : \/ holder'[w] = holder[w]
                            \/ \E c : /\ holder[w] = << >>
                                      /\ holder'[w] = <<<<c, Register>>>>
                            \/ \E c : /\ holder[w] = <<<<c, Register>>>>
                                      /\ holder'[w] = << >>
  PROVE  Stream'
<1>1. \A i \in New + 1 .. Close : i # Register
  BY Ids
<1>2. \A c, d : \A i \in New + 1 .. Close :
        <<<<c, i>>>> # << >> /\ <<<<c, i>>>> # <<<<d, Register>>>>
  <2>1. \A c, i : <<<<c, i>>>> # << >> /\ <<<<c, i>>>>[1][2] = i
    OBVIOUS
  <2> QED BY <1>1, <2>1
<1>3. \A c \in Clients, w \in Workers, i \in New + 1 .. Close :
        holder'[w] = <<<<c, i>>>> <=> holder[w] = <<<<c, i>>>>
  BY <1>2
<1>4. \A c \in Clients \ again : IF Door(c)' THEN handled'[c] = << >> ELSE Numbered(c)'
  BY <1>3, SameStream
<1> QED BY <1>4 DEF Stream

\* Every step keeps the numbering.
LEMMA StreamStep == IInv /\ More /\ IInv' /\ Stream /\ [Next]_vars => Stream'
<1> SUFFICES ASSUME IInv, More, IInv', Stream, [Next]_vars PROVE Stream'
  OBVIOUS
<1>0. /\ holder \in [Threads -> Seq(Seen)] /\ S \in Threads
      /\ \A w \in Workers : w \in Threads /\ w # S
  BY Ids DEF IInv, Typed
<1>1. CASE UNCHANGED vars
  <2>1. UNCHANGED <<sock, sent, handled, again, holder>>
    BY <1>1 DEF vars, net, clients, sensor, closed
  <2> QED BY <1>1, <2>1, StreamRest, QuietDoor DEF QuietNext
<1>2. ASSUME NEW c \in Clients, NextC(c) PROVE Stream'
  <2>1. CASE SendNext(c)
    BY <2>1, StreamSend
  <2>2. CASE Connect(c) \/ Leave(c)
    <3>1. UNCHANGED <<sock, sent, handled, again, holder>>
      BY <2>2 DEF Connect, Leave, sensor, closed
    <3> QED BY <1>2, <3>1, StreamRest, QuietDoor DEF QuietNext
  <2> QED BY <1>2, <2>1, <2>2 DEF NextC
<1>3. ASSUME NEW w \in Workers, NextW(w) PROVE Stream'
  <2>0. \A d \in Clients : Door(d)' <=> Door(d)
    BY <1>3, QuietDoor DEF QuietNext
  <2>1. ASSUME NEW c \in Clients, Read(w, c) PROVE Stream'
    BY <2>1, StreamRead
  <2>2. CASE HandleData(w) \/ CloseConnection(w)
    <3>1. UNCHANGED <<sock, sent, again>> /\ Handled(w) /\ Serve(w)
      BY <2>2 DEF HandleData, CloseConnection, net, clients, sensor, closed
    <3>2. \E i \in New + 1 .. Close : Handling(w, i)
      BY <2>2, Ids DEF HandleData, CloseConnection
    <3> QED BY <2>0, <3>1, <3>2, StreamServe
  <2>3. CASE Select(w) \/ EndHandling(w) \/ MarkThreadAsFree(w)
    <3>1. UNCHANGED <<sock, sent, handled, again, holder>>
      BY <2>3 DEF Select, EndHandling, MarkThreadAsFree, net, clients, sensor, closed
    <3> QED BY <2>0, <3>1, StreamRest
  <2>4. ASSUME NEW c \in Clients, ReadEnd(w, c) PROVE Stream'
    <3>1. UNCHANGED <<sock, sent, handled, again>> /\ m[w] = None
      <4>1. m[w] = None
        BY <2>4 DEF ReadEnd, IInv, Loops
      <4> QED BY <2>4, <4>1 DEF ReadEnd, net, clients, closed
    <3>2. holder' = [holder EXCEPT ![w] = holder[w]] \/ holder' = holder
      BY <2>4, <3>1 DEF ReadEnd
    <3>3. \A v \in Workers : holder'[v] = holder[v]
      BY <1>0, <3>2
    <3> QED BY <2>0, <3>1, <3>3, StreamRest
  <2>5. CASE Pop(w)
    <3>1. UNCHANGED <<sock, sent, handled, again>>
      BY <2>5 DEF Pop, net, clients, sensor, closed
    <3>2. CASE ctrl[w] = << >>
      BY <2>0, <2>5, <3>1, <3>2, StreamRest DEF Pop
    <3>3. CASE ctrl[w] # << >>
      <4>1. PICK c \in Clients : Told(w, c)
        BY <3>3, WithWhom
      <4>2. ctrl[w] = <<c>> /\ holder[w] = << >> /\ Head(ctrl[w]) = c
        BY <4>1, Single DEF Told
      <4>3. holder' = [holder EXCEPT ![w] = Append(<< >>, <<c, Register>>)]
        BY <2>5, <3>3, <4>2 DEF Pop
      <4>4. <<c, Register>> \in Seen
        BY Ids DEF Seen
      <4>5. /\ holder'[w] = <<<<c, Register>>>>
            /\ \A v \in Workers : v # w => holder'[v] = holder[v]
        BY <1>0, <4>3, <4>4, Single
      <4> QED BY <2>0, <3>1, <4>2, <4>5, StreamRest
    <3> QED BY <3>2, <3>3
  <2>6. CASE RegisterPhoton(w)
    <3>1. UNCHANGED <<sock, sent, handled, again>>
      BY <2>6 DEF RegisterPhoton, net, clients, closed
    <3>2. PICK c \in Clients : /\ Tail(holder[w]) = << >> /\ keys[w] = {}
                               /\ With(w, c) /\ holder[w] # << >>
      BY <2>6, OneMessage DEF RegisterPhoton, Handling
    <3>3. holder[w] = <<<<c, Register>>>>
      <4>1. \A i : Head(<<<<c, i>>>>)[2] = i
        OBVIOUS
      <4>2. Head(holder[w])[2] = Register
        BY <2>6 DEF RegisterPhoton, Handling
      <4>3. \A i \in New + 1 .. Close : i # Register
        BY Ids
      <4> QED BY <3>2, <4>1, <4>2, <4>3 DEF With, Told, Taken, Open
    <3>4. holder' = [holder EXCEPT ![w] = << >>]
      BY <2>6, <3>2 DEF RegisterPhoton, Handled
    <3>5. holder'[w] = << >> /\ \A v \in Workers : v # w => holder'[v] = holder[v]
      BY <1>0, <3>4
    <3> QED BY <2>0, <3>1, <3>3, <3>5, StreamRest
  <2> QED BY <1>3, <2>1, <2>2, <2>3, <2>4, <2>5, <2>6 DEF NextW, Sense
<1>4. ASSUME NEW c \in Clients, Read(S, c) PROVE Stream'
  BY <1>4, StreamServiceRead
<1>5. CASE \/ Select(S) \/ EndHandling(S) \/ NewConnection \/ Scan \/ PushCtrlMessage
           \/ Accept
  <2>1. \A d \in Clients : Door(d)' <=> Door(d)
    BY <1>5, QuietDoor DEF QuietNext
  <2>2. UNCHANGED <<sock, sent, handled, again>>
    BY <1>5 DEF Select, EndHandling, NewConnection, Scan, PushCtrlMessage, Accept,
       net, clients, sensor, closed
  <2>3. \A w \in Workers : holder'[w] = holder[w]
    BY <1>5 DEF Select, EndHandling, NewConnection, Scan, PushCtrlMessage, Accept
  <2> QED BY <2>1, <2>2, <2>3, StreamRest
<1>7. ASSUME NEW c \in Clients, ReadEnd(S, c) PROVE Stream'
  <2>1. \A d \in Clients : Door(d)' <=> Door(d)
    BY <1>7, EndDoor
  <2>2. UNCHANGED <<sock, sent, handled>> /\ again \subseteq again'
    BY <1>7 DEF ReadEnd, net, clients, closed
  <2>3. \A w \in Workers : holder'[w] = holder[w]
    BY <1>0, <1>7 DEF ReadEnd
  <2> QED BY <2>1, <2>2, <2>3, StreamRest
<1>6. CASE Create \/ MarkThreadAsNotFree
  <2>1. /\ UNCHANGED <<backlog, linked, keys, sock, sent, handled, again>>
        /\ holder' = [holder EXCEPT ![S] = Tail(holder[S])]
    BY <1>6 DEF Create, MarkThreadAsNotFree, Handled, net, clients, sensor, closed
  <2>2. \A w \in Workers : holder'[w] = holder[w]
    BY <1>0, <2>1
  <2> QED BY <2>1, <2>2, SameDoor, StreamRest
<1> QED BY <1>1, <1>2, <1>3, <1>4, <1>5, <1>6, <1>7 DEF Next, NextS, Sense

-----------------------------------------------------------------------------
(* What a worker holds of a client, and what all of them hold.             *)

\* Held, where the holder is empty.
LEMMA HeldNone == ASSUME NEW c, NEW t, holder[t] = << >> PROVE Held(c, t) = << >>
<1> DEFINE Is(g) == g = [i \in 0 .. Len(holder[t]) |->
                           IF i = 0 THEN << >>
                           ELSE IF holder[t][i][1] = c /\ holder[t][i][2] # Register
                                THEN Append(g[i - 1], holder[t][i][2])
                                ELSE g[i - 1]]
           h == [i \in {0} |-> << >>]
<1>1. 0 .. Len(holder[t]) = {0} /\ Len(holder[t]) = 0
  <2>1. Len(<< >>) = 0 /\ 0 .. 0 = {0}
    OBVIOUS
  <2> QED BY <2>1
<1>2. Is(h)
  BY <1>1
<1>3. Is(CHOOSE g : Is(g))
  BY <1>2
<1>4. \A g : Is(g) => g[0] = << >>
  BY <1>1
<1>5. Held(c, t) = (CHOOSE g : Is(g))[Len(holder[t])]
  BY Zenon DEF Held
<1> HIDE DEF Is
<1> QED BY <1>1, <1>3, <1>4, <1>5

\* Held, where the holder has one message.
LEMMA HeldOne ==
  ASSUME NEW c, NEW t, NEW d, NEW j \in Nat, holder[t] = <<<<d, j>>>>
  PROVE  Held(c, t) = IF d = c /\ j # Register THEN <<j>> ELSE << >>
<1> DEFINE Is(g) == g = [i \in 0 .. Len(holder[t]) |->
                           IF i = 0 THEN << >>
                           ELSE IF holder[t][i][1] = c /\ holder[t][i][2] # Register
                                THEN Append(g[i - 1], holder[t][i][2])
                                ELSE g[i - 1]]
           e == IF d = c /\ j # Register THEN <<j>> ELSE << >>
           h == [i \in {0, 1} |-> IF i = 0 THEN << >> ELSE e]
<1>1. 0 .. Len(holder[t]) = {0, 1} /\ Len(holder[t]) = 1
  <2>1. Len(<<<<d, j>>>>) = 1 /\ 0 .. 1 = {0, 1}
    OBVIOUS
  <2> QED BY <2>1
<1>2. holder[t][1][1] = d /\ holder[t][1][2] = j /\ 1 - 1 = 0
  OBVIOUS
<1>3. Append(<< >>, j) = <<j>>
  OBVIOUS
<1>4. Is(h)
  BY <1>1, <1>2, <1>3
<1>5. Is(CHOOSE g : Is(g))
  BY <1>4
<1>6. ASSUME NEW g, Is(g) PROVE g[1] = e
  <2>1. g[0] = << >>
    BY <1>1, <1>6
  <2>2. g[1] = IF holder[t][1][1] = c /\ holder[t][1][2] # Register
               THEN Append(g[1 - 1], holder[t][1][2]) ELSE g[1 - 1]
    <3>1. 1 \in 0 .. Len(holder[t]) /\ 1 # 0
      BY <1>1
    <3> QED BY <1>6, <3>1, Zenon
  <2>3. g[1] = IF d = c /\ j # Register THEN Append(g[0], j) ELSE g[0]
    BY <1>2, <2>2
  <2> QED BY <1>3, <2>1, <2>3
<1>7. Held(c, t) = (CHOOSE g : Is(g))[Len(holder[t])]
  BY Zenon DEF Held
<1> HIDE DEF Is, h
<1> QED BY <1>1, <1>5, <1>6, <1>7

\* A set of numbers that is not empty has a least element.
LEMMA Least == ASSUME NEW T \in SUBSET Nat, T # {}
               PROVE  \E x \in T : \A y \in T : x <= y
<1>1. PICK x \in T : \A y \in T : ~(<<y, x>> \in OpToRel(<, Nat))
  BY NatLessThanWellFounded, WFMin
<1>2. \A y \in T : ~(y < x)
  BY <1>1, Zenon DEF OpToRel
<1> QED BY <1>2

\* Flattened, sequences that are empty but for one are that one.
LEMMA Flattened ==
  ASSUME NEW T, NEW s \in Seq(Seq(T)), NEW w \in 1 .. Len(s),
         \A v \in 1 .. Len(s) : v # w => s[v] = << >>
  PROVE  FlattenSeq(s) = s[w]
<1> DEFINE Is(g) == g = [i \in 1 .. Len(s) |-> IF i = 1 THEN s[i] ELSE g[i - 1] \o s[i]]
           h == [i \in 1 .. Len(s) |-> IF i < w THEN << >> ELSE s[w]]
<1>1. Len(s) \in Nat /\ w \in Nat /\ Len(s) >= 1 /\ s[w] \in Seq(T)
  BY LenProperties, ElementOfSeq
<1>2. << >> \o << >> = << >> /\ << >> \o s[w] = s[w] /\ s[w] \o << >> = s[w]
  BY <1>1, ConcatEmptySeq, EmptySeq
<1>3. Is(h)
  <2>1. ASSUME NEW i \in 1 .. Len(s)
        PROVE  h[i] = IF i = 1 THEN s[i] ELSE h[i - 1] \o s[i]
    <3>1. CASE i = 1
      BY <1>1, <3>1
    <3>2. CASE i # 1
      <4>1. i - 1 \in 1 .. Len(s)
        BY <1>1, <3>2
      <4>2. h[i - 1] = IF i - 1 < w THEN << >> ELSE s[w]
        BY <4>1
      <4>3. i < w => i - 1 < w /\ i # w
        BY <1>1
      <4>4. i = w => i - 1 < w /\ ~(i < w)
        BY <1>1
      <4>5. ~(i < w) /\ i # w => ~(i - 1 < w)
        BY <1>1
      <4> QED BY <1>2, <3>2, <4>2, <4>3, <4>4, <4>5
    <3> QED BY <3>1, <3>2
  <2> QED BY <2>1
<1>4. ASSUME NEW g, Is(g)
      PROVE  \A i \in 1 .. Len(s) : g[i] = h[i]
  <2> DEFINE Bad == {i \in 1 .. Len(s) : g[i] # h[i]}
  <2> SUFFICES ASSUME Bad # {} PROVE FALSE
    OBVIOUS
  <2>1. PICK i \in Bad : \A l \in Bad : i <= l
    <3>1. Bad \in SUBSET Nat
      BY <1>1
    <3> QED BY <3>1, Least
  <2>2. i \in 1 .. Len(s) /\ g[i] # h[i]
    OBVIOUS
  <2>3. g[i] = IF i = 1 THEN s[i] ELSE g[i - 1] \o s[i]
    BY <1>4, <2>2
  <2>4. h[i] = IF i = 1 THEN s[i] ELSE h[i - 1] \o s[i]
    BY <1>3, <2>2
  <2>5. i # 1 => i - 1 \in 1 .. Len(s) /\ i - 1 \notin Bad
    BY <1>1, <2>1, <2>2
  <2> HIDE DEF h
  <2> QED BY <2>2, <2>3, <2>4, <2>5
<1>5. Is(CHOOSE g : Is(g))
  BY <1>3
<1>6. (CHOOSE g : Is(g))[Len(s)] = h[Len(s)]
  <2> HIDE DEF Is, h
  <2> QED BY <1>1, <1>4, <1>5
<1>7. h[Len(s)] = s[w]
  BY <1>1
<1>8. FlattenSeq(s) = (CHOOSE g : Is(g))[Len(s)]
  <2>1. Len(s) # 0
    BY <1>1
  <2> QED BY <2>1, Zenon DEF FlattenSeq
<1> QED BY <1>6, <1>7, <1>8

\* Nothing was sent, handled or read yet.
LEMMA StreamStart == Init => Stream
<1> SUFFICES ASSUME Init PROVE Stream
  OBVIOUS
<1>1. \A c \in Clients : Door(c)
  BY DEF Init, Door
<1>2. \A c \in Clients : handled[c] = << >>
  BY DEF Init
<1> QED BY <1>1, <1>2 DEF Stream

\* Numbers from 2 on, continued.
LEMMA Continued ==
  ASSUME NEW s \in Seq(Nat), NEW t \in Seq(Nat),
         \A i \in DOMAIN s : s[i] = i + 1,
         \A i \in DOMAIN t : t[i] = Len(s) + i + 1
  PROVE  /\ s \o t \in Seq(Nat) /\ Len(s \o t) = Len(s) + Len(t)
         /\ \A i \in DOMAIN (s \o t) : (s \o t)[i] = i + 1
<1>1. /\ Len(s) \in Nat /\ DOMAIN s = 1 .. Len(s)
      /\ Len(t) \in Nat /\ DOMAIN t = 1 .. Len(t)
  BY LenProperties
<1>2. /\ s \o t \in Seq(Nat) /\ Len(s \o t) = Len(s) + Len(t)
      /\ \A i \in 1 .. Len(s) + Len(t) :
           (s \o t)[i] = IF i <= Len(s) THEN s[i] ELSE t[i - Len(s)]
  BY ConcatProperties
<1>3. DOMAIN (s \o t) = 1 .. Len(s) + Len(t)
  BY <1>2, LenProperties
<1>4. ASSUME NEW i \in 1 .. Len(s) + Len(t) PROVE (s \o t)[i] = i + 1
  <2>1. CASE i <= Len(s)
    <3>1. i \in 1 .. Len(s)
      BY <1>1, <2>1
    <3> QED BY <1>1, <1>2, <2>1, <3>1
  <2>2. CASE ~(i <= Len(s))
    <3>1. i - Len(s) \in 1 .. Len(t) /\ i \in Nat
      BY <1>1, <2>2
    <3>2. t[i - Len(s)] = Len(s) + (i - Len(s)) + 1
      BY <1>1, <3>1
    <3>3. Len(s) + (i - Len(s)) + 1 = i + 1
      BY <1>1, <3>1
    <3> QED BY <1>2, <2>2, <3>2, <3>3
  <2> QED BY <2>1, <2>2
<1> QED BY <1>2, <1>3, <1>4

\* Numbers from 2 on are this sequence.
LEMMA Counted ==
  ASSUME NEW s \in Seq(Nat), NEW n \in Int, Len(s) = n, \A i \in DOMAIN s : s[i] = i + 1
  PROVE  s = [i \in 1 .. n |-> i + 1]
<1>1. DOMAIN s = 1 .. n /\ s = [i \in DOMAIN s |-> s[i]]
  BY LenProperties
<1> QED BY <1>1

\* What a worker holds of c is one message or none.
LEMMA HeldBy ==
  ASSUME IInv, NEW w \in Workers, NEW c \in Clients
  PROVE  \/ \A i \in New + 1 .. Close : holder[w] # <<<<c, i>>>> /\ Held(c, w) = << >>
         \/ \E i \in New + 1 .. Close : holder[w] = <<<<c, i>>>> /\ Held(c, w) = <<i>>
<1> USE Ids
<1>1. Close \in New + 1 .. Close
  OBVIOUS
<1>2. CASE holder[w] = << >>
  <2>1. \A i : << >> # <<<<c, i>>>>
    OBVIOUS
  <2> QED BY <1>2, <2>1, HeldNone
<1>3. CASE holder[w] # << >>
  <2>1. PICK d \in Clients : Taken(w, d) \/ Open(w, d)
    BY <1>3, WithWhom
  <2>2. PICK j \in Nat : /\ holder[w] = <<<<d, j>>>>
                         /\ j = Register \/ j \in New + 1 .. Close
    BY <1>3, <2>1 DEF Taken, Open
  <2>3. Held(c, w) = IF d = c /\ j # Register THEN <<j>> ELSE << >>
    BY <2>2, HeldOne
  <2>4. \A i : <<<<c, i>>>>[1][1] = c /\ <<<<c, i>>>>[1][2] = i
    OBVIOUS
  <2>5. holder[w][1][1] = d /\ holder[w][1][2] = j
    BY <2>2
  <2>6. \A i \in New + 1 .. Close : i # Register
    OBVIOUS
  <2>7. CASE d = c /\ j # Register
    BY <2>2, <2>3, <2>7
  <2>8. CASE ~(d = c /\ j # Register)
    <3>1. \A i \in New + 1 .. Close : holder[w] # <<<<c, i>>>>
      BY <2>4, <2>5, <2>6, <2>8
    <3> QED BY <2>3, <2>8, <3>1
  <2> QED BY <2>7, <2>8
<1> QED BY <1>2, <1>3

\* What the workers hold of c.
LEMMA HeldByAll ==
  ASSUME IInv, NEW c \in Clients \ again
  PROVE  LET f == FlattenSeq([w \in Workers |-> Held(c, w)])
         IN  \/ ~Holds(c) /\ f = << >>
             \/ \E w \in Workers, i \in New + 1 .. Close :
                  holder[w] = <<<<c, i>>>> /\ f = <<i>>
<1> USE Ids
<1> DEFINE s == [w \in Workers |-> Held(c, w)]
<1>2. Close \in New + 1 .. Close
  OBVIOUS
<1>1. ASSUME NEW w \in Workers PROVE Held(c, w) \in Seq(Nat)
  <2>1. << >> \in Seq(Nat) /\ \A i \in New + 1 .. Close : <<i>> \in Seq(Nat)
    OBVIOUS
  <2>2. Held(c, w) = << >> \/ \E i \in New + 1 .. Close : Held(c, w) = <<i>>
    BY HeldBy, <1>2
  <2> QED BY <2>1, <2>2
<1>3. s \in Seq(Seq(Nat)) /\ DOMAIN s = Workers /\ Workers = 1 .. Len(s)
  <2>1. PICK n \in Nat : n >= 1 /\ Workers = 1 .. n
    <3>1. Cardinality(Clients) \in Nat /\ Cardinality(Clients) # 0
      BY ClientAssumption, FS_CardinalityType, FS_EmptySet
    <3> QED BY <3>1, WorkerAssumption
  <2>2. s \in [1 .. n -> Seq(Nat)]
    BY <1>1, <2>1
  <2> HIDE DEF s
  <2> QED BY <2>1, <2>2
<1>4. CASE Holds(c)
  <2>1. PICK w \in Workers, i \in New + 1 .. Close : holder[w] = <<<<c, i>>>>
    BY <1>4 DEF Holds
  <2>2. <<<<c, i>>>>[1][2] = i
    OBVIOUS
  <2>3. Held(c, w) = <<i>>
    <3>1. \A j : <<<<c, j>>>>[1][2] = j
      OBVIOUS
    <3> QED BY <2>1, <3>1, HeldBy
  <2>4. ASSUME NEW v \in Workers, v # w PROVE Held(c, v) = << >>
    <3>1. \A j : holder[v] # <<<<c, j>>>>
      BY <2>1, <2>4, HoldsWith DEF IInv, Phases
    <3> QED BY <3>1, HeldBy, <1>2
  <2>5. FlattenSeq(s) = s[w]
    <3>1. \A v \in 1 .. Len(s) : v # w => s[v] = << >>
      BY <1>3, <2>4
    <3>2. w \in 1 .. Len(s)
      BY <1>3
    <3> HIDE DEF s
    <3> QED BY <1>3, <3>1, <3>2, Flattened
  <2> QED BY <2>1, <2>3, <2>5
<1>5. CASE ~Holds(c)
  <2>1. \A w \in Workers : Held(c, w) = << >>
    BY <1>5, HeldBy, <1>2 DEF Holds
  <2>2. FlattenSeq(s) = s[1]
    <3>1. \A v \in 1 .. Len(s) : v # 1 => s[v] = << >>
      BY <1>3, <2>1
    <3>2. 1 \in 1 .. Len(s)
      BY <1>3
    <3> HIDE DEF s
    <3> QED BY <1>3, <3>1, <3>2, Flattened
  <2> QED BY <1>5, <2>1, <2>2
<1> QED BY <1>4, <1>5

\* The invariant gives the stream.
LEMMA StreamConserved == IInv /\ More /\ Stream => Conserved
<1> SUFFICES ASSUME IInv, More, Stream, NEW c \in Clients \ again
             PROVE  handled[c] \o FlattenSeq([w \in Workers |-> Held(c, w)])
                      \o AfterNew(sock[c]) = [i \in 1 .. sent[c] - 1 |-> i + 1]
  BY DEF Conserved
<1> USE Ids
<1> DEFINE f == FlattenSeq([w \in Workers |-> Held(c, w)])
<1>1. \/ ~Holds(c) /\ f = << >>
      \/ \E w \in Workers, i \in New + 1 .. Close : holder[w] = <<<<c, i>>>> /\ f = <<i>>
  BY HeldByAll
<1> HIDE DEF f
<1>2. /\ sock[c] \in Seq(New .. Close) /\ sent[c] \in Nat
      /\ handled[c] \in Seq(New + 1 .. Close)
  BY DEF IInv, Typed, More
<1>3. sock[c] \in Seq(Nat) /\ handled[c] \in Seq(Nat)
  BY <1>2
<1>4. /\ Len(sock[c]) \in Nat /\ DOMAIN sock[c] = 1 .. Len(sock[c])
      /\ Len(handled[c]) \in Nat
  BY <1>3, LenProperties
<1>5. CASE Door(c)
  <2>1. handled[c] = << >>
    BY <1>5 DEF Stream
  <2>2. f = << >>
    BY <1>1, <1>5, HoldsWith DEF IInv, Placed
  <2>3. Len(sock[c]) = sent[c] /\ \A j \in DOMAIN sock[c] : sock[c][j] = j
    BY <1>5 DEF IInv, Sockets
  <2>4. << >> \o << >> = << >> /\ \A s \in Seq(Nat) : << >> \o s = s
    BY EmptySeq, ConcatEmptySeq
  <2>5. CASE sock[c] = << >>
    <3>1. AfterNew(sock[c]) = << >> /\ sent[c] = 0
      BY <2>3, <2>5 DEF AfterNew
    <3>2. [i \in 1 .. sent[c] - 1 |-> i + 1] = << >>
      BY <3>1
    <3>3. << >> \in Seq(Nat)
      OBVIOUS
    <3> QED BY <2>1, <2>2, <2>4, <3>1, <3>2, <3>3 DEF f
  <2>6. CASE sock[c] # << >>
    <3>1. /\ Head(sock[c]) = sock[c][1] /\ 1 \in DOMAIN sock[c]
          /\ Tail(sock[c]) \in Seq(Nat) /\ Len(Tail(sock[c])) = Len(sock[c]) - 1
          /\ \A i \in DOMAIN Tail(sock[c]) : /\ i \in Nat /\ i + 1 \in DOMAIN sock[c]
                                             /\ Tail(sock[c])[i] = sock[c][i + 1]
      BY <1>3, <2>6, Rest
    <3>2. AfterNew(sock[c]) = Tail(sock[c])
      BY <2>3, <2>6, <3>1 DEF AfterNew
    <3>3. \A i \in DOMAIN Tail(sock[c]) : Tail(sock[c])[i] = i + 1
      BY <2>3, <3>1
    <3>4. Len(Tail(sock[c])) = sent[c] - 1 /\ sent[c] - 1 \in Int
      BY <1>2, <2>3, <3>1
    <3>5. Tail(sock[c]) = [i \in 1 .. sent[c] - 1 |-> i + 1]
      BY <3>1, <3>3, <3>4, Counted
    <3> QED BY <2>1, <2>2, <2>4, <3>1, <3>2, <3>5 DEF f
  <2> QED BY <2>5, <2>6
<1>6. CASE ~Door(c)
  <2> PICK k : k = Len(handled[c])
    OBVIOUS
  <2>1. Numbered(c)
    BY <1>6 DEF Stream
  <2>2. /\ \A j \in DOMAIN handled[c] : handled[c][j] = j + 1
        /\ \A w \in Workers, i \in New + 1 .. Close : holder[w] = <<<<c, i>>>> => i = k + 2
        /\ \A j \in DOMAIN sock[c] : sock[c][j] = k + HeldNum(c) + j + 1
        /\ sent[c] = k + HeldNum(c) + Len(sock[c]) + 1
    BY <2>1 DEF Numbered
  <2>3. AfterNew(sock[c]) = sock[c]
    <3>1. \A j \in DOMAIN sock[c] : sock[c][j] > New
      BY <1>6 DEF IInv, Sockets
    <3>2. sock[c] # << >> => Head(sock[c]) = sock[c][1] /\ 1 \in DOMAIN sock[c]
      BY <1>3, Rest
    <3>3. sock[c] # << >> => Head(sock[c]) > New
      BY <3>1, <3>2
    <3>4. sock[c] # << >> => Head(sock[c]) # New
      BY <3>3
    <3> QED BY <3>4 DEF AfterNew
  <2>4. /\ f \in Seq(Nat) /\ Len(f) = HeldNum(c) /\ HeldNum(c) \in Nat
        /\ \A i \in DOMAIN f : f[i] = k + i + 1
    <3>1. CASE ~Holds(c) /\ f = << >>
      BY <3>1 DEF HeldNum
    <3>2. ASSUME NEW w \in Workers, NEW i \in New + 1 .. Close,
                 holder[w] = <<<<c, i>>>>, f = <<i>>
          PROVE  /\ f \in Seq(Nat) /\ Len(f) = HeldNum(c) /\ HeldNum(c) \in Nat
                 /\ \A j \in DOMAIN f : f[j] = k + j + 1
      <4>1. HeldNum(c) = 1 /\ i = k + 2 /\ i \in Nat
        BY <2>2, <3>2 DEF HeldNum, Holds
      <4>2. <<i>> \in Seq(Nat) /\ Len(<<i>>) = 1 /\ DOMAIN <<i>> = {1} /\ <<i>>[1] = i
        BY <4>1
      <4>3. k + 2 = k + 1 + 1
        BY <1>4
      <4> QED BY <3>2, <4>1, <4>2, <4>3
    <3> QED BY <1>1, <3>1, <3>2
  <2>5. /\ handled[c] \o f \in Seq(Nat) /\ Len(handled[c] \o f) = k + HeldNum(c)
        /\ \A i \in DOMAIN (handled[c] \o f) : (handled[c] \o f)[i] = i + 1
    <3> PICK p, q : p = handled[c] /\ q = f
      OBVIOUS
    <3>1. p \in Seq(Nat) /\ q \in Seq(Nat) /\ k = Len(p) /\ Len(q) = HeldNum(c)
      BY <1>3, <2>4
    <3>2. \A i \in DOMAIN p : p[i] = i + 1
      BY <2>2
    <3>3. \A i \in DOMAIN q : q[i] = Len(p) + i + 1
      BY <2>4, <3>1
    <3>4. /\ p \o q \in Seq(Nat) /\ Len(p \o q) = Len(p) + Len(q)
          /\ \A i \in DOMAIN (p \o q) : (p \o q)[i] = i + 1
      BY ONLY <3>1, <3>2, <3>3, Continued
    <3> QED BY <3>1, <3>4
  <2> PICK h : h = handled[c] \o f
    OBVIOUS
  <2>6. /\ h \in Seq(Nat) /\ Len(h) = k + HeldNum(c) /\ \A i \in DOMAIN h : h[i] = i + 1
    BY <2>5
  <2>7. /\ h \o sock[c] \in Seq(Nat) /\ Len(h \o sock[c]) = Len(h) + Len(sock[c])
        /\ \A i \in DOMAIN (h \o sock[c]) : (h \o sock[c])[i] = i + 1
    <3>1. \A i \in DOMAIN sock[c] : sock[c][i] = Len(h) + i + 1
      BY <2>2, <2>6
    <3> QED BY <1>3, <2>6, <3>1, Continued
  <2>8. Len(h \o sock[c]) = sent[c] - 1 /\ sent[c] - 1 \in Int
    <3> PICK n : n = HeldNum(c)
      OBVIOUS
    <3> PICK l : l = Len(sock[c])
      OBVIOUS
    <3>1. k \in Nat /\ n \in Nat /\ l \in Nat
      BY <1>4, <2>4
    <3>2. Len(h \o sock[c]) = k + n + l
      BY <2>6, <2>7
    <3>3. sent[c] = k + n + l + 1
      BY <2>2
    <3>4. k + n + l + 1 - 1 = k + n + l /\ k + n + l \in Int
      BY ONLY <3>1
    <3> QED BY <3>2, <3>3, <3>4
  <2>9. h \o sock[c] = [i \in 1 .. sent[c] - 1 |-> i + 1]
    BY <2>7, <2>8, Counted
  <2> QED BY <2>3, <2>9 DEF f
<1> QED BY <1>5, <1>6

\* No message of a client is lost, repeated or reordered by the hand over from
\* the selector of S to that of a worker: Conserved, for any number of clients,
\* which leave when they like.  It says nothing of a client in again, which
\* RemoteMessageSensor has handed to two workers.
THEOREM NothingLost == Spec => []Conserved
<1>1. IInv /\ More /\ Stream /\ [Next]_vars => IInv' /\ More' /\ Stream'
  BY Step, MoreStep, StreamStep
<1>2. Init => IInv /\ More /\ Stream
  BY Start, MoreStart, StreamStart
<1> QED BY <1>1, <1>2, StreamConserved, PTL DEF Spec
=============================================================================
