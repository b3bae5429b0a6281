------------------------- MODULE ConnectionHandOver -------------------------
(***************************************************************************)
(* Remote clients connect to the service handler S, which accepts them,    *)
(* reads the first message of each, NEW_CONNECTION, and hands the          *)
(* connection over to a worker of the service: one that is available, or a *)
(* new one.  From then on the worker reads the socket, until the client    *)
(* sends CLOSE or is gone.                                                 *)
(*                                                                         *)
(* S and the workers sense their sockets with the same code, each with a   *)
(* selector of its own.  A photon is named by its client; PhotonPool.tla   *)
(* shows that no two connections share one.                                *)
(***************************************************************************)
EXTENDS Naturals, Sequences, SequencesExt, FiniteSets

CONSTANTS Clients,
          Workers,    \* ids of the worker threads that may be created
          Data,       \* messages of a client besides NEW_CONNECTION and CLOSE
          S, None

ASSUME ClientAssumption == /\ IsFiniteSet(Clients) /\ Clients # {} /\ S \notin Clients
                           /\ Data \in Nat
\* Bound: as many workers as clients, where the table has room for 128.
ASSUME WorkerAssumption == Workers = 1 .. Cardinality(Clients) /\ S \notin Workers

Threads == Workers \cup {S}

\* The messages of a client, numbered in the order it sends them: New opens
\* the connection, Close closes it.  Register is the control message of S.
Register == 0
New == 1
Close == Data + 2

VARIABLES
  backlog, linked, gone, \* clients to be accepted; connected; disconnected
  sock, sent,            \* of a client: messages on their way, messages sent
  keys, selected, m, \* of a thread: channels of its selector, selected keys
                     \* not yet looked at, the local m of the sensor
  shut,              \* the channels that were closed on this side
  again,             \* clients whose NEW_CONNECTION S was given once more
  pc, holder, ctrl,  \* place, MessageHolder, control messages
  created,           \* the workers that exist: 1 .. created
  available,         \* availabilityFlag
  asserts,           \* does the JVM check assertions?
  scan, chosen,      \* S: loop index of getAvailableThread, its result
  handled            \* of a client: the messages handled by a worker

clients == <<linked, gone, sent>>
net == <<backlog, clients, sock>>
closed == <<shut, again>>
sensor == <<keys, selected, m, closed>>
busy == <<created, available, asserts, scan, chosen>>
vars == <<net, sensor, pc, holder, ctrl, busy, handled>>

Init ==
  /\ backlog = << >> /\ linked = {} /\ gone = {}
  /\ sock = [c \in Clients |-> << >>] /\ sent = [c \in Clients |-> 0]
  /\ keys = [t \in Threads |-> {}] /\ selected = [t \in Threads |-> {}]
  /\ m = [t \in Threads |-> None] /\ shut = {} /\ again = {}
  /\ holder = [t \in Threads |-> << >>] /\ ctrl = [w \in Workers |-> << >>]
  /\ asserts \in BOOLEAN
  \* A worker may be left of an earlier connection.
  /\ available \in {{}, {1}} /\ (available # {} => asserts)
  /\ created = Cardinality(available)
  /\ pc = [t \in Threads |-> IF t \in {S} \cup available THEN "select" ELSE "none"]
  /\ scan = 1 /\ chosen = None
  /\ handled = [c \in Clients |-> << >>]

Goto(t, at) == pc' = [pc EXCEPT ![t] = at]

-----------------------------------------------------------------------------
(* The clients                                                             *)

Connect(c) ==
  /\ c \notin linked \cup gone
  /\ linked' = linked \cup {c}
  /\ backlog' = Append(backlog, c)
  /\ UNCHANGED <<sock, sent, gone, sensor, pc, holder, ctrl, busy, handled>>

SendNext(c) ==
  /\ c \in linked \ gone /\ sent[c] < Close
  /\ sent' = [sent EXCEPT ![c] = @ + 1]
  /\ sock' = [sock EXCEPT ![c] = Append(@, sent'[c])]
  /\ UNCHANGED <<backlog, linked, gone, sensor, pc, holder, ctrl, busy, handled>>

\* At any time, also before NEW_CONNECTION was sent, or read.
Leave(c) ==
  /\ c \in linked \ gone
  /\ gone' = gone \cup {c}
  /\ UNCHANGED <<backlog, sock, linked, sent, sensor, pc, holder, ctrl, busy,
                 handled>>

-----------------------------------------------------------------------------
(* RemoteMessageSensor.receiveIncomingMessages, by S and the workers       *)

Readable(c) == sock[c] # << >> \/ c \in gone
Acceptable(t) == IF t = S /\ backlog # << >> THEN {S} ELSE {}

\* After the sensor come the control messages, which S has none of here.
AfterSensor(t) == IF t = S THEN "handle" ELSE "pop"

Select(t) ==
  /\ pc[t] = "select"
  /\ selected' = [selected EXCEPT ![t] =
                    {c \in keys[t] : Readable(c)} \cup Acceptable(t)]
  /\ t = S => selected'[S] # {}
  /\ Goto(t, IF selected'[t] = {} THEN "pop" ELSE "sense")
  /\ UNCHANGED <<net, keys, m, closed, holder, ctrl, busy, handled>>

\* A key was looked at; m is what was read last in this call.
Sensed(t, k, last) ==
  /\ selected' = [selected EXCEPT ![t] = @ \ {k}]
  /\ LET ends == selected[t] = {k}
     IN /\ Goto(t, IF ends THEN AfterSensor(t) ELSE "sense")
        /\ m' = [m EXCEPT ![t] = IF ends THEN None ELSE last]

\* The listener's key: one connection is accepted and registered.
Accept ==
  /\ pc[S] = "sense" /\ S \in selected[S]
  /\ keys' = [keys EXCEPT ![S] = @ \cup {Head(backlog)}]
  /\ backlog' = Tail(backlog)
  /\ Sensed(S, S, m[S])
  /\ UNCHANGED <<clients, sock, closed, holder, ctrl, busy, handled>>

Valid(t, c) == pc[t] = "sense" /\ c \in selected[t] \ {S} /\ c \in keys[t]

\* Mutant: the key of a new connection is not cancelled.
ReadKeepsKey(t, c) ==
  /\ Valid(t, c) /\ sock[c] # << >>
  /\ sock' = [sock EXCEPT ![c] = Tail(@)]
  /\ holder' = [holder EXCEPT ![t] = Append(@, <<c, Head(sock[c])>>)]
  /\ Sensed(t, c, <<c, Head(sock[c])>>)
  /\ UNCHANGED <<backlog, clients, keys, closed, ctrl, busy, handled>>

\* Mutant: every key is cancelled.
ReadCancels(t, c) ==
  /\ Valid(t, c) /\ sock[c] # << >>
  /\ sock' = [sock EXCEPT ![c] = Tail(@)]
  /\ keys' = [keys EXCEPT ![t] = @ \ {c}]
  /\ holder' = [holder EXCEPT ![t] = Append(@, <<c, Head(sock[c])>>)]
  /\ Sensed(t, c, <<c, Head(sock[c])>>)
  /\ UNCHANGED <<backlog, clients, closed, ctrl, busy, handled>>

\* A message is read; the key of a new connection is cancelled.
Read(t, c) ==
  /\ Valid(t, c) /\ sock[c] # << >>
  /\ sock' = [sock EXCEPT ![c] = Tail(@)]
  /\ keys' = [keys EXCEPT ![t] = IF Head(sock[c]) = New THEN @ \ {c} ELSE @]
  /\ holder' = [holder EXCEPT ![t] = Append(@, <<c, Head(sock[c])>>)]
  /\ Sensed(t, c, <<c, Head(sock[c])>>)
  /\ UNCHANGED <<backlog, clients, closed, ctrl, busy, handled>>

\* The client is gone: the channel is closed, which cancels its keys, and the
\* m of the key before, if there was one, is added once more.  A key that was
\* cancelled since it was selected is passed over.
ReadEnd(t, c) ==
  /\ pc[t] = "sense" /\ c \in selected[t] \ {S}
  /\ IF c \in keys[t]
     THEN /\ sock[c] = << >> /\ c \in gone
          /\ keys' = [u \in Threads |-> keys[u] \ {c}]
          /\ shut' = shut \cup {c}
          /\ holder' = [holder EXCEPT ![t] =
                          IF m[t] = None THEN @ ELSE Append(@, m[t])]
          /\ again' = IF m[t] = None THEN again ELSE again \cup {m[t][1]}
     ELSE UNCHANGED <<keys, closed, holder>>
  /\ Sensed(t, c, m[t])
  /\ UNCHANGED <<net, ctrl, busy, handled>>

-----------------------------------------------------------------------------
(* S: ServiceHandler, CRPService.handleConnectionMessage                   *)

Handling(t, i) == /\ pc[t] = "handle" /\ holder[t] # << >>
                  /\ Head(holder[t])[2] = i
Client(t) == Head(holder[t])[1]

EndHandling(t) == pc[t] = "handle" /\ holder[t] = << >>
                  /\ Goto(t, "select")
                  /\ UNCHANGED <<net, sensor, holder, ctrl, busy, handled>>

Handled(t) == holder' = [holder EXCEPT ![t] = Tail(@)]

NewConnection ==
  /\ Handling(S, New)
  /\ scan' = 1
  /\ Goto(S, "scan")
  /\ UNCHANGED <<net, sensor, holder, ctrl, created, available, asserts,
                 chosen, handled>>

\* Mutant: the loop looks at one thread too many.
ScanTooFar ==
  /\ pc[S] = "scan" /\ scan <= created + 1
  /\ IF scan \in available
     THEN chosen' = scan /\ Goto(S, "push") /\ UNCHANGED scan
     ELSE scan' = scan + 1 /\ UNCHANGED <<chosen, pc>>
  /\ UNCHANGED <<net, sensor, holder, ctrl, created, available, asserts,
                 handled>>

\* getAvailableThread
Scan ==
  /\ pc[S] = "scan" /\ scan <= created
  /\ IF scan \in available
     THEN chosen' = scan /\ Goto(S, "push") /\ UNCHANGED scan
     ELSE scan' = scan + 1 /\ UNCHANGED <<chosen, pc>>
  /\ UNCHANGED <<net, sensor, holder, ctrl, created, available, asserts,
                 handled>>

Create ==
  /\ pc[S] = "scan" /\ scan > created
  /\ created' = created + 1
  /\ ctrl' = [ctrl EXCEPT ![created'] = <<Client(S)>>]
  /\ pc' = [pc EXCEPT ![created'] = "select", ![S] = "handle"]
  /\ Handled(S)
  /\ UNCHANGED <<net, sensor, available, asserts, scan, chosen, handled>>

PushCtrlMessage ==
  /\ pc[S] = "push"
  /\ ctrl' = [ctrl EXCEPT ![chosen] = <<Client(S)>> \o @]
  /\ Goto(S, "mark")
  /\ UNCHANGED <<net, sensor, holder, busy, handled>>

\* Mutant: the worker remains available.
MarkThreadAsNotFreeNever ==
  /\ pc[S] = "mark"
  /\ Handled(S)
  /\ Goto(S, "handle")
  /\ UNCHANGED <<net, sensor, ctrl, busy, handled>>

MarkThreadAsNotFree ==
  /\ pc[S] = "mark"
  /\ available' = available \ {chosen}
  /\ Handled(S)
  /\ Goto(S, "handle")
  /\ UNCHANGED <<net, sensor, ctrl, created, asserts, scan, chosen, handled>>

-----------------------------------------------------------------------------
(* The workers: DBWorkerThread                                             *)

Pop(w) ==
  /\ pc[w] = "pop"
  /\ IF ctrl[w] # << >>
     THEN /\ holder' = [holder EXCEPT ![w] =
                          Append(@, <<Head(ctrl[w]), Register>>)]
          /\ ctrl' = [ctrl EXCEPT ![w] = Tail(@)]
          /\ UNCHANGED pc
     ELSE Goto(w, "handle") /\ UNCHANGED <<holder, ctrl>>
  /\ UNCHANGED <<net, sensor, busy, handled>>

\* Registering a closed channel fails, and so does the answer: w is lost.
RegisterPhoton(w) ==
  /\ Handling(w, Register)
  /\ IF Client(w) \in shut
     THEN Goto(w, "lost") /\ UNCHANGED keys
     ELSE /\ keys' = [keys EXCEPT ![w] = @ \cup {Client(w)}]
          /\ UNCHANGED pc
  /\ Handled(w)
  /\ UNCHANGED <<net, selected, m, closed, ctrl, busy, handled>>

Serve(w) ==
  handled' = [handled EXCEPT ![Client(w)] = Append(@, Head(holder[w])[2])]

HandleData(w) ==
  /\ \E i \in New + 1 .. Close - 1 : Handling(w, i)
  /\ Serve(w)
  /\ Handled(w)
  /\ UNCHANGED <<net, sensor, pc, ctrl, busy>>

\* unregisterPhoton throws if the channel has no key, and that is all then.
CloseConnection(w) ==
  /\ Handling(w, Close)
  /\ Serve(w)
  /\ IF Client(w) \in keys[w]
     THEN keys' = [keys EXCEPT ![w] = @ \ {Client(w)}] /\ Goto(w, "free")
     ELSE UNCHANGED <<keys, pc>>
  /\ Handled(w)
  /\ UNCHANGED <<net, selected, m, closed, ctrl, busy>>

\* The flag is set inside of an assertion.
MarkThreadAsFree(w) ==
  /\ pc[w] = "free"
  /\ available' = IF asserts THEN available \cup {w} ELSE available
  /\ Goto(w, "handle")
  /\ UNCHANGED <<net, sensor, holder, ctrl, created, asserts, scan, chosen, handled>>

-----------------------------------------------------------------------------
Sense(t) == \/ Select(t)
            \/ \E c \in Clients : Read(t, c) \/ ReadEnd(t, c)

NextS == \/ Sense(S) \/ Accept \/ EndHandling(S) \/ NewConnection \/ Scan
         \/ Create \/ PushCtrlMessage \/ MarkThreadAsNotFree

NextW(w) == \/ Sense(w) \/ Pop(w) \/ EndHandling(w) \/ RegisterPhoton(w)
            \/ HandleData(w) \/ CloseConnection(w) \/ MarkThreadAsFree(w)

NextC(c) == Connect(c) \/ SendNext(c) \/ Leave(c)

Next == \/ NextS \/ (\E w \in Workers : NextW(w))
        \/ (\E c \in Clients : NextC(c))

\* Every thread runs, also without a wakeup as select times out; a client that
\* has connected sends its messages.
Fairness == /\ WF_vars(NextS) /\ \A w \in Workers : WF_vars(NextW(w))
            /\ \A c \in Clients : WF_vars(SendNext(c))

Spec == Init /\ [][Next]_vars /\ Fairness

-----------------------------------------------------------------------------
(* Properties                                                              *)

Seen == Clients \X (Register .. Close)

\* Types of the variables.
TypeOK ==
  /\ backlog \in Seq(Clients) /\ {linked, gone, shut, again} \subseteq SUBSET Clients
  /\ sock \in [Clients -> Seq(New .. Close)] /\ sent \in [Clients -> 0 .. Close]
  /\ keys \in [Threads -> SUBSET Clients]
  /\ \A t \in Threads : selected[t] \subseteq Clients \cup {S}
  /\ \A t \in Threads : m[t] = None \/ m[t] \in Seen
  /\ pc \in [Threads -> {"none", "select", "sense", "pop", "handle", "scan",
                         "push", "mark", "free", "lost"}]
  /\ holder \in [Threads -> Seq(Seen)] /\ ctrl \in [Workers -> Seq(Clients)]
  /\ created \in 0 .. Cardinality(Workers) /\ available \subseteq 1 .. created
  /\ asserts \in BOOLEAN
  /\ scan \in 1 .. created + 1 /\ (chosen # None => chosen \in 1 .. created)
  /\ handled \in [Clients -> Seq(New + 1 .. Close)]

\* The connections w has, or will find among its control messages.
Assigned(w) == keys[w] \cup ToSet(ctrl[w])
                 \cup {x[1] : x \in ToSet(holder[w])}

\* An available worker serves nobody, unless S is about to mark it: what S
\* reads in getAvailableThread holds until it has handed the connection over.
AvailableIsIdle ==
  /\ \A w \in available : Assigned(w) # {} => pc[S] = "mark" /\ chosen = w
  /\ pc[S] \in {"push", "mark"} => chosen \in available

\* No worker has two connections, and no connection two workers but those that
\* S was given once more, because another client left before it said anything.
OneToOne ==
  \A w \in Workers :
    /\ Cardinality(Assigned(w)) <= 1
    /\ \A v \in Workers \ {w} : Assigned(v) \cap Assigned(w) \subseteq again

\* The messages of c that t has read and not yet handled.
Held(c, t) ==
  LET seen == holder[t]
      held[i \in 0 .. Len(seen)] ==
        IF i = 0 THEN << >>
        ELSE IF seen[i][1] = c /\ seen[i][2] # Register
             THEN Append(held[i - 1], seen[i][2])
             ELSE held[i - 1]
  IN held[Len(seen)]

\* What a worker will read of a socket: NEW_CONNECTION is for S.
AfterNew(msgs) == IF msgs # << >> /\ Head(msgs) = New THEN Tail(msgs) ELSE msgs

\* What was handled of a connection, what its worker holds and what is on its
\* way are the messages sent, in their order, after the NEW_CONNECTION read by
\* S: the hand over between two selectors loses and repeats nothing,
\* unless two workers read the socket.
Conserved ==
  \A c \in Clients \ again :
    handled[c] \o FlattenSeq([w \in Workers |-> Held(c, w)]) \o AfterNew(sock[c])
      = [i \in 1 .. sent[c] - 1 |-> i + 1]

\* A client that stays is served to its end, by one worker.
EachServed ==
  \A c \in Clients :
    c \in linked ~> \/ c \in gone \cup again
                   \/ handled[c] = [i \in 1 .. Close - 1 |-> i + 1]
=============================================================================
