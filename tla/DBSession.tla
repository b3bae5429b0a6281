------------------------------ MODULE DBSession ------------------------------
(***************************************************************************)
(* One capture session: a capture worker C streams the caplets of a client *)
(* to a database worker D, which packs them into pages for an IO worker    *)
(* IO, which writes them to a file.  The service handler S creates D when  *)
(* C connects, and shuts all threads down when it is told to.              *)
(*                                                                         *)
(* D and IO run one loop: poll the photon, pop the control messages (last  *)
(* in, first out), handle what was found.  A message is <<code, id>>: the  *)
(* id tells which one of its sender's pool it is, if the payload matters.  *)
(* The messages of both pools are reused once their receiver marks them    *)
(* AVAILABLE.  Caplets are the numbers 1, 2, ... in the order of capture.  *)
(***************************************************************************)
EXTENDS LocalChannel, SequencesExt, FiniteSets

CONSTANTS CapMsgs,    \* messages of C's pool: 4
          CapRoom,    \* caplets that fit in one
          PageMsgs,   \* messages of D's pool: NO_DB_PAGE_MSGS
          PageRoom,   \* caplets that fit in one
          MaxCaplets, \* bound: caplets of the session
          MayShutdown, \* whether the process may be told to shut down
          None

ASSUME PoolAssumption == /\ {CapMsgs, PageMsgs} \subseteq Nat \ {0, 1}
                         /\ {CapRoom, PageRoom} \subseteq Nat \ {0}
ASSUME BoundAssumption == MaxCaplets \in Nat /\ MayShutdown \in BOOLEAN
\* Threads by their ids; the photon from C to D, and a new one from D to IO.
S == 0
C == 1
D == 2
IO == 3
Threads == {S, C, D, IO}
Photons == {"cap", "io"}
CapIds == 1 .. CapMsgs
PageIds == 1 .. PageMsgs

ASSUME NoneAssumption == None \notin Nat /\ None \notin Photons

Plain(code) == <<code, None>>

VARIABLES
  status, \* CRPThreadStatus, "none" for a thread that does not exist
  pc, ctrl, holder, left, \* place, ctrlMsgs, MessageHolder, curNumOfMsgs - i
  stop,        \* the threads with startShutdown
  channel, isConnected,   \* of the photons
  pool, phToIO,           \* photons given back; D's photon to IO
  capUse, capBody, pageUse, pageBody, \* messages IN_USE, what is in each
  captured, currentDBMessage, closed, \* C: caplets, message, client gone
  registered, currentPage, dbm, packed, \* D: photon polled, page message, mode,
  full,                                 \*    caplets packed, page to be sent
  available,   \* D's availabilityFlag
  file, isOpen, \* IO: what is on disk, and if the file is open
  asked, next, count \* S: shutdown asked for, loop index and bound

loop == <<status, pc, ctrl, holder, left, stop>>
pooled == <<pool, phToIO>>
photons == <<channel, isConnected, pooled>>
caps == <<capUse, capBody>>
pages == <<pageUse, pageBody>>
cVars == <<captured, currentDBMessage, closed>>
dVars == <<registered, currentPage, dbm, packed, full, available>>
ioVars == <<file, isOpen>>
sVars == <<asked, next, count>>
vars == <<loop, photons, caps, pages, cVars, dVars, ioVars, sVars>>

Init ==
  /\ status = [t \in Threads |->
       CASE t = S -> "init" [] t = C -> "uninit" [] OTHER -> "none"]
  /\ pc = [t \in Threads |->
       CASE t = S -> "pop" [] t = C -> "start" [] OTHER -> "none"]
  /\ ctrl = [t \in Threads |-> << >>]
  /\ holder = [t \in Threads |-> << >>]
  /\ left = [t \in Threads |-> 0]
  /\ stop = {}
  /\ channel = [p \in Photons |-> NewChannel]
  /\ isConnected = {} /\ pool = {} /\ phToIO = None
  /\ capUse = {} /\ capBody = [i \in CapIds |-> << >>]
  /\ pageUse = {} /\ pageBody = [i \in PageIds |-> << >>]
  /\ captured = 0 /\ currentDBMessage = None /\ closed = FALSE
  /\ registered = FALSE /\ currentPage = None /\ dbm = "uninit"
  /\ packed = 0 /\ full = None /\ available = FALSE
  /\ file = << >> /\ isOpen = FALSE
  /\ asked = FALSE /\ next = 0 /\ count = 0

Goto(t, at) == pc' = [pc EXCEPT ![t] = at]
Push(t, m) == ctrl' = [ctrl EXCEPT ![t] = <<m>> \o @]

\* sendMessageNoFail: it spins until the message fits.
SendTo(p, m) == /\ CanSend(channel[p])
                /\ channel' = [channel EXCEPT ![p] = Send(@, m)]

\* getNextAvailableMsg: the first that is not CURRENTLY_IN_USE.
FirstFree(ids, used, i) ==
  i \in ids \ used /\ \A j \in ids \ used : i <= j

-----------------------------------------------------------------------------
(* The loop of the threads.                                                *)

Start(t) ==
  /\ pc[t] = "start"
  /\ status' = [status EXCEPT ![t] = "init"]
  /\ Goto(t, CASE t = C -> "connect" [] t = D -> "spawn" [] t = IO -> "recv")
  /\ UNCHANGED <<ctrl, holder, left, stop, photons, caps, pages, cVars, dVars,
                 ioVars, sVars>>

\* D got the photon that C gave back.
Reused == phToIO = "cap"

\* checkForNewMessages: the local photon, until it returns null.  D, which
\* produces for phToIO, gets nothing out of it, although it polls it, too.
Polled(t) == IF t = IO THEN {phToIO}
             ELSE IF registered THEN {"cap"} \ {phToIO} ELSE {}

Recv(t) ==
  /\ pc[t] = "recv"
  /\ \/ \E p \in Polled(t) :
          /\ CanReceive(channel[p])
          /\ holder' = [holder EXCEPT ![t] = Append(@, Received(channel[p]))]
          /\ channel' = [channel EXCEPT ![p] = Receive(@)]
          /\ UNCHANGED pc
     \/ /\ \A p \in Polled(t) : ~CanReceive(channel[p])
        /\ Goto(t, "pop")
        /\ UNCHANGED <<holder, channel>>
  /\ UNCHANGED <<status, ctrl, left, stop, isConnected, pooled, caps, pages,
                 cVars, dVars, ioVars, sVars>>

\* S senses remote photons only, which this session has none of.
Again(t) == IF t = S THEN "pop" ELSE "recv"

Pop(t) ==
  /\ pc[t] = "pop"
  /\ IF ctrl[t] # << >>
     THEN /\ holder' = [holder EXCEPT ![t] = Append(@, Head(ctrl[t]))]
          /\ ctrl' = [ctrl EXCEPT ![t] = Tail(@)]
          /\ UNCHANGED <<pc, left>>
     ELSE /\ left' = [left EXCEPT ![t] = Len(holder[t])]
          /\ Goto(t, IF holder[t] = << >> THEN Again(t) ELSE "handle")
          /\ UNCHANGED <<ctrl, holder>>
  /\ UNCHANGED <<status, stop, photons, caps, pages, cVars, dVars, ioVars,
                 sVars>>

\* The message at the head of the holder is handled.
Handling(t, code) == pc[t] = "handle" /\ Head(holder[t])[1] = code
Id(t) == Head(holder[t])[2]

\* It is done with; after the last one shutdownInProgress is looked at.
NextMessage(t, rest) ==
  /\ holder' = [holder EXCEPT ![t] = rest]
  /\ left' = [left EXCEPT ![t] = @ - 1]
  /\ LET ends == left[t] = 1 /\ t \in stop'
     IN /\ Goto(t, IF ends THEN "done"
                   ELSE IF left[t] = 1 THEN Again(t) ELSE "handle")
        /\ status' = [status EXCEPT ![t] = IF ends THEN "finished" ELSE @]

Handled(t) == UNCHANGED stop /\ NextMessage(t, Tail(holder[t]))
LastHandled(t) == stop' = stop \cup {t} /\ NextMessage(t, Tail(holder[t]))

\* dontConsiderForProcessing, addMessage: it is put back for the next poll.
Defer(t) == /\ UNCHANGED stop
            /\ NextMessage(t, Append(Tail(holder[t]), Head(holder[t])))

\* closePhoton: CLOSE is sent, the channel flushed and waited for.
Close(t, p, from) ==
  /\ pc[t] = from
  /\ SendTo(p, Plain("CLOSE"))
  /\ Goto(t, "drain")
  /\ UNCHANGED <<status, ctrl, holder, left, stop, isConnected, pooled, caps,
                 pages, cVars, dVars, ioVars, sVars>>

\* returnPhotonToPool, whether the messages were received or not.
Drained(t, p) ==
  /\ pc[t] = "drain"
  /\ ~AnyPendingData(Flush(channel[p]))
  /\ channel' = [channel EXCEPT ![p] = Flush(@)]
  /\ isConnected' = isConnected \ {p}
  /\ pool' = pool \cup {p}
  /\ UNCHANGED phToIO

-----------------------------------------------------------------------------
(* C, CaptureWorker                                                        *)

Connect ==
  /\ pc[C] = "connect"
  /\ isConnected' = isConnected \cup {"cap"}
  /\ Push(S, Plain("NEW_CONNECTION"))
  /\ Goto(C, "idle")
  /\ UNCHANGED <<status, holder, left, stop, channel, pooled, caps, pages,
                 cVars, dVars, ioVars, sVars>>

NoRoom == currentDBMessage # None /\ Len(capBody[currentDBMessage]) = CapRoom

\* A caplet of the client: it is put in the current message ...
Capture ==
  /\ pc[C] = "idle" /\ ~closed /\ captured < MaxCaplets /\ ~NoRoom
  /\ captured' = captured + 1
  /\ \E i \in CapIds :
       /\ IF currentDBMessage = None
          THEN /\ FirstFree(CapIds, capUse, i)
               /\ capUse' = capUse \cup {i}
          ELSE i = currentDBMessage /\ UNCHANGED capUse
       /\ currentDBMessage' = i
       /\ capBody' = [capBody EXCEPT ![i] = Append(@, captured')]
  /\ UNCHANGED <<loop, photons, pages, closed, dVars, ioVars, sVars>>

\* ... which is sent when it is full; ...
SendCaplets ==
  /\ pc[C] = "idle" /\ ~closed /\ captured < MaxCaplets /\ NoRoom
  /\ SendTo("cap", <<"WRITE", currentDBMessage>>)
  /\ Goto(C, "getFree")
  /\ UNCHANGED <<status, ctrl, holder, left, stop, isConnected, pooled, caps,
                 pages, cVars, dVars, ioVars, sVars>>

\* Mutant: the message that is free again is not reset.
GetFreeMsgUnreset ==
  /\ pc[C] = "getFree"
  /\ captured' = captured + 1
  /\ \E i \in CapIds :
       /\ FirstFree(CapIds, capUse, i)
       /\ capUse' = capUse \cup {i}
       /\ capBody' = [capBody EXCEPT ![i] = Append(@, captured')]
       /\ currentDBMessage' = i
  /\ Goto(C, "idle")
  /\ UNCHANGED <<status, ctrl, holder, left, stop, photons, pages, closed,
                 dVars, ioVars, sVars>>

\* ... another one is waited for, and reset.
GetFreeMsg ==
  /\ pc[C] = "getFree"
  /\ captured' = captured + 1
  /\ \E i \in CapIds :
       /\ FirstFree(CapIds, capUse, i)
       /\ capUse' = capUse \cup {i}
       /\ capBody' = [capBody EXCEPT ![i] = <<captured'>>]
       /\ currentDBMessage' = i
  /\ Goto(C, "idle")
  /\ UNCHANGED <<status, ctrl, holder, left, stop, photons, pages, closed,
                 dVars, ioVars, sVars>>

\* CLOSE of the client, or SHUTDOWN, which falls through.  Bound: C is not
\* followed when it is told to shut down and finds its photon connected by D.
CloseC ==
  /\ pc[C] = "idle"
  /\ \/ ~closed /\ UNCHANGED <<ctrl, stop>>
     \/ /\ ctrl[C] # << >> /\ ~Reused
        /\ ctrl' = [ctrl EXCEPT ![C] = Tail(@)]
        /\ stop' = stop \cup {C}
  /\ closed' = TRUE
  /\ LET ends == "cap" \notin isConnected
     IN /\ Goto(C, IF ends THEN "done" ELSE "lastCaplets")
        /\ status' = [status EXCEPT ![C] = IF ends THEN "finished" ELSE @]
  /\ UNCHANGED <<holder, left, photons, caps, pages, captured,
                 currentDBMessage, dVars, ioVars, sVars>>

SendLastCaplets ==
  /\ pc[C] = "lastCaplets"
  /\ IF currentDBMessage # None
     THEN SendTo("cap", <<"WRITE", currentDBMessage>>)
     ELSE UNCHANGED channel
  /\ Goto(C, "close")
  /\ UNCHANGED <<status, ctrl, holder, left, stop, isConnected, pooled, caps,
                 pages, cVars, dVars, ioVars, sVars>>

CloseDBPhoton == Close(C, "cap", "close")

\* A thread that shuts down frees its blocks, after a bounded wait for the
\* messages in use.
ClosedDBPhoton ==
  /\ Drained(C, "cap")
  /\ Goto(C, IF C \in stop THEN "done" ELSE "idle")
  /\ status' = [status EXCEPT ![C] = IF C \in stop THEN "finished" ELSE @]
  /\ UNCHANGED <<ctrl, holder, left, stop, caps, pages, cVars, dVars, ioVars,
                 sVars>>

-----------------------------------------------------------------------------
(* D, DBWorkerThread                                                       *)

\* createPhotonHelper: a new photon if the pool has none, or one of the pool,
\* which is reset.  The reset marks all arrays as empty and leaves in them what
\* they hold: nobody sees that, as D, which never gets a caplet now, sends nothing.
NewPhoton ==
  /\ pool = {}
  /\ phToIO' = "io"
  /\ UNCHANGED <<channel, pool>>

PooledPhoton ==
  /\ phToIO' \in pool
  /\ pool' = pool \ {phToIO'}
  /\ channel' = [channel EXCEPT ![phToIO'] = NewChannel]

\* The IO worker is created with its photon and started.
SpawnIO ==
  /\ pc[D] = "spawn"
  /\ NewPhoton \/ PooledPhoton
  /\ isConnected' = isConnected \cup {phToIO'}
  /\ status' = [status EXCEPT ![IO] = "uninit"]
  /\ pc' = [pc EXCEPT ![D] = "recv", ![IO] = "start"]
  /\ UNCHANGED <<ctrl, holder, left, stop, caps, pages, cVars, dVars, ioVars,
                 sVars>>

RegisterPhoton ==
  /\ Handling(D, "REGISTER")
  /\ registered' = TRUE
  /\ Handled(D)
  /\ UNCHANGED <<ctrl, photons, caps, pages, cVars, currentPage, dbm,
                 packed, full, available, ioVars, sVars>>

\* Mutant: the message is AVAILABLE before its caplets are packed.
WriteCapletsEarly ==
  /\ Handling(D, "WRITE")
  /\ IF phToIO \in isConnected
     THEN /\ packed' = 0
          /\ IF currentPage = None
             THEN currentPage' = 1 /\ pageUse' = {1} /\ dbm' = "write"
             ELSE UNCHANGED <<currentPage, pageUse, dbm>>
          /\ Goto(D, "add")
          /\ UNCHANGED <<status, holder, left, stop>>
     ELSE Handled(D) /\ UNCHANGED <<packed, currentPage, pageUse, dbm>>
  /\ capUse' = capUse \ {Id(D)}
  /\ UNCHANGED <<ctrl, photons, capBody, pageBody, cVars, registered,
                 full, available, ioVars, sVars>>

\* The first write makes the pages.  Without IO the caplets are dropped.
WriteCaplets ==
  /\ Handling(D, "WRITE")
  /\ IF phToIO \in isConnected
     THEN /\ packed' = 0
          /\ IF currentPage = None
             THEN currentPage' = 1 /\ pageUse' = {1} /\ dbm' = "write"
             ELSE UNCHANGED <<currentPage, pageUse, dbm>>
          /\ Goto(D, "add")
          /\ UNCHANGED <<status, holder, left, stop, capUse>>
     ELSE /\ capUse' = capUse \ {Id(D)}
          /\ Handled(D)
          /\ UNCHANGED <<packed, currentPage, pageUse, dbm>>
  /\ UNCHANGED <<ctrl, photons, capBody, pageBody, cVars, registered,
                 full, available, ioVars, sVars>>

AllPacked == packed = Len(capBody[Id(D)])
NextCaplet == capBody[Id(D)][packed + 1]

AddCaplet ==
  /\ pc[D] = "add" /\ ~AllPacked
  /\ Len(pageBody[currentPage]) < PageRoom
  /\ pageBody' = [pageBody EXCEPT ![currentPage] = Append(@, NextCaplet)]
  /\ packed' = packed + 1
  /\ UNCHANGED <<loop, photons, caps, pageUse, cVars, registered, currentPage,
                 dbm, full, available, ioVars, sVars>>

\* The caplet needs another page message, which is waited for; then the full
\* one is sent.
AddToNextPage ==
  /\ pc[D] = "add" /\ ~AllPacked
  /\ Len(pageBody[currentPage]) = PageRoom
  /\ \E i \in PageIds :
       /\ FirstFree(PageIds, pageUse, i)
       /\ pageUse' = pageUse \cup {i}
       /\ pageBody' = [pageBody EXCEPT ![i] = <<NextCaplet>>]
       /\ currentPage' = i
  /\ packed' = packed + 1
  /\ full' = currentPage
  /\ Goto(D, "sendPage")
  /\ UNCHANGED <<status, ctrl, holder, left, stop, photons, caps, cVars,
                 registered, dbm, available, ioVars, sVars>>

SendPage ==
  /\ pc[D] = "sendPage"
  /\ SendTo(phToIO, <<"PAGE", full>>)
  /\ full' = None
  /\ Goto(D, "add")
  /\ UNCHANGED <<status, ctrl, holder, left, stop, isConnected, pooled, caps,
                 pages, cVars, registered, currentPage, dbm, packed, available,
                 ioVars, sVars>>


WroteCaplets ==
  /\ pc[D] = "add" /\ AllPacked
  /\ capUse' = capUse \ {Id(D)}
  /\ Handled(D)
  /\ UNCHANGED <<ctrl, photons, capBody, pages, cVars, dVars, ioVars,
                 sVars>>

\* Mutant: SHUTDOWN does not wait.
ShutdownDAtOnce ==
  /\ Handling(D, "SHUTDOWN")
  /\ stop' = stop \cup {D}
  /\ Goto(D, "lastPage")
  /\ UNCHANGED <<status, ctrl, holder, left, photons, caps, pages, cVars,
                 dVars, ioVars, sVars>>

\* SHUTDOWN waits for the photon to IO to be closed, then it does what CLOSE
\* does.
ShutdownD ==
  /\ Handling(D, "SHUTDOWN")
  /\ IF phToIO \in isConnected
     THEN Defer(D)
     ELSE /\ stop' = stop \cup {D}
          /\ Goto(D, "lastPage")
          /\ UNCHANGED <<status, holder, left>>
  /\ UNCHANGED <<ctrl, photons, caps, pages, cVars, dVars, ioVars, sVars>>

CloseD ==
  /\ Handling(D, "CLOSE")
  /\ Goto(D, "lastPage")
  /\ UNCHANGED <<status, ctrl, holder, left, stop, photons, caps, pages,
                 cVars, dVars, ioVars, sVars>>

\* Mutant: the page message is sent again if SHUTDOWN comes after CLOSE.
SendLastPageAgain ==
  /\ pc[D] = "lastPage"
  /\ IF currentPage # None
     THEN SendTo(phToIO, <<"PAGE", currentPage>>)
     ELSE UNCHANGED channel
  /\ dbm' = "uninit"
  /\ Goto(D, IF phToIO \in isConnected THEN "close" ELSE "free")
  /\ UNCHANGED <<status, ctrl, holder, left, stop, isConnected, pooled, caps,
                 pages, cVars, registered, currentPage, packed, full, available,
                 ioVars, sVars>>

\* finishWritingCaplets, reset
SendLastPage ==
  /\ pc[D] = "lastPage"
  /\ IF currentPage # None /\ dbm = "write"
     THEN SendTo(phToIO, <<"PAGE", currentPage>>)
     ELSE UNCHANGED channel
  /\ dbm' = "uninit"
  /\ Goto(D, IF phToIO \in isConnected THEN "close" ELSE "free")
  /\ UNCHANGED <<status, ctrl, holder, left, stop, isConnected, pooled, caps,
                 pages, cVars, registered, currentPage, packed, full, available,
                 ioVars, sVars>>

CloseIOPhoton == Close(D, phToIO, "close")

ClosedIOPhoton ==
  /\ Drained(D, phToIO)
  /\ Goto(D, "free")
  /\ UNCHANGED <<status, ctrl, holder, left, stop, caps, pages, cVars, dVars,
                 ioVars, sVars>>

MarkThreadAsFree ==
  /\ pc[D] = "free"
  /\ available' = TRUE
  /\ Handled(D)
  /\ UNCHANGED <<ctrl, photons, caps, pages, cVars, registered,
                 currentPage, dbm, packed, full, ioVars, sVars>>

-----------------------------------------------------------------------------
(* IO, IOWorkerThread                                                      *)

\* Opening the file empties it.
WritePage ==
  /\ Handling(IO, "PAGE")
  /\ file' = (IF isOpen THEN file ELSE << >>) \o pageBody[Id(IO)]
  /\ isOpen' = TRUE
  /\ pageUse' = pageUse \ {Id(IO)}
  /\ Handled(IO)
  /\ UNCHANGED <<ctrl, photons, caps, pageBody, cVars, dVars, sVars>>

\* SHUTDOWN waits for the file to be closed.
ShutdownIO ==
  /\ Handling(IO, "SHUTDOWN")
  /\ IF isOpen
     THEN Defer(IO) ELSE LastHandled(IO)
  /\ UNCHANGED <<ctrl, photons, caps, pages, cVars, dVars, ioVars, sVars>>

CloseIO ==
  /\ Handling(IO, "CLOSE")
  /\ isOpen' = FALSE
  /\ Handled(IO)
  /\ UNCHANGED <<ctrl, photons, caps, pages, cVars, dVars, file, sVars>>

-----------------------------------------------------------------------------
(* S, ServiceHandler                                                       *)

\* A client tells S to shut down; sendQuickMessage pushes it as control.
AskShutdown ==
  /\ MayShutdown /\ ~asked
  /\ asked' = TRUE
  /\ Push(S, Plain("SHUTDOWN"))
  /\ UNCHANGED <<status, pc, holder, left, stop, photons, caps, pages, cVars,
                 dVars, ioVars, next, count>>

\* handleConnectionMessage: no worker is available, one is created.
NewConnection ==
  /\ Handling(S, "NEW_CONNECTION")
  /\ Push(D, Plain("REGISTER"))
  /\ holder' = [holder EXCEPT ![S] = Tail(@)]
  /\ left' = [left EXCEPT ![S] = @ - 1]
  /\ LET ends == left[S] = 1 /\ S \in stop
     IN /\ pc' = [pc EXCEPT ![D] = "start",
                            ![S] = IF ends THEN "done"
                                   ELSE IF left[S] = 1 THEN "pop" ELSE @]
        /\ status' = [status EXCEPT ![D] = "uninit",
                                    ![S] = IF ends THEN "finished" ELSE @]
  /\ UNCHANGED <<stop, photons, caps, pages, cVars, dVars, ioVars, sVars>>

\* handleShutdown goes up to the number of threads, one id too far.
HandleShutdown ==
  /\ Handling(S, "SHUTDOWN")
  /\ next' = 1
  /\ count' = Cardinality({t \in Threads : status[t] # "none"})
  /\ Goto(S, "tell")
  /\ UNCHANGED <<status, ctrl, holder, left, stop, photons, caps, pages,
                 cVars, dVars, ioVars, asked>>

Running(t) == t \in Threads /\ status[t] = "init"

Tell ==
  /\ pc[S] = "tell" /\ next <= count
  /\ IF Running(next) THEN Push(next, Plain("SHUTDOWN")) ELSE UNCHANGED ctrl
  /\ next' = next + 1
  /\ UNCHANGED <<status, pc, holder, left, stop, photons, caps, pages, cVars,
                 dVars, ioVars, asked, count>>

ToldAll ==
  /\ pc[S] = "tell" /\ next > count
  /\ next' = 1
  /\ Goto(S, "join")
  /\ UNCHANGED <<status, ctrl, holder, left, stop, photons, caps, pages,
                 cVars, dVars, ioVars, asked, count>>

Join ==
  /\ pc[S] = "join" /\ next <= count /\ ~Running(next)
  /\ next' = next + 1
  /\ UNCHANGED <<loop, photons, caps, pages, cVars, dVars, ioVars, asked,
                 count>>

JoinedAll ==
  /\ pc[S] = "join" /\ next > count
  /\ LastHandled(S)
  /\ UNCHANGED <<ctrl, photons, caps, pages, cVars, dVars, ioVars, sVars>>

-----------------------------------------------------------------------------
Poll(t) == Start(t) \/ Recv(t) \/ Pop(t)

NextC == \/ Start(C) \/ Connect \/ Capture \/ SendCaplets \/ GetFreeMsg
         \/ CloseC \/ SendLastCaplets \/ CloseDBPhoton \/ ClosedDBPhoton

NextD == \/ Poll(D) \/ SpawnIO \/ RegisterPhoton \/ WriteCaplets \/ AddCaplet
         \/ AddToNextPage \/ SendPage \/ WroteCaplets \/ ShutdownD \/ CloseD
         \/ SendLastPage \/ CloseIOPhoton \/ ClosedIOPhoton
         \/ MarkThreadAsFree

NextIO == Poll(IO) \/ WritePage \/ ShutdownIO \/ CloseIO

NextS == \/ Pop(S) \/ NewConnection \/ HandleShutdown \/ Tell \/ ToldAll
         \/ Join \/ JoinedAll

Next == NextC \/ NextD \/ NextIO \/ NextS \/ AskShutdown

\* Every thread runs: the loops poll with a timeout, and the client goes on.
Fairness == WF_vars(NextC) /\ WF_vars(NextD) /\ WF_vars(NextIO) /\ WF_vars(NextS)

Spec == Init /\ [][Next]_vars /\ Fairness

-----------------------------------------------------------------------------
(* Properties                                                              *)

Codes == {"NEW_CONNECTION", "REGISTER", "WRITE", "PAGE", "CLOSE", "SHUTDOWN"}
Messages == Codes \X ((1 .. CapMsgs + PageMsgs) \cup {None})

Places == {"none", "start", "connect", "spawn", "idle", "getFree", "lastCaplets",
           "recv", "pop", "handle", "add", "sendPage", "lastPage", "close", "drain",
           "free", "tell", "join", "done"}

\* Types of the variables.
TypeOK ==
  /\ status \in [Threads -> {"none", "uninit", "init", "finished"}]
  /\ pc \in [Threads -> Places]
  /\ {ctrl, holder} \subseteq [Threads -> Seq(Messages)]
  /\ left \in [Threads -> Nat] /\ \A t \in Threads : left[t] <= Len(holder[t])
  /\ stop \subseteq Threads /\ isConnected \subseteq Photons
  /\ pool \subseteq Photons /\ phToIO \in Photons \cup {None}
  /\ \A p \in Photons : /\ channel[p].arrays \in Seq(Seq(Messages))
                        /\ Len(channel[p].arrays) <= NQueues
                        /\ channel[p].produced \in BOOLEAN
                        /\ channel[p].consumed \in BOOLEAN
  /\ capUse \subseteq CapIds /\ pageUse \subseteq PageIds
  /\ \A i \in CapIds : capBody[i] \in Seq(1 .. captured) /\ Len(capBody[i]) <= CapRoom
  /\ \A i \in PageIds : pageBody[i] \in Seq(1 .. captured) /\ Len(pageBody[i]) <= PageRoom
  /\ captured \in 0 .. MaxCaplets /\ closed \in BOOLEAN
  /\ currentDBMessage \in CapIds \cup {None}
  /\ {currentPage, full} \subseteq PageIds \cup {None}
  /\ dbm \in {"uninit", "write"} /\ packed \in 0 .. CapRoom
  /\ {registered, available, isOpen, asked} \subseteq BOOLEAN
  /\ file \in Seq(1 .. captured)
  /\ next \in Nat /\ count \in 0 .. 4

\* What f makes of the elements of a sequence, one after the other.
Each(f, s) == FlattenSeq([i \in DOMAIN s |-> f[s[i]]])

\* The id of a message with one of the codes, and of no other.
IdIf(codes) == [m \in Messages |-> IF m[1] \in codes THEN <<m[2]>> ELSE << >>]

\* What went into p and was not finished by t, who reads p: the oldest first.
Stream(p, t) == holder[t] \o FlattenSeq(channel[p].arrays)

UnhandledCaps == Each(IdIf({"WRITE"}), Stream("cap", D))
UnhandledPages == Each(IdIf({"PAGE"}), Stream("io", IO))

\* The page messages D still has to send, in the order it will.
UnsentPages ==
  (IF full = None THEN << >> ELSE <<full>>)
    \o (IF dbm = "write" THEN <<currentPage>> ELSE << >>)

\* The message C still fills.
UnsentCaps ==
  IF \/ currentDBMessage = None
     \/ pc[C] \in {"getFree", "close", "drain", "done"}
     \/ pc[C] = "idle" /\ "cap" \notin isConnected
  THEN << >> ELSE <<currentDBMessage>>

NotPacked(cs) == IF pc[D] \in {"add", "sendPage"}
                 THEN SubSeq(cs, packed + 1, Len(cs)) ELSE cs

Intact ==
  file \o Each(pageBody, UnhandledPages \o UnsentPages)
       \o NotPacked(Each(capBody, UnhandledCaps \o UnsentCaps))
    = [i \in 1 .. captured |-> i]

\* What is in the file, followed by what is in the pages on their way to it
\* and in the caplet messages on their way to the pages, is what was captured:
\* whatever messages are reused meanwhile and whenever a shutdown comes, no
\* step of the four threads loses, repeats or reorders a caplet, but one: D
\* resets a photon that C gave back with caplets in it.
Conserved == Reused \/ Intact

EachOnce ==
  /\ ToSet(UnhandledCaps \o UnsentCaps) = capUse
  /\ Cardinality(capUse) = Len(UnhandledCaps \o UnsentCaps)
  /\ ToSet(UnhandledPages \o UnsentPages) = pageUse
  /\ Cardinality(pageUse) = Len(UnhandledPages \o UnsentPages)

\* A message that may be reused is in nobody's hands, and no message is on its
\* way twice: updateStatus comes after the last use of the payload.  After the
\* reset of a photon its messages stay in use, in nobody's hands.
OneUser == Reused \/ EachOnce

\* A file that was closed has all caplets of the session: CLOSE overtakes no
\* page on its way through three threads and two queues.
ClosedIsComplete ==
  file # << >> /\ ~isOpen => file = [i \in 1 .. captured |-> i]

\* The pools are small enough for the queues: sendMessageNoFail never spins and
\* its flush never fails, so that no message stays where nobody reads it.
SentIsPublished ==
  \A p \in Photons : channel[p].produced => Own(channel[p]) = << >>

\* Without a shutdown the session ends: all caplets are in the closed file and
\* D is free for the next connection.  D, which resets C's photon, never hears
\* of the caplets, nor of their end.
Stored == \/ asked
          \/ /\ closed /\ available /\ ~isOpen
             /\ file = [i \in 1 .. captured |-> i]

\* "send shutdown messages to all the threads. and wait for them to shutdown":
\* the service handler gets through its shutdown.  A C that is not followed is
\* no counterexample.
ShutdownEnds == asked ~> status[S] = "finished" \/ Reused
=============================================================================
