------------------------------ MODULE LockFreeQ ------------------------------
(***************************************************************************)
(* com.crp.common.LockFreeQ: a ring of fixed size queues handed between    *)
(* one producer and one consumer by compare-and-set on a single status     *)
(* word, plus a lock free stack that carries the consumer's replies.       *)
(*                                                                         *)
(* Every shared access of addToQ, getElemFromQ and doneProducing that the  *)
(* other end can observe is a step of its own; pc says where each thread   *)
(* stands inside its call.  A queue of the ring is a sequence (module      *)
(* FixedSizeQueue shows that the circular array implements it) and the     *)
(* k-th message accepted from the producer is the number k.                *)
(*                                                                         *)
(* The client of this module is the most general one the class comment     *)
(* allows: Source is the only producer, Sink the only consumer.  Module    *)
(* LFQReply lets Sink flush too, as the replies of a photon do.            *)
(***************************************************************************)
EXTENDS Integers, Sequences, FiniteSets

CONSTANTS
  Source, Sink,     \* the two threads that share the queue
  None,             \* thread id -1: nobody is subscribed
  NumQueues,        \* GLOBAL_CONSTANTS.LONG_SIZE
  QueueSize,        \* inpSize, the length of each array
  PSpin, CSpin,     \* setProducerSpinning, setConsumerSpinning
  MaxSent,          \* bound: messages Source sends
  MaxReplies        \* bound: replies Sink sends

ASSUME ThreadAssumption == /\ Source # Sink
                           /\ None \notin {Source, Sink}
ASSUME SizeAssumption == /\ NumQueues \in Nat /\ NumQueues > 1
                         /\ QueueSize \in Nat /\ QueueSize > 0
ASSUME FlagAssumption == {PSpin, CSpin} \subseteq BOOLEAN
ASSUME BoundAssumption == MaxSent \in Nat /\ MaxReplies \in Nat

Threads == {Source, Sink}
Queues  == 0 .. NumQueues - 1

QueueStatus == {"EMPTY", "PRODUCER_USING", "PRODUCER_FIN",
                "CONSUMER_USING", "CONSUMER_FIN"}

VARIABLES
  queueGroup,       \* contents of each fixed size queue
  status,           \* the status word, one QueueStatus per queue
  lfs,              \* the stack of replies, top first
  producer, consumer,
  pQIndex, cQIndex, \* -1 until the first advance
  waitCounter,      \* the thread that suspended as producer, or None
  wake,             \* threads whose selector has a pending wakeup
  pc,               \* where each thread stands
  op,               \* the operation it is executing
  curVal,           \* local: the status word it read
  index,            \* local: the queue it is moving to or accessing
  sent, rcvd,       \* history: messages accepted, messages handed over
  replies           \* number of replies pushed

ring     == <<queueGroup, status, pQIndex, cQIndex>>
locals   == <<pc, op, curVal, index>>
ends     == <<producer, consumer>>
parking  == <<waitCounter, wake>>
history  == <<sent, rcvd, replies>>
vars     == <<ring, lfs, ends, parking, locals, history>>

AllEmpty == [q \in Queues |-> "EMPTY"]

Init ==
  /\ queueGroup = [q \in Queues |-> <<>>]
  /\ status = AllEmpty
  /\ lfs = <<>>
  /\ producer = None /\ consumer = None
  /\ pQIndex = -1 /\ cQIndex = -1
  /\ waitCounter = None
  /\ wake = {}
  /\ pc = [t \in Threads |-> "idle"]
  /\ op = [t \in Threads |-> "none"]
  /\ curVal = [t \in Threads |-> AllEmpty]
  /\ index = [t \in Threads |-> -1]
  /\ sent = 0 /\ rcvd = <<>> /\ replies = 0

-----------------------------------------------------------------------------
(* Subscription.                                                           *)

SubscribeAsProducer(t) ==
  /\ producer = None /\ consumer # t
  /\ producer' = t
  /\ UNCHANGED <<ring, lfs, consumer, parking, locals, history>>

SubscribeAsConsumer(t) ==
  /\ consumer = None /\ producer # t
  /\ consumer' = t
  /\ UNCHANGED <<ring, lfs, producer, parking, locals, history>>

\* Mutant: a thread that holds one end is given the other one as well.
SubscribeToQueueTwice(t) ==
  IF None \notin {producer, consumer}
  THEN UNCHANGED ends
  ELSE IF producer = None THEN producer' = t /\ UNCHANGED consumer
                          ELSE consumer' = t /\ UNCHANGED producer

\* subscribeToQueue: the thread takes whichever end is still open.
SubscribeToQueue(t) ==
  \/ /\ \/ producer # None /\ consumer # None
        \/ t \in {producer, consumer}
     /\ UNCHANGED ends
  \/ /\ t \notin {producer, consumer} /\ producer = None
     /\ producer' = t /\ UNCHANGED consumer
  \/ /\ t \notin {producer, consumer} /\ producer # None /\ consumer = None
     /\ consumer' = t /\ UNCHANGED producer

-----------------------------------------------------------------------------
(* The status word.                                                        *)

NextQ(i) == (i + 1) % NumQueues

IsReadyForProducerOnce(q, val) == val[q] = "EMPTY" \* mutant: no second lap
IsReadyForProducer(q, val) == val[q] \in {"EMPTY", "CONSUMER_FIN"}
IsReadyForConsumerAnyUse(q, val) == val[q] \in {"PRODUCER_FIN", "PRODUCER_USING"} \* mutant
IsReadyForConsumer(q, val) == val[q] = "PRODUCER_FIN"

\* The old queue (if any) is released first, then the new one is claimed.
MoveToNextQ(old, new, val, released, claimed) ==
  LET upd == IF old >= 0 THEN [val EXCEPT ![old] = released] ELSE val
  IN  [upd EXCEPT ![new] = claimed]

MoveProducerToNextQ(old, new, val) ==
  MoveToNextQ(old, new, val, "PRODUCER_FIN", "PRODUCER_USING")

MoveConsumerToNextQ(old, new, val) ==
  MoveToNextQ(old, new, val, "CONSUMER_FIN", "CONSUMER_USING")

IsFull(q)  == Len(queueGroup[q]) = QueueSize
IsEmpty(q) == queueGroup[q] = <<>>

-----------------------------------------------------------------------------
(* Suspending and resuming.  A suspended thread sits in its selector; a    *)
(* wakeup that arrives first is remembered by the selector.                *)

Resumed(id, spins) == IF spins \/ id = None THEN {} ELSE {id}
ResumeProducerInverted == wake' = wake \cup Resumed(producer, ~PSpin) \* mutant
ResumeProducer == wake' = wake \cup Resumed(producer, PSpin)
ResumeConsumer(force) == wake' = wake \cup Resumed(consumer, CSpin /\ ~force)

\* The thread's own message loop selects, then polls: the wakeup is used up.
Select(t) ==
  /\ pc[t] = "idle" /\ t \in wake
  /\ wake' = wake \ {t}
  /\ UNCHANGED <<ring, lfs, ends, waitCounter, locals, history>>

-----------------------------------------------------------------------------
(* Control flow of a call.                                                 *)

Begin(t, operation, at, q) ==
  /\ pc' = [pc EXCEPT ![t] = at]
  /\ op' = [op EXCEPT ![t] = operation]
  /\ index' = [index EXCEPT ![t] = q]
  /\ UNCHANGED curVal

Goto(t, at, val, q) ==
  /\ pc' = [pc EXCEPT ![t] = at]
  /\ curVal' = [curVal EXCEPT ![t] = val]
  /\ index' = [index EXCEPT ![t] = q]
  /\ UNCHANGED op

Return(t) ==
  /\ pc' = [pc EXCEPT ![t] = "idle"]
  /\ op' = [op EXCEPT ![t] = "none"]
  /\ curVal' = [curVal EXCEPT ![t] = AllEmpty]
  /\ index' = [index EXCEPT ![t] = -1]

\* One end is specified when the connection is made, before the first call.
Connected == producer # None \/ consumer # None

MayCall(t) == pc[t] = "idle" /\ Connected

-----------------------------------------------------------------------------
(* addToQ.                                                                 *)

\* A consumer's message goes to the stack.
AddReply(t) ==
  /\ MayCall(t) /\ replies < MaxReplies
  /\ SubscribeToQueue(t) /\ consumer' = t
  /\ lfs' = <<replies + 1>> \o lfs
  /\ replies' = replies + 1
  /\ wake' = wake \cup Resumed(producer', PSpin)
  /\ UNCHANGED <<ring, waitCounter, locals, sent, rcvd>>

\* A producer's message goes to the current queue, or first to the next one.
\* The reads of pQIndex at 554 and 572 are one here: it only changes between
\* them if another thread produces too.
AddToQ(t) ==
  /\ MayCall(t) /\ sent < MaxSent
  /\ SubscribeToQueue(t) /\ consumer' # t
  /\ IF pQIndex = -1 \/ IsFull(pQIndex)
     THEN Begin(t, "addToQ", "pGetStatus", -1)
     ELSE Begin(t, "addToQ", "pAdd", pQIndex)
  /\ UNCHANGED <<ring, lfs, parking, history>>

\* The add on the fixed size queue, then resumeConsumer.
PAdd(t) ==
  /\ pc[t] = "pAdd"
  /\ IF IsFull(index[t])
     THEN UNCHANGED <<queueGroup, sent>>
     ELSE /\ queueGroup' = [queueGroup EXCEPT ![index[t]] = Append(@, sent + 1)]
          /\ sent' = sent + 1
  /\ ResumeConsumer(FALSE)
  /\ Return(t)
  /\ UNCHANGED <<status, pQIndex, cQIndex, lfs, ends, waitCounter, rcvd, replies>>

\* Mutant: the emptiness test of doneProducing is dropped.
DoneProducingAlways(t) ==
  /\ MayCall(t) /\ pQIndex >= 0
  /\ Begin(t, "doneProducing", "pGetStatus", -1)
  /\ UNCHANGED <<ring, lfs, ends, parking, history>>

\* doneProducing: publish the current queue, if it holds anything.
DoneProducing(t) ==
  /\ MayCall(t)
  /\ pQIndex >= 0 /\ ~IsEmpty(pQIndex)
  /\ Begin(t, "doneProducing", "pGetStatus", -1)
  /\ UNCHANGED <<ring, lfs, ends, parking, history>>

-----------------------------------------------------------------------------
(* getNextAvailableQForProducer.                                           *)

\* status.get(): either the next queue is free, or give up (after a nap).
PGetStatus(t) ==
  /\ pc[t] = "pGetStatus"
  /\ IF IsReadyForProducer(NextQ(pQIndex), status)
     THEN /\ Goto(t, "pCas", status, NextQ(pQIndex))
          /\ ResumeConsumer(FALSE)
          /\ UNCHANGED waitCounter
     ELSE IF PSpin
          THEN Return(t) /\ UNCHANGED parking
          ELSE /\ waitCounter = None
               /\ waitCounter' = producer
               /\ ResumeConsumer(FALSE)
               /\ Goto(t, "pSuspended", AllEmpty, -1)
  /\ UNCHANGED <<ring, lfs, ends, history>>

\* status.compareAndSet.  newVal was computed with curVal; as long as the
\* status word is the one that was read, so is pQIndex.
PCas(t) ==
  /\ pc[t] = "pCas"
  /\ IF status = curVal[t]
     THEN /\ status' = MoveProducerToNextQ(pQIndex, index[t], curVal[t])
          /\ Goto(t, "pMove", AllEmpty, index[t])
     ELSE /\ Goto(t, "pGetStatus", AllEmpty, -1)
          /\ UNCHANGED status
  /\ UNCHANGED <<queueGroup, pQIndex, cQIndex, lfs, ends, parking, history>>

\* Mutant: the second resumeConsumer, after the compare-and-set, is dropped.
PMoveSilent(t) ==
  /\ pc[t] = "pMove"
  /\ pQIndex' = index[t]
  /\ IF op[t] = "addToQ" THEN Goto(t, "pAdd", AllEmpty, index[t]) ELSE Return(t)
  /\ UNCHANGED <<queueGroup, status, cQIndex, lfs, ends, parking, history>>

\* The caller adopts the index that the compare-and-set won.
PMove(t) ==
  /\ pc[t] = "pMove"
  /\ pQIndex' = index[t]
  /\ ResumeConsumer(FALSE)
  /\ IF op[t] = "addToQ" THEN Goto(t, "pAdd", AllEmpty, index[t]) ELSE Return(t)
  /\ UNCHANGED <<queueGroup, status, cQIndex, lfs, ends, waitCounter, history>>

\* The end of suspendProducer: the producer's selector returned.
PResume(t) ==
  /\ pc[t] = "pSuspended"
  /\ wake' = wake \ {producer}
  /\ waitCounter' = None
  /\ Return(t)
  /\ UNCHANGED <<ring, lfs, ends, history>>

PWakeup(t)  == producer \in wake /\ PResume(t)
PTimeout(t) == producer \notin wake /\ PResume(t)

-----------------------------------------------------------------------------
(* getElemFromQ.                                                           *)

\* A producer pops a reply.
PopReply(t) ==
  /\ MayCall(t)
  /\ SubscribeToQueue(t) /\ producer' = t
  /\ lfs' = IF lfs = <<>> THEN lfs ELSE Tail(lfs)
  /\ UNCHANGED <<ring, parking, locals, history>>

\* Mutant: the consumer moves on from a queue it has not drained.
GetElemFromQHasty(t) ==
  /\ MayCall(t)
  /\ SubscribeToQueue(t) /\ producer' # t
  /\ Begin(t, "getElemFromQ", "cGetStatus", -1)
  /\ UNCHANGED <<ring, lfs, parking, history>>

GetElemFromQ(t) ==
  /\ MayCall(t)
  /\ SubscribeToQueue(t) /\ producer' # t
  /\ IF cQIndex = -1 \/ IsEmpty(cQIndex)
     THEN Begin(t, "getElemFromQ", "cGetStatus", -1)
     ELSE Begin(t, "getElemFromQ", "cTake", cQIndex)
  /\ UNCHANGED <<ring, lfs, parking, history>>

CTake(t) ==
  /\ pc[t] = "cTake"
  /\ IF IsEmpty(index[t])
     THEN UNCHANGED <<queueGroup, rcvd>>
     ELSE /\ rcvd' = Append(rcvd, Head(queueGroup[index[t]]))
          /\ queueGroup' = [queueGroup EXCEPT ![index[t]] = Tail(@)]
  /\ Return(t)
  /\ UNCHANGED <<status, pQIndex, cQIndex, lfs, ends, parking, sent, replies>>

-----------------------------------------------------------------------------
(* getNextAvailableQForConsumer.                                           *)

CGetStatus(t) ==
  /\ pc[t] = "cGetStatus"
  /\ IF IsReadyForConsumer(NextQ(cQIndex), status)
     THEN Goto(t, "cCas", status, NextQ(cQIndex)) /\ ResumeProducer
     ELSE IF CSpin
          THEN Return(t) /\ UNCHANGED wake
          ELSE Goto(t, "cSuspended", AllEmpty, -1) /\ ResumeProducer
  /\ UNCHANGED <<ring, lfs, ends, waitCounter, history>>

CCas(t) ==
  /\ pc[t] = "cCas"
  /\ IF status = curVal[t]
     THEN /\ status' = MoveConsumerToNextQ(cQIndex, index[t], curVal[t])
          /\ Goto(t, "cMove", AllEmpty, index[t])
     ELSE /\ Goto(t, "cGetStatus", AllEmpty, -1)
          /\ UNCHANGED status
  /\ UNCHANGED <<queueGroup, pQIndex, cQIndex, lfs, ends, parking, history>>

CMove(t) ==
  /\ pc[t] = "cMove"
  /\ cQIndex' = index[t]
  /\ ResumeProducer
  /\ Goto(t, "cTake", AllEmpty, index[t])
  /\ UNCHANGED <<queueGroup, status, pQIndex, lfs, ends, waitCounter, history>>

CResume(t) ==
  /\ pc[t] = "cSuspended"
  /\ wake' = wake \ {consumer}
  /\ Return(t)
  /\ UNCHANGED <<ring, lfs, ends, waitCounter, history>>

CWakeup(t)  == consumer \in wake /\ CResume(t)
CTimeout(t) == consumer \notin wake /\ CResume(t)

-----------------------------------------------------------------------------
(* anyPendingData and reset.                                               *)

AnyPendingData ==
  \/ lfs # <<>>
  \/ cQIndex # -1 /\ NextQ(cQIndex) # pQIndex
  \/ cQIndex # -1 /\ ~IsEmpty(cQIndex)

\* reset leaves the contents of the queues and of the stack as they are.
Reset ==
  /\ producer' = None /\ consumer' = None
  /\ pQIndex' = -1 /\ cQIndex' = -1
  /\ status' = AllEmpty
  /\ UNCHANGED <<queueGroup, lfs, parking, locals, history>>

-----------------------------------------------------------------------------
(* The general client.  Source produces and Sink consumes; the queue is    *)
(* reset for another connection only when it is quiet and drained.         *)

Drained == lfs = <<>> /\ \A q \in Queues : IsEmpty(q)

Connect == SubscribeAsProducer(Source) \/ SubscribeAsConsumer(Sink)

Call == \/ AddToQ(Source) \/ PopReply(Source) \/ DoneProducing(Source)
        \/ GetElemFromQ(Sink) \/ AddReply(Sink)
        \/ \E t \in Threads : Select(t)
        \/ /\ Connected /\ Drained
           /\ \A t \in Threads : pc[t] = "idle"
           /\ Reset

\* The steps of a call under way.
Inside(t) == \/ PGetStatus(t) \/ PCas(t) \/ PMove(t) \/ PAdd(t) \/ PWakeup(t)
             \/ CGetStatus(t) \/ CCas(t) \/ CMove(t) \/ CTake(t) \/ CWakeup(t)

Timeout(t) == PTimeout(t) \/ CTimeout(t)

Next == Connect \/ Call \/ (\E t \in Threads : Inside(t) \/ Timeout(t))

Spec == Init /\ [][Next]_vars

\* Threads keep running, and Sink's message loop keeps polling.  No fairness
\* on Timeout: progress must not depend on the ten seconds of the selector.
FairSpec == /\ Spec
            /\ \A t \in Threads : WF_vars(Inside(t))
            /\ WF_vars(GetElemFromQ(Sink))

-----------------------------------------------------------------------------
(* Properties.                                                             *)

PStates == {"pGetStatus", "pCas", "pMove", "pAdd", "pSuspended"}
CStates == {"cGetStatus", "cCas", "cMove", "cTake", "cSuspended"}

\* Every variable keeps its type (LockFreeQ fields and each call's locals).
TypeOK ==
  /\ queueGroup \in [Queues -> Seq(Nat)]
  /\ status \in [Queues -> QueueStatus]
  /\ lfs \in Seq(Nat)
  /\ producer \in {None, Source} /\ consumer \in {None, Sink}
  /\ pQIndex \in Queues \cup {-1} /\ cQIndex \in Queues \cup {-1}
  /\ waitCounter \in {None, Source} /\ wake \subseteq Threads
  /\ pc \in [Threads -> {"idle"} \cup PStates \cup CStates]
  /\ op \in [Threads -> {"none", "addToQ", "doneProducing", "getElemFromQ"}]
  /\ curVal \in [Threads -> [Queues -> QueueStatus]]
  /\ index \in [Threads -> Queues \cup {-1}]
  /\ sent \in Nat /\ rcvd \in Seq(Nat) /\ replies \in Nat

\* "At any point of time, only one producer or one consumer should access one
\* queue": the compare-and-set hand-over keeps the unsynchronized array
\* accesses of the two threads (lines 572 and 638) on different queues.
Accessing(t) == pc[t] \in {"pAdd", "cTake"}

OneThreadPerQueue ==
  \A t, u \in Threads :
    t # u /\ Accessing(t) /\ Accessing(u) => index[t] # index[u]

\* The ring stays in order: a queue the producer may claim holds no message
\* of the previous lap, a finished queue holds some, and from the consumer's
\* queue on only finished queues precede the producer's.
RingOrder ==
  \A q \in Queues :
    /\ status[q] \in {"EMPTY", "CONSUMER_FIN"} => IsEmpty(q)
    /\ status[q] = "PRODUCER_FIN" => ~IsEmpty(q)
    /\ status[q] \in {"PRODUCER_FIN", "CONSUMER_USING"} =>
          status[NextQ(q)] \in {"PRODUCER_FIN", "PRODUCER_USING"}

\* The queue is a stream: nothing is lost, duplicated or reordered over laps,
\* failed compare-and-sets, early flushes and resets.
Stream == INSTANCE Fifo
StreamSpec == Stream!Spec

\* A message in a queue that was handed over reaches the consumer.
Published(m) ==
  \E q \in Queues : /\ status[q] \in {"PRODUCER_FIN", "CONSUMER_USING"}
                    /\ \E i \in DOMAIN queueGroup[q] : queueGroup[q][i] = m

PublishedDelivered ==
  \A m \in 1 .. MaxSent : Published(m) ~> Len(rcvd) >= m

\* The producer's calls return: the two ends never wait for each other, even
\* if no suspended thread is ever rescued by its selector's timeout.
ProducerReturns == pc[Source] # "idle" ~> pc[Source] = "idle"
=============================================================================
