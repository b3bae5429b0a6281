--------------------------- MODULE LockFreeQProofs ---------------------------
(***************************************************************************)
(* LockFreeQ: type correctness, mutual exclusion on the arrays, and the    *)
(* refinement of the stream, for any number and size of queues.            *)
(***************************************************************************)
EXTENDS LockFreeQ, SequenceTheorems, TLAPS

\* The ring is a cycle: NextQ is a permutation of the queues without a fixed
\* point, and an end that has not started begins with queue 0.
LEMMA NextQIs ==
  ASSUME NEW q \in Queues \cup {-1}
  PROVE  /\ NextQ(q) \in Queues
         /\ NextQ(q) = IF q + 1 = NumQueues THEN 0 ELSE q + 1
<1>1. PICK i \in Nat : i = q + 1
  BY SizeAssumption DEF Queues
<1>2. i <= NumQueues
  BY <1>1, SizeAssumption DEF Queues
<1>3. CASE i < NumQueues
  <2>1. i % NumQueues = i
    BY <1>3, SizeAssumption
  <2> QED BY <1>1, <1>3, <2>1, SizeAssumption DEF NextQ, Queues
<1>4. CASE i = NumQueues
  <2>1. NumQueues % NumQueues = 0
    BY SizeAssumption
  <2> QED BY <1>1, <1>4, <2>1, SizeAssumption DEF NextQ, Queues
<1> QED BY <1>2, <1>3, <1>4, SizeAssumption

-----------------------------------------------------------------------------
(* Type correctness.                                                       *)

\* A thread that is about to use an index has one.
IndexOK ==
  \A t \in Threads :
    pc[t] \in {"pCas", "pMove", "pAdd", "cCas", "cMove", "cTake"} => index[t] \in Queues

TypeInv == TypeOK /\ IndexOK

LEMMA MoveType ==
  ASSUME NEW old \in Queues \cup {-1}, NEW new \in Queues,
         NEW val \in [Queues -> QueueStatus]
  PROVE  /\ MoveProducerToNextQ(old, new, val) \in [Queues -> QueueStatus]
         /\ MoveConsumerToNextQ(old, new, val) \in [Queues -> QueueStatus]
BY DEF MoveProducerToNextQ, MoveConsumerToNextQ, MoveToNextQ, QueueStatus

LEMMA TypeInit == Init => TypeInv
BY ThreadAssumption, SizeAssumption
   DEF Init, TypeInv, TypeOK, IndexOK, AllEmpty, QueueStatus, Queues, Threads

LEMMA TypeStep == TypeInv /\ [Next]_vars => TypeInv'
<1> SUFFICES ASSUME TypeInv, [Next]_vars PROVE TypeInv'
  OBVIOUS
<1> USE ThreadAssumption, SizeAssumption, BoundAssumption
    DEF TypeInv, TypeOK, IndexOK, Threads, ring, locals, ends, parking, history
<1>1. AllEmpty \in [Queues -> QueueStatus]
  BY DEF AllEmpty, QueueStatus
<1>2. CASE Connect
  BY <1>2 DEF Connect, SubscribeAsProducer, SubscribeAsConsumer
<1>3. CASE AddToQ(Source)
  BY <1>3 DEF AddToQ, SubscribeToQueue, Begin, MayCall, PStates
<1>4. CASE PopReply(Source)
  <2>1. lfs' \in Seq(Nat)
    BY <1>4, HeadTailProperties DEF PopReply
  <2> QED BY <1>4, <2>1 DEF PopReply, SubscribeToQueue
<1>5. ASSUME NEW t \in Threads, DoneProducing(t) PROVE TypeInv'
  BY <1>5 DEF DoneProducing, Begin, MayCall, PStates
<1>6. CASE GetElemFromQ(Sink)
  BY <1>6 DEF GetElemFromQ, SubscribeToQueue, Begin, MayCall, CStates
<1>7. CASE AddReply(Sink)
  <2>1. lfs' \in Seq(Nat)
    <3>1. <<replies + 1>> \in Seq(Nat)
      OBVIOUS
    <3> QED BY <1>7, <3>1, ConcatProperties DEF AddReply
  <2> QED BY <1>7, <2>1 DEF AddReply, SubscribeToQueue, Resumed
<1>8. ASSUME NEW t \in Threads, Select(t) PROVE TypeInv'
  BY <1>8 DEF Select
<1>9. CASE Reset
  BY <1>1, <1>9 DEF Reset
<1>10. ASSUME NEW t \in Threads, PGetStatus(t) PROVE TypeInv'
  BY <1>1, <1>10, NextQIs
     DEF PGetStatus, Goto, Return, ResumeConsumer, Resumed, PStates
<1>11. ASSUME NEW t \in Threads, PCas(t) PROVE TypeInv'
  <2>1. status' \in [Queues -> QueueStatus]
    <3>1. /\ index[t] \in Queues /\ pQIndex \in Queues \cup {-1}
          /\ curVal[t] \in [Queues -> QueueStatus]
      BY <1>11 DEF PCas
    <3>2. MoveProducerToNextQ(pQIndex, index[t], curVal[t]) \in [Queues -> QueueStatus]
      BY <3>1, MoveType
    <3> QED BY <1>11, <3>2 DEF PCas
  <2> QED BY <1>1, <1>11, <2>1 DEF PCas, Goto, PStates
<1>12. ASSUME NEW t \in Threads, PMove(t) PROVE TypeInv'
  BY <1>1, <1>12 DEF PMove, Goto, Return, ResumeConsumer, Resumed, PStates
<1>13. ASSUME NEW t \in Threads, PAdd(t) PROVE TypeInv'
  <2>1. queueGroup' \in [Queues -> Seq(Nat)]
    <3>1. index[t] \in Queues /\ queueGroup[index[t]] \in Seq(Nat)
      BY <1>13 DEF PAdd
    <3>2. Append(queueGroup[index[t]], sent + 1) \in Seq(Nat)
      BY <3>1, AppendProperties
    <3> QED BY <1>13, <3>1, <3>2 DEF PAdd
  <2> QED BY <1>1, <1>13, <2>1 DEF PAdd, Return, ResumeConsumer, Resumed
<1>14. ASSUME NEW t \in Threads, PResume(t) PROVE TypeInv'
  BY <1>1, <1>14 DEF PResume, Return
<1>15. ASSUME NEW t \in Threads, CGetStatus(t) PROVE TypeInv'
  BY <1>1, <1>15, NextQIs
     DEF CGetStatus, Goto, Return, ResumeProducer, Resumed, CStates
<1>16. ASSUME NEW t \in Threads, CCas(t) PROVE TypeInv'
  <2>1. status' \in [Queues -> QueueStatus]
    <3>1. /\ index[t] \in Queues /\ cQIndex \in Queues \cup {-1}
          /\ curVal[t] \in [Queues -> QueueStatus]
      BY <1>16 DEF CCas
    <3>2. MoveConsumerToNextQ(cQIndex, index[t], curVal[t]) \in [Queues -> QueueStatus]
      BY <3>1, MoveType
    <3> QED BY <1>16, <3>2 DEF CCas
  <2> QED BY <1>1, <1>16, <2>1 DEF CCas, Goto, CStates
<1>17. ASSUME NEW t \in Threads, CMove(t) PROVE TypeInv'
  BY <1>1, <1>17 DEF CMove, Goto, ResumeProducer, Resumed, CStates
<1>18. ASSUME NEW t \in Threads, CTake(t) PROVE TypeInv'
  <2>1. /\ queueGroup' \in [Queues -> Seq(Nat)]
        /\ rcvd' \in Seq(Nat)
    <3>1. index[t] \in Queues /\ queueGroup[index[t]] \in Seq(Nat)
      BY <1>18 DEF CTake
    <3>2. CASE IsEmpty(index[t])
      BY <1>18, <3>2 DEF CTake
    <3>3. CASE ~IsEmpty(index[t])
      <4>1. /\ Head(queueGroup[index[t]]) \in Nat
            /\ Tail(queueGroup[index[t]]) \in Seq(Nat)
        BY <3>1, <3>3, HeadTailProperties DEF IsEmpty
      <4>2. Append(rcvd, Head(queueGroup[index[t]])) \in Seq(Nat)
        BY <4>1, AppendProperties
      <4> QED BY ZenonT(30), <1>18, <3>1, <3>3, <4>1, <4>2 DEF CTake
    <3> QED BY <3>2, <3>3
  <2> QED BY <1>1, <1>18, <2>1 DEF CTake, Return
<1>19. ASSUME NEW t \in Threads, CResume(t) PROVE TypeInv'
  BY <1>1, <1>19 DEF CResume, Return
<1>20. CASE UNCHANGED vars
  BY <1>20 DEF vars
<1> QED
  BY <1>2, <1>3, <1>4, <1>5, <1>6, <1>7, <1>8, <1>9, <1>10, <1>11, <1>12,
     <1>13, <1>14, <1>15, <1>16, <1>17, <1>18, <1>19, <1>20
     DEF Next, Call, Inside, Timeout, PWakeup, PTimeout, CWakeup, CTimeout

\* No step takes a field or a local out of its type, with or without spinning
\* ends.
THEOREM TypeCorrect == Spec => []TypeOK
<1>1. TypeInv => TypeOK
  BY DEF TypeInv
<1> QED BY <1>1, TypeInit, TypeStep, PTL DEF Spec

-----------------------------------------------------------------------------
(* The inductive invariant.  It speaks of the queue each end owns: the     *)
(* compare-and-set wins it one step before the thread adopts its index.    *)

PQ == IF pc[Source] = "pMove" THEN index[Source] ELSE pQIndex
CQ == IF pc[Sink] = "cMove" THEN index[Sink] ELSE cQIndex

\* Only the producer runs producer code (no flush by the consumer's thread).
Roles == /\ pc[Source] \in {"idle"} \cup PStates
         /\ pc[Sink] \in {"idle"} \cup CStates

\* What a thread still knows from its earlier reads.
Locals ==
  /\ pc[Source] \in {"pCas", "pMove"} => index[Source] = NextQ(pQIndex)
  /\ pc[Sink] \in {"cCas", "cMove"} => index[Sink] = NextQ(cQIndex)
  /\ pc[Source] = "pCas" => IsReadyForProducer(index[Source], curVal[Source])
  /\ pc[Sink] = "cCas" => IsReadyForConsumer(index[Sink], curVal[Sink])
  /\ pc[Source] = "pAdd" => index[Source] = pQIndex /\ pQIndex # -1
  /\ pc[Sink] = "cTake" => index[Sink] = cQIndex /\ cQIndex # -1
  /\ pc[Source] \in {"pGetStatus", "pCas"} /\ pQIndex # -1 => ~IsEmpty(pQIndex)
  /\ pc[Sink] \in {"cGetStatus", "cCas"} /\ cQIndex # -1 => IsEmpty(cQIndex)

\* The status word names the owners.
Owners ==
  \A q \in Queues : /\ status[q] = "PRODUCER_USING" <=> q = PQ
                    /\ status[q] = "CONSUMER_USING" <=> q = CQ

\* Until the consumer starts, the producer is on its first lap.
NotStarted ==
  /\ PQ = -1 => CQ = -1
  /\ CQ = -1 =>
       \A q \in Queues :
         status[q] = IF q < PQ THEN "PRODUCER_FIN"
                     ELSE IF q = PQ THEN "PRODUCER_USING" ELSE "EMPTY"

\* last[q] is the number of the last message put into q, so Before is the
\* number of the last message that precedes what q still holds.  The queues
\* from the consumer's to the producer's hold rcvd's continuation up to sent.
Before(last, q) == last[q] - Len(queueGroup[q])

Consecutive(last, q) ==
  \A i \in 1 .. Len(queueGroup[q]) : queueGroup[q][i] = Before(last, q) + i

Numbering(last) ==
  /\ \A q \in Queues :
       /\ status[q] \in {"PRODUCER_USING", "PRODUCER_FIN", "CONSUMER_USING"} =>
            Consecutive(last, q)
       /\ status[q] = "PRODUCER_USING" => last[q] = sent
       /\ status[q] = "CONSUMER_USING" => Before(last, q) = Len(rcvd)
       /\ status[q] \in {"PRODUCER_FIN", "CONSUMER_USING"} =>
            Before(last, NextQ(q)) = last[q]
  /\ PQ # -1 /\ CQ = -1 => Before(last, 0) = Len(rcvd)
  /\ PQ = -1 => Len(rcvd) = sent

Numbered == \E last \in [Queues -> 0 .. sent] : Numbering(last)

Order == Owners /\ NotStarted /\ RingOrder /\ Numbered
IInv  == TypeInv /\ Roles /\ Locals /\ Order

LEMMA InvInit == Init => IInv
<1> SUFFICES ASSUME Init PROVE IInv
  OBVIOUS
<1> USE ThreadAssumption, SizeAssumption DEF Init, Threads
<1>1. TypeInv
  BY TypeInit
<1>2. Roles /\ Locals
  BY DEF Roles, Locals
<1>3. PQ = -1 /\ CQ = -1 /\ \A q \in Queues : status[q] = "EMPTY"
  BY DEF PQ, CQ, AllEmpty
<1>4. Owners /\ NotStarted /\ RingOrder
  BY SMTT(30), <1>3, NextQIs DEF Owners, NotStarted, RingOrder, IsEmpty, Queues
<1>5. Numbering([q \in Queues |-> 0])
  BY <1>3 DEF Numbering, Consecutive, Before
<1>6. Numbered
  BY <1>5 DEF Numbered
<1> QED BY <1>1, <1>2, <1>4, <1>6 DEF IInv, Order

\* A step that leaves the arrays, the status word and the owners alone.
LEMMA OrderQuiet ==
  ASSUME Order, UNCHANGED <<queueGroup, status, sent, rcvd>>, PQ' = PQ, CQ' = CQ
  PROVE  Order'
<1>1. Owners' /\ NotStarted' /\ RingOrder'
  BY DEF Order, Owners, NotStarted, RingOrder, IsEmpty
<1>2. PICK last \in [Queues -> 0 .. sent] : Numbering(last)
  BY DEF Order, Numbered
<1>3. Numbering(last)'
  BY <1>2 DEF Numbering, Consecutive, Before
<1>4. Numbered'
  BY <1>3 DEF Numbered
<1> QED BY <1>1, <1>4 DEF Order

-----------------------------------------------------------------------------
\* The producer's compare-and-set: it publishes its queue, which is not
\* empty, and claims the next one, which holds nothing.
LEMMA OrderProducerClaims ==
  ASSUME IInv, NEW n \in Queues, n = NextQ(PQ), PQ \in Queues \cup {-1},
         IsReadyForProducer(n, status), PQ # -1 => ~IsEmpty(PQ),
         status' = MoveProducerToNextQ(PQ, n, status), PQ' = n, CQ' = CQ,
         UNCHANGED <<queueGroup, sent, rcvd>>
  PROVE  Order'
<1> USE SizeAssumption
<1>1. /\ Owners /\ NotStarted /\ RingOrder /\ status \in [Queues -> QueueStatus]
      /\ sent \in Nat
  BY DEF IInv, Order, TypeInv, TypeOK
<1>2. /\ n = IF PQ + 1 = NumQueues THEN 0 ELSE PQ + 1
      /\ n # PQ
      /\ \A q \in Queues : NextQ(q) = IF q + 1 = NumQueues THEN 0 ELSE q + 1
  BY NextQIs DEF Queues
<1>3. \A q \in Queues :
        status'[q] = IF q = n THEN "PRODUCER_USING"
                     ELSE IF q = PQ THEN "PRODUCER_FIN" ELSE status[q]
  BY <1>1, <1>2 DEF MoveProducerToNextQ, MoveToNextQ, Queues
<1>4. status[n] \in {"EMPTY", "CONSUMER_FIN"} /\ IsEmpty(n)
  BY <1>1 DEF IsReadyForProducer, RingOrder
<1>5. Owners'
  BY <1>1, <1>3, <1>4 DEF Owners
<1>6. NotStarted'
  BY <1>1, <1>2, <1>3, <1>4 DEF NotStarted, Queues
<1>7. RingOrder'
  <2> SUFFICES ASSUME NEW q \in Queues
               PROVE  /\ status'[q] \in {"EMPTY", "CONSUMER_FIN"} => IsEmpty(q)
                      /\ status'[q] = "PRODUCER_FIN" => ~IsEmpty(q)
                      /\ status'[q] \in {"PRODUCER_FIN", "CONSUMER_USING"} =>
                           status'[NextQ(q)] \in {"PRODUCER_FIN", "PRODUCER_USING"}
    BY DEF RingOrder, IsEmpty
  <2>1. NextQ(q) \in Queues
    BY NextQIs
  <2>2. CASE q = n
    BY <1>3, <1>4, <2>2
  <2>3. CASE q = PQ
    BY <1>2, <1>3, <2>3 DEF Queues
  <2>4. CASE q # n /\ q # PQ
    <3>1. status'[q] = status[q]
      BY <1>3, <2>4
    <3>2. status[q] \in {"PRODUCER_FIN", "CONSUMER_USING"} =>
            status'[NextQ(q)] \in {"PRODUCER_FIN", "PRODUCER_USING"}
      BY <1>1, <1>3, <2>1 DEF RingOrder
    <3> QED BY <1>1, <3>1, <3>2 DEF RingOrder
  <2> QED BY <2>2, <2>3, <2>4
<1>8. PICK last \in [Queues -> 0 .. sent] : Numbering(last)
  BY DEF IInv, Order, Numbered
<1>. PICK new \in [Queues -> 0 .. sent] : new = [last EXCEPT ![n] = sent]
  <2>1. [last EXCEPT ![n] = sent] \in [Queues -> 0 .. sent]
    BY <1>1
  <2> QED BY <2>1
<1>9. new \in [Queues -> 0 .. sent'] /\ Len(queueGroup[n]) = 0
  BY <1>4 DEF IsEmpty
<1>10. \A q \in Queues : q # n => /\ Before(new, q)' = Before(last, q)
                                  /\ new[q] = last[q]
  BY <1>8 DEF Before
<1>11. Before(new, n)' = sent /\ new[n] = sent
  BY <1>1, <1>8, <1>9 DEF Before
<1>12. Numbering(new)'
  <2>1. ASSUME NEW q \in Queues
        PROVE  /\ status'[q] \in {"PRODUCER_USING", "PRODUCER_FIN", "CONSUMER_USING"} =>
                    Consecutive(new, q)'
               /\ status'[q] = "PRODUCER_USING" => new[q] = sent'
               /\ status'[q] = "CONSUMER_USING" => Before(new, q)' = Len(rcvd')
               /\ status'[q] \in {"PRODUCER_FIN", "CONSUMER_USING"} =>
                    Before(new, NextQ(q))' = new[q]
    <3>1. CASE q = n
      BY <1>3, <1>9, <1>11, <3>1 DEF Consecutive
    <3>2. CASE q # n
      <4>1. status'[q] \in {"PRODUCER_USING", "PRODUCER_FIN", "CONSUMER_USING"} =>
              status[q] \in {"PRODUCER_USING", "PRODUCER_FIN", "CONSUMER_USING"}
        BY <1>1, <1>3, <3>2 DEF Owners
      <4>2. /\ status'[q] \in {"PRODUCER_USING", "PRODUCER_FIN", "CONSUMER_USING"} =>
                 Consecutive(new, q)'
            /\ status'[q] = "CONSUMER_USING" => Before(new, q)' = Len(rcvd')
        <5>1. status[q] \in {"PRODUCER_USING", "PRODUCER_FIN", "CONSUMER_USING"} =>
                Consecutive(new, q)'
          BY <1>8, <1>10, <3>2 DEF Numbering, Consecutive, Before
        <5>2. status'[q] = "CONSUMER_USING" => status[q] = "CONSUMER_USING"
          BY <1>3, <3>2
        <5>3. status[q] = "CONSUMER_USING" => Before(new, q)' = Len(rcvd')
          BY <1>8, <1>10, <3>2 DEF Numbering
        <5> QED BY <4>1, <5>1, <5>2, <5>3
      <4>3. CASE q = PQ
        <5>1. last[q] = sent
          BY <1>1, <1>8, <4>3 DEF Owners, Numbering
        <5> QED BY <1>3, <1>10, <1>11, <3>2, <4>2, <4>3, <5>1
      <4>4. CASE q # PQ
        <5>1. status'[q] = status[q] /\ status'[q] # "PRODUCER_USING"
          BY <1>1, <1>3, <3>2, <4>4 DEF Owners
        <5>2. CASE status[q] \in {"PRODUCER_FIN", "CONSUMER_USING"}
          <6>1. NextQ(q) \in Queues /\ NextQ(q) # n
            BY <1>1, <1>4, <5>2, NextQIs DEF RingOrder
          <6> QED BY <1>8, <1>10, <3>2, <4>2, <5>1, <5>2, <6>1 DEF Numbering
        <5> QED BY <4>2, <5>1, <5>2
      <4> QED BY <4>3, <4>4
    <3> QED BY <3>1, <3>2
  <2>2. CQ = -1 => Before(new, 0)' = Len(rcvd)
    <3> SUFFICES ASSUME CQ = -1 PROVE Before(new, 0)' = Len(rcvd)
      OBVIOUS
    <3>1. CASE PQ = -1
      BY <1>2, <1>8, <1>11, <3>1 DEF Numbering
    <3>2. CASE PQ # -1
      <4>1. n # 0 /\ 0 \in Queues
        BY <1>1, <1>2, <1>4, <3>2 DEF NotStarted, Queues
      <4> QED BY <1>8, <1>10, <3>2, <4>1 DEF Numbering
    <3> QED BY <3>1, <3>2
  <2>3. PQ' # -1
    BY DEF Queues
  <2>4. CQ' = -1 => Before(new, 0)' = Len(rcvd')
    BY <2>2
  <2> QED BY <2>1, <2>3, <2>4 DEF Numbering
<1>13. Numbered'
  BY <1>9, <1>12 DEF Numbered
<1> QED BY <1>5, <1>6, <1>7, <1>13 DEF Order

\* The producer adds the next number to its own queue.
LEMMA OrderAdd ==
  ASSUME IInv, PQ \in Queues,
         queueGroup' = [queueGroup EXCEPT ![PQ] = Append(@, sent + 1)],
         sent' = sent + 1, PQ' = PQ, CQ' = CQ, UNCHANGED <<status, rcvd>>
  PROVE  Order'
<1> USE SizeAssumption
<1>1. /\ Owners /\ NotStarted /\ RingOrder /\ sent \in Nat
      /\ queueGroup \in [Queues -> Seq(Nat)] /\ status[PQ] = "PRODUCER_USING"
  BY DEF IInv, Order, TypeInv, TypeOK, Owners
<1> DEFINE old == queueGroup[PQ]
<1>2. /\ old \in Seq(Nat) /\ Len(old) \in Nat
      /\ \A q \in Queues : q # PQ => queueGroup'[q] = queueGroup[q]
      /\ queueGroup'[PQ] = Append(old, sent + 1)
  BY <1>1, LenProperties
<1>3. /\ Len(queueGroup'[PQ]) = Len(old) + 1
      /\ \A i \in 1 .. Len(old) : queueGroup'[PQ][i] = old[i]
      /\ queueGroup'[PQ][Len(old) + 1] = sent + 1
  BY <1>1, <1>2, AppendProperties
<1>4. Owners' /\ NotStarted'
  BY <1>1 DEF Owners, NotStarted
<1>5. RingOrder'
  BY <1>1, <1>2 DEF RingOrder, IsEmpty
<1>6. PICK last \in [Queues -> 0 .. sent] : Numbering(last)
  BY DEF IInv, Order, Numbered
<1>7. PICK new \in [Queues -> 0 .. sent'] : new = [last EXCEPT ![PQ] = sent + 1]
  <2>1. [last EXCEPT ![PQ] = sent + 1] \in [Queues -> 0 .. sent']
    BY <1>1
  <2> QED BY <2>1
<1>8. last[PQ] = sent
  BY <1>1, <1>6 DEF Numbering
<1>9. \A q \in Queues : /\ q # PQ => new[q] = last[q]
                        /\ Before(new, q)' = Before(last, q)
  BY <1>1, <1>2, <1>3, <1>7, <1>8 DEF Before
<1>10. Numbering(new)'
  <2>1. ASSUME NEW q \in Queues
        PROVE  /\ status'[q] \in {"PRODUCER_USING", "PRODUCER_FIN", "CONSUMER_USING"} =>
                    Consecutive(new, q)'
               /\ status'[q] = "PRODUCER_USING" => new[q] = sent'
               /\ status'[q] = "CONSUMER_USING" => Before(new, q)' = Len(rcvd')
               /\ status'[q] \in {"PRODUCER_FIN", "CONSUMER_USING"} =>
                    Before(new, NextQ(q))' = new[q]
    <3>1. CASE q # PQ
      <4>1. status[q] \in {"PRODUCER_USING", "PRODUCER_FIN", "CONSUMER_USING"} =>
              Consecutive(new, q)'
        BY SMTT(30), <1>2, <1>6, <1>7, <3>1 DEF Numbering, Consecutive, Before
      <4>2. NextQ(q) \in Queues /\ status[q] # "PRODUCER_USING"
        BY <1>1, <3>1, NextQIs DEF Owners
      <4> QED BY <1>6, <1>9, <3>1, <4>1, <4>2 DEF Numbering
    <3>2. CASE q = PQ
      <4>1. new[PQ] = sent + 1
        BY <1>7
      <4>2. ASSUME NEW i \in 1 .. Len(old) + 1
            PROVE  queueGroup'[PQ][i] = new[PQ] - Len(queueGroup'[PQ]) + i
        <5>1. CASE i = Len(old) + 1
          BY <1>1, <1>2, <1>3, <4>1, <5>1
        <5>2. CASE i # Len(old) + 1
          <6>1. i \in 1 .. Len(old)
            BY <1>2, <5>2
          <6>2. old[i] = sent - Len(old) + i
            BY <1>1, <1>6, <1>8, <6>1 DEF Numbering, Consecutive, Before
          <6> QED BY <1>1, <1>2, <1>3, <4>1, <6>1, <6>2
        <5> QED BY <5>1, <5>2
      <4>3. Consecutive(new, q)'
        BY <1>3, <3>2, <4>2 DEF Consecutive, Before
      <4> QED BY <1>1, <3>2, <4>1, <4>3
    <3> QED BY <3>1, <3>2
  <2>2. CQ' = -1 => Before(new, 0)' = Len(rcvd')
    BY <1>6, <1>9 DEF Numbering, Queues
  <2>3. PQ' # -1
    BY DEF Queues
  <2> QED BY <2>1, <2>2, <2>3 DEF Numbering
<1>11. Numbered'
  BY <1>10 DEF Numbered
<1> QED BY <1>4, <1>5, <1>11 DEF Order

-----------------------------------------------------------------------------
\* The consumer's compare-and-set: it gives back its drained queue and claims
\* the next one, which the producer finished.
LEMMA OrderConsumerClaims ==
  ASSUME IInv, NEW n \in Queues, n = NextQ(CQ), CQ \in Queues \cup {-1},
         IsReadyForConsumer(n, status), CQ # -1 => IsEmpty(CQ),
         status' = MoveConsumerToNextQ(CQ, n, status), PQ' = PQ, CQ' = n,
         UNCHANGED <<queueGroup, sent, rcvd>>
  PROVE  Order'
<1> USE SizeAssumption
<1>1. /\ Owners /\ NotStarted /\ RingOrder /\ status \in [Queues -> QueueStatus]
      /\ status[n] = "PRODUCER_FIN" /\ n # CQ /\ n # -1
  BY DEF IInv, Order, TypeInv, TypeOK, IsReadyForConsumer, Owners, Queues
<1>2. \A q \in Queues :
        status'[q] = IF q = n THEN "CONSUMER_USING"
                     ELSE IF q = CQ THEN "CONSUMER_FIN" ELSE status[q]
  BY <1>1 DEF MoveConsumerToNextQ, MoveToNextQ, Queues
<1>3. PQ # -1 /\ PQ # n
  <2>1. PQ # n
    BY <1>1 DEF Owners
  <2>2. ASSUME PQ = -1 PROVE FALSE
    <3>1. CQ = -1
      BY <1>1, <2>2 DEF NotStarted
    <3>2. ~(n < -1) /\ n # -1
      BY DEF Queues
    <3>3. status[n] = "EMPTY"
      BY <1>1, <2>2, <3>1, <3>2 DEF NotStarted
    <3> QED BY <1>1, <3>3
  <2> QED BY <2>1, <2>2
<1>4. Owners'
  BY <1>1, <1>2 DEF Owners
<1>5. NotStarted'
  BY <1>1, <1>3 DEF NotStarted
<1>6. ASSUME NEW q \in Queues, status[q] \in {"PRODUCER_FIN", "CONSUMER_USING"}, q # CQ
      PROVE  NextQ(q) # n /\ NextQ(q) # CQ
  <2>1. /\ NextQ(q) \in Queues /\ NextQ(q) = IF q + 1 = NumQueues THEN 0 ELSE q + 1
        /\ n = IF CQ + 1 = NumQueues THEN 0 ELSE CQ + 1
    BY NextQIs
  <2>2. NextQ(q) # CQ
    BY <1>1, <1>6, <2>1 DEF RingOrder, Owners
  <2>3. CASE CQ # -1
    BY <1>6, <2>1, <2>2, <2>3 DEF Queues
  <2>4. CASE CQ = -1
    <3>1. q < PQ /\ PQ \in Int /\ PQ < NumQueues
      <4>1. status[q] = "PRODUCER_FIN" => q < PQ
        BY <1>1, <2>4 DEF NotStarted
      <4>2. PQ \in Queues \cup {-1}
        BY ThreadAssumption DEF PQ, IInv, TypeInv, TypeOK, Threads
      <4> QED BY <1>1, <1>6, <2>4, <4>1, <4>2 DEF Owners, Queues
    <3> QED BY <2>1, <2>2, <2>4, <3>1 DEF Queues
  <2> QED BY <2>2, <2>3, <2>4
<1>7. RingOrder'
  <2> SUFFICES ASSUME NEW q \in Queues
               PROVE  /\ status'[q] \in {"EMPTY", "CONSUMER_FIN"} => IsEmpty(q)
                      /\ status'[q] = "PRODUCER_FIN" => ~IsEmpty(q)
                      /\ status'[q] \in {"PRODUCER_FIN", "CONSUMER_USING"} =>
                           status'[NextQ(q)] \in {"PRODUCER_FIN", "PRODUCER_USING"}
    BY DEF RingOrder, IsEmpty
  <2>1. NextQ(q) \in Queues /\ NextQ(q) # q
    BY NextQIs DEF Queues
  <2>2. CASE q = CQ
    BY <1>1, <1>2, <2>2 DEF Queues
  <2>3. CASE q # CQ
    <3>1. status'[q] \in {"EMPTY", "CONSUMER_FIN", "PRODUCER_FIN"} => status'[q] = status[q]
      BY <1>2, <2>3
    <3>2. status'[q] \in {"PRODUCER_FIN", "CONSUMER_USING"} =>
            status[q] \in {"PRODUCER_FIN", "CONSUMER_USING"}
      BY <1>1, <1>2, <2>3
    <3>3. ASSUME status[q] \in {"PRODUCER_FIN", "CONSUMER_USING"}
          PROVE  status'[NextQ(q)] \in {"PRODUCER_FIN", "PRODUCER_USING"}
      <4>1. status'[NextQ(q)] = status[NextQ(q)]
        BY <1>2, <1>6, <2>1, <2>3, <3>3
      <4> QED BY <1>1, <3>3, <4>1 DEF RingOrder
    <3> QED BY <1>1, <3>1, <3>2, <3>3 DEF RingOrder
  <2> QED BY <2>2, <2>3
<1>8. PICK last \in [Queues -> 0 .. sent] : Numbering(last)
  BY DEF IInv, Order, Numbered
<1>9. Before(last, n) = Len(rcvd)
  <2>1. CASE CQ = -1
    <3>1. n = 0
      BY <2>1, NextQIs
    <3> QED BY <1>3, <1>8, <2>1, <3>1 DEF Numbering
  <2>2. CASE CQ # -1
    <3>1. /\ Before(last, CQ) = Len(rcvd) /\ Before(last, n) = last[CQ]
          /\ CQ \in Queues /\ last[CQ] \in Nat
      BY <1>1, <1>8, <2>2 DEF Numbering, Owners
    <3>2. Len(queueGroup[CQ]) = 0
      BY <2>2 DEF IsEmpty
    <3> QED BY <3>1, <3>2 DEF Before
  <2> QED BY <2>1, <2>2
<1>10. Numbering(last)'
  <2>1. ASSUME NEW q \in Queues
        PROVE  /\ status'[q] \in {"PRODUCER_USING", "PRODUCER_FIN", "CONSUMER_USING"} =>
                    Consecutive(last, q)'
               /\ status'[q] = "PRODUCER_USING" => last[q] = sent'
               /\ status'[q] = "CONSUMER_USING" => Before(last, q)' = Len(rcvd')
               /\ status'[q] \in {"PRODUCER_FIN", "CONSUMER_USING"} =>
                    Before(last, NextQ(q))' = last[q]
    <3>1. Consecutive(last, q)' <=> Consecutive(last, q)
      BY DEF Consecutive, Before
    <3>2. Before(last, q)' = Before(last, q) /\ Before(last, NextQ(q))' = Before(last, NextQ(q))
      BY DEF Before
    <3>3. CASE q = n
      BY <1>1, <1>2, <1>8, <1>9, <3>1, <3>2, <3>3 DEF Numbering
    <3>4. CASE q = CQ
      BY <1>1, <1>2, <3>4
    <3>5. CASE q # n /\ q # CQ
      <4>1. status'[q] = status[q]
        BY <1>2, <3>5
      <4> QED BY <1>8, <3>1, <3>2, <4>1 DEF Numbering
    <3> QED BY <3>3, <3>4, <3>5
  <2>2. CQ' # -1 /\ PQ' # -1
    BY <1>1, <1>3
  <2> QED BY <2>1, <2>2 DEF Numbering
<1>11. Numbered'
  BY <1>10 DEF Numbered
<1> QED BY <1>4, <1>5, <1>7, <1>11 DEF Order

\* What the consumer finds at the head of its queue is the next number.
LEMMA TakeIsNext ==
  ASSUME IInv, CQ \in Queues, ~IsEmpty(CQ)
  PROVE  /\ Head(queueGroup[CQ]) = Len(rcvd) + 1
         /\ Len(rcvd) < sent
<1>1. PICK last \in [Queues -> 0 .. sent] : Numbering(last)
  BY DEF IInv, Order, Numbered
<1>2. /\ Consecutive(last, CQ) /\ Before(last, CQ) = Len(rcvd)
  BY <1>1 DEF Numbering, IInv, Order, Owners
<1>3. /\ queueGroup[CQ] \in Seq(Nat) /\ sent \in Nat
      /\ Len(queueGroup[CQ]) \in Nat \ {0}
  BY EmptySeq DEF IInv, TypeInv, TypeOK, IsEmpty
<1>4. Head(queueGroup[CQ]) = queueGroup[CQ][1]
  BY <1>3
<1>5. queueGroup[CQ][1] = Before(last, CQ) + 1
  BY <1>2, <1>3 DEF Consecutive
<1>6. last[CQ] \in 0 .. sent
  BY <1>1
<1> QED BY <1>2, <1>3, <1>4, <1>5, <1>6 DEF Before

LEMMA OrderTake ==
  ASSUME IInv, CQ \in Queues, ~IsEmpty(CQ),
         queueGroup' = [queueGroup EXCEPT ![CQ] = Tail(@)],
         rcvd' = Append(rcvd, Len(rcvd) + 1),
         PQ' = PQ, CQ' = CQ, UNCHANGED <<status, sent>>
  PROVE  Order'
<1> USE SizeAssumption
<1>1. /\ Owners /\ NotStarted /\ RingOrder /\ sent \in Nat /\ rcvd \in Seq(Nat)
      /\ queueGroup \in [Queues -> Seq(Nat)] /\ status[CQ] = "CONSUMER_USING"
  BY DEF IInv, Order, TypeInv, TypeOK, Owners
<1> DEFINE old == queueGroup[CQ]
<1>2. /\ old \in Seq(Nat) /\ Len(old) \in Nat \ {0}
      /\ \A q \in Queues : q # CQ => queueGroup'[q] = queueGroup[q]
      /\ queueGroup'[CQ] = Tail(old)
  BY <1>1, EmptySeq DEF IsEmpty
<1>3. /\ Len(queueGroup'[CQ]) = Len(old) - 1
      /\ \A i \in 1 .. Len(old) - 1 : queueGroup'[CQ][i] = old[i + 1]
  BY <1>1, <1>2, HeadTailProperties DEF IsEmpty
<1>4. Len(rcvd') = Len(rcvd) + 1 /\ Len(rcvd) \in Nat
  <2>1. Len(rcvd) \in Nat
    BY <1>1, LenProperties
  <2> QED BY <1>1, <2>1, AppendProperties
<1>5. Owners' /\ NotStarted'
  BY <1>1 DEF Owners, NotStarted
<1>6. RingOrder'
  BY <1>1, <1>2 DEF RingOrder, IsEmpty
<1>7. PICK last \in [Queues -> 0 .. sent] : Numbering(last)
  BY DEF IInv, Order, Numbered
<1>8. \A q \in Queues :
        Before(last, q)' = IF q = CQ THEN Before(last, q) + 1 ELSE Before(last, q)
  BY <1>2, <1>3, <1>7 DEF Before
<1>9. Numbering(last)'
  <2>1. ASSUME NEW q \in Queues
        PROVE  /\ status'[q] \in {"PRODUCER_USING", "PRODUCER_FIN", "CONSUMER_USING"} =>
                    Consecutive(last, q)'
               /\ status'[q] = "PRODUCER_USING" => last[q] = sent'
               /\ status'[q] = "CONSUMER_USING" => Before(last, q)' = Len(rcvd')
               /\ status'[q] \in {"PRODUCER_FIN", "CONSUMER_USING"} =>
                    Before(last, NextQ(q))' = last[q]
    <3>1. /\ NextQ(q) \in Queues
          /\ status[q] \in {"PRODUCER_FIN", "CONSUMER_USING"} => NextQ(q) # CQ
      BY <1>1, NextQIs DEF RingOrder
    <3>2. /\ status'[q] = "PRODUCER_USING" => last[q] = sent'
          /\ status'[q] \in {"PRODUCER_FIN", "CONSUMER_USING"} =>
               Before(last, NextQ(q))' = last[q]
      BY <1>7, <1>8, <3>1 DEF Numbering
    <3>3. CASE q = CQ
      <4>1. ASSUME NEW i \in 1 .. Len(old) - 1
            PROVE  queueGroup'[CQ][i] = last[CQ] - Len(queueGroup'[CQ]) + i
        <5>1. i + 1 \in 1 .. Len(old)
          BY <1>2
        <5>2. old[i + 1] = last[CQ] - Len(old) + (i + 1)
          BY <1>1, <1>7, <5>1 DEF Numbering, Consecutive, Before
        <5> QED BY <1>2, <1>3, <1>7, <5>2
      <4>2. Consecutive(last, q)'
        BY <1>3, <3>3, <4>1 DEF Consecutive, Before
      <4>3. Before(last, CQ)' = Len(rcvd')
        BY <1>1, <1>4, <1>7, <1>8 DEF Numbering
      <4> QED BY <3>2, <3>3, <4>2, <4>3
    <3>4. CASE q # CQ
      <4>1. status[q] \in {"PRODUCER_USING", "PRODUCER_FIN", "CONSUMER_USING"} =>
              Consecutive(last, q)'
        BY <1>2, <1>7, <3>4 DEF Numbering, Consecutive, Before
      <4>2. status[q] # "CONSUMER_USING"
        BY <1>1, <3>4 DEF Owners
      <4> QED BY <3>2, <4>1, <4>2
    <3> QED BY <3>3, <3>4
  <2>2. CQ' # -1 /\ PQ' # -1
    BY <1>1 DEF NotStarted, Queues
  <2> QED BY <2>1, <2>2 DEF Numbering
<1>10. Numbered'
  BY <1>9 DEF Numbered
<1> QED BY <1>5, <1>6, <1>10 DEF Order

\* A drained ring was read to the end, so that a reset loses nothing.
LEMMA OrderReset ==
  ASSUME IInv, \A q \in Queues : IsEmpty(q), status' = AllEmpty,
         PQ \in Queues \cup {-1}, PQ' = -1, CQ' = -1,
         UNCHANGED <<queueGroup, sent, rcvd>>
  PROVE  Order'
<1> USE SizeAssumption
<1>1. /\ Owners /\ NotStarted /\ RingOrder /\ sent \in Nat
      /\ \A q \in Queues : queueGroup[q] = <<>> /\ Len(queueGroup[q]) = 0
  BY DEF IInv, Order, TypeInv, TypeOK, IsEmpty
<1>2. PICK last \in [Queues -> 0 .. sent] : Numbering(last)
  BY DEF IInv, Order, Numbered
<1>3. \A q \in Queues : Before(last, q) = last[q]
  BY <1>1, <1>2 DEF Before
<1>4. Len(rcvd) = sent
  <2>1. CASE PQ = -1
    BY <1>2, <2>1 DEF Numbering
  <2>2. CASE PQ # -1 /\ CQ = -1
    <3>1. PQ = 0
      <4>1. 0 \in Queues /\ (0 < PQ => status[0] = "PRODUCER_FIN")
        BY <1>1, <2>2 DEF NotStarted, Queues
      <4>2. status[0] # "PRODUCER_FIN"
        BY <1>1, <4>1 DEF RingOrder, IsEmpty
      <4> QED BY <2>2, <4>1, <4>2 DEF Queues
    <3>2. 0 \in Queues /\ status[0] = "PRODUCER_USING"
      BY <1>1, <2>2, <3>1 DEF Owners, Queues
    <3>3. last[0] = sent /\ Before(last, 0) = Len(rcvd)
      BY <1>2, <2>2, <3>2 DEF Numbering
    <3> QED BY <1>3, <3>2, <3>3
  <2>3. CASE CQ # -1
    <3>1. CQ \in Queues
      BY ThreadAssumption, <2>3 DEF CQ, IInv, TypeInv, TypeOK, IndexOK, Threads
    <3>2. NextQ(CQ) \in Queues /\ status[CQ] = "CONSUMER_USING"
      BY <1>1, <3>1, NextQIs DEF Owners
    <3>3. status[NextQ(CQ)] = "PRODUCER_USING"
      BY <1>1, <3>1, <3>2 DEF RingOrder, IsEmpty
    <3>4. /\ Before(last, CQ) = Len(rcvd) /\ last[NextQ(CQ)] = sent
          /\ Before(last, NextQ(CQ)) = last[CQ]
      BY <1>2, <3>1, <3>2, <3>3 DEF Numbering
    <3> QED BY <1>3, <3>1, <3>2, <3>4
  <2> QED BY <2>1, <2>2, <2>3
<1>5. \A q \in Queues : status'[q] = "EMPTY"
  BY DEF AllEmpty
<1>6. Owners' /\ NotStarted' /\ RingOrder'
  <2>1. \A q \in Queues : q # -1 /\ ~(q < -1)
    BY DEF Queues
  <2>2. Owners'
    BY <1>5, <2>1 DEF Owners
  <2>3. NotStarted'
    BY <1>5, <2>1 DEF NotStarted
  <2>4. RingOrder'
    BY <1>1, <1>5 DEF RingOrder, IsEmpty
  <2> QED BY <2>2, <2>3, <2>4
<1>7. Numbering(last)'
  <2>1. PQ' = -1 => Len(rcvd)' = sent'
    BY <1>4
  <2>2. ~(PQ' # -1 /\ CQ' = -1)
    OBVIOUS
  <2> QED BY <1>5, <2>1, <2>2 DEF Numbering
<1>8. Numbered'
  BY <1>7 DEF Numbered
<1> QED BY <1>6, <1>8 DEF Order

-----------------------------------------------------------------------------
(* Every step of the two threads preserves the invariant.                  *)

LEMMA InvStep == IInv /\ [Next]_vars => IInv'
<1> SUFFICES ASSUME IInv, [Next]_vars PROVE IInv'
  OBVIOUS
<1> DEFINE Local == Roles' /\ Locals'
           Quiet == UNCHANGED <<queueGroup, status, sent, rcvd>>
<1> USE ThreadAssumption, SizeAssumption DEF Threads
<1>a. TypeInv'
  BY TypeStep DEF IInv
<1>b. /\ pc \in [Threads -> {"idle"} \cup PStates \cup CStates]
      /\ pc[Source] \in {"idle"} \cup PStates /\ pc[Sink] \in {"idle"} \cup CStates
      /\ index \in [Threads -> Queues \cup {-1}]
      /\ curVal \in [Threads -> [Queues -> QueueStatus]]
      /\ pQIndex \in Queues \cup {-1} /\ cQIndex \in Queues \cup {-1}
      /\ status \in [Queues -> QueueStatus] /\ queueGroup \in [Queues -> Seq(Nat)]
      /\ sent \in Nat /\ rcvd \in Seq(Nat)
      /\ Locals /\ Order /\ IndexOK
  BY DEF IInv, TypeInv, TypeOK, Roles
<1>c. \A t \in Threads :
        /\ pc[t] \in PStates => t = Source
        /\ pc[t] \in CStates => t = Sink
  BY <1>b DEF PStates, CStates
<1>d. -1 \notin Queues
  BY DEF Queues
<1>e. Quiet /\ PQ' = PQ /\ CQ' = CQ => Order'
  BY <1>b, OrderQuiet
<1>1. ASSUME UNCHANGED <<pc, curVal, index, ring, history>> \/
             UNCHANGED <<pc, curVal, index, ring, sent, rcvd>>
      PROVE  Local /\ Order'
  <2>1. Quiet /\ PQ' = PQ /\ CQ' = CQ
    BY <1>1 DEF ring, history, PQ, CQ
  <2>2. Local
    BY <1>1, <1>b DEF ring, Roles, Locals, IsEmpty
  <2> QED BY <1>e, <2>1, <2>2
<1>2. ASSUME AddToQ(Source) PROVE Local /\ Order'
  <2>1. /\ pc[Source] = "idle" /\ UNCHANGED <<ring, sent, rcvd, curVal>>
        /\ \/ /\ pQIndex = -1 \/ IsFull(pQIndex)
              /\ pc' = [pc EXCEPT ![Source] = "pGetStatus"]
              /\ index' = [index EXCEPT ![Source] = -1]
           \/ /\ pQIndex # -1
              /\ pc' = [pc EXCEPT ![Source] = "pAdd"]
              /\ index' = [index EXCEPT ![Source] = pQIndex]
    BY <1>2 DEF AddToQ, MayCall, Begin, history
  <2>2. pQIndex # -1 /\ IsFull(pQIndex) => ~IsEmpty(pQIndex)
    BY <1>b DEF IsFull, IsEmpty
  <2>3. Quiet /\ PQ' = PQ /\ CQ' = CQ
    BY <1>b, <2>1 DEF ring, PQ, CQ
  <2>4. Local
    BY <1>b, <2>1, <2>2 DEF ring, Roles, Locals, IsEmpty, PStates
  <2> QED BY <1>e, <2>3, <2>4
<1>3. ASSUME DoneProducing(Source) PROVE Local /\ Order'
  <2>1. /\ pc[Source] = "idle" /\ UNCHANGED <<ring, sent, rcvd, curVal>>
        /\ ~IsEmpty(pQIndex)
        /\ pc' = [pc EXCEPT ![Source] = "pGetStatus"]
        /\ index' = [index EXCEPT ![Source] = -1]
    BY <1>3 DEF DoneProducing, MayCall, Begin, history
  <2>2. Quiet /\ PQ' = PQ /\ CQ' = CQ
    BY <1>b, <2>1 DEF ring, PQ, CQ
  <2>3. Local
    BY <1>b, <2>1 DEF ring, Roles, Locals, IsEmpty, PStates
  <2> QED BY <1>e, <2>2, <2>3
<1>4. ASSUME GetElemFromQ(Sink) PROVE Local /\ Order'
  <2>1. /\ pc[Sink] = "idle" /\ UNCHANGED <<ring, sent, rcvd, curVal>>
        /\ \/ /\ cQIndex = -1 \/ IsEmpty(cQIndex)
              /\ pc' = [pc EXCEPT ![Sink] = "cGetStatus"]
              /\ index' = [index EXCEPT ![Sink] = -1]
           \/ /\ cQIndex # -1
              /\ pc' = [pc EXCEPT ![Sink] = "cTake"]
              /\ index' = [index EXCEPT ![Sink] = cQIndex]
    BY <1>4 DEF GetElemFromQ, MayCall, Begin, history
  <2>2. Quiet /\ PQ' = PQ /\ CQ' = CQ
    BY <1>b, <2>1 DEF ring, PQ, CQ
  <2>3. Local
    BY <1>b, <2>1 DEF ring, Roles, Locals, IsEmpty, CStates
  <2> QED BY <1>e, <2>2, <2>3
<1>5. ASSUME Drained /\ (\A t \in Threads : pc[t] = "idle") /\ Reset PROVE Local /\ Order'
  <2>1. PQ = pQIndex /\ PQ' = -1 /\ CQ' = -1
    BY <1>5 DEF Reset, PQ, CQ, locals
  <2>2. Order'
    BY <1>5, <1>b, <2>1, OrderReset DEF Reset, Drained, history
  <2>3. Local
    BY <1>5 DEF Reset, Roles, Locals, locals
  <2> QED BY <2>2, <2>3
<1>6. ASSUME NEW t \in Threads, PGetStatus(t) PROVE Local /\ Order'
  <2>1. t = Source /\ pc[Source] = "pGetStatus"
    BY <1>6, <1>c DEF PGetStatus, PStates
  <2>2. /\ UNCHANGED <<ring, sent, rcvd>>
        /\ \/ /\ IsReadyForProducer(NextQ(pQIndex), status)
              /\ pc' = [pc EXCEPT ![Source] = "pCas"]
              /\ index' = [index EXCEPT ![Source] = NextQ(pQIndex)]
              /\ curVal' = [curVal EXCEPT ![Source] = status]
           \/ \E at \in {"idle", "pSuspended"} :
              /\ pc' = [pc EXCEPT ![Source] = at]
              /\ index' = [index EXCEPT ![Source] = -1]
              /\ curVal' = [curVal EXCEPT ![Source] = AllEmpty]
    BY <1>6, <2>1 DEF PGetStatus, Goto, Return, history
  <2>3. Quiet /\ PQ' = PQ /\ CQ' = CQ
    BY <1>b, <2>1, <2>2 DEF ring, PQ, CQ
  <2>4. Local
    BY <1>b, <2>1, <2>2 DEF ring, Roles, Locals, IsEmpty, PStates
  <2> QED BY <1>e, <2>3, <2>4
<1>7. ASSUME NEW t \in Threads, PCas(t) PROVE Local /\ Order'
  <2>1. t = Source /\ pc[Source] = "pCas"
    BY <1>7, <1>c DEF PCas, PStates
  <2>2. PQ = pQIndex /\ index[Source] = NextQ(PQ) /\ index[Source] \in Queues
    BY <1>b, <2>1 DEF PQ, Locals, IndexOK
  <2>3. CASE status # curVal[Source]
    <3>1. /\ UNCHANGED <<ring, sent, rcvd>>
          /\ pc' = [pc EXCEPT ![Source] = "pGetStatus"]
          /\ index' = [index EXCEPT ![Source] = -1]
          /\ curVal' = [curVal EXCEPT ![Source] = AllEmpty]
      BY <1>7, <2>1, <2>3 DEF PCas, Goto, history, ring
    <3>2. Quiet /\ PQ' = PQ /\ CQ' = CQ
      BY <1>b, <2>1, <3>1 DEF ring, PQ, CQ
    <3>3. Local
      BY <1>b, <2>1, <3>1 DEF ring, Roles, Locals, IsEmpty, PStates
    <3> QED BY <1>e, <3>2, <3>3
  <2>4. CASE status = curVal[Source]
    <3>1. /\ UNCHANGED <<queueGroup, pQIndex, cQIndex, sent, rcvd>>
          /\ status' = MoveProducerToNextQ(PQ, index[Source], status)
          /\ pc' = [pc EXCEPT ![Source] = "pMove"]
          /\ index' = [index EXCEPT ![Source] = index[Source]]
          /\ curVal' = [curVal EXCEPT ![Source] = AllEmpty]
      BY <1>7, <2>1, <2>2, <2>4 DEF PCas, Goto, history
    <3>2. PQ' = index[Source] /\ CQ' = CQ
      BY <1>b, <2>1, <3>1 DEF PQ, CQ
    <3>3. IsReadyForProducer(index[Source], status) /\ (PQ # -1 => ~IsEmpty(PQ))
      BY <1>b, <2>1, <2>2, <2>4 DEF Locals
    <3>4. Order'
      BY <1>b, <2>2, <3>1, <3>2, <3>3, OrderProducerClaims
    <3>5. Local
      BY <1>b, <2>1, <3>1 DEF Roles, Locals, IsEmpty, PStates
    <3> QED BY <3>4, <3>5
  <2> QED BY <2>3, <2>4
<1>8. ASSUME NEW t \in Threads, PMove(t) PROVE Local /\ Order'
  <2>1. t = Source /\ pc[Source] = "pMove" /\ index[Source] \in Queues
    BY <1>8, <1>b, <1>c DEF PMove, PStates, IndexOK
  <2>2. /\ UNCHANGED <<queueGroup, status, cQIndex, sent, rcvd>>
        /\ pQIndex' = index[Source]
        /\ curVal' = [curVal EXCEPT ![Source] = AllEmpty]
        /\ \/ /\ pc' = [pc EXCEPT ![Source] = "pAdd"]
              /\ index' = [index EXCEPT ![Source] = index[Source]]
           \/ /\ pc' = [pc EXCEPT ![Source] = "idle"]
              /\ index' = [index EXCEPT ![Source] = -1]
    BY <1>8, <2>1 DEF PMove, Goto, Return, history
  <2>3. Quiet /\ PQ' = PQ /\ CQ' = CQ
    BY <1>b, <2>1, <2>2 DEF PQ, CQ
  <2>4. Local
    BY <1>b, <1>d, <2>1, <2>2 DEF Roles, Locals, IsEmpty, PStates
  <2> QED BY <1>e, <2>3, <2>4
<1>9. ASSUME NEW t \in Threads, PAdd(t) PROVE Local /\ Order'
  <2>1. /\ t = Source /\ pc[Source] = "pAdd" /\ index[Source] = pQIndex
        /\ pQIndex \in Queues /\ PQ = pQIndex
    BY <1>9, <1>b, <1>c DEF PAdd, PStates, Locals, PQ
  <2>2. /\ UNCHANGED <<status, pQIndex, cQIndex, rcvd>>
        /\ pc' = [pc EXCEPT ![Source] = "idle"]
        /\ index' = [index EXCEPT ![Source] = -1]
        /\ curVal' = [curVal EXCEPT ![Source] = AllEmpty]
    BY <1>9, <2>1 DEF PAdd, Return
  <2>3. PQ' = PQ /\ CQ' = CQ
    BY <1>b, <2>1, <2>2 DEF PQ, CQ
  <2>4. CASE IsFull(pQIndex)
    <3>1. UNCHANGED <<queueGroup, sent>>
      BY <1>9, <2>1, <2>4 DEF PAdd
    <3>2. Local
      BY <1>b, <2>1, <2>2, <3>1 DEF Roles, Locals, IsEmpty
    <3> QED BY <1>e, <2>2, <2>3, <3>1, <3>2
  <2>5. CASE ~IsFull(pQIndex)
    <3>1. /\ queueGroup' = [queueGroup EXCEPT ![PQ] = Append(@, sent + 1)]
          /\ sent' = sent + 1
      BY <1>9, <2>1, <2>5 DEF PAdd
    <3>2. Order'
      BY <2>1, <2>2, <2>3, <3>1, OrderAdd
    <3>3. pc[Sink] \in {"cGetStatus", "cCas"} /\ cQIndex # -1 => cQIndex # pQIndex
      BY <1>b, <2>1 DEF Order, Owners, CQ
    <3>4. \A q \in Queues : q # pQIndex => queueGroup'[q] = queueGroup[q]
      BY <1>b, <2>1, <3>1
    <3>5. Local
      BY <1>b, <2>1, <2>2, <3>3, <3>4 DEF Roles, Locals, IsEmpty
    <3> QED BY <3>2, <3>5
  <2> QED BY <2>4, <2>5
<1>10. ASSUME NEW t \in Threads, PResume(t) PROVE Local /\ Order'
  <2>1. t = Source /\ pc[Source] = "pSuspended"
    BY <1>10, <1>c DEF PResume, PStates
  <2>2. /\ UNCHANGED <<ring, sent, rcvd>>
        /\ pc' = [pc EXCEPT ![Source] = "idle"]
        /\ index' = [index EXCEPT ![Source] = -1]
        /\ curVal' = [curVal EXCEPT ![Source] = AllEmpty]
    BY <1>10, <2>1 DEF PResume, Return, history
  <2>3. Quiet /\ PQ' = PQ /\ CQ' = CQ
    BY <1>b, <2>1, <2>2 DEF ring, PQ, CQ
  <2>4. Local
    BY <1>b, <2>1, <2>2 DEF ring, Roles, Locals, IsEmpty
  <2> QED BY <1>e, <2>3, <2>4
<1>11. ASSUME NEW t \in Threads, CGetStatus(t) PROVE Local /\ Order'
  <2>1. t = Sink /\ pc[Sink] = "cGetStatus"
    BY <1>11, <1>c DEF CGetStatus, CStates
  <2>2. /\ UNCHANGED <<ring, sent, rcvd>>
        /\ \/ /\ IsReadyForConsumer(NextQ(cQIndex), status)
              /\ pc' = [pc EXCEPT ![Sink] = "cCas"]
              /\ index' = [index EXCEPT ![Sink] = NextQ(cQIndex)]
              /\ curVal' = [curVal EXCEPT ![Sink] = status]
           \/ \E at \in {"idle", "cSuspended"} :
              /\ pc' = [pc EXCEPT ![Sink] = at]
              /\ index' = [index EXCEPT ![Sink] = -1]
              /\ curVal' = [curVal EXCEPT ![Sink] = AllEmpty]
    BY <1>11, <2>1 DEF CGetStatus, Goto, Return, history
  <2>3. Quiet /\ PQ' = PQ /\ CQ' = CQ
    BY <1>b, <2>1, <2>2 DEF ring, PQ, CQ
  <2>4. Local
    BY <1>b, <2>1, <2>2 DEF ring, Roles, Locals, IsEmpty, CStates
  <2> QED BY <1>e, <2>3, <2>4
<1>12. ASSUME NEW t \in Threads, CCas(t) PROVE Local /\ Order'
  <2>1. t = Sink /\ pc[Sink] = "cCas"
    BY <1>12, <1>c DEF CCas, CStates
  <2>2. CQ = cQIndex /\ index[Sink] = NextQ(CQ) /\ index[Sink] \in Queues
    BY <1>b, <2>1 DEF CQ, Locals, IndexOK
  <2>3. CASE status # curVal[Sink]
    <3>1. /\ UNCHANGED <<ring, sent, rcvd>>
          /\ pc' = [pc EXCEPT ![Sink] = "cGetStatus"]
          /\ index' = [index EXCEPT ![Sink] = -1]
          /\ curVal' = [curVal EXCEPT ![Sink] = AllEmpty]
      BY <1>12, <2>1, <2>3 DEF CCas, Goto, history, ring
    <3>2. Quiet /\ PQ' = PQ /\ CQ' = CQ
      BY <1>b, <2>1, <3>1 DEF ring, PQ, CQ
    <3>3. Local
      BY <1>b, <2>1, <3>1 DEF ring, Roles, Locals, IsEmpty, CStates
    <3> QED BY <1>e, <3>2, <3>3
  <2>4. CASE status = curVal[Sink]
    <3>1. /\ UNCHANGED <<queueGroup, pQIndex, cQIndex, sent, rcvd>>
          /\ status' = MoveConsumerToNextQ(CQ, index[Sink], status)
          /\ pc' = [pc EXCEPT ![Sink] = "cMove"]
          /\ index' = [index EXCEPT ![Sink] = index[Sink]]
          /\ curVal' = [curVal EXCEPT ![Sink] = AllEmpty]
      BY <1>12, <2>1, <2>2, <2>4 DEF CCas, Goto, history
    <3>2. CQ' = index[Sink] /\ PQ' = PQ
      BY <1>b, <2>1, <3>1 DEF PQ, CQ
    <3>3. IsReadyForConsumer(index[Sink], status) /\ (CQ # -1 => IsEmpty(CQ))
      BY <1>b, <2>1, <2>2, <2>4 DEF Locals
    <3>4. Order'
      BY <1>b, <2>2, <3>1, <3>2, <3>3, OrderConsumerClaims
    <3>5. Local
      BY <1>b, <2>1, <3>1 DEF Roles, Locals, IsEmpty, CStates
    <3> QED BY <3>4, <3>5
  <2> QED BY <2>3, <2>4
<1>13. ASSUME NEW t \in Threads, CMove(t) PROVE Local /\ Order'
  <2>1. t = Sink /\ pc[Sink] = "cMove" /\ index[Sink] \in Queues
    BY <1>13, <1>b, <1>c DEF CMove, CStates, IndexOK
  <2>2. /\ UNCHANGED <<queueGroup, status, pQIndex, sent, rcvd>>
        /\ cQIndex' = index[Sink]
        /\ curVal' = [curVal EXCEPT ![Sink] = AllEmpty]
        /\ pc' = [pc EXCEPT ![Sink] = "cTake"]
        /\ index' = [index EXCEPT ![Sink] = index[Sink]]
    BY <1>13, <2>1 DEF CMove, Goto, history
  <2>3. Quiet /\ PQ' = PQ /\ CQ' = CQ
    BY <1>b, <2>1, <2>2 DEF PQ, CQ
  <2>4. Local
    BY <1>b, <1>d, <2>1, <2>2 DEF Roles, Locals, IsEmpty, CStates
  <2> QED BY <1>e, <2>3, <2>4
<1>14. ASSUME NEW t \in Threads, CTake(t) PROVE Local /\ Order'
  <2>1. /\ t = Sink /\ pc[Sink] = "cTake" /\ index[Sink] = cQIndex
        /\ cQIndex \in Queues /\ CQ = cQIndex
    BY <1>14, <1>b, <1>c DEF CTake, CStates, Locals, CQ
  <2>2. /\ UNCHANGED <<status, pQIndex, cQIndex, sent>>
        /\ pc' = [pc EXCEPT ![Sink] = "idle"]
        /\ index' = [index EXCEPT ![Sink] = -1]
        /\ curVal' = [curVal EXCEPT ![Sink] = AllEmpty]
    BY <1>14, <2>1 DEF CTake, Return
  <2>3. PQ' = PQ /\ CQ' = CQ
    BY <1>b, <2>1, <2>2 DEF PQ, CQ
  <2>4. CASE IsEmpty(cQIndex)
    <3>1. UNCHANGED <<queueGroup, rcvd>>
      BY <1>14, <2>1, <2>4 DEF CTake
    <3>2. Local
      BY <1>b, <2>1, <2>2, <3>1 DEF Roles, Locals, IsEmpty
    <3> QED BY <1>e, <2>2, <2>3, <3>1, <3>2
  <2>5. CASE ~IsEmpty(cQIndex)
    <3>1. /\ queueGroup' = [queueGroup EXCEPT ![CQ] = Tail(@)]
          /\ rcvd' = Append(rcvd, Len(rcvd) + 1)
      BY <1>14, <2>1, <2>5, TakeIsNext DEF CTake
    <3>2. Order'
      BY <2>1, <2>2, <2>3, <2>5, <3>1, OrderTake
    <3>3. pc[Source] \in {"pGetStatus", "pCas"} /\ pQIndex # -1 => cQIndex # pQIndex
      BY <1>b, <2>1 DEF Order, Owners, PQ
    <3>4. \A q \in Queues : q # cQIndex => queueGroup'[q] = queueGroup[q]
      BY <1>b, <2>1, <3>1
    <3>5. Local
      BY <1>b, <2>1, <2>2, <3>3, <3>4 DEF Roles, Locals, IsEmpty
    <3> QED BY <3>2, <3>5
  <2> QED BY <2>4, <2>5
<1>15. ASSUME NEW t \in Threads, CResume(t) PROVE Local /\ Order'
  <2>1. t = Sink /\ pc[Sink] = "cSuspended"
    BY <1>15, <1>c DEF CResume, CStates
  <2>2. /\ UNCHANGED <<ring, sent, rcvd>>
        /\ pc' = [pc EXCEPT ![Sink] = "idle"]
        /\ index' = [index EXCEPT ![Sink] = -1]
        /\ curVal' = [curVal EXCEPT ![Sink] = AllEmpty]
    BY <1>15, <2>1 DEF CResume, Return, history
  <2>3. Quiet /\ PQ' = PQ /\ CQ' = CQ
    BY <1>b, <2>1, <2>2 DEF ring, PQ, CQ
  <2>4. Local
    BY <1>b, <2>1, <2>2 DEF ring, Roles, Locals, IsEmpty
  <2> QED BY <1>e, <2>3, <2>4
<1>16. Local /\ Order'
  <2>1. ASSUME Connect PROVE Local /\ Order'
    BY <1>1, <2>1 DEF Connect, SubscribeAsProducer, SubscribeAsConsumer, locals
  <2>2. ASSUME AddReply(Sink) PROVE Local /\ Order'
    BY <1>1, <2>2 DEF AddReply, locals
  <2>3. ASSUME PopReply(Source) PROVE Local /\ Order'
    BY <1>1, <2>3 DEF PopReply, locals
  <2>4. ASSUME NEW t \in Threads, Select(t) PROVE Local /\ Order'
    BY <1>1, <2>4 DEF Select, locals
  <2>5. ASSUME UNCHANGED vars PROVE Local /\ Order'
    BY <1>1, <2>5 DEF vars, locals
  <2> HIDE DEF Local
  <2> QED
    BY <2>1, <2>2, <2>3, <2>4, <2>5, <1>2, <1>3, <1>4, <1>5, <1>6, <1>7, <1>8,
       <1>9, <1>10, <1>11, <1>12, <1>13, <1>14, <1>15
       DEF Next, Call, Inside, Timeout, PWakeup, PTimeout, CWakeup, CTimeout
<1> QED BY <1>a, <1>16 DEF IInv

-----------------------------------------------------------------------------
(* The theorems.                                                           *)

\* Who owns which queue, what each thread knows and how the ring is ordered
\* hold after every step of addToQ, getElemFromQ and doneProducing.
THEOREM Invariant == Spec => []IInv
<1> QED BY InvInit, InvStep, PTL DEF Spec

\* The compare-and-set keeps the two threads on different arrays.
THEOREM MutualExclusion == Spec => []OneThreadPerQueue
<1>1. IInv => OneThreadPerQueue
  <2> SUFFICES ASSUME IInv PROVE OneThreadPerQueue
    OBVIOUS
  <2>1. /\ pc[Source] \in {"idle"} \cup PStates /\ pc[Sink] \in {"idle"} \cup CStates
        /\ Locals /\ Owners /\ pQIndex \in Queues \cup {-1}
    BY DEF IInv, Roles, Order, TypeInv, TypeOK
  <2>2. pc[Source] = "pAdd" /\ pc[Sink] = "cTake" => index[Source] # index[Sink]
    BY <2>1 DEF Locals, Owners, PQ, CQ
  <2>3. pc[Source] # "cTake" /\ pc[Sink] # "pAdd"
    BY <2>1 DEF PStates, CStates
  <2> QED BY <2>2, <2>3 DEF OneThreadPerQueue, Accessing, Threads
<1> QED BY <1>1, InvInit, InvStep, PTL DEF Spec

\* The ring keeps its order: no claimed queue holds messages of the lap before.
THEOREM Ordered == Spec => []RingOrder
<1>1. IInv => RingOrder
  BY DEF IInv, Order
<1> QED BY <1>1, InvInit, InvStep, PTL DEF Spec

\* The queue implements the stream: every message accepted is handed over
\* once and in order.
THEOREM ImplementsStream == Spec => StreamSpec
<1>1. Init => Stream!Init
  BY DEF Init, Stream!Init
<1>2. IInv /\ [Next]_vars => [Stream!Next]_<<sent, rcvd>>
  <2> SUFFICES ASSUME IInv, [Next]_vars, ~UNCHANGED <<sent, rcvd>> PROVE Stream!Next
    OBVIOUS
  <2>1. ASSUME NEW t \in Threads, PAdd(t) PROVE Stream!Next
    BY <2>1 DEF PAdd, Stream!Next, Stream!Send
  <2>2. ASSUME NEW t \in Threads, CTake(t) PROVE Stream!Next
    <3>1. t = Sink /\ index[Sink] = cQIndex /\ cQIndex \in Queues /\ CQ = cQIndex
      BY <2>2, ThreadAssumption
         DEF CTake, IInv, TypeInv, TypeOK, Roles, Locals, CQ, PStates, Threads
    <3>2. ~IsEmpty(CQ) /\ rcvd' = Append(rcvd, Head(queueGroup[CQ])) /\ sent' = sent
      BY <2>2, <3>1 DEF CTake
    <3> QED BY <3>1, <3>2, TakeIsNext DEF Stream!Next, Stream!Receive
  <2>3. ~Connect /\ ~Call /\ ~UNCHANGED vars
    BY DEF Connect, Call, SubscribeAsProducer, SubscribeAsConsumer, AddToQ,
           PopReply, DoneProducing, GetElemFromQ, AddReply, Select, Reset, history, vars
  <2>4. ASSUME NEW t \in Threads PROVE ~Timeout(t) /\ ~PWakeup(t) /\ ~CWakeup(t)
    BY DEF Timeout, PTimeout, CTimeout, PWakeup, CWakeup, PResume, CResume, history
  <2>5. ASSUME NEW t \in Threads
        PROVE  ~PGetStatus(t) /\ ~PCas(t) /\ ~PMove(t)
    BY DEF PGetStatus, PCas, PMove, history
  <2>6. ASSUME NEW t \in Threads
        PROVE  ~CGetStatus(t) /\ ~CCas(t) /\ ~CMove(t)
    BY DEF CGetStatus, CCas, CMove, history
  <2> QED BY <2>1, <2>2, <2>3, <2>4, <2>5, <2>6 DEF Next, Inside
<1> QED BY <1>1, <1>2, InvInit, InvStep, PTL DEF Spec, StreamSpec, Stream!Spec
=============================================================================
