----------------------------- MODULE LFQSession -----------------------------
(***************************************************************************)
(* One session over a lock free queue, as TestLFQ.testSimple runs it: the  *)
(* producer retries every message until addToQ accepts it, flushes once    *)
(* with doneProducing and stops; the consumer polls until it has read the  *)
(* agreed number of messages.  Both ends spin.                             *)
(***************************************************************************)
EXTENDS LockFreeQ

VARIABLE finished   \* the producer called its only doneProducing

SInit == Init /\ finished = FALSE

Subscribe == /\ SubscribeAsProducer(Source) \/ SubscribeAsConsumer(Sink)
             /\ UNCHANGED finished

Send == /\ producer = Source
        /\ AddToQ(Source)
        /\ UNCHANGED finished

\* Mutant: the producer stops without a flush.
FinishUnflushed == /\ sent = MaxSent /\ pc[Source] = "idle" /\ ~finished
                   /\ finished' = TRUE
                   /\ UNCHANGED vars

\* doneProducing answers false when the next queue is taken; nobody looks.
Finish == /\ sent = MaxSent /\ pc[Source] = "idle" /\ ~finished
          /\ finished' = TRUE
          /\ DoneProducing(Source)

Poll == /\ consumer = Sink
        /\ Len(rcvd) < MaxSent
        /\ GetElemFromQ(Sink)
        /\ UNCHANGED finished

Step(t) == Inside(t) /\ UNCHANGED finished

SNext == Subscribe \/ Send \/ Finish \/ Poll \/ \E t \in Threads : Step(t)

svars == <<vars, finished>>

\* Both threads are always scheduled again.
SSpec == /\ SInit /\ [][SNext]_svars
         /\ WF_svars(SubscribeAsProducer(Source) /\ UNCHANGED finished)
         /\ WF_svars(SubscribeAsConsumer(Sink) /\ UNCHANGED finished)
         /\ WF_svars(Send) /\ WF_svars(Finish) /\ WF_svars(Poll)
         /\ \A t \in Threads : WF_svars(Step(t))

-----------------------------------------------------------------------------
\* The producer's retry loop ends: the ring never stays full while the
\* consumer polls, although neither end ever waits for the other.
AllSent == <>(sent = MaxSent)

\* A session ends with at most the contents of one queue undelivered.
AllButOneQueue == <>[](Len(rcvd) + QueueSize >= MaxSent)
=============================================================================
