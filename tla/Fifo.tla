-------------------------------- MODULE Fifo --------------------------------
(***************************************************************************)
(* What a lock free queue promises its two ends: a stream.  The k-th       *)
(* message accepted from the producer is the number k, so the stream is    *)
(* described by how many messages were accepted and by the sequence of     *)
(* messages handed to the consumer.                                        *)
(***************************************************************************)
EXTENDS Integers, Sequences

VARIABLES sent,    \* number of messages accepted
          rcvd     \* messages handed over, in that order

Init == /\ sent = 0
        /\ rcvd = <<>>

Send == /\ sent' = sent + 1
        /\ UNCHANGED rcvd

Receive == /\ Len(rcvd) < sent
           /\ rcvd' = Append(rcvd, Len(rcvd) + 1)
           /\ UNCHANGED sent

Next == Send \/ Receive

Spec == Init /\ [][Next]_<<sent, rcvd>>
=============================================================================
