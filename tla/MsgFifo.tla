------------------------------- MODULE MsgFifo -------------------------------
(***************************************************************************)
(* What the svm message queue promises its users: a bounded FIFO of        *)
(* messages from many producers to one consumer, whose messages stay       *)
(* intact in the inbox of the consumer until it frees them, in order.      *)
(***************************************************************************)
EXTENDS Naturals, Sequences

CONSTANTS Producers, Maxsize

VARIABLES
  sent,    \* how many messages each producer has sent
  queue,   \* messages sent and not yet received
  inbox    \* messages received and not yet freed

fifoVars == <<sent, queue, inbox>>

FifoInit ==
  /\ sent = [p \in Producers |-> 0]
  /\ queue = <<>>
  /\ inbox = <<>>

\* The k-th message of producer p is <<p, k>>.
Send(p) ==
  /\ Len(queue) < Maxsize
  /\ sent' = [sent EXCEPT ![p] = @ + 1]
  /\ queue' = Append(queue, <<p, sent'[p]>>)
  /\ UNCHANGED inbox

Receive ==
  /\ \E n \in 1..Len(queue) :
       /\ inbox' = inbox \o SubSeq(queue, 1, n)
       /\ queue' = SubSeq(queue, n + 1, Len(queue))
  /\ UNCHANGED sent

Free ==
  /\ inbox # <<>>
  /\ inbox' = Tail(inbox)
  /\ UNCHANGED <<sent, queue>>

FifoNext == (\E p \in Producers : Send(p)) \/ Receive \/ Free

\* Every message that was sent is received.
FifoSpec == FifoInit /\ [][FifoNext]_fifoVars /\ WF_fifoVars(Receive)
=============================================================================
