------------------------------- MODULE MsgQueue -------------------------------
(***************************************************************************)
(* The shared-memory message queue of the session layer                    *)
(* (src/src/svm/message_queue.c, message_queue.h): the events between      *)
(* applications and vpp workers.                                           *)
(*                                                                         *)
(* A message is a slot of one of several rings, which holds the data, and  *)
(* an entry in a queue, which holds the order.  Producers allocate, fill   *)
(* and publish under a mutex and sleep on a condvar when the queue or the  *)
(* ring is full; the one consumer takes no lock to dequeue or to free, and *)
(* takes it only to sleep and to signal.  One action is one access to      *)
(* state that the other side reads.  This is the variant without eventfd.  *)
(*                                                                         *)
(* The callers are app_send_io_evt_to_vpp, session_send_evt_to_thread and  *)
(* app_worker_send_event on the producers' side, session_wrk_handle_mq and *)
(* vcl_mq_dequeue_batch on the consumer's.                                 *)
(***************************************************************************)
EXTENDS Integers, Sequences, FiniteSets

CONSTANTS
  Producers,   \* threads or processes that send
  Consumer,    \* the thread that receives
  Maxsize,     \* cfg->q_nitems
  Rings,       \* the rings of the queue
  Nitems,      \* slots of each ring
  Waits,       \* whether producers may block on a full queue: a set of Booleans
  Modes,       \* how the consumer waits: nowait, wait, timed, batch
  MaxBatch,    \* n_msgs of svm_msg_q_sub_raw_batch
  MaxHeld,     \* bound on messages the consumer holds before it frees one
  Spurious,    \* the waits that pthread may end without a signal
  MaxMsgs,     \* bound on the messages of each producer
  MaxCrashes   \* bound on producers that die with the mutex held

Threads == Producers \cup {Consumer}
Free == "free"
Dead == "dead"   \* the owner died: the next lock returns EOWNERDEAD

ASSUME ThreadsAssumption ==
  /\ Consumer \notin Producers
  /\ Free \notin Threads /\ Dead \notin Threads
ASSUME SizesAssumption ==
  /\ Maxsize \in Nat \ {0}
  /\ Rings # {}
  /\ Nitems \in [Rings -> Nat \ {0}]
  /\ MaxBatch \in Nat \ {0} /\ MaxHeld \in Nat /\ MaxMsgs \in Nat
  /\ MaxCrashes \in Nat
ASSUME ModesAssumption ==
  /\ Waits \subseteq BOOLEAN
  /\ Modes \subseteq {"nowait", "wait", "timed", "batch"}
  /\ Spurious \subseteq {"producer", "wait", "timed"}
\* The death of a producer is followed only where nobody sleeps on the condvar:
\* pthread_cond_wait has an EOWNERDEAD of its own.
ASSUME CrashAssumption ==
  MaxCrashes > 0 => Waits = {FALSE} /\ Modes \subseteq {"nowait", "batch"}

VARIABLES
  mutex,      \* who holds sq->mutex
  waiting,    \* threads asleep on sq->condvar
  qhead, qtail, qcursize, qdata,   \* the queue
  rhead, rtail, rcursize, rdata,   \* the rings
  ppc,        \* where each producer is
  pring,      \* the ring it sends on
  pwait,      \* whether its call blocks
  pelt,       \* the slot it was given
  sent,       \* messages each has published
  cpc,        \* where the consumer is
  held,       \* messages it has dequeued and not yet freed
  csz,        \* size it read at the start of a batch
  cn,         \* messages of the batch
  cring,      \* ring of the message it is freeing
  cneed,      \* need_signal of svm_msg_q_free_msg
  crashes     \* producers that died

queueVars == <<qhead, qtail, qcursize, qdata>>
ringVars == <<rhead, rtail, rcursize, rdata>>
producerVars == <<ppc, pring, pwait, pelt, sent, crashes>>
consumerVars == <<cpc, held, csz, cn, cring, cneed>>
vars == <<mutex, waiting, queueVars, ringVars, producerVars, consumerVars>>

ProducerPC == {"idle", "check", "asleep", "fill", "add", "publish", "signal",
               "unlock", "crashed"}
ConsumerPC == {"idle", "waitLock", "waitTest", "waitAsleep", "timedLock",
               "timedTest", "timedAsleep", "sub", "subDec", "batchDec",
               "freeDec", "sigLock", "sigCast"}

\* The places where a producer owns the mutex.
Locked == {"check", "fill", "add", "publish", "signal", "unlock"}

Slots(r) == 0..(Nitems[r] - 1)
AnySlot == UNION {Slots(r) : r \in Rings}
AnyRing == CHOOSE r \in Rings : TRUE
NoData == <<>>   \* a slot that was never written

\* svm_msg_q_init
Init ==
  /\ mutex = Free
  /\ waiting = {}
  /\ qhead = 0 /\ qtail = 0 /\ qcursize = 0
  /\ qdata = [i \in 0..(Maxsize - 1) |-> NoData]
  /\ rhead = [r \in Rings |-> 0]
  /\ rtail = [r \in Rings |-> 0]
  /\ rcursize = [r \in Rings |-> 0]
  /\ rdata = [r \in Rings |-> [e \in Slots(r) |-> NoData]]
  /\ ppc = [p \in Producers |-> "idle"]
  /\ pring = [p \in Producers |-> AnyRing]
  /\ pwait = [p \in Producers |-> FALSE]
  /\ pelt = [p \in Producers |-> 0]
  /\ sent = [p \in Producers |-> 0]
  /\ crashes = 0
  /\ cpc = "idle"
  /\ held = <<>>
  /\ csz = 0 /\ cn = 0 /\ cring = AnyRing /\ cneed = FALSE
-----------------------------------------------------------------------------
(* The producers. *)

ProducerGoto(p, from, to) ==
  /\ ppc[p] = from
  /\ ppc' = [ppc EXCEPT ![p] = to]

\* svm_msg_q_or_ring_is_full.  Only the holder of the mutex makes either count
\* grow, so what it finds not full stays so until it allocates.
OrRingIsFull(r) == qcursize = Maxsize \/ rcursize[r] >= Nitems[r]

\* svm_msg_q_lock, svm_msg_q_try_lock: a producer asks for a slot of a ring.
\* A mutex whose owner died is made consistent and taken.
Lock(p) ==
  /\ sent[p] < MaxMsgs
  /\ mutex \in {Free, Dead}
  /\ mutex' = p
  /\ ProducerGoto(p, "idle", "check")
  /\ \E r \in Rings : pring' = [pring EXCEPT ![p] = r]
  /\ \E b \in Waits : pwait' = [pwait EXCEPT ![p] = b]
  /\ UNCHANGED <<waiting, queueVars, ringVars, pelt, sent, crashes,
                 consumerVars>>

\* A call that does not block gives up on a full queue or ring.
Refused(p) ==
  /\ ProducerGoto(p, "check", "idle")
  /\ ~pwait[p]
  /\ OrRingIsFull(pring[p])
  /\ mutex' = Free
  /\ UNCHANGED <<waiting, queueVars, ringVars, pring, pwait, pelt, sent,
                 crashes, consumerVars>>

\* svm_msg_q_or_ring_wait_prod: one that does sleeps until signalled ...
OrRingWaitProd(p) ==
  /\ ProducerGoto(p, "check", "asleep")
  /\ pwait[p]
  /\ OrRingIsFull(pring[p])
  /\ mutex' = Free
  /\ waiting' = waiting \cup {p}
  /\ UNCHANGED <<queueVars, ringVars, pring, pwait, pelt, sent, crashes,
                 consumerVars>>

\* ... and looks again once it has the mutex back.
Woken(p) ==
  /\ p \notin waiting
  /\ mutex = Free
  /\ mutex' = p
  /\ ProducerGoto(p, "asleep", "check")
  /\ UNCHANGED <<waiting, queueVars, ringVars, pring, pwait, pelt, sent,
                 crashes, consumerVars>>

\* Mutant: allocates although the ring is full.
AllocMsgUnchecked(p) ==
  LET r == pring[p] IN
  /\ qcursize # Maxsize
  /\ ProducerGoto(p, "check", "fill")
  /\ pelt' = [pelt EXCEPT ![p] = rtail[r]]
  /\ rtail' = [rtail EXCEPT ![r] = (@ + 1) % Nitems[r]]
  /\ rcursize' = [rcursize EXCEPT ![r] = @ + 1]
  /\ UNCHANGED <<mutex, waiting, queueVars, rhead, rdata, pring, pwait, sent,
                 crashes, consumerVars>>

\* Mutant: releases the mutex between the allocation and the enqueue.
AllocMsgAndUnlock(p) ==
  LET r == pring[p] IN
  /\ ~OrRingIsFull(r)
  /\ ProducerGoto(p, "check", "fill")
  /\ pelt' = [pelt EXCEPT ![p] = rtail[r]]
  /\ rtail' = [rtail EXCEPT ![r] = (@ + 1) % Nitems[r]]
  /\ rcursize' = [rcursize EXCEPT ![r] = @ + 1]
  /\ mutex' = Free
  /\ UNCHANGED <<waiting, queueVars, rhead, rdata, pring, pwait, sent,
                 crashes, consumerVars>>

\* svm_msg_q_alloc_msg_w_ring
AllocMsgWRing(p) ==
  LET r == pring[p] IN
  /\ ~OrRingIsFull(r)
  /\ ProducerGoto(p, "check", "fill")
  /\ pelt' = [pelt EXCEPT ![p] = rtail[r]]
  /\ rtail' = [rtail EXCEPT ![r] = (@ + 1) % Nitems[r]]
  /\ rcursize' = [rcursize EXCEPT ![r] = @ + 1]
  /\ UNCHANGED <<mutex, waiting, queueVars, rhead, rdata, pring, pwait, sent,
                 crashes, consumerVars>>

\* The caller writes its event into svm_msg_q_msg_data.
FillMsg(p) ==
  /\ ProducerGoto(p, "fill", "add")
  /\ rdata' = [rdata EXCEPT ![pring[p]][pelt[p]] = <<p, sent[p] + 1>>]
  /\ UNCHANGED <<mutex, waiting, queueVars, rhead, rtail, rcursize, pring,
                 pwait, pelt, sent, crashes, consumerVars>>

\* svm_msg_q_add_and_unlock: the entry, the tail ...
AddRaw(p) ==
  /\ ProducerGoto(p, "add", "publish")
  /\ qdata' = [qdata EXCEPT ![qtail] = <<pring[p], pelt[p]>>]
  /\ qtail' = (qtail + 1) % Maxsize
  /\ UNCHANGED <<mutex, waiting, qhead, qcursize, ringVars, pring, pwait, pelt,
                 sent, crashes, consumerVars>>

\* Mutant: signals only when the queue had something in it.
PublishSilently(p) ==
  /\ ProducerGoto(p, "publish", IF qcursize = 0 THEN "unlock" ELSE "signal")
  /\ qcursize' = qcursize + 1
  /\ sent' = [sent EXCEPT ![p] = @ + 1]
  /\ UNCHANGED <<mutex, waiting, qhead, qtail, qdata, ringVars, pring, pwait,
                 pelt, crashes, consumerVars>>

\* ... the count, which the consumer sees ...
Publish(p) ==
  /\ ProducerGoto(p, "publish", IF qcursize = 0 THEN "signal" ELSE "unlock")
  /\ qcursize' = qcursize + 1
  /\ sent' = [sent EXCEPT ![p] = @ + 1]
  /\ UNCHANGED <<mutex, waiting, qhead, qtail, qdata, ringVars, pring, pwait,
                 pelt, crashes, consumerVars>>

\* ... the broadcast, when the queue was empty ...
SendSignal(p) ==
  /\ ProducerGoto(p, "signal", "unlock")
  /\ waiting' = {}
  /\ UNCHANGED <<mutex, queueVars, ringVars, pring, pwait, pelt, sent, crashes,
                 consumerVars>>

\* ... and svm_msg_q_unlock.
Unlock(p) ==
  /\ ProducerGoto(p, "unlock", "idle")
  /\ mutex' = Free
  /\ UNCHANGED <<waiting, queueVars, ringVars, pring, pwait, pelt, sent,
                 crashes, consumerVars>>

\* An application dies while it holds the mutex, between two of its actions or
\* between the two updates of svm_msg_q_alloc_msg_w_ring.
Crash(p) ==
  /\ crashes < MaxCrashes
  /\ ppc[p] \in Locked
  /\ ppc' = [ppc EXCEPT ![p] = "crashed"]
  /\ mutex' = Dead
  /\ crashes' = crashes + 1
  /\ \/ UNCHANGED rtail
     \/ /\ ppc[p] = "check" /\ ~OrRingIsFull(pring[p])
        /\ rtail' = [rtail EXCEPT ![pring[p]] = (@ + 1) % Nitems[pring[p]]]
  /\ UNCHANGED <<waiting, queueVars, rhead, rcursize, rdata, pring, pwait, pelt,
                 sent, consumerVars>>
-----------------------------------------------------------------------------
(* The consumer. *)

ConsumerGoto(from, to) == cpc = from /\ cpc' = to

\* svm_msg_q_sub: dequeue if there is something, wait if asked to.
Sub ==
  /\ Len(held) < MaxHeld
  /\ \E mode \in Modes \ {"batch"} :
       /\ qcursize = 0 => mode # "nowait"
       /\ ConsumerGoto("idle", CASE qcursize # 0 -> "sub"
                                 [] mode = "wait" -> "waitLock"
                                 [] OTHER -> "timedLock")
  /\ UNCHANGED <<mutex, waiting, queueVars, ringVars, producerVars, held, csz,
                 cn, cring, cneed>>

\* svm_msg_q_wait: the lock ...
WaitLock ==
  /\ mutex = Free
  /\ mutex' = Consumer
  /\ ConsumerGoto("waitLock", "waitTest")
  /\ UNCHANGED <<waiting, queueVars, ringVars, producerVars, held, csz, cn,
                 cring, cneed>>

\* ... the test, which sleeps or unlocks ...
WaitTest ==
  /\ ConsumerGoto("waitTest", IF qcursize = 0 THEN "waitAsleep" ELSE "sub")
  /\ waiting' = IF qcursize = 0 THEN waiting \cup {Consumer} ELSE waiting
  /\ mutex' = Free
  /\ UNCHANGED <<queueVars, ringVars, producerVars, held, csz, cn, cring, cneed>>

\* Mutant: one wait, not a loop.
WaitWokenOnce ==
  /\ Consumer \notin waiting
  /\ mutex = Free
  /\ ConsumerGoto("waitAsleep", "sub")
  /\ UNCHANGED <<mutex, waiting, queueVars, ringVars, producerVars, held, csz,
                 cn, cring, cneed>>

\* ... and the wake-up, which tests again.
WaitWoken ==
  /\ Consumer \notin waiting
  /\ mutex = Free
  /\ mutex' = Consumer
  /\ ConsumerGoto("waitAsleep", "waitTest")
  /\ UNCHANGED <<waiting, queueVars, ringVars, producerVars, held, csz, cn,
                 cring, cneed>>

\* svm_msg_q_timedwait tests once, and not in a loop.
TimedLock ==
  /\ mutex = Free
  /\ mutex' = Consumer
  /\ ConsumerGoto("timedLock", "timedTest")
  /\ UNCHANGED <<waiting, queueVars, ringVars, producerVars, held, csz, cn,
                 cring, cneed>>

TimedTest ==
  LET signalable == qcursize \in {0, Maxsize} IN
  /\ ConsumerGoto("timedTest", IF signalable THEN "timedAsleep" ELSE "sub")
  /\ waiting' = IF signalable THEN waiting \cup {Consumer} ELSE waiting
  /\ mutex' = Free
  /\ UNCHANGED <<queueVars, ringVars, producerVars, held, csz, cn, cring, cneed>>

\* Woken, it takes the mutex back only to release it, and dequeues.
TimedWoken ==
  /\ Consumer \notin waiting
  /\ mutex = Free
  /\ ConsumerGoto("timedAsleep", "sub")
  /\ UNCHANGED <<mutex, waiting, queueVars, ringVars, producerVars, held, csz,
                 cn, cring, cneed>>

TimedOut ==
  /\ Consumer \in waiting
  /\ mutex = Free
  /\ ConsumerGoto("timedAsleep", "idle")
  /\ waiting' = waiting \ {Consumer}
  /\ UNCHANGED <<mutex, queueVars, ringVars, producerVars, held, csz, cn, cring,
                 cneed>>

\* svm_msg_q_sub_raw: the entry and the head ...
SubRaw ==
  /\ ConsumerGoto("sub", "subDec")
  /\ held' = Append(held, qdata[qhead])
  /\ qhead' = (qhead + 1) % Maxsize
  /\ UNCHANGED <<mutex, waiting, qtail, qcursize, qdata, ringVars,
                 producerVars, csz, cn, cring, cneed>>

\* ... and the count, which tells in one step whether producers may sleep.
SubRawDec ==
  /\ ConsumerGoto("subDec", IF qcursize = Maxsize THEN "sigLock" ELSE "idle")
  /\ qcursize' = qcursize - 1
  /\ UNCHANGED <<mutex, waiting, qhead, qtail, qdata, ringVars, producerVars,
                 held, csz, cn, cring, cneed>>

\* svm_msg_q_sub_raw_batch: the size, the entries and the head ...
SubRawBatch ==
  /\ "batch" \in Modes
  /\ qcursize # 0
  /\ LET n == IF qcursize < MaxBatch THEN qcursize ELSE MaxBatch IN
       /\ Len(held) + n <= MaxHeld
       /\ held' = held \o [i \in 1..n |-> qdata[(qhead + i - 1) % Maxsize]]
       /\ qhead' = (qhead + n) % Maxsize
       /\ cn' = n
  /\ csz' = qcursize
  /\ ConsumerGoto("idle", "batchDec")
  /\ UNCHANGED <<mutex, waiting, qtail, qcursize, qdata, ringVars,
                 producerVars, cring, cneed>>

\* ... and the count; the size that decides on the signal is the one it read.
SubRawBatchDec ==
  /\ ConsumerGoto("batchDec", IF csz = Maxsize THEN "sigLock" ELSE "idle")
  /\ qcursize' = qcursize - cn
  /\ csz' = 0 /\ cn' = 0
  /\ UNCHANGED <<mutex, waiting, qhead, qtail, qdata, ringVars, producerVars,
                 held, cring, cneed>>

\* svm_msg_q_free_msg of the oldest message held: the head, if it is the
\* message at the head, and the read of the count ...
FreeMsg ==
  LET r == Head(held)[1] IN
  /\ held # <<>>
  /\ ConsumerGoto("idle", "freeDec")
  /\ rhead' = IF Head(held)[2] = rhead[r]
                THEN [rhead EXCEPT ![r] = (@ + 1) % Nitems[r]] ELSE rhead
  /\ cneed' = (rcursize[r] = Nitems[r])
  /\ cring' = r
  /\ held' = Tail(held)
  /\ UNCHANGED <<mutex, waiting, queueVars, rtail, rcursize, rdata,
                 producerVars, csz, cn>>

\* ... and the decrement, a second access.
FreeMsgDec ==
  /\ ConsumerGoto("freeDec", IF cneed THEN "sigLock" ELSE "idle")
  /\ rcursize' = [rcursize EXCEPT ![cring] = @ - 1]
  /\ cneed' = FALSE
  /\ UNCHANGED <<mutex, waiting, queueVars, rhead, rtail, rdata, producerVars,
                 held, csz, cn, cring>>

\* svm_msg_q_send_signal of the consumer: lock, broadcast, unlock.  If the
\* owner died it returns at once, with the mutex.
SigLock ==
  /\ mutex \in {Free, Dead}
  /\ mutex' = Consumer
  /\ ConsumerGoto("sigLock", IF mutex = Free THEN "sigCast" ELSE "idle")
  /\ UNCHANGED <<waiting, queueVars, ringVars, producerVars, held, csz, cn,
                 cring, cneed>>

SigCast ==
  /\ ConsumerGoto("sigCast", "idle")
  /\ waiting' = {}
  /\ mutex' = Free
  /\ UNCHANGED <<queueVars, ringVars, producerVars, held, csz, cn, cring, cneed>>

\* pthread_cond_wait and pthread_cond_timedwait may return without a signal.
SpuriousWake(t) ==
  LET wait == CASE t \in Producers -> "producer"
                [] cpc = "waitAsleep" -> "wait"
                [] OTHER -> "timed" IN
  /\ t \in waiting
  /\ wait \in Spurious
  /\ waiting' = waiting \ {t}
  /\ UNCHANGED <<mutex, queueVars, ringVars, producerVars, consumerVars>>
-----------------------------------------------------------------------------
ProducerStep(p) ==
  \/ Refused(p) \/ OrRingWaitProd(p) \/ Woken(p) \/ AllocMsgWRing(p)
  \/ FillMsg(p) \/ AddRaw(p) \/ Publish(p) \/ SendSignal(p) \/ Unlock(p)

ConsumerStep ==
  \/ WaitLock \/ WaitTest \/ WaitWoken \/ TimedLock \/ TimedTest \/ TimedWoken
  \/ TimedOut \/ SubRaw \/ SubRawDec \/ SubRawBatchDec \/ FreeMsgDec
  \/ SigLock \/ SigCast

Next ==
  \/ \E p \in Producers : Lock(p) \/ ProducerStep(p) \/ Crash(p)
  \/ Sub \/ SubRawBatch \/ FreeMsg \/ ConsumerStep
  \/ \E t \in Threads : SpuriousWake(t)

\* A producer that is in a call goes on, and gets the mutex if it is offered
\* again and again; the consumer keeps receiving and freeing.  Whether a
\* producer sends at all, and spurious wake-ups, are not promised.
Fairness ==
  /\ \A p \in Producers : SF_vars(Woken(p)) /\ WF_vars(ProducerStep(p))
  /\ SF_vars(WaitLock \/ WaitWoken \/ TimedLock \/ TimedWoken \/ TimedOut \/ SigLock)
  /\ WF_vars(ConsumerStep)
  /\ SF_vars(FreeMsg)
  /\ SF_vars(SubRawBatch \/ (qcursize # 0 /\ Sub))
  /\ WF_vars(Sub)

Spec == Init /\ [][Next]_vars
FairSpec == Spec /\ Fairness
-----------------------------------------------------------------------------
(* The refinement mapping. *)

MsgData(m) == rdata[m[1]][m[2]]

\* Entries copied out of the queue that the count still includes.
copied == CASE cpc = "subDec" -> 1 [] cpc = "batchDec" -> cn [] OTHER -> 0

queue == [i \in 1..(qcursize - copied) |-> MsgData(qdata[(qhead + i - 1) % Maxsize])]
inbox == [i \in 1..Len(held) |-> MsgData(held[i])]

Fifo == INSTANCE MsgFifo WITH Producers <- Producers, Maxsize <- Maxsize,
                             sent <- sent, queue <- queue, inbox <- inbox
-----------------------------------------------------------------------------
Msgs == {<<r, e>> : r \in Rings, e \in AnySlot}

\* Every variable has its type; no count leaves its range.
TypeOK ==
  /\ mutex \in Threads \cup {Free, Dead}
  /\ waiting \subseteq Threads
  /\ qhead \in 0..(Maxsize - 1) /\ qtail \in 0..(Maxsize - 1)
  /\ qcursize \in 0..Maxsize
  /\ qdata \in [0..(Maxsize - 1) -> Msgs \cup {NoData}]
  /\ \A r \in Rings : /\ rhead[r] \in Slots(r) /\ rtail[r] \in Slots(r)
                      /\ rcursize[r] \in 0..Nitems[r]
  /\ ppc \in [Producers -> ProducerPC]
  /\ pring \in [Producers -> Rings] /\ pwait \in [Producers -> BOOLEAN]
  /\ pelt \in [Producers -> AnySlot]
  /\ sent \in [Producers -> 0..MaxMsgs]
  /\ cpc \in ConsumerPC
  /\ held \in Seq(Msgs) /\ Len(held) <= MaxHeld
  /\ csz \in 0..Maxsize /\ cn \in 0..Maxsize /\ cring \in Rings
  /\ cneed \in BOOLEAN
  /\ crashes \in 0..MaxCrashes

\* No operation runs past the queue or a ring: the counts stay in range, a
\* producer that was told there is room still has it when it publishes, and
\* svm_msg_q_sub_raw finds a message, as its ASSERT says.
NoOverrun ==
  /\ qcursize \in 0..Maxsize
  /\ \A r \in Rings : rcursize[r] <= Nitems[r]
  /\ \A p \in Producers : ppc[p] \in {"fill", "add", "publish"} => qcursize < Maxsize

\* The ASSERT of svm_msg_q_sub_raw: the queue it dequeues from is not empty.
SubNotEmpty == cpc = "sub" => qcursize > 0

\* The assertion of svm_msg_q_free_msg: messages are freed in the order in
\* which their slots were allocated, for every interleaving of rings.
FreesInOrder ==
  cpc = "idle" /\ held # <<>> => Head(held)[2] = rhead[Head(held)[1]]

\* Messages are delivered once, in order, with the data their producer wrote,
\* and the slot of a message is not reused before the consumer frees it.
FifoRefinement == Fifo!FifoInit /\ [][Fifo!FifoNext]_(Fifo!fifoVars)

\* A message that is sent is received: no wake-up of the consumer is lost.
MessagesReceived == Fifo!FifoSpec

\* What svm_msg_q_or_ring_wait_prod promises, a wait for a queue or ring event:
\* a producer asleep in it is woken while the consumer goes on receiving and
\* freeing.  The code does not keep it: svm_msg_q_free_msg reads the size of
\* the ring and decrements it in two accesses, so a producer that fills the
\* ring and falls asleep in between is not signalled, the later frees find a
\* ring that was not full, and only another producer's broadcast can help it.
ProducerWakes == \A p \in Producers : ppc[p] = "asleep" ~> ppc[p] # "asleep"
=============================================================================
