------------------------------ MODULE FrameQueue ------------------------------
(***************************************************************************)
(* The handoff frame queues of vlib (src/src/vlib/buffer_funcs.c, main.c,  *)
(* threads.c): how a thread gives packets to the thread that owns them.    *)
(*                                                                         *)
(* Every thread has one ring of elements, each a vector of at most         *)
(* FrameSize packets.  Any thread produces: it claims an element by moving *)
(* tail with a compare-and-swap, fills it, sets its valid word and raises  *)
(* check_frame_queues of the owner.  Only the owner consumes, once around  *)
(* its loop, and only while the flag was raised or work was found in the   *)
(* last CheckLimit turns.  One action is one access to shared memory.      *)
(*                                                                         *)
(* A packet is <<source, k>>, the k-th packet that thread hands off.  The  *)
(* barrier check of a producer that waits is WorkerBarrier's business.     *)
(***************************************************************************)
EXTENDS Naturals, FiniteSets, SequencesExt

CONSTANTS
  Threads,      \* the threads that run the main loop
  Routes,       \* pairs <<from, to>>: who may hand packets to whom
  Nelts,        \* fq->nelts
  FrameSize,    \* VLIB_FRAME_SIZE
  CheckLimit,   \* the 100 of frame_queue_check_counter
  Dropping,     \* threads whose handoff nodes pass drop_on_congestion 1
  WithAux,      \* vlib_buffer_enqueue_to_thread_with_aux
  MaxPackets    \* bounds on the packets each thread hands off

ASSUME FrameQueueAssumption ==
  /\ Routes \subseteq Threads \X Threads
  /\ Nelts \in {2, 4, 8, 16, 32, 64}    \* a power of 2 or vlib_frame_queue_alloc aborts
  /\ FrameSize \in Nat \ {0} /\ CheckLimit \in Nat \ {0}
  /\ Dropping \subseteq Threads /\ WithAux \in BOOLEAN
  /\ MaxPackets \in [Threads -> Nat]

VARIABLES
  head, tail,          \* of each thread's ring
  elts,                \* its elements
  check_frame_queues,  \* the flag of each thread
  counter,             \* its frame_queue_check_counter
  pc,                  \* where each thread is
  free,                \* n_free of the frame it is filling, 0 when there is none
  vectors, processed,  \* the other locals of vlib_frame_queue_dequeue_inline
  todo,                \* packets still to hand off: a sequence of [k, to]
  new_tail,            \* local of vlib_get_frame_queue_elt
  drop_list,           \* local of vlib_buffer_enqueue_to_thread_inline
  made,                \* packets each thread has handed off
  freed,               \* what each thread gave to vlib_buffer_free
  delivered            \* packets each thread gave its node, by source

ringVars == <<head, tail, elts>>
pollVars == <<check_frame_queues, counter>>
dequeueVars == <<free, vectors, processed, delivered>>
enqueueVars == <<todo, new_tail, drop_list, made, freed>>
vars == <<ringVars, pollVars, pc, dequeueVars, enqueueVars>>

vector_threshold == 2 * FrameSize

PC == {"top", "poll", "clear", "dequeue", "reset", "bump", "polled",
       "dispatch", "tail", "full", "cas", "fill", "publish", "flag"}

Goto(t, from, to) == pc[t] = from /\ pc' = [pc EXCEPT ![t] = to]

Slot(n) == n % Nelts    \* n & (nelts - 1)

\* What clib_memset leaves in the first cache line of an element; buffer_index
\* keeps its contents.
Cleared(elt) == [elt EXCEPT !.valid = FALSE, !.n_vectors = 0, !.offset = 0]

\* Mutant: the copy starts at the first packet whatever was copied before.
ContentFromStart(elt) == SubSeq(elt.buffer_index, 1, elt.n_vectors)

\* The packets an element still holds.
Content(elt) == SubSeq(elt.buffer_index, elt.offset + 1,
                       elt.offset + elt.n_vectors)

\* clib_compress_u32: the elements of s at the indexes of mask, in their order.
Nth(mask, i) == CHOOSE j \in mask : Cardinality({k \in mask : k <= j}) = i
Compress(s, mask) == [i \in 1..Cardinality(mask) |-> s[Nth(mask, i)]]

\* vlib_frame_queue_main_init, vlib_frame_queue_alloc
Init ==
  /\ head = [t \in Threads |-> 0]
  /\ tail = [t \in Threads |-> 0]
  /\ elts = [t \in Threads |-> [i \in 0..(Nelts - 1) |->
               [valid |-> FALSE, n_vectors |-> 0, offset |-> 0, buffer_index |-> <<>>]]]
  /\ check_frame_queues = [t \in Threads |-> FALSE]
  /\ counter = [t \in Threads |-> 0]
  /\ pc = [t \in Threads |-> "top"]
  /\ free = [t \in Threads |-> 0]
  /\ vectors = [t \in Threads |-> 0]
  /\ processed = [t \in Threads |-> 0]
  /\ todo = [t \in Threads |-> <<>>]
  /\ new_tail = [t \in Threads |-> 0]
  /\ drop_list = [t \in Threads |-> <<>>]
  /\ made = [t \in Threads |-> 0]
  /\ freed = [t \in Threads |-> <<>>]
  /\ delivered = [t \in Threads |-> [s \in Threads |-> <<>>]]
-----------------------------------------------------------------------------
(* The poll in vlib_main_or_worker_loop. *)

SkipPoll(t) ==
  /\ ~check_frame_queues[t] /\ counter[t] = 0
  /\ Goto(t, "top", "dispatch")
  /\ UNCHANGED <<ringVars, pollVars, dequeueVars, enqueueVars>>

BeginPoll(t) ==
  /\ check_frame_queues[t] \/ counter[t] > 0
  /\ Goto(t, "top", "poll")
  /\ UNCHANGED <<ringVars, pollVars, dequeueVars, enqueueVars>>

\* The flag is read a second time, and cleared before the rings are looked at.
ReadFlag(t) ==
  /\ Goto(t, "poll", IF check_frame_queues[t] THEN "clear" ELSE "dequeue")
  /\ counter' = [counter EXCEPT ![t] = IF check_frame_queues[t] THEN CheckLimit ELSE @]
  /\ UNCHANGED <<ringVars, check_frame_queues, dequeueVars, enqueueVars>>

ClearFlag(t) ==
  /\ Goto(t, "clear", "dequeue")
  /\ check_frame_queues' = [check_frame_queues EXCEPT ![t] = FALSE]
  /\ UNCHANGED <<ringVars, counter, dequeueVars, enqueueVars>>

EndPoll(t) ==
  /\ Goto(t, "polled", "dispatch")
  /\ counter' = [counter EXCEPT ![t] = IF processed[t] > 0 THEN CheckLimit ELSE @ - 1]
  /\ processed' = [processed EXCEPT ![t] = 0]
  /\ UNCHANGED <<ringVars, check_frame_queues, free, vectors, delivered, enqueueVars>>
-----------------------------------------------------------------------------
(* vlib_frame_queue_dequeue_inline, on the thread's own ring. *)

HeadSlot(t) == Slot(head[t] + 1)
HeadElt(t) == elts[t][HeadSlot(t)]

\* Nothing claimed, or the oldest claim is not yet valid.
DequeueDone(t) ==
  /\ head[t] = tail[t] \/ ~HeadElt(t).valid
  /\ Goto(t, "dequeue", "polled")
  /\ free' = [free EXCEPT ![t] = 0]
  /\ vectors' = [vectors EXCEPT ![t] = 0]
  /\ UNCHANGED <<ringVars, pollVars, processed, delivered, enqueueVars>>

\* The loop's last test: enough packets were pushed into the graph.
AfterElt(t, n) == IF n >= vector_threshold THEN "polled" ELSE "dequeue"

\* The copy takes what fits into the node's frame, a new one when there is none.
NFree(t) == IF free[t] = 0 THEN FrameSize ELSE free[t]
NCopy(t) == IF NFree(t) < HeadElt(t).n_vectors THEN NFree(t) ELSE HeadElt(t).n_vectors
Copied(t) == SubSeq(Content(HeadElt(t)), 1, NCopy(t))

\* What the copy of n packets leaves of an element.
Rest(elt, n) == [elt EXCEPT !.n_vectors = @ - n, !.offset = @ + n]

\* A frame that is full is put to the node and the next copy opens another; an
\* element that did not fit is left on the ring with a larger offset.
DequeueElt(t) ==
  /\ head[t] # tail[t]
  /\ HeadElt(t).valid
  /\ LET whole == NCopy(t) = HeadElt(t).n_vectors
         n == vectors[t] + NCopy(t)
         done == ~whole /\ n >= vector_threshold
     IN /\ Goto(t, "dequeue", IF whole THEN "reset" ELSE AfterElt(t, n))
        /\ free' = [free EXCEPT ![t] = IF done THEN 0 ELSE NFree(t) - NCopy(t)]
        /\ vectors' = [vectors EXCEPT ![t] = IF done THEN 0 ELSE n]
        /\ elts' = IF whole THEN elts
                   ELSE [elts EXCEPT ![t][HeadSlot(t)] = Rest(@, NCopy(t))]
  /\ delivered' = [delivered EXCEPT ![t] = [s \in Threads |->
       @[s] \o Compress(Copied(t), {i \in DOMAIN Copied(t) : Copied(t)[i][1] = s})]]
  /\ UNCHANGED <<head, tail, pollVars, processed, enqueueVars>>

ResetElt(t) ==
  /\ Goto(t, "reset", "bump")
  /\ elts' = [elts EXCEPT ![t][HeadSlot(t)] = Cleared(@)]
  /\ UNCHANGED <<head, tail, pollVars, dequeueVars, enqueueVars>>

\* The release store of head, then the threshold test.
BumpHead(t) ==
  /\ Goto(t, "bump", AfterElt(t, vectors[t]))
  /\ head' = [head EXCEPT ![t] = @ + 1]
  /\ processed' = [processed EXCEPT ![t] = @ + 1]
  /\ IF vectors[t] >= vector_threshold
     THEN /\ free' = [free EXCEPT ![t] = 0]
          /\ vectors' = [vectors EXCEPT ![t] = 0]
     ELSE UNCHANGED <<free, vectors>>
  /\ UNCHANGED <<tail, elts, pollVars, delivered, enqueueVars>>
-----------------------------------------------------------------------------
(* vlib_buffer_enqueue_to_thread_inline. *)

\* The rest of the loop has no packet to hand off.
Idle(t) ==
  /\ Goto(t, "dispatch", "top")
  /\ UNCHANGED <<ringVars, pollVars, dequeueVars, enqueueVars>>

Targets(t) == {d \in Threads : <<t, d>> \in Routes}

\* A node hands off a frame: for each packet it chose a thread.
HandOff(t) ==
  /\ Goto(t, "dispatch", "tail")
  /\ \E n \in 1..FrameSize :
       /\ made[t] + n <= MaxPackets[t]
       /\ \E to \in [1..n -> Targets(t)] :
            todo' = [todo EXCEPT ![t] =
                       [i \in 1..n |-> [k |-> made[t] + i, to |-> to[i]]]]
       /\ made' = [made EXCEPT ![t] = @ + n]
  /\ UNCHANGED <<ringVars, pollVars, dequeueVars, new_tail, drop_list, freed>>

\* The thread of the first packet not yet handed off, and the packets for it.
Dest(t) == todo[t][1].to
Mask(t) == {i \in DOMAIN todo[t] : todo[t][i].to = Dest(t)}
Masked(t) == Compress(todo[t], Mask(t))
Unmasked(t) == Compress(todo[t], DOMAIN todo[t] \ Mask(t))
Buffers(t) == [i \in DOMAIN Masked(t) |-> <<t, Masked(t)[i].k>>]

\* vlib_get_frame_queue_elt reads tail, then head, then moves tail.
ReadTail(t) ==
  /\ Goto(t, "tail", "full")
  /\ new_tail' = [new_tail EXCEPT ![t] = tail[Dest(t)] + 1]
  /\ UNCHANGED <<ringVars, pollVars, dequeueVars, todo, drop_list, made, freed>>

\* Mutant: the ring is full one element later.
IsFullOffByOne(t) == new_tail[t] > head[Dest(t)] + Nelts

IsFull(t) == new_tail[t] >= head[Dest(t)] + Nelts

\* A producer that may wait stays here while the ring is full.
NotFull(t) ==
  /\ Goto(t, "full", "cas")
  /\ ~IsFull(t)
  /\ UNCHANGED <<ringVars, pollVars, dequeueVars, enqueueVars>>

\* What the two clib_compress_u32 leave in drop_list for the packets of a full
\* ring: with aux data the second writes where the first wrote.
Dropped(t) == [i \in DOMAIN Masked(t) |->
                 [aux |-> WithAux, p |-> <<t, Masked(t)[i].k>>]]

\* Mutant: the packets of the ring that was full are forgotten.
CongestedForgets(t) ==
  /\ pc[t] = "full" /\ IsFull(t) /\ t \in Dropping
  /\ Goto(t, "full", IF Unmasked(t) = <<>> THEN "dispatch" ELSE "tail")
  /\ todo' = [todo EXCEPT ![t] = Unmasked(t)]
  /\ new_tail' = [new_tail EXCEPT ![t] = 0]
  /\ freed' = IF Unmasked(t) = <<>> THEN [freed EXCEPT ![t] = @ \o drop_list[t]] ELSE freed
  /\ drop_list' = IF Unmasked(t) = <<>> THEN [drop_list EXCEPT ![t] = <<>>] ELSE drop_list
  /\ UNCHANGED <<ringVars, pollVars, dequeueVars, made>>

\* After the last thread of the frame the drop list is freed.
Continue(t, from, dropping) ==
  /\ pc[t] = from
  /\ todo' = [todo EXCEPT ![t] = Unmasked(t)]
  /\ new_tail' = [new_tail EXCEPT ![t] = 0]
  /\ IF Unmasked(t) # <<>>
     THEN /\ Goto(t, from, "tail")
          /\ drop_list' = [drop_list EXCEPT ![t] = dropping]
          /\ freed' = freed
     ELSE /\ Goto(t, from, "dispatch")
          /\ drop_list' = [drop_list EXCEPT ![t] = <<>>]
          /\ freed' = [freed EXCEPT ![t] = @ \o dropping]

\* No element and drop_on_congestion: the packets join the drop list.
Congested(t) ==
  /\ pc[t] = "full" /\ IsFull(t) /\ t \in Dropping
  /\ Continue(t, "full", drop_list[t] \o Dropped(t))
  /\ UNCHANGED <<ringVars, pollVars, dequeueVars, made>>

\* Mutant: tail is stored without a compare.
ClaimWithoutCompare(t) ==
  /\ Goto(t, "cas", "fill")
  /\ tail' = [tail EXCEPT ![Dest(t)] = new_tail[t]]
  /\ UNCHANGED <<head, elts, pollVars, dequeueVars, enqueueVars>>

Claim(t) ==
  /\ Goto(t, "cas", "fill")
  /\ tail[Dest(t)] = new_tail[t] - 1
  /\ tail' = [tail EXCEPT ![Dest(t)] = new_tail[t]]
  /\ UNCHANGED <<head, elts, pollVars, dequeueVars, enqueueVars>>

Retry(t) ==
  /\ Goto(t, "cas", "tail")
  /\ tail[Dest(t)] # new_tail[t] - 1
  /\ UNCHANGED <<ringVars, pollVars, dequeueVars, enqueueVars>>

\* The element is this producer's alone until it is valid.
Fill(t) ==
  /\ Goto(t, "fill", "publish")
  /\ elts' = [elts EXCEPT ![Dest(t)][Slot(new_tail[t])] =
       [@ EXCEPT !.buffer_index = Buffers(t), !.n_vectors = Len(Buffers(t))]]
  /\ UNCHANGED <<head, tail, pollVars, dequeueVars, enqueueVars>>

Publish(t) ==
  /\ Goto(t, "publish", "flag")
  /\ elts' = [elts EXCEPT ![Dest(t)][Slot(new_tail[t])] = [@ EXCEPT !.valid = TRUE]]
  /\ UNCHANGED <<head, tail, pollVars, dequeueVars, enqueueVars>>

\* Mutant: the owner is not flagged while it is still polling.
RaiseFlagUnlessPolling(t) ==
  /\ Continue(t, "flag", drop_list[t])
  /\ check_frame_queues' = [check_frame_queues EXCEPT
                              ![Dest(t)] = @ \/ counter[Dest(t)] = 0]
  /\ UNCHANGED <<ringVars, counter, dequeueVars, made>>

RaiseFlag(t) ==
  /\ Continue(t, "flag", drop_list[t])
  /\ check_frame_queues' = [check_frame_queues EXCEPT ![Dest(t)] = TRUE]
  /\ UNCHANGED <<ringVars, counter, dequeueVars, made>>
-----------------------------------------------------------------------------
Thread(t) ==
  \/ SkipPoll(t) \/ BeginPoll(t) \/ ReadFlag(t) \/ ClearFlag(t) \/ EndPoll(t)
  \/ DequeueDone(t) \/ DequeueElt(t) \/ ResetElt(t) \/ BumpHead(t)
  \/ Idle(t) \/ HandOff(t) \/ ReadTail(t) \/ NotFull(t) \/ Congested(t)
  \/ Claim(t) \/ Retry(t) \/ Fill(t) \/ Publish(t) \/ RaiseFlag(t)

Next == \E t \in Threads : Thread(t)

Spec == Init /\ [][Next]_vars

\* A thread never blocks: its loop spins, so each one keeps taking steps.
FairSpec == Spec /\ \A t \in Threads : WF_vars(Thread(t))
-----------------------------------------------------------------------------
\* The state is well typed, a ring never has more than Nelts - 1 claims, and
\* (the ASSERT of the dequeue) an element never ends beyond the frame size.
TypeOK ==
  /\ \A t \in Threads :
       /\ head[t] \in Nat /\ tail[t] \in head[t]..(head[t] + Nelts - 1)
       /\ pc[t] \in PC
       /\ counter[t] \in 0..CheckLimit
       /\ free[t] \in 0..FrameSize
       /\ \A i \in 0..(Nelts - 1) :
            elts[t][i].offset + elts[t][i].n_vectors <= FrameSize
  /\ check_frame_queues \in [Threads -> BOOLEAN]
  /\ \A t \in Threads : made[t] \in 0..MaxPackets[t]

\* Producers that have claimed an element and not yet made it valid.
Owners == {t \in Threads : pc[t] \in {"fill", "publish"}}

\* An element that vlib_get_frame_queue_elt returns is the caller's alone and
\* was reset: no other producer holds the same one, and the consumer of that
\* ring sees it neither valid nor half consumed.
ClaimExclusive ==
  \A t \in Owners :
    LET slot == Slot(new_tail[t])
        elt == elts[Dest(t)][slot]
    IN /\ ~elt.valid /\ elt.offset = 0
       /\ pc[t] = "fill" => elt.n_vectors = 0
       /\ \A u \in Owners \ {t} :
            Dest(u) = Dest(t) => Slot(new_tail[u]) # slot

\* Where a packet of thread s is: still to be handed off, to be dropped, freed,
\* in an element (not the one whose contents the owner has just copied), or
\* delivered.
OnRing(q, p) ==
  {i \in 0..(Nelts - 1) : /\ p \in ToSet(Content(elts[q][i]))
                          /\ ~(pc[q] = "reset" /\ i = HeadSlot(q))}
Places(s, k) ==
  LET waitingFor == {<<"todo", i>> : i \in {j \in DOMAIN todo[s] :
                       /\ todo[s][j].k = k
                       /\ ~(pc[s] \in {"publish", "flag"} /\ todo[s][j].to = Dest(s))}}
      dropping == {<<"drop", i>> : i \in {j \in DOMAIN drop_list[s] :
                       drop_list[s][j] = [aux |-> FALSE, p |-> <<s, k>>]}}
      gone == {<<"freed", i>> : i \in {j \in DOMAIN freed[s] :
                       freed[s][j] = [aux |-> FALSE, p |-> <<s, k>>]}}
      queued == {<<"ring", q, i>> : q \in Threads, i \in 0..(Nelts - 1)}
      reached == {<<"node", q>> : q \in {d \in Threads :
                       <<s, k>> \in ToSet(delivered[d][s])}}
  IN waitingFor \cup dropping \cup gone \cup reached
       \cup {r \in queued : r[3] \in OnRing(r[2], <<s, k>>)}

\* Every packet given to vlib_buffer_enqueue_to_thread is in exactly one place:
\* none is lost, handed over twice, or both freed and delivered.
Conserved ==
  \A s \in Threads : \A k \in 1..made[s] :
    Cardinality(Places(s, k)) = 1

\* The packets of one thread reach another in the order in which they were
\* handed off, across elements, partial copies and dropped vectors.
InOrder ==
  \A d, s \in Threads :
    \A i \in 1..(Len(delivered[d][s]) - 1) :
      delivered[d][s][i][2] < delivered[d][s][i + 1][2]

\* The packets are finitely many, so in the end every ring is and stays drained:
\* the flag and the counter never leave work on a ring that its owner has
\* stopped polling.
RingsDrained == <>[](\A t \in Threads : head[t] = tail[t])

\* Every handoff returns, also one that waits for a slot or loses the race for
\* it: in the end no thread has packets left to hand off.
HandOffReturns == <>[](\A t \in Threads : todo[t] = <<>>)
=============================================================================
