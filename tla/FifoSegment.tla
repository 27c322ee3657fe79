------------------------------ MODULE FifoSegment ------------------------------
(***************************************************************************)
(* The chunk allocator of a fifo segment (src/src/svm/fifo_segment.c).     *)
(*                                                                         *)
(* A slice of a segment keeps its free chunks in one stack per size, in    *)
(* memory that VPP and the application share.  Both allocate chunks, for   *)
(* the fifos they write, and give back those of the fifos they read, with  *)
(* compare-and-swap on a head that carries a tag.  Memory that no chunk    *)
(* uses yet is carved off the end of the segment, in batches.              *)
(*                                                                         *)
(* One action is one access to shared memory.  n_cached_bytes, which goes  *)
(* along with n_fl_chunk_bytes and is only reported, is left out.          *)
(***************************************************************************)
EXTENDS Integers, FiniteSets, SequencesExt

CONSTANTS
  Procs,         \* the processes that use the slice
  NumLists,      \* FS_CHUNK_VEC_LEN
  MinSize,       \* FIFO_SEGMENT_MIN_FIFO_SIZE
  Header,        \* sizeof (svm_fifo_chunk_t)
  BatchSize,     \* FIFO_SEGMENT_ALLOC_BATCH_SIZE
  TagMod,        \* 2^16
  IntMod,        \* 2^32
  WordMod,       \* 2^64
  Starts,        \* preallocated chunks, memory left, who asks for which sizes
  MaxChunks,     \* bound: chunks that are ever carved
  MaxCalls,      \* bound: calls of all processes
  Null

ASSUME SegmentAssumption ==
  /\ NumLists \in Nat \ {0} /\ MinSize \in Nat \ {0}
  /\ Header \in Nat \ {0} /\ BatchSize \in Nat \ {0}
  /\ TagMod \in Nat \ {0} /\ IntMod \in Nat \ {0}
  /\ WordMod % (IntMod * MinSize) = 0
  /\ Starts \subseteq [pre : Seq(0..(NumLists - 1)), memory : Nat, asks : [Procs -> SUBSET Nat]]

VARIABLES
  asks,              \* the sizes that the fifo each process writes asks for
  free_chunks,       \* the heads of the stacks: a chunk and a tag
  next,              \* the next pointer of each chunk
  length,            \* the size of each carved chunk, by index
  memory,            \* bytes not carved, max_byte_index - byte_index
  n_fl_chunk_bytes,
  fifo,              \* the chunks of the fifo each process writes
  call,              \* where each process is
  calls

segVars == <<free_chunks, next, length, memory, n_fl_chunk_bytes>>
vars == <<asks, segVars, fifo, call, calls>>

Chunks == 1..MaxChunks
Lists == 0..(NumLists - 1)
-----------------------------------------------------------------------------
\* fs_freelist_index_to_size, fs_freelist_for_size
IndexToSize(i) == MinSize * 2^i

FreelistForSize(n) ==
  CHOOSE i \in Lists :
    /\ IndexToSize(i) >= n \/ i = NumLists - 1
    /\ \A j \in 0..(i - 1) : IndexToSize(j) < n

Bytes(list) == FoldSeq(LAMBDA c, n : n + IndexToSize(length[c]), 0, list)

Lesser(a, b) == IF a < b THEN a ELSE b

\* Carved chunks are linked so that the last is the first of the list.
LinkedList(from, n) == [i \in 1..n |-> from + n - i]
Linked(nx, list, end) ==
  [c \in Chunks |-> IF c \notin ToSet(list) THEN nx[c]
                    ELSE LET i == CHOOSE j \in DOMAIN list : list[j] = c
                         IN IF i = Len(list) THEN end ELSE list[i + 1]]

\* Mutant: without the tag.
NewHeadUntagged(c, old) == [ptr |-> c, tag |-> 0]

\* The head of a stack after a change: the tag goes up with every one.
NewHead(c, old) == [ptr |-> c, tag |-> (old.tag + 1) % TagMod]

NoHead == [ptr |-> Null, tag |-> 0]

\* The locals of a call: what it wants, the stack it works on and the head it
\* read, the chunks it has, the chunks it still has to push, its bytes.
Idle == [pc |-> "idle", want |-> 0, k |-> "", fl |-> 0, old |-> NoHead, nxt |-> Null,
         list |-> <<>>, req |-> 0, run |-> <<>>, todo |-> <<>>, bytes |-> 0,
         n_free |-> 0, batch |-> 0, last |-> FALSE]

Init ==
  \E s \in Starts :
    LET of(i) == SelectSeq([c \in DOMAIN s.pre |-> c], LAMBDA c : s.pre[c] = i)
    IN /\ asks = s.asks
       /\ memory = s.memory
       /\ length = s.pre
       /\ free_chunks = [i \in Lists |->
            [ptr |-> IF of(i) = <<>> THEN Null ELSE of(i)[1], tag |-> 0]]
       /\ next = [c \in Chunks |->
            LET above == {d \in DOMAIN s.pre : d > c /\ s.pre[d] = s.pre[c]}
            IN IF c \notin DOMAIN s.pre \/ above = {} THEN Null
               ELSE CHOOSE d \in above : \A e \in above : d <= e]
       /\ n_fl_chunk_bytes = FoldSeq(LAMBDA i, n : n + IndexToSize(i), 0, s.pre)
       /\ fifo = [q \in Procs |-> <<>>]
       /\ call = [q \in Procs |-> Idle]
       /\ calls = 0
-----------------------------------------------------------------------------
\* A step of process q, after which its call is in state c.
Goto(q, c) == call' = [call EXCEPT ![q] = c]

\* The parts of the state a step leaves alone, by name of what it may change.
Rest == <<asks, fifo, calls>>
LocalStep == UNCHANGED <<Rest, segVars>>
NextStep == UNCHANGED <<Rest, free_chunks, length, memory, n_fl_chunk_bytes>>
HeadStep == UNCHANGED <<Rest, next, length, memory, n_fl_chunk_bytes>>
BytesStep == UNCHANGED <<Rest, free_chunks, next, length, memory>>

At(q, pc) == call[q].pc = pc
-----------------------------------------------------------------------------
(* Pop a chunk: fss_chunk_free_list_pop. *)

\* The head was read: with no chunk the pop is over.
Loaded(c, head) ==
  [c EXCEPT !.pc = IF head.ptr = Null THEN "empty" ELSE "next",
            !.old = IF head.ptr = Null THEN NoHead ELSE head, !.nxt = Null]

PopLoad(q) ==
  /\ At(q, "load")
  /\ Goto(q, Loaded(call[q], free_chunks[call[q].fl]))
  /\ LocalStep

PopNext(q) ==
  /\ At(q, "next")
  /\ Goto(q, [call[q] EXCEPT !.pc = "cas", !.nxt = next[call[q].old.ptr]])
  /\ LocalStep

PopSwap(q) ==
  LET c == call[q]
  IN /\ At(q, "cas")
     /\ free_chunks[c.fl] = c.old
     /\ free_chunks' = [free_chunks EXCEPT ![c.fl] = NewHead(c.nxt, c.old)]
     /\ Goto(q, [c EXCEPT !.pc = "got", !.nxt = Null])
     /\ HeadStep

PopRetry(q) ==
  /\ At(q, "cas")
  /\ free_chunks[call[q].fl] # call[q].old
  /\ Goto(q, Loaded(call[q], free_chunks[call[q].fl]))
  /\ LocalStep

\* The chunk goes in front of those the call has already; fs_try_alloc_multi_chunk
\* goes on until it has enough.
Got(q) ==
  LET c == call[q]
      size == IndexToSize(c.fl)
      more == c.k = "multi" /\ c.req > size
      first == IF c.list = <<>> THEN Null ELSE c.list[1]
  IN /\ At(q, "got")
     /\ next' = [next EXCEPT ![c.old.ptr] = first]
     /\ Goto(q, [c EXCEPT !.pc = IF more THEN "load" ELSE "sub",
                          !.old = NoHead,
                          !.list = <<c.old.ptr>> \o c.list,
                          !.req = IF more THEN c.req - size ELSE 0,
                          !.bytes = c.bytes + size])
     /\ NextStep

\* Mutant: it takes off what was asked for.
SubWant(q) ==
  /\ At(q, "sub")
  /\ n_fl_chunk_bytes' = (n_fl_chunk_bytes - call[q].want) % WordMod
  /\ Goto(q, [call[q] EXCEPT !.pc = "return"])
  /\ BytesStep

\* fss_fl_chunk_bytes_sub
Sub(q) ==
  /\ At(q, "sub")
  /\ n_fl_chunk_bytes' = (n_fl_chunk_bytes - call[q].bytes) % WordMod
  /\ Goto(q, [call[q] EXCEPT !.pc = "return"])
  /\ BytesStep
-----------------------------------------------------------------------------
(* Push chunks: fss_chunk_free_list_push, fss_chunk_free_list_push_list. *)

PushLoad(q) ==
  /\ At(q, "pload")
  /\ Goto(q, [call[q] EXCEPT !.pc = "plink", !.old = free_chunks[call[q].fl]])
  /\ LocalStep

\* A batch of no chunks has its tail in memory that is not carved.
PushLink(q) ==
  LET c == call[q]
  IN /\ At(q, "plink")
     /\ next' = IF c.run = <<>> THEN next ELSE [next EXCEPT ![Last(c.run)] = c.old.ptr]
     /\ Goto(q, [c EXCEPT !.pc = "pcas"])
     /\ NextStep

\* fs_try_alloc_multi_chunk gave back what it had and looks for one larger chunk.
\* Without one, fsh_try_alloc_chunk carves small chunks, once.
MultiFailed(c) ==
  LET batch == c.n_free \div MinSize
  IN IF c.last \/ batch = 0 THEN [c EXCEPT !.pc = "return", !.k = ""]
     ELSE [c EXCEPT !.pc = "carve", !.k = "fill", !.fl = 0, !.batch = batch]

Larger(c) ==
  LET i == FreelistForSize(c.want) + 1
  IN IF i \in Lists THEN [c EXCEPT !.pc = "load", !.k = "larger", !.fl = i]
     ELSE MultiFailed(c)

\* Mutant: all chunks go to the stack of the first size.
PushOneAnywhere(c, list) ==
  [c EXCEPT !.pc = "pload", !.fl = 0, !.run = <<list[1]>>, !.todo = Tail(list)]

\* The chunks that were to be pushed one by one.
PushOne(c, list) ==
  [c EXCEPT !.pc = "pload", !.fl = length[list[1]], !.run = <<list[1]>>, !.todo = Tail(list)]

Pushed(c) ==
  IF c.todo # <<>> THEN PushOne(c, c.todo)
  ELSE IF c.k = "multi" THEN Larger(c) ELSE [c EXCEPT !.pc = "add"]

PushSwap(q) ==
  LET c == call[q]
      first == IF c.run = <<>> THEN Null ELSE c.run[1]
  IN /\ At(q, "pcas")
     /\ free_chunks[c.fl] = c.old
     /\ free_chunks' = [free_chunks EXCEPT ![c.fl] = NewHead(first, c.old)]
     /\ Goto(q, Pushed([c EXCEPT !.old = NoHead, !.run = <<>>]))
     /\ HeadStep

\* Mutant: the failed swap does not read the head again.
PushRetryStale(q) ==
  /\ At(q, "pcas")
  /\ free_chunks[call[q].fl] # call[q].old
  /\ Goto(q, [call[q] EXCEPT !.pc = "plink"])
  /\ LocalStep

PushRetry(q) ==
  /\ At(q, "pcas")
  /\ free_chunks[call[q].fl] # call[q].old
  /\ Goto(q, [call[q] EXCEPT !.pc = "plink", !.old = free_chunks[call[q].fl]])
  /\ LocalStep

\* fs_try_alloc_multi_chunk starts with the next smaller size.
Multi(c, last) ==
  LET i == FreelistForSize(c.want)
  IN [c EXCEPT !.pc = "load", !.k = "multi", !.fl = IF i > 0 THEN i - 1 ELSE 0,
               !.req = c.want, !.bytes = 0, !.batch = 0, !.last = last]

\* fss_fl_chunk_bytes_add, and where the call goes on.
Add(q) ==
  LET c == [call[q] EXCEPT !.bytes = 0, !.batch = 0]
  IN /\ At(q, "add")
     /\ n_fl_chunk_bytes' = (n_fl_chunk_bytes + call[q].bytes) % WordMod
     /\ Goto(q, CASE c.k = "one" -> [c EXCEPT !.pc = "load"]
                  [] c.k = "fill" -> [c EXCEPT !.pc = "short2"]
                  [] c.k = "last" -> Multi(c, TRUE)
                  [] c.k = "collect" -> Idle)
     /\ BytesStep
-----------------------------------------------------------------------------
(* fsh_try_alloc_chunk *)

StartAlloc(q) ==
  /\ At(q, "idle") /\ calls < MaxCalls
  /\ \E n \in asks[q] :
       Goto(q, [Idle EXCEPT !.pc = "load", !.k = "one", !.want = n, !.fl = FreelistForSize(n)])
  /\ calls' = calls + 1
  /\ UNCHANGED <<asks, segVars, fifo>>

\* No chunk of the size: a batch is carved if memory is left.
EmptyOne(q) ==
  LET c == call[q]
      size == IndexToSize(c.fl)
      batch == IF size * BatchSize <= memory THEN BatchSize ELSE 1
  IN /\ At(q, "empty") /\ c.k = "one"
     /\ Goto(q, IF size <= memory
                THEN [c EXCEPT !.pc = "carve", !.n_free = memory, !.batch = batch]
                ELSE [c EXCEPT !.pc = "short", !.n_free = memory])
     /\ LocalStep

\* Mutant: the check of the memory that is left forgets the headers.
CarveNoHeader(q) ==
  LET c == call[q]
      new == LinkedList(Len(length) + 1, c.batch)
  IN /\ At(q, "carve")
     /\ IndexToSize(c.fl) * c.batch < memory
     /\ memory' = memory - (IndexToSize(c.fl) + Header) * c.batch
     /\ length' = length \o [i \in 1..c.batch |-> c.fl]
     /\ next' = Linked(next, new, Null)
     /\ Goto(q, [c EXCEPT !.pc = "pload", !.run = new, !.bytes = c.batch * IndexToSize(c.fl)])
     /\ UNCHANGED <<Rest, free_chunks, n_fl_chunk_bytes>>

\* fsh_try_alloc_chunk_batch up to the push
Carve(q) ==
  LET c == call[q]
      new == LinkedList(Len(length) + 1, c.batch)
  IN /\ At(q, "carve")
     /\ (IndexToSize(c.fl) + Header) * c.batch < memory
     /\ memory' = memory - (IndexToSize(c.fl) + Header) * c.batch
     /\ length' = length \o [i \in 1..c.batch |-> c.fl]
     /\ next' = Linked(next, new, Null)
     /\ Goto(q, [c EXCEPT !.pc = "pload", !.run = new, !.bytes = c.batch * IndexToSize(c.fl)])
     /\ UNCHANGED <<Rest, free_chunks, n_fl_chunk_bytes>>

CarveFails(q) ==
  LET c == [call[q] EXCEPT !.batch = 0]
  IN /\ At(q, "carve")
     /\ (IndexToSize(c.fl) + Header) * call[q].batch >= memory
     /\ Goto(q, [c EXCEPT !.pc = IF c.k = "one" THEN "short" ELSE "return"])
     /\ LocalStep

\* Several smaller chunks may do, if the free lists hold enough bytes ...
Short(q) ==
  LET c == call[q]
  IN /\ At(q, "short")
     /\ Goto(q, IF c.want <= n_fl_chunk_bytes THEN Multi(c, FALSE) ELSE [c EXCEPT !.pc = "short2"])
     /\ LocalStep

EmptyMulti(q) ==
  LET c == call[q]
      none == [c EXCEPT !.list = <<>>, !.bytes = 0, !.req = 0]
  IN /\ At(q, "empty") /\ c.k = "multi"
     /\ Goto(q, IF c.fl > 0 THEN [c EXCEPT !.pc = "load", !.fl = c.fl - 1]
                ELSE IF c.list # <<>> THEN PushOne(none, c.list) ELSE Larger(none))
     /\ LocalStep

EmptyLarger(q) ==
  /\ At(q, "empty") /\ call[q].k = "larger"
  /\ Goto(q, MultiFailed(call[q]))
  /\ LocalStep

\* ... or together with what is not carved yet.
Short2(q) ==
  LET c == call[q]
  IN /\ At(q, "short2")
     /\ Goto(q, [c EXCEPT !.pc =
          IF c.want <= (n_fl_chunk_bytes + c.n_free) % WordMod /\ c.n_free >= MinSize
          THEN "size" ELSE "return"])
     /\ LocalStep

\* The number of chunks that are missing, plus one, in 32 bits
Size(q) ==
  LET c == call[q]
      missing == ((c.want - n_fl_chunk_bytes) \div MinSize) % IntMod
  IN /\ At(q, "size")
     /\ Goto(q, [c EXCEPT !.pc = "carve", !.k = "last", !.fl = 0,
                          !.batch = Lesser((missing + 1) % IntMod, c.n_free \div MinSize)])
     /\ LocalStep

\* The caller links the chunks behind those of its fifo (f_try_chunk_alloc,
\* fs_try_alloc_fifo).
Return(q) ==
  LET list == call[q].list
  IN /\ At(q, "return")
     /\ fifo' = [fifo EXCEPT ![q] = @ \o list]
     /\ next' = IF list = <<>> \/ fifo[q] = <<>> THEN next
                ELSE [next EXCEPT ![Last(fifo[q])] = list[1]]
     /\ Goto(q, Idle)
     /\ UNCHANGED <<asks, calls, free_chunks, length, memory, n_fl_chunk_bytes>>
-----------------------------------------------------------------------------
\* fsh_collect_chunks: the reader of a fifo gives back its first chunks, and
\* fifo_segment_free_fifo all of them.
Collect(q) ==
  /\ At(q, "idle") /\ calls < MaxCalls
  /\ \E p \in Procs \ {q} : \E n \in DOMAIN fifo[p] :
       LET list == SubSeq(fifo[p], 1, n)
       IN /\ fifo' = [fifo EXCEPT ![p] = SubSeq(@, n + 1, Len(@))]
          /\ next' = [next EXCEPT ![Last(list)] = Null]
          /\ Goto(q, PushOne([Idle EXCEPT !.k = "collect", !.bytes = Bytes(list)], list))
  /\ calls' = calls + 1
  /\ UNCHANGED <<asks, free_chunks, length, memory, n_fl_chunk_bytes>>

Step(q) ==
  \/ PopLoad(q) \/ PopNext(q) \/ PopSwap(q) \/ PopRetry(q) \/ Got(q) \/ Sub(q)
  \/ PushLoad(q) \/ PushLink(q) \/ PushSwap(q) \/ PushRetry(q) \/ Add(q)
  \/ EmptyOne(q) \/ Carve(q) \/ CarveFails(q) \/ Short(q) \/ EmptyMulti(q)
  \/ EmptyLarger(q) \/ Short2(q) \/ Size(q) \/ Return(q)

Next == \E q \in Procs : StartAlloc(q) \/ Collect(q) \/ Step(q)

Spec == Init /\ [][Next]_vars
FairSpec == Spec /\ \A q \in Procs : WF_vars(Step(q))
-----------------------------------------------------------------------------
\* The chunks of a stack, from the head on; longer than all chunks if the
\* pointers run in a circle.
Stack(i) ==
  LET walk[n \in 0..(MaxChunks + 1)] ==
        IF n = 0 THEN <<free_chunks[i].ptr>>
        ELSE LET w == walk[n - 1]
             IN IF Last(w) = Null THEN w ELSE Append(w, next[Last(w)])
  IN SelectSeq(walk[MaxChunks + 1], LAMBDA c : c # Null)

\* The chunks in the hands of a call, and those of its fifo.
InHand(q) ==
  LET c == call[q]
  IN c.list \o c.run \o c.todo \o (IF c.pc = "got" THEN <<c.old.ptr>> ELSE <<>>) \o fifo[q]

Count(c, list) == Cardinality({i \in DOMAIN list : list[i] = c})
Total(f) == FoldFunction(+, 0, f)

\* Every chunk is in one place: on one stack, in one call or in one fifo.  Two
\* pops never return the same chunk, and no push loses one, in whatever order the
\* processes read heads and next pointers and swap.
ChunksConserved ==
  LET stacks == [i \in Lists |-> Stack(i)]
  IN \A c \in DOMAIN length :
       Total([i \in Lists |-> Count(c, stacks[i])]) + Total([q \in Procs |-> Count(c, InHand(q))]) = 1

\* An allocation returns at least the bytes it was asked for, or nothing, and a
\* stack has chunks of its size only.
AllocsFit ==
  /\ \A q \in Procs : At(q, "return") /\ call[q].list # <<>> => Bytes(call[q].list) >= call[q].want
  /\ \A i \in Lists : \A c \in ToSet(Stack(i)) : length[c] = i

\* n_fl_chunk_bytes, from which allocations decide whether to try several chunks,
\* is updated after the stacks, but when no call is under way it is the number of
\* bytes on them.
BytesSettle ==
  (\A q \in Procs : At(q, "idle")) =>
    n_fl_chunk_bytes = Total([i \in Lists |-> Bytes(Stack(i))])

\* Every call returns: a swap fails only because another one succeeded.
CallsReturn == <>[](\A q \in Procs : At(q, "idle"))

\* The ASSERT of fsh_try_alloc_chunk_batch: a batch has chunks.  One that has none
\* pushes an empty list, which takes all chunks off the stack.
BatchNotEmpty == \A q \in Procs : At(q, "carve") => call[q].batch # 0

\* Every variable has its type.
TypeOK ==
  /\ free_chunks \in [Lists -> [ptr : Chunks \cup {Null}, tag : 0..(TagMod - 1)]]
  /\ next \in [Chunks -> Chunks \cup {Null}]
  /\ length \in Seq(Lists) /\ Len(length) <= MaxChunks
  /\ memory \in Nat
  /\ n_fl_chunk_bytes \in 0..(WordMod - 1)
=============================================================================
