-------------------------------- MODULE SvmFifo --------------------------------
(***************************************************************************)
(* The svm fifo (src/src/svm/svm_fifo.c, svm_fifo.h, fifo_segment.c): the  *)
(* byte stream between an application and a transport, in shared memory,   *)
(* with one producer and one consumer and no lock.                         *)
(*                                                                         *)
(* Bytes lie in a list of chunks that the producer extends and the         *)
(* consumer shortens while the other side works on it.  head and tail are  *)
(* 32-bit positions that wrap; here they wrap modulo Modulus.  A fifo      *)
(* plays one of two roles:                                                 *)
(*   rx  the transport enqueues, also ahead of the tail (out of order),    *)
(*       and the application dequeues;                                     *)
(*   tx  the application enqueues, the transport peeks at any offset and   *)
(*       drops what was acknowledged, and all of it when it closes.        *)
(*                                                                         *)
(* One action is one access to state that both sides use: the load of the  *)
(* other side's index, the list of chunks, the bytes, the store of the     *)
(* own index.  The byte at position p has the value p; a chunk that went   *)
(* back to the segment holds junk, for other fifos use it.                 *)
(***************************************************************************)
EXTENDS Integers, FiniteSets, SequencesExt

CONSTANTS
  Chunks,        \* the chunks of the fifo segment's slice
  Length,        \* the length of each
  Size,          \* f->shr->size
  MinAlloc,      \* f->shr->min_alloc
  Modulus,       \* 2^32
  FirstAlloc,    \* the bytes asked for when the fifo is created
  MaxAlloc,      \* bound: the chunks of one allocation
  LargestSize,   \* 2^FS_MAX_LOG2_CHUNK_SZ, the largest size of a chunk
  Roles,         \* a subset of {"rx", "tx"}
  Null           \* no chunk

\* The last conjunct: positions that are in use, from the start of the first
\* chunk to the end of the last, span less than half of the position space.
ASSUME FifoAssumption ==
  /\ Length \in [Chunks -> Nat \ {0}]
  /\ Size \in Nat \ {0} /\ MinAlloc \in Nat \ {0}
  /\ FirstAlloc \in 1..(Size + MinAlloc)
  /\ MaxAlloc \in Nat \ {0} /\ LargestSize \in Nat \ {0}
  /\ Modulus \in Nat \ {0}
  /\ \A c, d \in Chunks : 2 * (Size + MinAlloc + Length[c] + Length[d]) < Modulus
  /\ Roles \subseteq {"rx", "tx"}
  /\ Null \notin Chunks

VARIABLES
  role,
  head, tail,               \* shared positions
  chain,                    \* the chunks from start_chunk to end_chunk
  start_byte,               \* the position of the first byte of each chunk
  data,                     \* what each cell of each chunk holds
  free,                     \* chunks on the free lists of the slice
  head_chunk, tail_chunk,
  ooos,                     \* out-of-order segments, from ooos_list_head on
  ooo_enq, ooo_enq_lookup,  \* last chunk used, and chunks in the rb-tree
  ooo_deq, ooo_deq_lookup,
  prod,                     \* the producer's call
  cons,                     \* the consumer's call
  closed                    \* the transport has dropped everything

listVars == <<chain, start_byte, free>>
oooEnqVars == <<ooos, ooo_enq, ooo_enq_lookup>>
oooDeqVars == <<ooo_deq, ooo_deq_lookup>>
prodVars == <<tail, tail_chunk, oooEnqVars, prod>>
consVars == <<head, head_chunk, oooDeqVars, cons, closed>>
vars == <<role, listVars, data, prodVars, consVars>>

Junk == -1
Idle == [pc |-> "idle"]
-----------------------------------------------------------------------------
(* Positions and chunks. *)

Pos == 0..(Modulus - 1)
Plus(p, n) == (p + n) % Modulus
Minus(a, b) == (a - b) % Modulus

\* (i32) (a - b)
Diff(a, b) == LET d == Minus(a, b)
              IN IF 2 * d < Modulus THEN d ELSE d - Modulus

f_pos_lt(a, b) == Diff(a, b) < 0
f_pos_leq(a, b) == Diff(a, b) <= 0
f_pos_gt(a, b) == Diff(a, b) > 0
f_pos_geq(a, b) == Diff(a, b) >= 0

f_cursize(h, t) == Minus(t, h)
\* Mutant: one byte more than fits.
FreeCountOffByOne(h, t) == Size + 1 - f_cursize(h, t)

f_free_count(h, t) == Size - f_cursize(h, t)

f_chunk_end(c) == Plus(start_byte[c], Length[c])
f_chunk_includes_pos(c, p) ==
  f_pos_geq(p, start_byte[c]) /\ f_pos_lt(p, f_chunk_end(c))

start_chunk == chain[1]
end_chunk == Last(chain)

Min2(a, b) == IF a < b THEN a ELSE b
Max2(a, b) == IF a < b THEN b ELSE a
SetMin(S) == CHOOSE i \in S : \A j \in S : i <= j

\* Where a chunk is in the list, and the chunks from there on.
IndexIn(list, c) == CHOOSE i \in DOMAIN list : list[i] = c
Index(c) == IndexIn(chain, c)
From(c) == IF c \in ToSet(chain) THEN SubSeq(chain, Index(c), Len(chain)) ELSE <<>>

\* The first chunk of a list that includes a position, or none.
\* (svm_fifo_find_chunk, svm_fifo_find_next_chunk)
FindIn(list, p) ==
  LET hit(i) == f_chunk_includes_pos(list[i], p)
  IN IF \E i \in DOMAIN list : hit(i)
     THEN list[CHOOSE i \in DOMAIN list : hit(i) /\ \A j \in 1..(i - 1) : ~hit(j)]
     ELSE Null

\* The bytes of the first i chunks of a list, and of all of them.
Before(list) ==
  LET b[i \in 0..Len(list)] == IF i = 0 THEN 0 ELSE b[i - 1] + Length[list[i]]
  IN b
Total(list) == Before(list)[Len(list)]

\* A cell is a byte of a chunk: cell <<c, k>> comes after At(list, <<c, k>>) bytes
\* of a list, and CellAt(list, k) is the cell that comes after k.
AllCells == UNION {{c} \X (0..(Length[c] - 1)) : c \in Chunks}
At(list, x) == Before(list)[IndexIn(list, x[1]) - 1] + x[2]
CellAt(list, k) ==
  LET b == Before(list)
      i == SetMin({j \in DOMAIN list : k < b[j]})
  IN <<list[i], k - b[i - 1]>>

\* A copy at position p starts in a chunk c and goes on in the chunks behind it:
\* the bytes it skips in c, and how many it can copy.
Skipped(c, p) == Minus(p, start_byte[c])
Room(c, p) == Total(From(c)) - Skipped(c, p)

\* Mutant: a copy that ends with its chunk stays there.
LastChunkKept(c, p, n) == CellAt(From(c), Skipped(c, p) + n - 1)[1]

\* The chunk where a copy of n bytes ends: the one of the next byte, if there
\* is one.
LastChunk(c, p, n) ==
  IF n < Room(c, p) THEN CellAt(From(c), Skipped(c, p) + n)[1] ELSE Null

\* svm_fifo_copy_to_chunk of the n bytes at position p
CopyTo(c, p, n) ==
  LET list == From(c)
      nth(x) == At(list, x) - Skipped(c, p)
  IN [x \in AllCells |->
        IF x[1] \in ToSet(list) /\ nth(x) \in 0..(n - 1)
        THEN Plus(p, nth(x))
        ELSE data[x]]

\* svm_fifo_copy_from_chunk
CopyFrom(c, p, n) ==
  [i \in 1..Min2(n, Room(c, p)) |-> data[CellAt(From(c), Skipped(c, p) + i - 1)]]

\* The rb-trees hold chunks by their first position: the node with the largest
\* that is not beyond p (f_find_node_rbtree).
FindNode(lookup, p) ==
  LET below == {c \in lookup : f_pos_leq(start_byte[c], p)}
  IN IF below = {} THEN Null
     ELSE CHOOSE c \in below : \A d \in below : f_pos_leq(start_byte[d], start_byte[c])

\* The chunk of from_pos is the one used last, or f_update_ooo_enq and
\* f_update_ooo_deq look for it: from the chunk that the tree has for from_pos,
\* or from first when the tree is empty, they add the chunks up to the one of
\* to_pos, as far as they exist and the tree does not have them.
Update(used, lookup, first, from_pos, to_pos) ==
  LET c == IF lookup = {} THEN first ELSE FindNode(lookup, from_pos)
      rest == IF f_chunk_includes_pos(c, to_pos) THEN <<>> ELSE Tail(From(c))
      stop == {i \in DOMAIN rest : rest[i] \in lookup \/
                 (i > 1 /\ f_chunk_includes_pos(rest[i - 1], to_pos))}
      added == IF stop = {} THEN rest ELSE SubSeq(rest, 1, SetMin(stop) - 1)
      found == FindIn(<<c>> \o added, from_pos)
  IN IF used # Null /\ f_chunk_includes_pos(used, from_pos)
     THEN [lookup |-> lookup, chunk |-> used]
     ELSE [lookup |-> lookup \cup {c} \cup ToSet(added),
           chunk |-> IF found = Null THEN used ELSE found]
-----------------------------------------------------------------------------
(* Out-of-order segments. *)

ooo_segment_end_pos(s) == Plus(s.start, s.length)
Seg(from, to) == [start |-> from, length |-> Minus(to, from)]

\* Mutant: a segment that overlaps others does not merge with them.
ooo_segment_insert(a, b) ==
  LET before == {i \in DOMAIN ooos : f_pos_lt(ooos[i].start, a)}
  IN InsertAt(ooos, Cardinality(before) + 1, Seg(a, b))

\* ooo_segment_add: the list with the bytes from a up to b.
ooo_segment_add(a, b) ==
  LET n == Len(ooos)
      i == SetMin({j \in 1..n : j = n \/ ~f_pos_lt(ooos[j].start, a)})
      onPrev == i > 1 /\ f_pos_leq(a, ooo_segment_end_pos(ooos[i - 1]))
      k == IF onPrev THEN i - 1 ELSE i
      s == ooos[k]
      s_end == ooo_segment_end_pos(s)
      start == IF ~onPrev /\ f_pos_lt(a, s.start) THEN a ELSE s.start
      it == SetMin({j \in (k + 1)..(n + 1) :
                      j = n + 1 \/ ~f_pos_leq(ooo_segment_end_pos(ooos[j]), b)})
      merges == it <= n /\ f_pos_leq(ooos[it].start, b)
      last == IF merges THEN ooo_segment_end_pos(ooos[it]) ELSE b
  IN IF n = 0 THEN <<Seg(a, b)>>
     ELSE IF ~onPrev /\ f_pos_lt(b, s.start) THEN InsertAt(ooos, k, Seg(a, b))
     ELSE IF ~onPrev /\ f_pos_gt(a, s_end) THEN InsertAt(ooos, k + 1, Seg(a, b))
     ELSE IF f_pos_gt(b, s_end)
          THEN SubSeq(ooos, 1, k - 1) \o <<Seg(start, last)>>
               \o SubSeq(ooos, IF merges THEN it + 1 ELSE it, n)
          ELSE [ooos EXCEPT ![k] = Seg(start, s_end)]

\* Mutant: it collects the first segment whole, and also one that only touches.
ooo_segment_collect_whole(n, t) ==
  IF ooos # <<>> /\ Diff(t, ooos[1].start) >= 0
  THEN [gone |-> 1, bytes |-> ooos[1].length]
  ELSE [gone |-> 0, bytes |-> 0]

\* ooo_segment_try_collect after n bytes were enqueued up to position t: how
\* many segments it removes and how many bytes it adds.
ooo_segment_try_collect(n, t) ==
  LET diff(i) == Diff(t, ooos[i].start)
      touched(i) == 0 <= diff(i) /\ diff(i) < n
      swallowed(i) == touched(i) /\ ooos[i].length <= diff(i)
      k == SetMin({i \in 1..(Len(ooos) + 1) : i = Len(ooos) + 1 \/ ~swallowed(i)})
  IN IF k <= Len(ooos) /\ touched(k)
     THEN [gone |-> k, bytes |-> ooos[k].length - diff(k)]
     ELSE [gone |-> k - 1, bytes |-> 0]
-----------------------------------------------------------------------------
\* What fsh_alloc_chunk may return for n bytes: one chunk or several, and the
\* one it took last was needed.  For more than the largest size it may also be
\* one chunk of that size, which is too small (fs_freelist_for_size).
Allocs(n, from) ==
  {list \in SeqOf(from, MaxAlloc) :
     /\ list # <<>> /\ IsInjective(list)
     /\ Total(list) >= n /\ Total(list) - Length[list[1]] < n}
  \cup {<<c>> : c \in {d \in from : Length[d] = LargestSize /\ LargestSize < n}}

\* The chunks of a list get their positions, from p on.
StartBytes(list, p) ==
  [c \in Chunks |-> IF c \in ToSet(list)
                    THEN Plus(p, Before(list)[IndexIn(list, c) - 1])
                    ELSE start_byte[c]]

\* fs_try_alloc_fifo, svm_fifo_init, svm_fifo_init_ooo_lookup
Init ==
  /\ role \in Roles
  /\ head = 0 /\ tail = 0
  /\ chain \in Allocs(FirstAlloc, Chunks)
  /\ start_byte = [c \in Chunks |->
       IF c \in ToSet(chain) THEN Before(chain)[Index(c) - 1] ELSE 0]
  /\ data = [x \in AllCells |-> Junk]
  /\ free = Chunks \ ToSet(chain)
  /\ head_chunk = chain[1] /\ tail_chunk = chain[1]
  /\ ooos = <<>> /\ ooo_enq = Null /\ ooo_enq_lookup = {}
  /\ ooo_deq = Null /\ ooo_deq_lookup = {}
  /\ prod = Idle /\ cons = Idle
  /\ closed = FALSE
-----------------------------------------------------------------------------
(* The producer. *)

Lens == 1..Size

\* f_try_chunk_alloc asks for what is missing and for min_alloc if that fits.
AllocSize(len) ==
  Max2(Min2(MinAlloc, f_free_count(head, tail)), len - Minus(f_chunk_end(end_chunk), tail))

InOrder == {"enqueue", "segments", "partial"}

\* A call that has the chunks it needs.  Out-of-order segments make an enqueue
\* remember the tail chunk.
Copying(op, n, offset, c) ==
  IF op \in InOrder
  THEN [pc |-> "copy", op |-> "inOrder", n |-> n, offset |-> 0,
        old |-> IF ooos = <<>> THEN Null ELSE c]
  ELSE [pc |-> "copy", op |-> op, n |-> n, offset |-> offset]

\* A call reads the index of the other side and decides how much it does and
\* whether it needs more chunks.
Call(op, n, offset) ==
  prod' = IF f_pos_gt(Plus(tail, offset + n), f_chunk_end(end_chunk))
          THEN [pc |-> "grow", op |-> op, n |-> n, offset |-> offset,
                alloc |-> AllocSize(offset + n), old |-> tail_chunk]
          ELSE Copying(op, n, offset, tail_chunk)

\* svm_fifo_enqueue, svm_fifo_enqueue_segments (whole or partial) and, for the
\* producer that writes into the chunks itself, svm_fifo_provision_chunks
EnqueueLoad ==
  /\ prod = Idle
  /\ f_free_count(head, tail) > 0
  /\ \E op \in InOrder \cup {"nocopy"}, len \in Lens :
       /\ op = "nocopy" => role = "tx"
       /\ op \in {"segments", "nocopy"} => len <= f_free_count(head, tail)
       /\ Call(op, Min2(len, f_free_count(head, tail)), 0)
  /\ UNCHANGED <<role, listVars, data, tail, tail_chunk, oooEnqVars, consVars>>

\* svm_fifo_enqueue_with_offset
OffsetLoad ==
  /\ prod = Idle
  /\ role = "rx"
  /\ \E offset \in Lens, len \in Lens :
       /\ offset + len <= f_free_count(head, tail)
       /\ Call("offset", len, offset)
  /\ UNCHANGED <<role, listVars, data, tail, tail_chunk, oooEnqVars, consVars>>

\* svm_fifo_enqueue reads the tail chunk after the allocation,
\* svm_fifo_enqueue_segments has read it before.
Grown(n, c) ==
  Copying(prod.op, n, prod.offset, IF prod.op = "enqueue" THEN c ELSE prod.old)

\* f_try_chunk_alloc: the new chunks are linked behind the last one.
TryChunkAlloc ==
  /\ prod.pc = "grow"
  /\ \E list \in Allocs(prod.alloc, free) :
       /\ chain' = chain \o list
       /\ free' = free \ ToSet(list)
       /\ start_byte' = StartBytes(list, f_chunk_end(end_chunk))
       /\ tail_chunk' = IF tail_chunk = Null THEN list[1] ELSE tail_chunk
  /\ prod' = Grown(prod.n, tail_chunk')
  /\ UNCHANGED <<role, data, tail, oooEnqVars, consVars>>

\* The segment has no memory left (other fifos use it too): an enqueue that may
\* be partial fills what there is, the others return.
ChunkAllocFails ==
  /\ prod.pc = "grow"
  /\ LET n == Minus(f_chunk_end(end_chunk), tail)
     IN prod' = IF prod.op \in {"enqueue", "partial"} /\ n > 0
                THEN Grown(n, tail_chunk) ELSE Idle
  /\ UNCHANGED <<role, listVars, data, tail, tail_chunk, oooEnqVars, consVars>>

\* f_lookup_clear_enq_chunks: the chunks from c up to the one of position p
\* leave the tree, that one too once there are no segments.
ClearEnq(c, p, segs) ==
  LET list == IF c = Null THEN <<>> ELSE From(c)
      last == FindIn(list, p)
      passed == IF last = Null THEN ToSet(list)
                ELSE ToSet(SubSeq(list, 1, Index(last) - Index(c)))
  IN [lookup |-> (ooo_enq_lookup \ passed) \ (IF segs = <<>> THEN {last} ELSE {}),
      chunk |-> last]

\* The bytes are copied behind the tail and out-of-order segments that the new
\* tail reaches are collected.
EnqueueCopy ==
  /\ prod.pc = "copy" /\ prod.op = "inOrder"
  /\ data' = CopyTo(tail_chunk, tail, prod.n)
  /\ LET t == Plus(tail, prod.n)
         c == ooo_segment_try_collect(prod.n, t)
         segs == SubSeq(ooos, c.gone + 1, Len(ooos))
         clear == ClearEnq(prod.old, Plus(t, c.bytes), segs)
     IN IF ooos = <<>>
        THEN /\ tail_chunk' = LastChunk(tail_chunk, tail, prod.n)
             /\ prod' = [pc |-> "store", tail |-> t]
             /\ UNCHANGED oooEnqVars
        ELSE /\ tail_chunk' = clear.chunk
             /\ ooo_enq_lookup' = clear.lookup
             /\ ooo_enq' = Null
             /\ ooos' = segs
             /\ prod' = [pc |-> "store", tail |-> Plus(t, c.bytes)]
  /\ UNCHANGED <<role, listVars, tail, consVars>>

\* The producer fills part of what it was given and calls
\* svm_fifo_enqueue_nocopy.
NocopyCopy ==
  /\ prod.pc = "copy" /\ prod.op = "nocopy"
  /\ \E n \in 1..prod.n :
       /\ data' = CopyTo(tail_chunk, tail, n)
       /\ tail_chunk' = FindIn(From(tail_chunk), Plus(tail, n))
       /\ prod' = [pc |-> "store", tail |-> Plus(tail, n)]
  /\ UNCHANGED <<role, listVars, tail, oooEnqVars, consVars>>

\* The chunk for the first byte of an out-of-order segment.
EnqChunk ==
  LET pos == Plus(tail, prod.offset)
  IN Update(ooo_enq, ooo_enq_lookup, tail_chunk, pos, Plus(pos, prod.n))

\* The segment is added to the list and its bytes are copied; the tail stays.
OffsetCopy ==
  /\ prod.pc = "copy" /\ prod.op = "offset"
  /\ LET pos == Plus(tail, prod.offset)
         u == EnqChunk
     IN /\ ooos' = ooo_segment_add(pos, Plus(pos, prod.n))
        /\ ooo_enq_lookup' = u.lookup
        /\ data' = CopyTo(u.chunk, pos, prod.n)
        /\ ooo_enq' = LastChunk(u.chunk, pos, prod.n)
  /\ prod' = Idle
  /\ UNCHANGED <<role, listVars, tail, tail_chunk, consVars>>

EnqueueStore ==
  /\ prod.pc = "store"
  /\ tail' = prod.tail
  /\ prod' = Idle
  /\ UNCHANGED <<role, listVars, data, tail_chunk, oooEnqVars, consVars>>
-----------------------------------------------------------------------------
(* The consumer. *)

\* The tail only grows, so a call that has loaded it and then copies does what a
\* call that loads it just then does: load and copy are one step.  The offset and
\* the number of bytes are within what there is; a peek at the tail it loaded is
\* one of no bytes.
Avail == f_cursize(head, tail)
Reads(offset, n) == offset + n <= Avail

HeadChunk == IF head_chunk = Null THEN FindIn(chain, head) ELSE head_chunk

\* svm_fifo_dequeue: copy out, and then give up the chunks.
Dequeue(n) ==
  /\ cons = Idle /\ role = "rx"
  /\ Reads(0, n)
  /\ head_chunk' = LastChunk(HeadChunk, head, n)
  /\ cons' = [pc |-> "unlink", n |-> n]
  /\ UNCHANGED <<role, listVars, data, prodVars, head, oooDeqVars, closed>>

\* The chunk for the first byte of a peek.
DeqChunk(offset, n) ==
  LET pos == Plus(head, offset)
  IN Update(ooo_deq, ooo_deq_lookup, start_chunk, pos, Plus(pos, n))

Transport == cons = Idle /\ role = "tx" /\ ~closed

\* The chunk that a peek leaves behind.  One of no bytes stays where it is, unless
\* it is at the end of its chunk.
PeekedChunk(c, p, n) ==
  IF n = 0 /\ p # f_chunk_end(c) THEN c ELSE LastChunk(c, p, n)

\* svm_fifo_peek.  A peek of no bytes at the end of the list finds no chunk; with
\* none from an earlier peek either, it reads through a null pointer.
Peek(offset, n) ==
  /\ Transport
  /\ Reads(offset, n)
  /\ LET u == DeqChunk(offset, n)
     IN /\ ooo_deq_lookup' = u.lookup
        /\ IF u.chunk = Null
           THEN ooo_deq' = Null /\ cons' = [pc |-> "crashed"]
           ELSE ooo_deq' = PeekedChunk(u.chunk, Plus(head, offset), n) /\ cons' = Idle
  /\ UNCHANGED <<role, listVars, data, prodVars, head, head_chunk, closed>>

\* The consumer's process is gone.
Crashed ==
  /\ cons.pc = "crashed"
  /\ UNCHANGED vars

\* The chunk from which svm_fifo_segments hands out its first piece.
SegmentsChunk(offset) == FindIn(From(HeadChunk), Plus(head, offset))

\* svm_fifo_segments only remembers the chunk of the head.
Segments ==
  /\ Transport
  /\ Reads(0, 1)
  /\ head_chunk' = HeadChunk
  /\ UNCHANGED <<role, listVars, data, prodVars, head, oooDeqVars, cons, closed>>

\* f_unlink_chunks up to position p: the list is kept from the chunk of p on, or
\* from the last one, even when that is used up ...
Kept(p) ==
  LET hits == {i \in 2..Len(chain) : f_chunk_includes_pos(chain[i], p)}
  IN IF hits = {} THEN Len(chain) ELSE SetMin(hits)

\* ... and the chunks before it go back to the segment (fsh_collect_chunks).
UnlinkChunks(p) ==
  LET gone == ToSet(SubSeq(chain, 1, Kept(p) - 1))
  IN /\ chain' = SubSeq(chain, Kept(p), Len(chain))
     /\ free' = free \cup gone
     /\ data' = [x \in AllCells |-> IF x[1] \in gone THEN Junk ELSE data[x]]
     /\ start_byte' = [c \in Chunks |-> IF c \in gone THEN 0 ELSE start_byte[c]]

\* Mutant: the list is cut while the head is in its last byte.
StartUsedUpEarly(p) == f_pos_geq(Plus(p, 1), f_chunk_end(start_chunk))

StartUsedUp(p) == f_pos_geq(p, f_chunk_end(start_chunk))

DequeueUnlink ==
  /\ cons.pc = "unlink"
  /\ LET p == Plus(head, cons.n)
     IN /\ cons' = [pc |-> "store", head |-> p]
        /\ IF StartUsedUp(p) THEN UnlinkChunks(p) ELSE UNCHANGED <<listVars, data>>
  /\ UNCHANGED <<role, prodVars, head, head_chunk, oooDeqVars, closed>>

\* svm_fifo_dequeue_drop, which also takes the chunks out of the tree.
Drop(n) ==
  /\ Transport
  /\ Reads(0, n)
  /\ LET p == Plus(head, n)
         first == chain[Kept(p)]
         passed == ToSet(SubSeq(chain, 1, Kept(p) - 1))
     IN /\ cons' = [pc |-> "store", head |-> p]
        /\ IF StartUsedUp(p)
           THEN /\ UnlinkChunks(p)
                /\ head_chunk' = IF f_chunk_includes_pos(first, p) THEN first ELSE Null
                /\ ooo_deq' = IF ooo_deq # Null /\ f_pos_lt(start_byte[ooo_deq], f_chunk_end(first))
                              THEN Null ELSE ooo_deq
                /\ ooo_deq_lookup' =
                     ooo_deq_lookup \ (IF f_chunk_includes_pos(first, p) THEN passed
                                       ELSE passed \cup {first})
           ELSE UNCHANGED <<listVars, data, oooDeqVars, head_chunk>>
  /\ UNCHANGED <<role, prodVars, head, closed>>

\* svm_fifo_dequeue_drop_all, when the transport is gone or was reset.
DropAllLoad ==
  /\ cons = Idle
  /\ role = "tx"
  /\ cons' = [pc |-> "dropAll", n |-> Avail]
  /\ closed' = TRUE
  /\ UNCHANGED <<role, listVars, data, prodVars, head, head_chunk, oooDeqVars>>

\* It drops up to the tail it read.  Nobody peeks afterwards, so what
\* f_lookup_clear_deq_chunks leaves in the tree does not matter.
DropAll ==
  /\ cons.pc = "dropAll"
  /\ LET p == Plus(head, cons.n)
         c == IF head_chunk = Null \/ ~f_chunk_includes_pos(head_chunk, head)
              THEN FindIn(chain, head) ELSE head_chunk
     IN /\ cons' = [pc |-> "store", head |-> p]
        /\ head_chunk' = IF c = Null THEN Null ELSE FindIn(From(c), p)
        /\ IF StartUsedUp(p) THEN UnlinkChunks(p)
           ELSE UNCHANGED <<listVars, data>>
  /\ ooo_deq' = Null /\ ooo_deq_lookup' = {}
  /\ UNCHANGED <<role, prodVars, head, closed>>

DequeueStore ==
  /\ cons.pc = "store"
  /\ head' = cons.head
  /\ cons' = Idle
  /\ UNCHANGED <<role, listVars, data, prodVars, head_chunk, oooDeqVars, closed>>
-----------------------------------------------------------------------------
Producer ==
  \/ EnqueueLoad \/ OffsetLoad \/ TryChunkAlloc \/ ChunkAllocFails
  \/ EnqueueCopy \/ NocopyCopy \/ OffsetCopy \/ EnqueueStore

Consumer ==
  \/ \E n \in Lens : Dequeue(n) \/ Drop(n)
  \/ \E offset \in 0..Size, n \in 0..Size : Peek(offset, n)
  \/ Segments \/ DequeueUnlink \/ DropAllLoad \/ DropAll \/ DequeueStore \/ Crashed

Next == Producer \/ Consumer

Spec == Init /\ [][Next]_vars
-----------------------------------------------------------------------------
(* The refinement mapping: the consumer's position moves when it gives up the *)
(* chunks, before it stores the head.                                         *)

consumed == IF cons.pc = "store" THEN cons.head ELSE head
produced == IF prod.pc = "store" THEN prod.tail ELSE tail

ByteAt(p) == LET c == FindIn(chain, p)
             IN IF c = Null THEN Junk ELSE data[<<c, Minus(p, start_byte[c])>>]

Stream == INSTANCE ByteStream WITH
  Size <- Size, Modulus <- Modulus, begin <- consumed, end <- tail,
  stream <- [i \in 1..f_cursize(consumed, tail) |-> ByteAt(Plus(consumed, i - 1))]
-----------------------------------------------------------------------------
\* Between head and tail the list of chunks always holds what the producer
\* wrote, in order: bytes appear and disappear as in a bounded stream, for every
\* way in which the two sides may meet in the list.
StreamRefinement == Stream!StreamSpec

\* A copy of n bytes at position p may start in chunk c.
Reaches(c, p, n) ==
  /\ c \in ToSet(chain)
  /\ f_chunk_includes_pos(c, p)
  /\ Room(c, p) >= n

\* The chunks from which the consumer would copy.
ReadChunks(offset, n) ==
  IF role = "rx" THEN {HeadChunk} ELSE {DeqChunk(offset, n).chunk, SegmentsChunk(offset)}

\* The ASSERTs of svm_fifo_copy_to_chunk and svm_fifo_copy_from_chunk: a copy
\* starts inside the chunk it was given and the list is long enough for it,
\* whichever cached pointer or tree the chunk came from.  And what the consumer
\* copies are the bytes that the producer put at these positions.  Not so a peek
\* of no bytes at the end of the list, where there is no chunk: see PeekReturns.
CopyInBounds ==
  /\ prod.pc = "copy" =>
       IF prod.op = "offset"
       THEN Reaches(EnqChunk.chunk, Plus(tail, prod.offset), prod.n)
       ELSE Reaches(tail_chunk, tail, prod.n)
  /\ cons = Idle /\ ~closed =>
       \A offset \in IF role = "rx" THEN {0} ELSE 0..(Avail - 1) :
         LET p == Plus(head, offset)
             n == Avail - offset    \* a shorter copy is the beginning of this one
         IN Avail > 0 =>
              \A c \in ReadChunks(offset, n) :
                /\ Reaches(c, p, n)
                /\ CopyFrom(c, p, n) = [i \in 1..n |-> Plus(p, i - 1)]
  /\ Transport =>
       \A offset \in 0..Avail :
         LET p == Plus(head, offset)
         IN p # f_chunk_end(end_chunk) => Reaches(DeqChunk(offset, 0).chunk, p, 0)

\* A peek returns, at the tail too, as svm_fifo_test.c has it ("Try to peek beyond
\* the data", with 0 expected).  The code does not keep this when the tail is at
\* the end of the list.
PeekReturns == cons.pc # "crashed"

\* Every chunk is either on the free lists or in the fifo, once, and no pointer
\* or tree of the fifo holds on to a chunk that is not the fifo's.
ChunksOwned ==
  /\ IsInjective(chain)
  /\ ToSet(chain) \cap free = {} /\ ToSet(chain) \cup free = Chunks
  /\ \A i \in 1..(Len(chain) - 1) : start_byte[chain[i + 1]] = f_chunk_end(chain[i])
  /\ {head_chunk, tail_chunk, ooo_enq} \subseteq ToSet(chain) \cup {Null}
  /\ ooo_enq_lookup \subseteq ToSet(chain)
  /\ ~closed => {ooo_deq} \cup ooo_deq_lookup \subseteq ToSet(chain) \cup {Null}

\* The out-of-order segments are sorted, apart from each other and from the
\* tail, and within the size of the fifo.
SegmentsApart ==
  LET ends == <<produced>> \o [i \in DOMAIN ooos |-> ooo_segment_end_pos(ooos[i])]
  IN \A i \in DOMAIN ooos :
       /\ f_pos_lt(ends[i], ooos[i].start)
       /\ ooos[i].length > 0
       /\ Minus(ends[i + 1], head) <= Size

\* Every variable has its type.
TypeOK ==
  /\ role \in Roles
  /\ {head, tail} \subseteq Pos /\ f_cursize(head, tail) <= Size
  /\ chain \in Seq(Chunks) /\ chain # <<>>
  /\ start_byte \in [Chunks -> Pos]
  /\ DOMAIN data = AllCells
  /\ {head_chunk, tail_chunk, ooo_enq, ooo_deq} \subseteq Chunks \cup {Null}
  /\ closed \in BOOLEAN
=============================================================================
