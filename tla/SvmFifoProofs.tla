----------------------------- MODULE SvmFifoProofs -----------------------------
(***************************************************************************)
(* What the svm fifo promises, for all chunks, lengths and sizes whose     *)
(* positions span less than half of the position space and for which the   *)
(* largest chunk is large enough (Fits): copies stay in their chunks,      *)
(* chunks are owned once, out-of-order segments stay apart, and the fifo   *)
(* implements a bounded byte stream.                                       *)
(*                                                                         *)
(* Positions wrap, so the invariant speaks of offsets from the head, which *)
(* are integers and do not.                                                *)
(***************************************************************************)
EXTENDS SvmFifo, WellFoundedInduction, TLAPS

Off(p) == Diff(p, head)

\* Where the i-th chunk of the list begins and ends, and where the list ends.
St(i) == Off(start_byte[chain[i]])
En(i) == St(i) + Length[chain[i]]
End == En(Len(chain))

\* Chunk c of the list holds offset x.
HasAt(c, x) == \E i \in DOMAIN chain : chain[i] = c /\ St(i) <= x /\ x < En(i)

\* The i-th out-of-order segment.
SegSt(i) == Off(ooos[i].start)
SegEn(i) == SegSt(i) + ooos[i].length
-----------------------------------------------------------------------------
\* The largest chunk is large enough for whatever the fifo asks for.  For a fifo of
\* more than 4 MB it may not be, and then nothing of what follows holds.
Fits == Size <= LargestSize /\ FirstAlloc <= LargestSize

Ops == InOrder \cup {"nocopy", "offset"}
Links == Chunks \cup {Null}

ProdCalls ==
  {Idle}
  \cup [pc : {"grow"}, op : Ops, n : Nat \ {0}, offset : Nat, alloc : Int, old : Links]
  \cup [pc : {"copy"}, op : {"inOrder"}, n : Nat \ {0}, offset : {0}, old : Links]
  \cup [pc : {"copy"}, op : {"nocopy", "offset"}, n : Nat \ {0}, offset : Nat]
  \cup [pc : {"store"}, tail : Pos]

ConsCalls ==
  {Idle}
  \cup [pc : {"unlink", "dropAll"}, n : Nat]
  \cup [pc : {"store"}, head : Pos]
  \cup {[pc |-> "crashed"]}

Types ==
  /\ role \in Roles
  /\ head \in Pos /\ tail \in Pos
  /\ chain \in Seq(Chunks) /\ chain # <<>>
  /\ start_byte \in [Chunks -> Pos]
  /\ DOMAIN data = AllCells
  /\ head_chunk \in Links /\ tail_chunk \in Links
  /\ ooo_enq \in Links /\ ooo_deq \in Links
  /\ ooos \in Seq([start : Pos, length : Nat \ {0}])
  /\ prod \in ProdCalls /\ cons \in ConsCalls
  /\ closed \in BOOLEAN

\* The chunks of the list follow each other, the first holds what is consumed
\* next or ends there, and the last does not reach further than one chunk beyond
\* what the fifo may ask for.
ChainInv ==
  /\ IsInjective(chain)
  /\ ToSet(chain) \cap free = {} /\ ToSet(chain) \cup free = Chunks
  /\ \A i \in 1..(Len(chain) - 1) : start_byte[chain[i + 1]] = f_chunk_end(chain[i])
  /\ \A i \in 1..(Len(chain) - 1) : St(i + 1) = En(i)
  /\ \A i, j \in 1..Len(chain) : i < j => En(i) <= St(j)
  /\ St(1) <= Off(consumed) /\ Off(consumed) <= En(1)
  /\ \E c \in Chunks : End <= Size + MinAlloc + Length[c]

OrderInv ==
  /\ 0 <= Off(consumed) /\ Off(consumed) <= Off(tail)
  /\ Off(tail) <= Off(produced)
  /\ Off(produced) <= End /\ Off(produced) <= Size

TailInv == HasAt(tail_chunk, Off(produced)) \/ (tail_chunk = Null /\ Off(produced) = End)

Target == IF cons.pc = "unlink" THEN cons.n ELSE Off(consumed)
HeadInv == head_chunk = Null \/ HasAt(head_chunk, Target)

\* What the calls in progress have found out and rely on.
ProdInv ==
  /\ prod.pc \in {"grow", "copy"} =>
       /\ Off(tail) + prod.offset + prod.n <= Size
       /\ prod.op = "nocopy" => role = "tx"
       /\ prod.op = "offset" => role = "rx" /\ prod.offset > 0
       /\ prod.op # "offset" => prod.offset = 0
  /\ prod.pc = "grow" =>
       /\ End < Off(tail) + prod.offset + prod.n
       /\ Off(tail) + prod.offset + prod.n <= End + prod.alloc
       /\ End + prod.alloc <= Size + MinAlloc /\ prod.alloc <= LargestSize
       /\ prod.old = tail_chunk
  /\ prod.pc = "copy" =>
       /\ Off(tail) + prod.offset + prod.n <= End
       /\ prod.op = "inOrder" /\ ooos # <<>> => prod.old = tail_chunk

ConsInv ==
  /\ cons.pc = "unlink" => role = "rx" /\ 0 < cons.n /\ cons.n <= Off(tail)
  /\ cons.pc = "dropAll" => role = "tx" /\ closed /\ cons.n <= Off(tail)

SegInv ==
  /\ role = "tx" => ooos = <<>>
  /\ \A i \in 1..Len(ooos) : Off(produced) < SegSt(i) /\ SegEn(i) <= Size /\ SegEn(i) <= End
  /\ \A i, j \in 1..Len(ooos) : i < j => SegEn(i) < SegSt(j)

\* The tree of the producer holds the chunks from the one of the tail on, up to
\* one that is not beyond the last segment.
EnqInv ==
  /\ ooos = <<>> => ooo_enq = Null /\ ooo_enq_lookup = {}
  /\ ooo_enq # Null => \E i \in 1..Len(chain) : chain[i] = ooo_enq /\ Off(produced) < En(i)
  /\ \/ ooo_enq_lookup = {}
     \/ \E lo, hi \in 1..Len(chain) :
          /\ lo <= hi
          /\ ooo_enq_lookup = {chain[i] : i \in lo..hi}
          /\ St(lo) <= Off(produced) /\ Off(produced) < En(lo)
          /\ St(hi) <= SegEn(Len(ooos))

\* The tree of the consumer holds the first chunks of the list; an application
\* that dequeues has none.
DeqInv ==
  /\ role = "rx" => ooo_deq = Null /\ ooo_deq_lookup = {}
  /\ ~closed =>
       /\ ooo_deq # Null => ooo_deq \in ToSet(chain)
       /\ \E m \in 0..Len(chain) : ooo_deq_lookup = {chain[i] : i \in 1..m}

\* The offsets that hold bytes of the stream, and what is there.
Live(x) ==
  \/ Off(consumed) <= x /\ x < Off(produced)
  \/ \E i \in 1..Len(ooos) : SegSt(i) <= x /\ x < SegEn(i)
DataInv ==
  \A i \in 1..Len(chain) : \A k \in 0..(Length[chain[i]] - 1) :
    Live(St(i) + k) => data[<<chain[i], k>>] = Plus(start_byte[chain[i]], k)

FifoInv ==
  /\ Types /\ ChainInv /\ OrderInv /\ TailInv /\ HeadInv /\ ProdInv /\ ConsInv
  /\ SegInv /\ EnqInv /\ DeqInv /\ DataInv
-----------------------------------------------------------------------------
(* Induction over positions in a list, from the least counterexample. *)

LEMMA Least ==
  ASSUME NEW S \in SUBSET Nat, S # {}
  PROVE  \E i \in S : \A j \in S : i <= j
<1>1. PICK i \in S : \A j \in S : ~(<<j, i>> \in OpToRel(<, Nat))
  BY NatLessThanWellFounded, WFMin, Zenon
<1>2. \A j \in S : ~(j < i)
  BY <1>1, Zenon DEF OpToRel
<1> QED
  BY <1>2

LEMMA UpTo ==
  ASSUME NEW n \in Nat, NEW S, 0 \in S, \A i \in 0..(n - 1) : i \in S => i + 1 \in S
  PROVE  \A i \in 0..n : i \in S
<1> SUFFICES ASSUME NEW k \in 0..n, k \notin S PROVE FALSE
  OBVIOUS
<1> DEFINE T == {i \in 0..n : i \notin S}
<1>1. T \in SUBSET Nat /\ T # {}
  OBVIOUS
<1>2. PICK i \in T : \A j \in T : i <= j
  BY <1>1, Least
<1>3. i # 0 /\ i - 1 \in 0..(n - 1) /\ i - 1 \notin T
  BY <1>2
<1> QED
  BY <1>3

\* The least element of a set of numbers.
LEMMA SetMinIs ==
  ASSUME NEW S \in SUBSET Nat, S # {}
  PROVE  SetMin(S) \in S /\ \A j \in S : SetMin(S) <= j
<1>1. \E i \in S : \A j \in S : i <= j
  BY Least
<1> QED
  BY <1>1 DEF SetMin

\* The bytes of the first chunks of a list.
LEMMA BeforeDef ==
  ASSUME NEW list \in Seq(Chunks)
  PROVE  /\ Before(list) \in [0..Len(list) -> Nat]
         /\ Before(list)[0] = 0
         /\ \A i \in 1..Len(list) : Before(list)[i] = Before(list)[i - 1] + Length[list[i]]
<1> DEFINE n == Len(list)
           len(i) == Length[list[i]]
<1>0. n \in Nat /\ \A i \in 1..n : len(i) \in Nat
  BY FifoAssumption
<1> HIDE DEF n, len
<1> DEFINE Good(m, f) == f[0] = 0 /\ \A i \in 1..m : f[i] = f[i - 1] + len(i)
           S == {m \in 0..n : \E f \in [0..m -> Nat] : Good(m, f)}
<1>1. 0 \in S
  <2>1. [i \in 0..0 |-> 0] \in [0..0 -> Nat] /\ Good(0, [i \in 0..0 |-> 0])
    OBVIOUS
  <2>2. \E f \in [0..0 -> Nat] : Good(0, f)
    BY <2>1, Zenon
  <2> QED
    BY <2>2, <1>0
<1>2. ASSUME NEW m \in 0..(n - 1), m \in S PROVE m + 1 \in S
  <2>1. PICK f \in [0..m -> Nat] : Good(m, f)
    BY <1>2
  <2> DEFINE g == [i \in 0..(m + 1) |-> IF i = m + 1 THEN f[m] + len(m + 1) ELSE f[i]]
  <2>2. m \in Nat /\ m + 1 \in 1..n
    BY <1>0
  <2>3. g \in [0..(m + 1) -> Nat]
    BY <2>2, <1>0
  <2>4. g[0] = 0
    BY <2>1, <2>2
  <2>5. ASSUME NEW i \in 1..(m + 1) PROVE g[i] = g[i - 1] + len(i)
    <3>1. CASE i = m + 1
      BY <2>2, <3>1
    <3>2. CASE i # m + 1
      BY <2>1, <2>2, <3>2
    <3> QED
      BY <3>1, <3>2
  <2>6. Good(m + 1, g)
    BY <2>4, <2>5
  <2> HIDE DEF g, Good
  <2> QED
    BY <2>2, <2>3, <2>6
<1>3. n \in S
  <2> HIDE DEF S
  <2>1. \A i \in 0..n : i \in S
    BY <1>0, <1>1, <1>2, UpTo
  <2> QED
    BY <1>0, <2>1
<1>4. PICK f \in [0..n -> Nat] : Good(n, f)
  BY <1>3
<1>5. f = [i \in 0..n |-> IF i = 0 THEN 0 ELSE f[i - 1] + Length[list[i]]]
  BY <1>4, <1>0 DEF len
<1> DEFINE b == Before(list)
<1>6. b = [i \in 0..n |-> IF i = 0 THEN 0 ELSE b[i - 1] + Length[list[i]]]
  BY <1>5 DEF Before, n
<1> HIDE DEF b
<1>7. b[0] = 0 /\ \A i \in 1..n : b[i] = b[i - 1] + len(i)
  BY <1>0, <1>6 DEF len
<1> DEFINE R == {i \in 0..n : b[i] \in Nat}
<1>8. \A i \in 0..n : i \in R
  <2>1. 0 \in R
    BY <1>0, <1>7
  <2>2. \A i \in 0..(n - 1) : i \in R => i + 1 \in R
    BY <1>0, <1>7
  <2> HIDE DEF R
  <2> QED
    BY <1>0, <2>1, <2>2, UpTo
<1>9. b \in [0..n -> Nat]
  BY <1>6, <1>8
<1> QED
  BY <1>7, <1>9 DEF b, n, len
-----------------------------------------------------------------------------
(* Positions. *)

LEMMA ModCases ==
  ASSUME NEW M \in Nat \ {0}, NEW x \in Int, -M <= x, x < 2 * M
  PROVE  x % M = IF x < 0 THEN x + M ELSE IF x < M THEN x ELSE x - M
<1>1. CASE x < 0
  <2>1. (x + M) % M = x + M
    BY <1>1
  <2>2. x % M = (x + M) % M
    BY Z3
  <2> QED
    BY <1>1, <2>1, <2>2
<1>2. CASE 0 <= x /\ x < M
  BY <1>2
<1>3. CASE M <= x
  <2>1. (x - M) % M = x - M
    BY <1>3
  <2>2. x % M = (x - M) % M
    BY Z3
  <2> QED
    BY <1>3, <2>1, <2>2
<1> QED
  BY <1>1, <1>2, <1>3

LEMMA PlusCases ==
  ASSUME NEW p \in Pos, NEW n \in 0..Modulus
  PROVE  /\ Plus(p, n) \in Pos
         /\ Plus(p, n) = IF p + n < Modulus THEN p + n ELSE p + n - Modulus
<1>1. Modulus \in Nat \ {0}
  BY FifoAssumption
<1> DEFINE x == p + n
<1>2. x \in Int /\ -Modulus <= x /\ x < 2 * Modulus /\ ~(x < 0)
  BY <1>1 DEF Pos
<1> HIDE DEF x
<1>3. x % Modulus = IF x < Modulus THEN x ELSE x - Modulus
  BY <1>1, <1>2, ModCases
<1> QED
  BY <1>1, <1>2, <1>3 DEF x, Plus, Pos

LEMMA MinusCases ==
  ASSUME NEW a \in Pos, NEW b \in Pos
  PROVE  Minus(a, b) = IF b <= a THEN a - b ELSE a - b + Modulus
<1>1. Modulus \in Nat \ {0}
  BY FifoAssumption
<1> DEFINE x == a - b
<1>2. x \in Int /\ -Modulus <= x /\ x < Modulus /\ x < 2 * Modulus
  BY <1>1 DEF Pos
<1> HIDE DEF x
<1>3. x % Modulus = IF x < 0 THEN x + Modulus ELSE x
  BY <1>1, <1>2, ModCases
<1> QED
  BY <1>1, <1>2, <1>3 DEF x, Minus, Pos

\* The signed difference of two positions is their difference, give or take one
\* turn, and less than half a turn.
LEMMA DiffCases ==
  ASSUME NEW a \in Pos, NEW b \in Pos
  PROVE  /\ Diff(a, b) \in Int
         /\ Diff(a, b) \in {a - b, a - b + Modulus, a - b - Modulus}
         /\ -Modulus <= 2 * Diff(a, b) /\ 2 * Diff(a, b) < Modulus
<1>1. Modulus \in Nat \ {0}
  BY FifoAssumption
<1>2. Minus(a, b) = IF b <= a THEN a - b ELSE a - b + Modulus
  BY MinusCases
<1> QED
  BY <1>1, <1>2 DEF Diff, Pos

\* There is only one such difference.
LEMMA DiffIs ==
  ASSUME NEW a \in Pos, NEW b \in Pos, NEW d \in Int,
         -Modulus <= 2 * d, 2 * d < Modulus,
         d \in {a - b, a - b + Modulus, a - b - Modulus}
  PROVE  Diff(a, b) = d
<1>1. Modulus \in Nat \ {0}
  BY FifoAssumption
<1>2. /\ Diff(a, b) \in Int
      /\ Diff(a, b) \in {a - b, a - b + Modulus, a - b - Modulus}
      /\ -Modulus <= 2 * Diff(a, b) /\ 2 * Diff(a, b) < Modulus
  BY DiffCases
<1> DEFINE e == Diff(a, b)
<1> HIDE DEF e
<1> QED
  BY <1>1, <1>2 DEF e, Pos

\* The offsets that occur: they span less than half a turn.
Near(x) ==
  /\ x \in Int
  /\ \E d \in Chunks : -Length[d] <= x
  /\ \E c \in Chunks : x <= Size + MinAlloc + Length[c]

LEMMA NearApart ==
  ASSUME NEW x, NEW y, Near(x), Near(y)
  PROVE  x \in Int /\ y \in Int /\ -Modulus < 2 * (x - y) /\ 2 * (x - y) < Modulus
<1>1. PICK d \in Chunks : -Length[d] <= x
  BY DEF Near
<1>2. PICK c \in Chunks : x <= Size + MinAlloc + Length[c]
  BY DEF Near
<1>3. PICK e \in Chunks : -Length[e] <= y
  BY DEF Near
<1>4. PICK b \in Chunks : y <= Size + MinAlloc + Length[b]
  BY DEF Near
<1>5. /\ Length[b] \in Nat /\ Length[c] \in Nat /\ Length[d] \in Nat /\ Length[e] \in Nat
      /\ Size \in Nat /\ MinAlloc \in Nat /\ Modulus \in Nat /\ x \in Int /\ y \in Int
  BY FifoAssumption DEF Near
<1>6. /\ 2 * (Size + MinAlloc + Length[c] + Length[e]) < Modulus
      /\ 2 * (Size + MinAlloc + Length[b] + Length[d]) < Modulus
  BY FifoAssumption
<1> QED
  BY <1>1, <1>2, <1>3, <1>4, <1>5, <1>6

LEMMA NearBetween ==
  ASSUME NEW x, NEW y, NEW z \in Int, Near(x), Near(y), x <= z, z <= y
  PROVE  Near(z)
<1>1. PICK d \in Chunks : -Length[d] <= x
  BY DEF Near
<1>2. PICK c \in Chunks : y <= Size + MinAlloc + Length[c]
  BY DEF Near
<1>3. /\ Length[c] \in Nat /\ Length[d] \in Nat
      /\ Size \in Nat /\ MinAlloc \in Nat /\ x \in Int /\ y \in Int
  BY FifoAssumption DEF Near
<1> QED
  BY <1>1, <1>2, <1>3 DEF Near

LEMMA OffDiff ==
  ASSUME NEW h \in Pos, NEW p \in Pos, NEW q \in Pos,
         Near(Diff(p, h)), Near(Diff(q, h))
  PROVE  Diff(p, q) = Diff(p, h) - Diff(q, h)
<1> DEFINE x == Diff(p, h)
           y == Diff(q, h)
<1>1. Modulus \in Nat \ {0}
  BY FifoAssumption
<1>2. x \in Int /\ x \in {p - h, p - h + Modulus, p - h - Modulus}
  BY DiffCases
<1>3. y \in Int /\ y \in {q - h, q - h + Modulus, q - h - Modulus}
  BY DiffCases
<1> HIDE DEF x, y
<1>4. -Modulus < 2 * (x - y) /\ 2 * (x - y) < Modulus
  BY NearApart DEF x, y
<1> DEFINE d == x - y
<1>5. d \in Int /\ d \in {p - q, p - q + Modulus, p - q - Modulus}
  BY <1>1, <1>2, <1>3, <1>4 DEF Pos
<1>6. -Modulus <= 2 * d /\ 2 * d < Modulus
  BY <1>1, <1>2, <1>3, <1>4
<1> HIDE DEF d
<1>7. Diff(p, q) = d
  BY <1>5, <1>6, DiffIs
<1> QED
  BY <1>7 DEF d, x, y

LEMMA OffPlus ==
  ASSUME NEW h \in Pos, NEW p \in Pos, NEW n \in Nat,
         Near(Diff(p, h)), Near(Diff(p, h) + n)
  PROVE  Plus(p, n) \in Pos /\ Diff(Plus(p, n), h) = Diff(p, h) + n
<1> DEFINE x == Diff(p, h)
<1>1. Modulus \in Nat \ {0}
  BY FifoAssumption
<1>2. /\ x \in Int /\ x \in {p - h, p - h + Modulus, p - h - Modulus}
      /\ -Modulus <= 2 * x /\ 2 * x < Modulus
  BY DiffCases
<1> HIDE DEF x
<1> DEFINE y == x + n
<1>3. Near(x) /\ Near(y)
  BY DEF x
<1> HIDE DEF y
<1>4. -Modulus < 2 * (y - x) /\ 2 * (y - x) < Modulus /\ y \in Int
  BY <1>3, NearApart
<1>5. y = x + n
  BY DEF y
<1>6. n \in 0..Modulus
  BY <1>1, <1>2, <1>4, <1>5
<1> DEFINE q == Plus(p, n)
<1>7. q \in Pos /\ q = IF p + n < Modulus THEN p + n ELSE p + n - Modulus
  BY <1>6, PlusCases
<1> HIDE DEF q
<1> DEFINE z == Diff(q, h)
<1>8. /\ z \in Int /\ z \in {q - h, q - h + Modulus, q - h - Modulus}
      /\ -Modulus <= 2 * z /\ 2 * z < Modulus
  BY <1>7, DiffCases
<1> HIDE DEF z
<1>9. 2 * y < Modulus
  <2>1. PICK c \in Chunks : y <= Size + MinAlloc + Length[c]
    BY <1>3 DEF Near
  <2>2. /\ Length[c] \in Nat \ {0} /\ Size \in Nat /\ MinAlloc \in Nat
        /\ 2 * (Size + MinAlloc + Length[c] + Length[c]) < Modulus
    BY FifoAssumption
  <2> QED
    BY <1>1, <1>4, <2>1, <2>2
<1>10. z = y
  BY <1>1, <1>2, <1>4, <1>5, <1>6, <1>7, <1>8, <1>9 DEF Pos
<1> QED
  BY <1>5, <1>7, <1>10 DEF q, z, x

LEMMA OffMinus ==
  ASSUME NEW h \in Pos, NEW p \in Pos, NEW q \in Pos,
         Near(Diff(p, h)), Near(Diff(q, h)), Diff(q, h) <= Diff(p, h)
  PROVE  Minus(p, q) = Diff(p, h) - Diff(q, h)
<1>1. Diff(p, q) = Diff(p, h) - Diff(q, h)
  BY OffDiff
<1>2. Diff(p, h) \in Int /\ Diff(q, h) \in Int /\ Modulus \in Nat \ {0}
  BY FifoAssumption DEF Near
<1>3. Minus(p, q) = IF q <= p THEN p - q ELSE p - q + Modulus
  BY MinusCases
<1> QED
  BY <1>1, <1>2, <1>3 DEF Diff, Pos

LEMMA OffSame ==
  ASSUME NEW h \in Pos, NEW p \in Pos, NEW q \in Pos, Diff(p, h) = Diff(q, h)
  PROVE  p = q
<1> DEFINE x == Diff(p, h)
<1>1. x \in Int /\ x \in {p - h, p - h + Modulus, p - h - Modulus}
  BY DiffCases
<1>2. x \in {q - h, q - h + Modulus, q - h - Modulus}
  BY DiffCases
<1>3. Modulus \in Nat \ {0}
  BY FifoAssumption
<1> HIDE DEF x
<1> QED
  BY <1>1, <1>2, <1>3 DEF Pos

LEMMA OffZero ==
  ASSUME NEW h \in Pos
  PROVE  Diff(h, h) = 0
<1>1. Modulus \in Nat \ {0}
  BY FifoAssumption
<1> QED
  BY <1>1, DiffIs DEF Pos
-----------------------------------------------------------------------------
(* The list of chunks. *)

Geo == Types /\ ChainInv /\ OrderInv

LEMMA OffInt ==
  ASSUME Types, NEW p \in Pos
  PROVE  Off(p) \in Int
BY DiffCases DEF Off, Types

LEMMA ListTypes ==
  ASSUME Types
  PROVE  /\ Len(chain) \in Nat \ {0} /\ DOMAIN chain = 1..Len(chain)
         /\ consumed \in Pos /\ produced \in Pos
         /\ Off(consumed) \in Int /\ Off(produced) \in Int /\ Off(tail) \in Int
         /\ \A i \in 1..Len(chain) :
              /\ chain[i] \in Chunks /\ Length[chain[i]] \in Nat \ {0}
              /\ start_byte[chain[i]] \in Pos
              /\ St(i) \in Int /\ En(i) \in Int /\ St(i) < En(i)
         /\ End \in Int
<1>1. Len(chain) \in Nat \ {0} /\ DOMAIN chain = 1..Len(chain)
  BY DEF Types
<1>2. consumed \in Pos
  BY DEF Types, ConsCalls, consumed, Idle
<1>3. produced \in Pos
  BY DEF Types, ProdCalls, produced, Idle
<1>4. Off(consumed) \in Int /\ Off(produced) \in Int /\ Off(tail) \in Int
  BY <1>2, <1>3, OffInt DEF Types
<1>5. ASSUME NEW i \in 1..Len(chain)
      PROVE  /\ chain[i] \in Chunks /\ Length[chain[i]] \in Nat \ {0}
             /\ start_byte[chain[i]] \in Pos
             /\ St(i) \in Int /\ En(i) \in Int /\ St(i) < En(i)
  <2>1. chain[i] \in Chunks
    BY DEF Types
  <2>2. Length[chain[i]] \in Nat \ {0}
    BY <2>1, FifoAssumption
  <2>3. start_byte[chain[i]] \in Pos
    BY <2>1 DEF Types
  <2>4. St(i) \in Int
    BY <2>3, OffInt DEF St
  <2> QED
    BY <2>1, <2>2, <2>3, <2>4 DEF En
<1>6. End \in Int
  BY <1>1, <1>5 DEF End
<1> QED
  BY <1>1, <1>2, <1>3, <1>4, <1>5, <1>6

LEMMA Inj ==
  ASSUME Geo
  PROVE  \A a, b \in 1..Len(chain) : chain[a] = chain[b] => a = b
BY ListTypes DEF Geo, ChainInv, IsInjective

\* All of the list is near.
LEMMA ListNear ==
  ASSUME Geo
  PROVE  /\ Near(0) /\ Near(Off(consumed)) /\ Near(Off(produced)) /\ Near(Off(tail)) /\ Near(End)
         /\ \A i \in 1..Len(chain) :
              /\ Near(St(i)) /\ Near(En(i))
              /\ St(1) <= St(i) /\ En(i) <= End
         /\ \A x \in Int : St(1) <= x /\ x <= End => Near(x)
<1> USE ListTypes DEF Geo
<1>1. PICK c \in Chunks : End <= Size + MinAlloc + Length[c]
  BY DEF ChainInv
<1>2. Size \in Nat /\ MinAlloc \in Nat /\ Length[c] \in Nat
  BY FifoAssumption
<1>3. 1 \in 1..Len(chain) /\ Len(chain) \in 1..Len(chain)
  OBVIOUS
<1>4. St(1) <= Off(consumed) /\ Off(consumed) <= En(1)
  BY DEF ChainInv
<1>5. -Length[chain[1]] <= St(1)
  BY <1>3, <1>4 DEF OrderInv, En
<1>6. \A i \in 1..Len(chain) : St(1) <= St(i) /\ En(i) <= End
  <2>1. \A i, j \in 1..Len(chain) : i < j => En(i) <= St(j)
    BY DEF ChainInv
  <2>2. /\ Len(chain) \in Nat /\ End = En(Len(chain))
        /\ \A i \in 1..Len(chain) : St(i) \in Int /\ En(i) \in Int /\ St(i) < En(i)
    BY DEF End
  <2> QED
    <3> USE ONLY <1>3, <2>1, <2>2
    <3> TAKE i \in 1..Len(chain)
    <3>1. i = 1 \/ En(1) <= St(i)
      OBVIOUS
    <3>2. i = Len(chain) \/ En(i) <= St(Len(chain))
      OBVIOUS
    <3> QED
      BY <3>1, <3>2
<1>7. ASSUME NEW x \in Int, St(1) <= x, x <= End
      PROVE  Near(x)
  <2>1. -Length[chain[1]] <= x
    BY <1>3, <1>5, <1>7
  <2>2. x <= Size + MinAlloc + Length[c]
    BY <1>1, <1>2, <1>7
  <2> QED
    BY <1>3, <2>1, <2>2 DEF Near
<1>8. Near(0)
  <2>1. -Length[c] <= 0 /\ 0 <= Size + MinAlloc + Length[c]
    BY <1>2
  <2> QED
    BY <2>1 DEF Near
<1>9. /\ St(1) <= Off(tail) /\ Off(tail) <= End
      /\ St(1) <= Off(produced) /\ Off(produced) <= End
      /\ Off(consumed) <= End
  BY <1>3, <1>4 DEF OrderInv
<1>10. Near(Off(consumed)) /\ Near(Off(produced)) /\ Near(Off(tail))
  BY <1>4, <1>7, <1>9
<1>11. \A i \in 1..Len(chain) : Near(St(i)) /\ Near(En(i))
  <2> TAKE i \in 1..Len(chain)
  <2>1. St(1) <= St(i) /\ St(i) <= End /\ St(1) <= En(i) /\ En(i) <= End
    BY <1>3, <1>6
  <2> QED
    BY <1>7, <2>1
<1>12. Near(End)
  BY <1>3, <1>11 DEF End
<1> QED
  BY <1>6, <1>7, <1>8, <1>10, <1>11, <1>12

LEMMA ChunkEnd ==
  ASSUME Geo, NEW i \in 1..Len(chain)
  PROVE  f_chunk_end(chain[i]) \in Pos /\ Off(f_chunk_end(chain[i])) = En(i)
<1>1. /\ start_byte[chain[i]] \in Pos /\ Length[chain[i]] \in Nat /\ head \in Pos
      /\ Near(St(i)) /\ Near(En(i))
  BY ListTypes, ListNear DEF Geo, Types
<1> QED
  BY <1>1, OffPlus DEF f_chunk_end, Off, St, En

LEMMA Includes ==
  ASSUME Geo, NEW i \in 1..Len(chain), NEW p \in Pos, Near(Off(p))
  PROVE  f_chunk_includes_pos(chain[i], p) <=> St(i) <= Off(p) /\ Off(p) < En(i)
<1>1. /\ start_byte[chain[i]] \in Pos /\ head \in Pos
      /\ Near(St(i)) /\ Near(En(i)) /\ St(i) \in Int /\ En(i) \in Int /\ Off(p) \in Int
  BY ListTypes, ListNear, OffInt DEF Geo, Types
<1>2. Diff(p, start_byte[chain[i]]) = Off(p) - St(i)
  BY <1>1, OffDiff DEF Off, St
<1>3. f_chunk_end(chain[i]) \in Pos /\ Off(f_chunk_end(chain[i])) = En(i)
  BY ChunkEnd
<1>4. Diff(p, f_chunk_end(chain[i])) = Off(p) - En(i)
  BY <1>1, <1>3, OffDiff DEF Off
<1> QED
  BY <1>1, <1>2, <1>4 DEF f_chunk_includes_pos, f_pos_geq, f_pos_lt

LEMMA Unique ==
  ASSUME Geo, NEW i \in 1..Len(chain), NEW j \in 1..Len(chain), NEW x \in Int,
         St(i) <= x, x < En(i), St(j) <= x, x < En(j)
  PROVE  i = j
<1>1. St(i) \in Int /\ En(i) \in Int /\ St(j) \in Int /\ En(j) \in Int /\ i \in Int /\ j \in Int
  BY ListTypes DEF Geo
<1>2. (i < j => En(i) <= St(j)) /\ (j < i => En(j) <= St(i))
  BY DEF Geo, ChainInv
<1> QED
  BY <1>1, <1>2

\* Every offset of the list is in one of its chunks.
LEMMA Cover ==
  ASSUME Geo, NEW a \in 1..Len(chain), NEW x \in Int, St(a) <= x, x < End
  PROVE  \E i \in a..Len(chain) : St(i) <= x /\ x < En(i)
<1> USE ListTypes DEF Geo
<1> DEFINE S == {i \in a..Len(chain) : x < En(i)}
<1>1. S \in SUBSET Nat /\ Len(chain) \in S
  BY DEF End
<1>2. PICK i \in S : \A j \in S : i <= j
  BY <1>1, Least
<1>3. CASE i = a
  BY <1>3
<1>4. CASE i # a
  <2>1. i - 1 \in a..Len(chain) /\ i - 1 \in 1..(Len(chain) - 1)
    BY <1>4
  <2>2. i - 1 \notin S
    BY <1>2, <2>1
  <2>3. St(i) = En(i - 1) /\ En(i - 1) \in Int
    BY <2>1 DEF ChainInv
  <2> QED
    BY <2>1, <2>2, <2>3
<1> QED
  BY <1>3, <1>4

LEMMA FromIs ==
  ASSUME Geo, NEW i \in 1..Len(chain)
  PROVE  /\ Index(chain[i]) = i /\ chain[i] \in ToSet(chain)
         /\ From(chain[i]) = SubSeq(chain, i, Len(chain))
         /\ From(chain[i]) \in Seq(Chunks)
         /\ Len(From(chain[i])) = Len(chain) - i + 1
         /\ \A j \in 1..(Len(chain) - i + 1) : From(chain[i])[j] = chain[i + j - 1]
         /\ \A m \in i..Len(chain) : IndexIn(From(chain[i]), chain[m]) = m - i + 1
<1>1. /\ Len(chain) \in Nat /\ DOMAIN chain = 1..Len(chain) /\ chain \in Seq(Chunks)
      /\ \A a, b \in 1..Len(chain) : chain[a] = chain[b] => a = b
  BY ListTypes DEF Geo, Types, ChainInv, IsInjective
<1>2. Index(chain[i]) = i /\ chain[i] \in ToSet(chain)
  BY <1>1 DEF Index, IndexIn, ToSet
<1> DEFINE list == From(chain[i])
<1>3. list = SubSeq(chain, i, Len(chain))
  BY <1>2 DEF From
<1>4. list \in Seq(Chunks) /\ Len(list) = Len(chain) - i + 1
  BY <1>1, <1>3
<1>5. \A j \in 1..(Len(chain) - i + 1) : list[j] = chain[i + j - 1]
  BY <1>1, <1>3
<1> HIDE DEF list
<1>6. ASSUME NEW m \in i..Len(chain) PROVE IndexIn(list, chain[m]) = m - i + 1
  <2>1. DOMAIN list = 1..(Len(chain) - i + 1)
    BY <1>1, <1>4
  <2>2. m - i + 1 \in DOMAIN list /\ list[m - i + 1] = chain[m]
    BY <1>1, <1>5, <2>1
  <2>3. \A j \in DOMAIN list : list[j] = chain[m] => j = m - i + 1
    <3> TAKE j \in DOMAIN list
    <3> DEFINE q == i + j - 1
    <3>1. j \in Int /\ list[j] = chain[q] /\ q \in 1..Len(chain) /\ m \in 1..Len(chain)
      BY <1>1, <1>5, <2>1
    <3> HIDE DEF q
    <3>2. chain[q] = chain[m] => q = m
      BY <1>1, <3>1
    <3> QED
      BY <1>1, <3>1, <3>2 DEF q
  <2> QED
    BY <2>2, <2>3 DEF IndexIn
<1> QED
  BY <1>2, <1>3, <1>4, <1>5, <1>6 DEF list

\* A search in the chunks from the a-th to the b-th.
LEMMA FindAt ==
  ASSUME Geo, NEW a \in 1..Len(chain), NEW b \in 1..Len(chain), a <= b,
         NEW list, Len(list) = b - a + 1, DOMAIN list = 1..Len(list),
         \A j \in 1..(b - a + 1) : list[j] = chain[a + j - 1],
         NEW p \in Pos, Near(Off(p))
  PROVE  /\ \A i \in a..b : St(i) <= Off(p) /\ Off(p) < En(i) => FindIn(list, p) = chain[i]
         /\ (\A i \in a..b : ~(St(i) <= Off(p) /\ Off(p) < En(i))) => FindIn(list, p) = Null
<1> DEFINE hit(j) == f_chunk_includes_pos(list[j], p)
<1>1. Len(chain) \in Nat /\ Off(p) \in Int
  BY ListTypes DEF Geo, Near
<1>2. ASSUME NEW j \in 1..(b - a + 1)
      PROVE  hit(j) <=> St(a + j - 1) <= Off(p) /\ Off(p) < En(a + j - 1)
  <2>1. a + j - 1 \in 1..Len(chain)
    BY <1>1
  <2> QED
    BY <2>1, Includes
<1>3. ASSUME NEW i \in a..b, St(i) <= Off(p), Off(p) < En(i)
      PROVE  FindIn(list, p) = chain[i]
  <2>1. i - a + 1 \in 1..(b - a + 1) /\ a + (i - a + 1) - 1 = i
    BY <1>1
  <2>2. hit(i - a + 1)
    BY <1>2, <1>3, <2>1
  <2>3. \A j \in 1..(b - a + 1) : hit(j) => j = i - a + 1
    <3> SUFFICES ASSUME NEW j \in 1..(b - a + 1), hit(j) PROVE j = i - a + 1
      OBVIOUS
    <3>1. a + j - 1 \in 1..Len(chain) /\ i \in 1..Len(chain)
      BY <1>1
    <3>2. St(a + j - 1) <= Off(p) /\ Off(p) < En(a + j - 1)
      BY <1>2
    <3> DEFINE m == a + j - 1
    <3> HIDE DEF m
    <3>3. m = i
      BY <1>1, <1>3, <3>1, <3>2, Unique DEF m
    <3> QED
      BY <1>1, <3>3 DEF m
  <2>4. list[i - a + 1] = chain[i]
    BY <2>1
  <2> HIDE DEF hit
  <2> DEFINE first == CHOOSE j \in DOMAIN list : hit(j) /\ \A k \in 1..(j - 1) : ~hit(k)
  <2>5. \A k \in 1..((i - a + 1) - 1) : ~hit(k)
    BY <1>1, <2>1, <2>3
  <2>6. i - a + 1 \in DOMAIN list
    BY <2>1
  <2>7. first \in DOMAIN list /\ hit(first)
    BY <2>2, <2>5, <2>6
  <2>8. first = i - a + 1
    BY <2>3, <2>7
  <2>9. FindIn(list, p) = list[first]
    BY <2>2, <2>6 DEF FindIn, hit
  <2> QED
    BY <2>4, <2>8, <2>9
<1>4. ASSUME \A i \in a..b : ~(St(i) <= Off(p) /\ Off(p) < En(i))
      PROVE  FindIn(list, p) = Null
  <2>1. \A j \in DOMAIN list : ~hit(j)
    <3> TAKE j \in DOMAIN list
    <3>1. a + j - 1 \in a..b
      BY <1>1
    <3> QED
      BY <1>2, <1>4, <3>1
  <2> QED
    BY <2>1 DEF FindIn
<1> QED
  BY <1>3, <1>4

\* A search from the a-th chunk on.
LEMMA FindFrom ==
  ASSUME Geo, NEW a \in 1..Len(chain), NEW p \in Pos, Near(Off(p)), St(a) <= Off(p)
  PROVE  /\ Off(p) < End =>
              \E i \in a..Len(chain) : /\ FindIn(From(chain[a]), p) = chain[i]
                                       /\ St(i) <= Off(p) /\ Off(p) < En(i)
         /\ End <= Off(p) => FindIn(From(chain[a]), p) = Null
<1> DEFINE list == From(chain[a])
<1>1. /\ list \in Seq(Chunks) /\ Len(list) = Len(chain) - a + 1
      /\ \A j \in 1..(Len(chain) - a + 1) : list[j] = chain[a + j - 1]
  BY FromIs
<1>2. /\ Len(chain) \in 1..Len(chain) /\ a <= Len(chain) /\ DOMAIN list = 1..Len(list)
      /\ Len(chain) \in Nat
  BY <1>1, ListTypes DEF Geo
<1> HIDE DEF list
<1>3. /\ \A i \in a..Len(chain) : St(i) <= Off(p) /\ Off(p) < En(i) => FindIn(list, p) = chain[i]
      /\ (\A i \in a..Len(chain) : ~(St(i) <= Off(p) /\ Off(p) < En(i))) => FindIn(list, p) = Null
  <2>1. PICK b \in 1..Len(chain) : b = Len(chain)
    BY <1>2
  <2>a. a <= b /\ Len(list) = b - a + 1
    BY <1>1, <1>2, <2>1
  <2>2. \A j \in 1..(b - a + 1) : list[j] = chain[a + j - 1]
    BY <1>1, <1>2, <2>1
  <2>3. DOMAIN list = 1..Len(list)
    BY <1>2
  <2>4. /\ \A i \in a..b : St(i) <= Off(p) /\ Off(p) < En(i) => FindIn(list, p) = chain[i]
        /\ (\A i \in a..b : ~(St(i) <= Off(p) /\ Off(p) < En(i))) => FindIn(list, p) = Null
    BY <2>a, <2>2, <2>3, FindAt, SMTT(30)
  <2> QED
    BY <2>1, <2>4
<1>4. Off(p) \in Int
  BY DEF Near
<1>5. CASE Off(p) < End
  <2>1. PICK i \in a..Len(chain) : St(i) <= Off(p) /\ Off(p) < En(i)
    BY <1>4, <1>5, Cover
  <2>2. End \in Int /\ ~(End <= Off(p))
    BY <1>4, <1>5, ListTypes DEF Geo
  <2> QED
    BY <1>3, <2>1, <2>2 DEF list
<1>6. CASE End <= Off(p)
  <2>1. \A i \in a..Len(chain) : ~(Off(p) < En(i))
    <3> TAKE i \in a..Len(chain)
    <3>1. i \in 1..Len(chain)
      BY <1>2
    <3>2. En(i) <= End /\ En(i) \in Int /\ End \in Int
      BY <3>1, ListNear, ListTypes DEF Geo
    <3> QED
      BY <1>4, <1>6, <3>2
  <2>2. End \in Int /\ ~(Off(p) < End)
    BY <1>4, <1>6, ListTypes DEF Geo
  <2> QED
    BY <1>3, <2>1, <2>2 DEF list
<1> QED
  BY <1>4, <1>5, <1>6, ListTypes DEF Geo

\* The bytes before a chunk are the distance to it.
LEMMA BeforeFrom ==
  ASSUME Geo, NEW i \in 1..Len(chain)
  PROVE  /\ \A j \in 0..(Len(chain) - i) : Before(From(chain[i]))[j] = St(i + j) - St(i)
         /\ \A j \in 1..(Len(chain) - i + 1) : Before(From(chain[i]))[j] = En(i + j - 1) - St(i)
         /\ Total(From(chain[i])) = End - St(i)
<1> DEFINE list == From(chain[i])
           n == Len(chain) - i
           b == Before(list)
<1>1. /\ list \in Seq(Chunks) /\ Len(list) = n + 1
      /\ \A j \in 1..(n + 1) : list[j] = chain[i + j - 1]
  BY FromIs
<1>2. Len(chain) \in Nat /\ n \in Nat /\ \A j \in 0..n : i + j \in 1..Len(chain)
  BY ListTypes, SMTT(20) DEF Geo
<1>3. \A m \in 1..Len(chain) : St(m) \in Int /\ En(m) \in Int /\ En(m) = St(m) + Length[chain[m]]
  BY ListTypes DEF Geo, En
<1>4. \A m \in 1..(Len(chain) - 1) : St(m + 1) = En(m)
  BY DEF Geo, ChainInv
<1> HIDE DEF list
<1>5. /\ b \in [0..Len(list) -> Nat] /\ b[0] = 0
      /\ \A j \in 1..Len(list) : b[j] = b[j - 1] + Length[list[j]]
  BY <1>1, BeforeDef
<1> HIDE DEF b
<1> DEFINE S == {j \in 0..n : b[j] = St(i + j) - St(i)}
<1>6. 0 \in S
  BY <1>2, <1>3, <1>5
<1>7. ASSUME NEW j \in 0..(n - 1), j \in S PROVE j + 1 \in S
  <2>1. j + 1 \in 1..(n + 1) /\ j + 1 \in 0..n /\ i + (j + 1) - 1 = i + j /\ (j + 1) - 1 = j
    BY <1>2
  <2>2. b[j + 1] = b[j] + Length[chain[i + j]]
    BY <1>1, <1>5, <2>1
  <2>3. i + j \in 1..(Len(chain) - 1) /\ i + j \in 1..Len(chain) /\ (i + j) + 1 = i + (j + 1)
    BY <1>2
  <2>4. St(i + (j + 1)) = En(i + j)
    BY <1>4, <2>3
  <2>5. b[j] = St(i + j) - St(i)
    BY <1>7
  <2>6. b[j + 1] = St(i + (j + 1)) - St(i)
    <3>1. Length[chain[i + j]] \in Nat /\ En(i + j) = St(i + j) + Length[chain[i + j]]
      BY <2>3, ListTypes DEF Geo, En
    <3>2. St(i + j) \in Int /\ St(i) \in Int
      BY <1>3, <2>3
    <3> QED
      BY <2>2, <2>4, <2>5, <3>1, <3>2
  <2> QED
    BY <2>1, <2>6
<1>8. \A j \in 0..n : j \in S
  <2> HIDE DEF S, n
  <2> QED
    BY <1>2, <1>6, <1>7, UpTo
<1>9. ASSUME NEW j \in 1..(n + 1) PROVE b[j] = En(i + j - 1) - St(i)
  <2>1. j - 1 \in 0..n /\ i + (j - 1) = i + j - 1 /\ i + j - 1 \in 1..Len(chain) /\ i \in 1..Len(chain)
    BY <1>2
  <2>2. b[j - 1] = St(i + j - 1) - St(i)
    BY <1>8, <2>1
  <2>3. b[j] = b[j - 1] + Length[chain[i + j - 1]]
    BY <1>1, <1>5
  <2>4. En(i + j - 1) = St(i + j - 1) + Length[chain[i + j - 1]] /\ St(i + j - 1) \in Int /\ St(i) \in Int
    BY <1>3, <2>1
  <2>5. Length[chain[i + j - 1]] \in Nat
    BY <2>1, ListTypes DEF Geo
  <2> QED
    BY <2>2, <2>3, <2>4, <2>5
<1>10. Total(list) = End - St(i)
  <2>1. n + 1 \in 1..(n + 1) /\ i + (n + 1) - 1 = Len(chain)
    BY <1>2
  <2>2. b[n + 1] = En(Len(chain)) - St(i)
    BY <1>9, <2>1
  <2> QED
    BY <1>1, <2>2 DEF Total, End, b
<1> QED
  BY <1>8, <1>9, <1>10 DEF b, list

\* The cell of an offset, and the offset of a cell.
LEMMA CellAtIs ==
  ASSUME Geo, NEW i \in 1..Len(chain), NEW m \in i..Len(chain), NEW x \in Int,
         St(m) <= x, x < En(m)
  PROVE  CellAt(From(chain[i]), x - St(i)) = <<chain[m], x - St(m)>>
<1> DEFINE list == From(chain[i])
           b == Before(list)
           k == x - St(i)
           S == {j \in DOMAIN list : k < b[j]}
<1>1. /\ DOMAIN list = 1..(Len(chain) - i + 1) /\ list[m - i + 1] = chain[m]
      /\ Len(chain) \in Nat /\ m \in 1..Len(chain)
  <2>1. /\ list \in Seq(Chunks) /\ Len(list) = Len(chain) - i + 1
        /\ \A j \in 1..(Len(chain) - i + 1) : list[j] = chain[i + j - 1]
    BY FromIs
  <2>2. Len(chain) \in Nat /\ m \in 1..Len(chain)
    BY ListTypes DEF Geo
  <2>3. m - i + 1 \in 1..(Len(chain) - i + 1) /\ i + (m - i + 1) - 1 = m
    BY <2>2
  <2>4. list[m - i + 1] = chain[m]
    BY <2>1, <2>3
  <2> QED
    BY <2>1, <2>2, <2>4
<1>2. /\ \A j \in 0..(Len(chain) - i) : b[j] = St(i + j) - St(i)
      /\ \A j \in 1..(Len(chain) - i + 1) : b[j] = En(i + j - 1) - St(i)
  BY BeforeFrom
<1>3. \A j \in 1..Len(chain) : St(j) \in Int /\ En(j) \in Int
  BY ListTypes DEF Geo
<1>4. \A j \in 1..Len(chain) : j < m => En(j) <= x
  <2> TAKE j \in 1..Len(chain)
  <2>1. j < m => En(j) <= St(m)
    BY <1>1 DEF Geo, ChainInv
  <2> QED
    BY <1>1, <1>3, <2>1
<1> HIDE DEF list, b
<1>5. \A j \in DOMAIN list : j \in S <=> x < En(i + j - 1)
  <2> TAKE j \in DOMAIN list
  <2>1. i + j - 1 \in 1..Len(chain) /\ i \in 1..Len(chain)
    BY <1>1
  <2>2. b[j] = En(i + j - 1) - St(i)
    BY <1>1, <1>2
  <2> QED
    BY <1>3, <2>1, <2>2
<1>6. m - i + 1 \in S
  <2>1. m - i + 1 \in DOMAIN list /\ i + (m - i + 1) - 1 = m
    BY <1>1
  <2> QED
    BY <1>5, <2>1
<1>7. \A j \in S : m - i + 1 <= j
  <2> SUFFICES ASSUME NEW j \in S PROVE m - i + 1 <= j
    OBVIOUS
  <2>1. x < En(i + j - 1)
    BY <1>5
  <2>2. i + j - 1 \in 1..Len(chain) /\ i \in Int /\ m \in Int /\ j \in Int
    BY <1>1
  <2>3. ~(i + j - 1 < m)
    <3> DEFINE q == i + j - 1
               e == En(q)
    <3>1. q \in 1..Len(chain) /\ x < e
      BY <2>1, <2>2
    <3> HIDE DEF q
    <3>2. e \in Int /\ (q < m => e <= x)
      BY <1>3, <1>4, <3>1
    <3> HIDE DEF e
    <3>3. ~(q < m)
      BY ONLY <3>1, <3>2, x \in Int
    <3> QED
      BY <3>3 DEF q
  <2> QED
    BY <2>2, <2>3
<1>8. SetMin(S) = m - i + 1
  <2>1. S \in SUBSET Nat /\ S # {}
    BY <1>1, <1>6
  <2> HIDE DEF S
  <2>2. SetMin(S) \in S /\ \A j \in S : SetMin(S) <= j
    BY <2>1, SetMinIs
  <2>3. SetMin(S) <= m - i + 1 /\ m - i + 1 <= SetMin(S) /\ SetMin(S) \in Nat
    BY <1>6, <1>7, <2>1, <2>2
  <2> QED
    BY <1>1, <2>3
<1>9. b[(m - i + 1) - 1] = St(m) - St(i)
  <2>1. (m - i + 1) - 1 \in 0..(Len(chain) - i) /\ i + ((m - i + 1) - 1) = m
    BY <1>1
  <2> QED
    BY <1>2, <2>1
<1>10. k - b[(m - i + 1) - 1] = x - St(m)
  BY <1>1, <1>3, <1>9
<1>11. CellAt(list, k) = <<list[SetMin(S)], k - b[SetMin(S) - 1]>>
  BY DEF CellAt, b
<1> QED
  BY <1>1, <1>8, <1>10, <1>11 DEF list

LEMMA AtIs ==
  ASSUME Geo, NEW i \in 1..Len(chain), NEW m \in i..Len(chain), NEW k \in Nat
  PROVE  At(From(chain[i]), <<chain[m], k>>) = St(m) + k - St(i)
<1>1. IndexIn(From(chain[i]), chain[m]) = m - i + 1
  BY FromIs
<1>2. Len(chain) \in Nat /\ m \in 1..Len(chain) /\ St(m) \in Int /\ St(i) \in Int
  BY ListTypes DEF Geo
<1>3. (m - i + 1) - 1 \in 0..(Len(chain) - i) /\ i + ((m - i + 1) - 1) = m
  BY <1>2
<1>4. Before(From(chain[i]))[(m - i + 1) - 1] = St(m) - St(i)
  BY <1>3, BeforeFrom
<1> QED
  BY <1>1, <1>2, <1>4 DEF At
-----------------------------------------------------------------------------
(* Copies: the n bytes at position p, from chunk i on, which holds p. *)

LEMMA CopyRoom ==
  ASSUME Geo, NEW i \in 1..Len(chain), NEW p \in Pos, St(i) <= Off(p), Off(p) <= En(i)
  PROVE  /\ Near(Off(p)) /\ Off(p) \in Int
         /\ Skipped(chain[i], p) = Off(p) - St(i)
         /\ Room(chain[i], p) = End - Off(p)
<1>1. /\ Near(St(i)) /\ Near(En(i)) /\ St(i) \in Int /\ En(i) \in Int /\ End \in Int
      /\ start_byte[chain[i]] \in Pos /\ head \in Pos
  BY ListNear, ListTypes DEF Geo, Types
<1>2. Off(p) \in Int
  BY OffInt DEF Geo
<1>3. Near(Off(p))
  BY <1>1, <1>2, NearBetween
<1>4. Skipped(chain[i], p) = Off(p) - St(i)
  BY <1>1, <1>3, OffMinus DEF Skipped, Off, St
<1>5. Total(From(chain[i])) = End - St(i)
  BY BeforeFrom
<1> QED
  BY <1>1, <1>2, <1>3, <1>4, <1>5 DEF Room

LEMMA CopyStart ==
  ASSUME Geo, NEW i \in 1..Len(chain), NEW p \in Pos, St(i) <= Off(p), Off(p) < En(i)
  PROVE  /\ Near(Off(p)) /\ Off(p) \in Int
         /\ Skipped(chain[i], p) = Off(p) - St(i)
         /\ Room(chain[i], p) = End - Off(p)
<1>1. Off(p) \in Int /\ En(i) \in Int
  BY OffInt, ListTypes DEF Geo
<1>2. Off(p) <= En(i)
  BY <1>1
<1> QED
  BY <1>2, CopyRoom

LEMMA LastChunkIs ==
  ASSUME Geo, NEW i \in 1..Len(chain), NEW p \in Pos, St(i) <= Off(p), Off(p) < En(i),
         NEW n \in Nat
  PROVE  /\ Off(p) + n < End =>
              \E m \in i..Len(chain) : /\ LastChunk(chain[i], p, n) = chain[m]
                                       /\ St(m) <= Off(p) + n /\ Off(p) + n < En(m)
         /\ End <= Off(p) + n => LastChunk(chain[i], p, n) = Null
<1>1. /\ Off(p) \in Int /\ Skipped(chain[i], p) = Off(p) - St(i)
      /\ Room(chain[i], p) = End - Off(p)
  BY CopyStart
<1>2. End \in Int /\ St(i) \in Int
  BY ListTypes DEF Geo
<1>3. ASSUME Off(p) + n < End
      PROVE  \E m \in i..Len(chain) : /\ LastChunk(chain[i], p, n) = chain[m]
                                      /\ St(m) <= Off(p) + n /\ Off(p) + n < En(m)
  <2>1. Off(p) + n \in Int /\ St(i) <= Off(p) + n
    BY <1>1, <1>2
  <2>2. PICK m \in i..Len(chain) : St(m) <= Off(p) + n /\ Off(p) + n < En(m)
    BY <1>3, <2>1, Cover
  <2> DEFINE x == Off(p) + n
  <2>3. x \in Int /\ St(m) <= x /\ x < En(m)
    BY <2>1, <2>2
  <2> HIDE DEF x
  <2>4. CellAt(From(chain[i]), x - St(i)) = <<chain[m], x - St(m)>>
    BY <2>3, CellAtIs
  <2>5. Skipped(chain[i], p) + n = x - St(i)
    BY <1>1, <1>2 DEF x
  <2>6. n < Room(chain[i], p)
    BY <1>1, <1>2, <1>3
  <2>7. LastChunk(chain[i], p, n) = chain[m]
    BY <2>4, <2>5, <2>6 DEF LastChunk
  <2> QED
    BY <2>2, <2>7
<1>4. ASSUME End <= Off(p) + n PROVE LastChunk(chain[i], p, n) = Null
  BY <1>1, <1>2, <1>4 DEF LastChunk
<1> QED
  BY <1>3, <1>4

\* The position of a cell of the list.
LEMMA CellPos ==
  ASSUME Geo, NEW m \in 1..Len(chain), NEW k \in 0..(Length[chain[m]] - 1)
  PROVE  /\ Near(St(m) + k) /\ St(m) + k \in Int
         /\ Plus(start_byte[chain[m]], k) \in Pos
         /\ Off(Plus(start_byte[chain[m]], k)) = St(m) + k
<1>1. /\ Near(St(m)) /\ Near(En(m)) /\ St(m) \in Int /\ En(m) = St(m) + Length[chain[m]]
      /\ start_byte[chain[m]] \in Pos /\ head \in Pos /\ Length[chain[m]] \in Nat
  BY ListNear, ListTypes DEF Geo, Types, En
<1>2. k \in Nat /\ St(m) + k \in Int /\ St(m) <= St(m) + k /\ St(m) + k <= En(m) /\ En(m) \in Int
  BY <1>1
<1> DEFINE x == St(m) + k
<1>3. Near(x)
  <2>1. x \in Int /\ St(m) <= x /\ x <= En(m)
    BY <1>2
  <2> HIDE DEF x
  <2> QED
    BY <1>1, <2>1, NearBetween
<1> QED
  BY <1>1, <1>2, <1>3, OffPlus DEF Off, St

LEMMA SamePos ==
  ASSUME Geo, NEW m \in 1..Len(chain), NEW k \in 0..(Length[chain[m]] - 1),
         NEW p \in Pos, Near(Off(p)), NEW d \in Nat, Off(p) + d = St(m) + k
  PROVE  Plus(p, d) = Plus(start_byte[chain[m]], k)
<1>1. /\ Near(St(m) + k) /\ Plus(start_byte[chain[m]], k) \in Pos
      /\ Off(Plus(start_byte[chain[m]], k)) = St(m) + k
  BY CellPos
<1>2. Plus(p, d) \in Pos /\ Off(Plus(p, d)) = St(m) + k
  BY <1>1, OffPlus DEF Off, Geo, Types
<1> QED
  BY <1>1, <1>2, OffSame DEF Off, Geo, Types

LEMMA CellIn ==
  ASSUME Types, NEW m \in 1..Len(chain), NEW k \in 0..(Length[chain[m]] - 1)
  PROVE  <<chain[m], k>> \in AllCells
BY ListTypes DEF AllCells

LEMMA CopyToIs ==
  ASSUME Geo, NEW i \in 1..Len(chain), NEW p \in Pos, St(i) <= Off(p), Off(p) < En(i),
         NEW n \in Nat, Off(p) + n <= End
  PROVE  /\ DOMAIN CopyTo(chain[i], p, n) = AllCells
         /\ \A m \in 1..Len(chain) : \A k \in 0..(Length[chain[m]] - 1) :
              CopyTo(chain[i], p, n)[<<chain[m], k>>] =
                IF Off(p) <= St(m) + k /\ St(m) + k < Off(p) + n
                THEN Plus(start_byte[chain[m]], k)
                ELSE data[<<chain[m], k>>]
<1>1. /\ Near(Off(p)) /\ Off(p) \in Int /\ Skipped(chain[i], p) = Off(p) - St(i)
  BY CopyStart
<1>2. DOMAIN CopyTo(chain[i], p, n) = AllCells
  BY DEF CopyTo
<1>3. ASSUME NEW m \in 1..Len(chain), NEW k \in 0..(Length[chain[m]] - 1)
      PROVE  CopyTo(chain[i], p, n)[<<chain[m], k>>] =
                IF Off(p) <= St(m) + k /\ St(m) + k < Off(p) + n
                THEN Plus(start_byte[chain[m]], k)
                ELSE data[<<chain[m], k>>]
  <2> DEFINE x == <<chain[m], k>>
             list == From(chain[i])
             nth == At(list, x) - Skipped(chain[i], p)
  <2>1. x \in AllCells
    BY CellIn DEF Geo
  <2>2. CopyTo(chain[i], p, n)[x] =
          IF chain[m] \in ToSet(list) /\ nth \in 0..(n - 1) THEN Plus(p, nth) ELSE data[x]
    BY <2>1 DEF CopyTo
  <2>3. /\ St(m) \in Int /\ St(i) \in Int /\ En(m) \in Int /\ En(m) = St(m) + Length[chain[m]]
        /\ Length[chain[m]] \in Nat /\ m \in Int /\ i \in Int /\ k \in Nat /\ Len(chain) \in Nat
    <3>1. /\ St(m) \in Int /\ St(i) \in Int /\ En(m) \in Int /\ Length[chain[m]] \in Nat
          /\ Len(chain) \in Nat
      BY ListTypes DEF Geo
    <3>2. m \in Int /\ i \in Int /\ k \in Nat
      BY <3>1
    <3> QED
      BY <3>1, <3>2 DEF En
  <2>4. /\ ToSet(list) = {list[j] : j \in 1..(Len(chain) - i + 1)}
        /\ \A j \in 1..(Len(chain) - i + 1) : list[j] = chain[i + j - 1]
    <3>1. /\ list \in Seq(Chunks) /\ Len(list) = Len(chain) - i + 1
          /\ \A j \in 1..(Len(chain) - i + 1) : list[j] = chain[i + j - 1]
      BY FromIs
    <3> HIDE DEF list
    <3>2. DOMAIN list = 1..(Len(chain) - i + 1)
      BY ONLY <3>1
    <3>3. ToSet(list) = {list[j] : j \in 1..(Len(chain) - i + 1)}
      BY ONLY <3>2, Zenon DEF ToSet
    <3> QED
      BY ONLY <3>1, <3>3
  <2>5. CASE i <= m
    <3>1. At(list, x) = St(m) + k - St(i)
      <4>1. m \in i..Len(chain)
        BY <2>3, <2>5
      <4> QED
        BY <2>3, <4>1, AtIs
    <3> DEFINE a == St(m)
               s == St(i)
               o == Off(p)
    <3>2. nth = a + k - o
      <4> DEFINE u == At(list, x)
                 v == Skipped(chain[i], p)
      <4>1. u = a + k - s /\ v = o - s /\ a \in Int /\ s \in Int /\ o \in Int /\ k \in Nat
        BY <1>1, <2>3, <3>1
      <4> HIDE DEF u, v, a, s, o
      <4>2. u - v = a + k - o
        BY ONLY <4>1
      <4> QED
        BY <4>2 DEF u, v
    <3>3. chain[m] \in ToSet(list)
      <4>1. m - i + 1 \in 1..(Len(chain) - i + 1) /\ i + (m - i + 1) - 1 = m
        BY <2>3, <2>5
      <4>2. list[m - i + 1] = chain[m]
        BY <2>4, <4>1
      <4> HIDE DEF list
      <4> QED
        BY <2>4, <4>1, <4>2
    <3> HIDE DEF nth
    <3>4. nth \in 0..(n - 1) <=> Off(p) <= St(m) + k /\ St(m) + k < Off(p) + n
      <4>1. a \in Int /\ o \in Int /\ k \in Nat
        BY <1>1, <2>3
      <4> HIDE DEF a, o
      <4>2. nth \in 0..(n - 1) <=> o <= a + k /\ a + k < o + n
        BY ONLY <3>2, <4>1, n \in Nat
      <4> QED
        BY <4>2 DEF a, o
    <3>5. nth \in 0..(n - 1) => Plus(p, nth) = Plus(start_byte[chain[m]], k)
      <4> SUFFICES ASSUME nth \in 0..(n - 1) PROVE Plus(p, nth) = Plus(start_byte[chain[m]], k)
        OBVIOUS
      <4>1. a \in Int /\ o \in Int /\ k \in Nat
        BY <1>1, <2>3
      <4> HIDE DEF a, o
      <4>2. nth \in Nat /\ o + nth = a + k
        BY ONLY <3>2, <4>1, n \in Nat, nth \in 0..(n - 1)
      <4>3. Off(p) + nth = St(m) + k
        BY <4>2 DEF a, o
      <4> QED
        BY <1>1, <4>2, <4>3, SamePos
    <3> QED
      BY <2>2, <3>3, <3>4, <3>5
  <2>6. CASE m < i
    <3>1. chain[m] \notin ToSet(list)
      <4> SUFFICES ASSUME chain[m] \in ToSet(list) PROVE FALSE
        OBVIOUS
      <4>1. PICK j \in 1..(Len(chain) - i + 1) : chain[m] = list[j]
        BY <2>4
      <4> DEFINE q == i + j - 1
      <4>2. q \in 1..Len(chain) /\ m < q
        BY <2>3, <2>6
      <4>3. list[j] = chain[q]
        BY <2>4
      <4> HIDE DEF q, list
      <4>4. chain[m] = chain[q]
        BY <4>1, <4>3
      <4>5. m = q
        BY <4>2, <4>4, Inj
      <4> QED
        BY <2>3, <4>2, <4>5
    <3>2. En(m) <= St(i)
      BY <2>6 DEF Geo, ChainInv
    <3>3. ~(Off(p) <= St(m) + k)
      <4> DEFINE a == St(m)
                 s == St(i)
                 o == Off(p)
                 l == Length[chain[m]]
      <4>1. a \in Int /\ s \in Int /\ o \in Int /\ l \in Nat /\ k \in 0..(l - 1)
        BY <1>1, <2>3
      <4>2. a + l <= s /\ s <= o
        BY <2>3, <3>2
      <4> HIDE DEF a, s, o, l
      <4>3. ~(o <= a + k)
        BY ONLY <4>1, <4>2
      <4> QED
        BY <4>3 DEF a, o
    <3> QED
      BY <2>2, <3>1, <3>3
  <2> QED
    BY <2>3, <2>5, <2>6
<1> QED
  BY <1>2, <1>3

\* What is read where all is live are the positions themselves.
LEMMA CopyFromIs ==
  ASSUME Geo, DataInv, NEW i \in 1..Len(chain), NEW p \in Pos, St(i) <= Off(p), Off(p) < En(i),
         NEW n \in Nat, Off(p) + n <= End,
         \A x \in Int : Off(p) <= x /\ x < Off(p) + n => Live(x)
  PROVE  CopyFrom(chain[i], p, n) = [j \in 1..n |-> Plus(p, j - 1)]
<1>1. /\ Near(Off(p)) /\ Off(p) \in Int /\ Skipped(chain[i], p) = Off(p) - St(i)
      /\ Room(chain[i], p) = End - Off(p)
  BY CopyStart
<1>2. End \in Int /\ St(i) \in Int /\ Len(chain) \in Nat
  BY ListTypes DEF Geo
<1>3. Min2(n, Room(chain[i], p)) = n
  BY <1>1, <1>2 DEF Min2
<1>4. ASSUME NEW j \in 1..n
      PROVE  data[CellAt(From(chain[i]), Skipped(chain[i], p) + j - 1)] = Plus(p, j - 1)
  <2> DEFINE x == Off(p) + (j - 1)
  <2>1. x \in Int /\ St(i) <= x /\ x < End /\ Off(p) <= x /\ x < Off(p) + n
    BY <1>1, <1>2, SMTT(20)
  <2>a. Skipped(chain[i], p) + j - 1 = x - St(i)
    BY <1>1, <1>2
  <2>b. Off(p) + (j - 1) = x
    OBVIOUS
  <2> HIDE DEF x
  <2>2. PICK m \in i..Len(chain) : St(m) <= x /\ x < En(m)
    BY <2>1, Cover
  <2>3. CellAt(From(chain[i]), x - St(i)) = <<chain[m], x - St(m)>>
    BY <2>1, <2>2, CellAtIs
  <2>4. m \in 1..Len(chain) /\ St(m) \in Int /\ En(m) = St(m) + Length[chain[m]] /\ Length[chain[m]] \in Nat
    BY <1>2, ListTypes DEF Geo, En
  <2> DEFINE k == x - St(m)
  <2>5. k \in 0..(Length[chain[m]] - 1) /\ St(m) + k = x
    BY <2>1, <2>2, <2>4, SMTT(20)
  <2> HIDE DEF k
  <2>6. Live(St(m) + k)
    BY <2>1, <2>5
  <2>7. data[<<chain[m], k>>] = Plus(start_byte[chain[m]], k)
    BY <2>4, <2>5, <2>6 DEF DataInv
  <2>8. j - 1 \in Nat /\ Off(p) + (j - 1) = St(m) + k
    BY <2>5, <2>b
  <2>9. Plus(p, j - 1) = Plus(start_byte[chain[m]], k)
    <3> DEFINE d == j - 1
    <3>1. d \in Nat /\ Off(p) + d = St(m) + k
      BY <2>8
    <3> HIDE DEF d
    <3>2. Plus(p, d) = Plus(start_byte[chain[m]], k)
      BY <1>1, <2>4, <2>5, <3>1, SamePos
    <3> QED
      BY <3>2 DEF d
  <2> QED
    BY <2>3, <2>7, <2>9, <2>a DEF k
<1> QED
  BY <1>3, <1>4 DEF CopyFrom
-----------------------------------------------------------------------------
(* The lookup trees. *)

LEMMA StartOrder ==
  ASSUME Geo, NEW j \in 1..Len(chain)
  PROVE  /\ \A p \in Pos : Near(Off(p)) =>
              (f_pos_leq(start_byte[chain[j]], p) <=> St(j) <= Off(p))
         /\ \A m \in 1..Len(chain) :
              f_pos_leq(start_byte[chain[j]], start_byte[chain[m]]) <=> St(j) <= St(m)
<1>1. head \in Pos /\ \A m \in 1..Len(chain) : start_byte[chain[m]] \in Pos /\ St(m) \in Int /\ Near(St(m))
  BY ListTypes, ListNear DEF Geo, Types
<1>2. ASSUME NEW p \in Pos, Near(Off(p))
      PROVE  f_pos_leq(start_byte[chain[j]], p) <=> St(j) <= Off(p)
  <2>1. Diff(start_byte[chain[j]], p) = St(j) - Off(p)
    BY <1>1, <1>2, OffDiff DEF Off, St
  <2>2. Off(p) \in Int /\ St(j) \in Int
    BY <1>1, <1>2 DEF Near
  <2> QED
    BY <2>1, <2>2 DEF f_pos_leq
<1>3. ASSUME NEW m \in 1..Len(chain)
      PROVE  f_pos_leq(start_byte[chain[j]], start_byte[chain[m]]) <=> St(j) <= St(m)
  BY <1>1, <1>2 DEF St
<1> QED
  BY <1>2, <1>3

LEMMA StMono ==
  ASSUME Geo, NEW i \in 1..Len(chain), NEW j \in 1..Len(chain)
  PROVE  St(i) <= St(j) <=> i <= j
<1>1. St(i) \in Int /\ En(i) \in Int /\ St(j) \in Int /\ En(j) \in Int
  BY ListTypes DEF Geo
<1>2. St(i) < En(i) /\ St(j) < En(j)
  BY ListTypes DEF Geo
<1>3. (i < j => En(i) <= St(j)) /\ (j < i => En(j) <= St(i))
  BY DEF Geo, ChainInv
<1>4. i \in Int /\ j \in Int
  BY ListTypes DEF Geo
<1> QED
  BY <1>1, <1>2, <1>3, <1>4

LEMMA FindNodeIs ==
  ASSUME Geo, NEW lo \in 1..Len(chain), NEW hi \in 1..Len(chain), lo <= hi,
         NEW p \in Pos, Near(Off(p)), St(lo) <= Off(p),
         NEW lookup, lookup = {chain[i] : i \in lo..hi}
  PROVE  \E m \in lo..hi : /\ FindNode(lookup, p) = chain[m]
                           /\ St(m) <= Off(p)
                           /\ \A j \in lo..hi : St(j) <= Off(p) => j <= m
<1>1. Len(chain) \in Nat /\ \A i \in lo..hi : i \in 1..Len(chain)
  BY ListTypes DEF Geo
<1> DEFINE below == {c \in lookup : f_pos_leq(start_byte[c], p)}
           T == {hi - j : j \in {i \in lo..hi : St(i) <= Off(p)}}
           Good(c) == \A d \in below : f_pos_leq(start_byte[d], start_byte[c])
<1>2. \A i \in lo..hi : chain[i] \in below <=> St(i) <= Off(p)
  BY <1>1, StartOrder
<1>3. T \in SUBSET Nat /\ T # {}
  BY <1>1
<1>4. PICK t \in T : \A u \in T : t <= u
  BY <1>3, Least
<1>5. PICK m \in lo..hi : t = hi - m /\ St(m) <= Off(p)
  BY <1>4
<1>6. \A j \in lo..hi : St(j) <= Off(p) => j <= m
  <2> SUFFICES ASSUME NEW j \in lo..hi, St(j) <= Off(p) PROVE j <= m
    OBVIOUS
  <2>1. hi - j \in T
    OBVIOUS
  <2>2. t <= hi - j
    BY <1>4, <2>1
  <2>3. hi \in Int /\ j \in Int /\ m \in Int
    BY <1>1
  <2> QED
    BY <1>5, <2>2, <2>3
<1>7. chain[m] \in below /\ Good(chain[m])
  <2>1. ASSUME NEW d \in below PROVE f_pos_leq(start_byte[d], start_byte[chain[m]])
    <3>1. PICK j \in lo..hi : d = chain[j]
      OBVIOUS
    <3>2. St(j) <= Off(p)
      BY <1>2, <3>1
    <3>3. St(j) <= St(m)
      BY <1>1, <1>6, <3>2, StMono
    <3> QED
      BY <1>1, <3>1, <3>3, StartOrder
  <2> QED
    BY <1>2, <1>5, <2>1
<1> HIDE DEF below
<1> DEFINE c == CHOOSE c \in below : Good(c)
<1>8. c \in below /\ Good(c)
  BY <1>7
<1>9. FindNode(lookup, p) = c
  BY <1>7 DEF FindNode, below
<1> HIDE DEF c
<1>10. PICK n \in lo..hi : c = chain[n]
  BY <1>8 DEF below
<1>11. St(n) <= Off(p)
  BY <1>2, <1>8, <1>10
<1>12. ASSUME NEW j \in lo..hi, St(j) <= Off(p) PROVE j <= n
  <2>1. f_pos_leq(start_byte[chain[j]], start_byte[chain[n]])
    BY <1>2, <1>8, <1>10, <1>12
  <2>2. St(j) <= St(n)
    BY <1>1, <2>1, StartOrder
  <2> QED
    BY <1>1, <2>2, StMono
<1> QED
  BY <1>9, <1>10, <1>11, <1>12

\* The chunks that Update walks over behind chunk c.
Rest(c, to_pos) == IF f_chunk_includes_pos(c, to_pos) THEN <<>> ELSE Tail(From(c))
Stop(c, lookup, to_pos) ==
  {i \in DOMAIN Rest(c, to_pos) :
     \/ Rest(c, to_pos)[i] \in lookup
     \/ i > 1 /\ f_chunk_includes_pos(Rest(c, to_pos)[i - 1], to_pos)}
Added(c, lookup, to_pos) ==
  IF Stop(c, lookup, to_pos) = {} THEN Rest(c, to_pos)
  ELSE SubSeq(Rest(c, to_pos), 1, SetMin(Stop(c, lookup, to_pos)) - 1)

LEMMA AddedIs ==
  ASSUME Geo, NEW m \in 1..Len(chain), NEW lookup, NEW x \in Int, NEW to_pos \in Pos,
         Near(Off(to_pos)), St(m) <= x, x <= Off(to_pos), Off(to_pos) <= End,
         \/ m < Len(chain) /\ chain[m + 1] \in lookup /\ x < En(m)
         \/ \A i \in 1..Len(chain) : m < i => chain[i] \notin lookup
  PROVE  \E e \in m..Len(chain) :
           /\ Added(chain[m], lookup, to_pos) \in Seq(Chunks)
           /\ Len(Added(chain[m], lookup, to_pos)) = e - m
           /\ \A j \in 1..(e - m) : Added(chain[m], lookup, to_pos)[j] = chain[m + j]
           /\ x < End => x < En(e)
           /\ e = m \/ St(e) <= Off(to_pos)
           /\ m < Len(chain) /\ chain[m + 1] \in lookup => e = m
<1> DEFINE y == Off(to_pos)
           rest == Rest(chain[m], to_pos)
           stop == Stop(chain[m], lookup, to_pos)
           added == Added(chain[m], lookup, to_pos)
           n == Len(chain)
<1>1. n \in Nat /\ y \in Int /\ m \in Nat /\ 1 <= m /\ m <= n
  BY ListTypes DEF Geo, Near
<1>2. \A i \in 1..n : St(i) \in Int /\ En(i) \in Int /\ St(i) < En(i) /\ En(i) <= End /\ End \in Int
  BY ListTypes, ListNear DEF Geo
<1>3. \A i \in 1..n : f_chunk_includes_pos(chain[i], to_pos) <=> St(i) <= y /\ y < En(i)
  BY Includes
<1>4. CASE f_chunk_includes_pos(chain[m], to_pos)
  <2>1. rest = <<>>
    BY <1>4 DEF Rest
  <2>2. stop = {}
    BY <2>1 DEF Stop
  <2>3. added = <<>>
    BY <2>1, <2>2 DEF Added
  <2>4. x < En(m)
    BY <1>1, <1>2, <1>3, <1>4
  <2>5. m \in m..n /\ m - m = 0
    BY <1>1
  <2> QED
    BY <2>3, <2>4, <2>5
<1>5. CASE ~f_chunk_includes_pos(chain[m], to_pos)
  <2>0. En(m) <= y
    BY <1>1, <1>2, <1>3, <1>5
  <2>1. /\ rest \in Seq(Chunks) /\ Len(rest) = n - m /\ DOMAIN rest = 1..(n - m)
        /\ \A j \in 1..(n - m) : rest[j] = chain[m + j]
    <3> DEFINE list == From(chain[m])
    <3>1. /\ list \in Seq(Chunks) /\ Len(list) = n - m + 1
          /\ \A j \in 1..(n - m + 1) : list[j] = chain[m + j - 1]
      BY FromIs
    <3>2. rest = Tail(list)
      BY <1>5 DEF Rest
    <3> HIDE DEF list, rest
    <3>3. list # <<>> /\ rest \in Seq(Chunks) /\ Len(rest) = n - m
      BY <1>1, <3>1, <3>2
    <3>4. \A j \in 1..(n - m) : rest[j] = chain[m + j]
      <4> TAKE j \in 1..(n - m)
      <4>1. j + 1 \in 1..(n - m + 1) /\ m + (j + 1) - 1 = m + j /\ j \in 1..Len(rest)
        BY <1>1, <3>3
      <4>2. rest[j] = list[j + 1]
        BY <3>1, <3>2, <3>3, <4>1
      <4>3. list[j + 1] = chain[m + j]
        BY <3>1, <4>1
      <4> QED
        BY <4>2, <4>3
    <3> QED
      BY <3>3, <3>4
  <2>2. \A j \in 1..(n - m) :
          j \in stop <=> \/ chain[m + j] \in lookup
                         \/ j > 1 /\ St(m + j - 1) <= y /\ y < En(m + j - 1)
    <3> TAKE j \in 1..(n - m)
    <3>1. j \in stop <=> (chain[m + j] \in lookup \/ (j > 1 /\ f_chunk_includes_pos(rest[j - 1], to_pos)))
      BY <2>1 DEF Stop
    <3>2. j > 1 => rest[j - 1] = chain[m + j - 1] /\ m + j - 1 \in 1..n
      <4> HAVE j > 1
      <4>1. j - 1 \in 1..(n - m) /\ m + (j - 1) = m + j - 1 /\ m + j - 1 \in 1..n
        BY <1>1
      <4> QED
        BY <2>1, <4>1
    <3> QED
      BY <1>3, <3>1, <3>2
  <2>3. stop \subseteq 1..(n - m)
    BY <2>1 DEF Stop
  <2>4. added = IF stop = {} THEN rest ELSE SubSeq(rest, 1, SetMin(stop) - 1)
    BY DEF Added
  <2> HIDE DEF rest, stop, added
  <2>5. CASE m < n /\ chain[m + 1] \in lookup
    <3>1. 1 \in stop
      BY <1>1, <2>2, <2>5
    <3>2. SetMin(stop) = 1
      <4>1. stop \in SUBSET Nat /\ stop # {}
        BY <1>1, <2>3, <3>1
      <4>2. SetMin(stop) \in stop /\ SetMin(stop) <= 1
        BY <3>1, <4>1, SetMinIs
      <4>3. SetMin(stop) \in 1..(n - m)
        BY <2>3, <4>2
      <4> QED
        BY <1>1, <4>2, <4>3
    <3>3. added = <<>>
      BY <2>1, <2>4, <3>1, <3>2
    <3>4. x < En(m)
      <4>1. m + 1 \in 1..n /\ m < m + 1
        BY <1>1, <2>5
      <4> QED
        BY <2>5, <4>1
    <3>5. m \in m..n /\ m - m = 0
      BY <1>1
    <3> QED
      BY <3>3, <3>4, <3>5 DEF added
  <2>6. CASE \A i \in 1..n : m < i => chain[i] \notin lookup
    <3>1. \A j \in 1..(n - m) : j \in stop <=> j > 1 /\ St(m + j - 1) <= y /\ y < En(m + j - 1)
      <4> TAKE j \in 1..(n - m)
      <4>1. m + j \in 1..n /\ m < m + j
        BY <1>1
      <4> QED
        BY <2>2, <2>6, <4>1
    <3>2. ~(m < n /\ chain[m + 1] \in lookup)
      <4> SUFFICES ASSUME m < n PROVE chain[m + 1] \notin lookup
        OBVIOUS
      <4>1. m + 1 \in 1..n /\ m < m + 1
        BY <1>1
      <4> QED
        BY <2>6, <4>1
    <3>3. CASE stop = {}
      <4>1. added = rest
        BY <2>4, <3>3
      <4>2. (x < End => x < En(n)) /\ (n = m \/ St(n) <= y)
        <5>1. y < End \/ y = End
          BY <1>1, <1>2
        <5>2. End = En(n)
          BY DEF End
        <5>3. n \in 1..n
          BY <1>1
        <5>4. n = m \/ St(n) <= y
          <6>1. CASE y = End
            BY <1>2, <5>2, <5>3, <6>1
          <6>2. CASE y < End
            <7>1. PICK t \in m..n : St(t) <= y /\ y < En(t)
              <8>1. St(m) <= y
                BY <1>1, <1>2
              <8> QED
                BY <1>1, <6>2, <8>1, Cover
            <7>2. t = n
              <8> SUFFICES ASSUME t # n PROVE FALSE
                OBVIOUS
              <8>1. t # m
                BY <1>1, <1>2, <2>0, <7>1
              <8>2. t - m + 1 \in 1..(n - m) /\ t - m + 1 > 1 /\ m + (t - m + 1) - 1 = t
                BY <1>1, <8>1
              <8>3. t - m + 1 \in stop
                BY <3>1, <7>1, <8>2
              <8> QED
                BY <3>3, <8>3
            <7> QED
              BY <7>1, <7>2
          <6> QED
            BY <5>1, <6>1, <6>2
        <5> QED
          BY <5>2, <5>3, <5>4
      <4>3. n \in m..n
        BY <1>1
      <4> QED
        BY <2>1, <3>2, <4>1, <4>2, <4>3 DEF added
    <3>4. CASE stop # {}
      <4> DEFINE s == SetMin(stop)
      <4>1. s \in stop
        <5>1. stop \in SUBSET Nat
          BY <1>1, <2>3
        <5> QED
          BY <3>4, <5>1, SetMinIs
      <4> HIDE DEF s
      <4>2. s \in 1..(n - m) /\ s > 1 /\ St(m + s - 1) <= y /\ y < En(m + s - 1)
        BY <2>3, <3>1, <4>1
      <4> DEFINE e == m + s - 1
      <4>3. e \in m..n /\ e - m = s - 1 /\ e \in 1..n
        BY <1>1, <4>2
      <4>4. added = SubSeq(rest, 1, s - 1)
        BY <2>4, <3>4 DEF s
      <4>5. added \in Seq(Chunks) /\ Len(added) = s - 1
        BY <1>1, <2>1, <4>2, <4>4
      <4>6. \A j \in 1..(s - 1) : added[j] = chain[m + j]
        <5> TAKE j \in 1..(s - 1)
        <5>1. j \in 1..(n - m)
          BY <1>1, <4>2
        <5>2. added[j] = rest[j]
          BY <1>1, <2>1, <4>2, <4>4
        <5> QED
          BY <2>1, <5>1, <5>2
      <4>7. y < En(e) /\ St(e) <= y
        BY <4>2
      <4> HIDE DEF e
      <4>8. x < En(e)
        BY <1>1, <1>2, <4>3, <4>7
      <4> QED
        BY <3>2, <4>3, <4>5, <4>6, <4>7, <4>8 DEF added
    <3> QED
      BY <3>3, <3>4
  <2> QED
    BY <2>5, <2>6
<1> QED
  BY <1>4, <1>5

\* The lookup trees hold neighbours of the list, and an update keeps that and
\* finds the chunk of from_pos; behind the last byte of the list there is none, and
\* the one used last remains.
Updated(u, lookup, from_pos, to_pos, lo, hi) ==
  /\ \/ u.lookup = lookup
     \/ \E h \in lo..Len(chain) :
          /\ u.lookup = {chain[i] : i \in lo..h}
          /\ St(h) <= Off(to_pos) \/ (lookup # {} /\ h = hi)
  /\ Off(from_pos) < End =>
       \E i \in 1..Len(chain) :
         u.chunk = chain[i] /\ St(i) <= Off(from_pos) /\ Off(from_pos) < En(i)
  /\ u.chunk = Null \/ \E i \in 1..Len(chain) : u.chunk = chain[i]

LEMMA UpdateIs ==
  ASSUME Geo, NEW used, used = Null \/ \E i \in 1..Len(chain) : used = chain[i],
         NEW lookup, NEW first, NEW from_pos \in Pos, NEW to_pos \in Pos,
         Near(Off(from_pos)), Near(Off(to_pos)), Off(from_pos) <= Off(to_pos), Off(to_pos) <= End,
         NEW lo \in 1..Len(chain), NEW hi \in 1..Len(chain), St(lo) <= Off(from_pos),
         \/ lookup = {} /\ first = chain[lo]
         \/ lookup # {} /\ lo <= hi /\ lookup = {chain[i] : i \in lo..hi}
  PROVE  Updated(Update(used, lookup, first, from_pos, to_pos), lookup, from_pos, to_pos, lo, hi)
<1> DEFINE c == IF lookup = {} THEN first ELSE FindNode(lookup, from_pos)
           added == Added(c, lookup, to_pos)
           found == FindIn(<<c>> \o added, from_pos)
           u == Update(used, lookup, first, from_pos, to_pos)
           x == Off(from_pos)
           n == Len(chain)
<1>1. u = IF used # Null /\ f_chunk_includes_pos(used, from_pos)
          THEN [lookup |-> lookup, chunk |-> used]
          ELSE [lookup |-> lookup \cup {c} \cup ToSet(added),
                chunk |-> IF found = Null THEN used ELSE found]
  BY DEF Update, Added, Stop, Rest
<1>2. n \in Nat /\ x \in Int /\ Off(to_pos) \in Int
  BY ListTypes DEF Geo, Near
<1>3. \A i \in 1..n : St(i) \in Int /\ En(i) \in Int
  BY ListTypes DEF Geo
<1> HIDE DEF u
<1>4. CASE used # Null /\ f_chunk_includes_pos(used, from_pos)
  <2>1. PICK i \in 1..n : used = chain[i]
    BY <1>4
  <2>2. St(i) <= x /\ x < En(i)
    BY <1>4, <2>1, Includes
  <2>3. u.lookup = lookup /\ u.chunk = chain[i]
    BY <1>1, <1>4, <2>1
  <2> QED
    BY <2>2, <2>3 DEF Updated, u
<1>5. CASE ~(used # Null /\ f_chunk_includes_pos(used, from_pos))
  <2>1. \E m \in lo..n :
          /\ c = chain[m] /\ St(m) <= x
          /\ \/ m < n /\ chain[m + 1] \in lookup /\ x < En(m)
             \/ \A i \in 1..n : m < i => chain[i] \notin lookup
          /\ \/ lookup = {} /\ m = lo
             \/ lookup # {} /\ m < hi /\ m + 1 \in 1..n /\ chain[m + 1] \in lookup
             \/ lookup # {} /\ m = hi
    <3>1. CASE lookup = {}
      <4>1. c = chain[lo] /\ lo \in lo..n
        BY <1>2, <3>1
      <4> QED
        BY <3>1, <4>1
    <3>2. CASE lookup # {}
      <4>1. lo <= hi /\ lookup = {chain[i] : i \in lo..hi}
        BY <3>2
      <4>2. PICK m \in lo..hi : /\ FindNode(lookup, from_pos) = chain[m]
                                /\ St(m) <= x
                                /\ \A j \in lo..hi : St(j) <= x => j <= m
        BY <4>1, FindNodeIs
      <4>3. c = chain[m] /\ m \in lo..n /\ m \in 1..n
        BY <1>2, <3>2, <4>2
      <4>4. CASE m = hi
        <5>1. ASSUME NEW i \in 1..n, m < i, chain[i] \in lookup PROVE FALSE
          <6>1. PICK j \in lo..hi : chain[i] = chain[j]
            BY <4>1, <5>1
          <6>2. j \in 1..n
            BY <1>2
          <6>3. i = j
            BY <6>1, <6>2, Inj
          <6> QED
            BY <1>2, <4>4, <5>1, <6>3
        <5> QED
          BY <3>2, <4>2, <4>3, <4>4, <5>1
      <4>5. CASE m # hi
        <5>1. m < n /\ m < hi /\ m + 1 \in lo..hi /\ m + 1 \in 1..n /\ m \in 1..(n - 1)
          BY <1>2, <4>3, <4>5
        <5>2. chain[m + 1] \in lookup
          BY <4>1, <5>1
        <5>3. ~(St(m + 1) <= x)
          BY <1>2, <4>2, <5>1
        <5>4. St(m + 1) = En(m)
          BY <5>1 DEF Geo, ChainInv
        <5>5. x < En(m)
          BY <1>2, <1>3, <5>1, <5>3, <5>4
        <5> QED
          BY <3>2, <4>2, <4>3, <5>1, <5>2, <5>5
      <4> QED
        BY <4>4, <4>5
    <3> QED
      BY <3>1, <3>2
  <2>2. PICK m \in lo..n :
          /\ c = chain[m] /\ St(m) <= x
          /\ \/ m < n /\ chain[m + 1] \in lookup /\ x < En(m)
             \/ \A i \in 1..n : m < i => chain[i] \notin lookup
          /\ \/ lookup = {} /\ m = lo
             \/ lookup # {} /\ m < hi /\ m + 1 \in 1..n /\ chain[m + 1] \in lookup
             \/ lookup # {} /\ m = hi
    BY <2>1
  <2> HIDE DEF c
  <2>3. m \in 1..n /\ lo \in Nat /\ hi \in Nat /\ m \in Nat /\ lo <= m /\ hi <= n
    BY <1>2
  <2>4. PICK e \in m..n :
           /\ added \in Seq(Chunks)
           /\ Len(added) = e - m
           /\ \A j \in 1..(e - m) : added[j] = chain[m + j]
           /\ x < End => x < En(e)
           /\ e = m \/ St(e) <= Off(to_pos)
           /\ m < n /\ chain[m + 1] \in lookup => e = m
    <3>1. x <= Off(to_pos) /\ St(m) <= x
      BY <2>2
    <3>2. \/ m < n /\ chain[m + 1] \in lookup /\ x < En(m)
          \/ \A i \in 1..n : m < i => chain[i] \notin lookup
      BY <2>2
    <3>3. c = chain[m]
      BY <2>2
    <3>4. x \in Int
      BY <1>2
    <3> HIDE DEF x
    <3>5. \E e \in m..Len(chain) :
           /\ Added(chain[m], lookup, to_pos) \in Seq(Chunks)
           /\ Len(Added(chain[m], lookup, to_pos)) = e - m
           /\ \A j \in 1..(e - m) : Added(chain[m], lookup, to_pos)[j] = chain[m + j]
           /\ x < End => x < En(e)
           /\ e = m \/ St(e) <= Off(to_pos)
           /\ m < Len(chain) /\ chain[m + 1] \in lookup => e = m
      <4>1. Near(Off(to_pos)) /\ Off(to_pos) <= End /\ to_pos \in Pos
        OBVIOUS
      <4> QED
        BY ONLY Geo, <2>3, <3>1, <3>2, <3>4, <4>1, AddedIs
    <3> QED
      BY <3>3, <3>5
  <2>5. e \in 1..n /\ m <= e /\ e \in Nat
    BY <1>2, <2>3
  <2> HIDE DEF added, found
  <2> DEFINE list == <<c>> \o added
  <2>6. Len(list) = e - m + 1 /\ DOMAIN list = 1..Len(list)
    BY <2>4, <2>5
  <2>7. \A j \in 1..(e - m + 1) : list[j] = chain[m + j - 1]
    <3> TAKE j \in 1..(e - m + 1)
    <3>1. CASE j = 1
      BY <2>2, <2>3, <2>4, <3>1
    <3>2. CASE j # 1
      <4>1. j - 1 \in 1..(e - m) /\ m + (j - 1) = m + j - 1
        BY <2>3, <2>5, <3>2
      <4>2. list[j] = added[j - 1]
        BY <2>3, <2>4, <2>5, <4>1
      <4> QED
        BY <2>4, <4>1, <4>2
    <3> QED
      BY <3>1, <3>2
  <2>8. ASSUME x < End
        PROVE  \E i \in 1..n : u.chunk = chain[i] /\ St(i) <= x /\ x < En(i)
    <3>1. PICK i \in m..n : St(i) <= x /\ x < En(i)
      BY <1>2, <2>2, <2>3, <2>8, Cover
    <3>2. i \in 1..n /\ i \in Nat
      BY <1>2, <2>3
    <3>3. i <= e
      <4>1. e < i => En(e) <= St(i)
        BY <2>5, <3>2 DEF Geo, ChainInv
      <4>2. x < En(e) /\ En(e) \in Int /\ St(i) \in Int
        BY <1>3, <2>4, <2>5, <2>8, <3>2
      <4> QED
        BY <1>2, <2>5, <3>1, <3>2, <4>1, <4>2
    <3>4. i \in m..e
      BY <2>3, <2>5, <3>2, <3>3
    <3>5. found = chain[i]
      <4> HIDE DEF list
      <4>1. m \in 1..Len(chain) /\ e \in 1..Len(chain) /\ m <= e /\ from_pos \in Pos /\ Near(Off(from_pos))
        BY <1>2, <2>3, <2>5
      <4>2. \A k \in m..e : St(k) <= Off(from_pos) /\ Off(from_pos) < En(k) => FindIn(list, from_pos) = chain[k]
        BY ONLY Geo, <1>2, <2>3, <2>5, <2>6, <2>7, <4>1, FindAt, SMTT(30)
      <4> QED
        BY <3>1, <3>4, <4>2 DEF found, list
    <3>6. chain[i] \in Chunks /\ chain[i] # Null
      BY <3>2, ListTypes, FifoAssumption DEF Geo
    <3>7. u.chunk = chain[i]
      BY <1>1, <1>5, <3>5, <3>6
    <3> QED
      BY <3>1, <3>2, <3>7
  <2>9. ASSUME ~(x < End) PROVE u.chunk = used
    <3>1. ASSUME NEW j \in 1..(e - m + 1) PROVE ~f_chunk_includes_pos(list[j], from_pos)
      <4>0. m + j - 1 \in 1..n
        BY ONLY <1>2, <2>3, <2>5, <3>1
      <4>1. m + j - 1 \in 1..n /\ list[j] = chain[m + j - 1]
        <5> HIDE DEF list
        <5> QED
          BY <2>7, <4>0
      <4>2. En(m + j - 1) <= End /\ En(m + j - 1) \in Int /\ End \in Int
        BY <4>1, ListNear, ListTypes DEF Geo
      <4>3. ~(x < En(m + j - 1))
        BY <1>2, <2>9, <4>2
      <4> QED
        BY <4>1, <4>3, Includes
    <3>2. found = Null
      BY <2>6, <3>1 DEF found, list, FindIn
    <3> QED
      BY <1>1, <1>5, <3>2
  <2>10. u.chunk = Null \/ \E i \in 1..n : u.chunk = chain[i]
    BY <2>8, <2>9
  <2>12. u.lookup = lookup \cup {chain[j] : j \in m..e}
    <3>1. ToSet(added) = {added[j] : j \in 1..(e - m)}
      <4>1. DOMAIN added = 1..(e - m)
        BY ONLY <2>4
      <4> QED
        BY ONLY <4>1, Zenon DEF ToSet
    <3>2. {c} \cup ToSet(added) = {chain[j] : j \in m..e}
      <4>1. ASSUME NEW d \in {c} \cup ToSet(added) PROVE d \in {chain[j] : j \in m..e}
        <5>1. CASE d = c
          <6>1. m \in m..e
            BY <2>3, <2>5
          <6> QED
            BY <2>2, <5>1, <6>1
        <5>2. CASE d \in ToSet(added)
          <6>1. PICK j \in 1..(e - m) : d = added[j]
            BY <3>1, <5>2
          <6>2. d = chain[m + j] /\ m + j \in m..e
            BY <2>3, <2>4, <2>5, <6>1, SMTT(20)
          <6> QED
            BY <6>2
        <5> QED
          BY <4>1, <5>1, <5>2
      <4>2. ASSUME NEW j \in m..e PROVE chain[j] \in {c} \cup ToSet(added)
        <5>1. CASE j = m
          BY <2>2, <5>1
        <5>2. CASE j # m
          <6>1. j - m \in 1..(e - m) /\ m + (j - m) = j
            BY <2>3, <2>5, <5>2
          <6>2. added[j - m] = chain[j]
            BY <2>4, <6>1
          <6> QED
            BY <3>1, <6>1, <6>2
        <5> QED
          BY <5>1, <5>2
      <4> QED
        BY <4>1, <4>2
    <3>3. u.lookup = lookup \cup {c} \cup ToSet(added)
      BY <1>1, <1>5
    <3> QED
      BY <3>2, <3>3
  <2>13. CASE lookup = {} /\ m = lo
    <3>1. u.lookup = {chain[j] : j \in lo..e} /\ e \in lo..n
      BY <2>12, <2>13
    <3>2. St(e) <= Off(to_pos)
      <4>1. St(m) <= Off(to_pos)
        BY <1>2, <1>3, <2>2, <2>3
      <4> QED
        BY <2>4, <4>1
    <3> QED
      BY <2>8, <2>10, <3>1, <3>2 DEF Updated, u
  <2>14. CASE lookup # {} /\ m < hi /\ m + 1 \in 1..n /\ chain[m + 1] \in lookup
    <3>1. e = m
      <4>1. m < n
        BY <1>2, <2>3, <2>14
      <4> QED
        BY <2>4, <2>14, <4>1
    <3>2. lo <= hi /\ lookup = {chain[j] : j \in lo..hi}
      BY <2>14
    <3>3. m \in lo..hi /\ \A j \in m..e : j = m
      BY <2>3, <2>14, <3>1
    <3>4. chain[m] \in lookup
      BY <3>2, <3>3
    <3>5. u.lookup = lookup
      BY <2>12, <3>3, <3>4
    <3> QED
      BY <2>8, <2>10, <3>5 DEF Updated, u
  <2>15. CASE lookup # {} /\ m = hi
    <3>1. lo <= hi /\ lookup = {chain[j] : j \in lo..hi}
      BY <2>15
    <3>2. u.lookup = {chain[j] : j \in lo..e}
      <4>1. \A j \in lo..e : j \in lo..hi \/ j \in m..e
        BY <2>3, <2>5, <2>15
      <4>2. \A j \in lo..hi : j \in lo..e
        BY <2>3, <2>5, <2>15
      <4>3. \A j \in m..e : j \in lo..e
        BY <2>3, <2>5
      <4>4. u.lookup = {chain[j] : j \in lo..hi} \cup {chain[j] : j \in m..e}
        BY <2>12, <3>1
      <4>5. ASSUME NEW d \in u.lookup PROVE d \in {chain[j] : j \in lo..e}
        BY <4>2, <4>3, <4>4, <4>5
      <4>6. ASSUME NEW j \in lo..e PROVE chain[j] \in u.lookup
        BY <4>1, <4>4
      <4> QED
        BY <4>5, <4>6
    <3>3. e \in lo..n /\ (St(e) <= Off(to_pos) \/ (lookup # {} /\ e = hi))
      BY <2>3, <2>4, <2>5, <2>15
    <3> QED
      BY <2>8, <2>10, <3>2, <3>3 DEF Updated, u
  <2> QED
    BY <2>2, <2>13, <2>14, <2>15
<1> QED
  BY <1>4, <1>5
-----------------------------------------------------------------------------
(* Out-of-order segments. *)

SegRec == [start : Pos, length : Nat \ {0}]

LEMMA PosCmp ==
  ASSUME Geo, NEW p \in Pos, NEW q \in Pos, Near(Off(p)), Near(Off(q))
  PROVE  /\ Off(p) \in Int /\ Off(q) \in Int
         /\ Diff(p, q) = Off(p) - Off(q)
         /\ f_pos_lt(p, q) <=> Off(p) < Off(q)
         /\ f_pos_leq(p, q) <=> Off(p) <= Off(q)
         /\ f_pos_gt(p, q) <=> Off(p) > Off(q)
         /\ f_pos_geq(p, q) <=> Off(p) >= Off(q)
<1>1. Diff(p, q) = Off(p) - Off(q)
  BY OffDiff DEF Off, Geo, Types
<1>2. Off(p) \in Int /\ Off(q) \in Int
  BY DEF Near
<1> QED
  BY <1>1, <1>2 DEF f_pos_lt, f_pos_leq, f_pos_gt, f_pos_geq

LEMMA SegIs ==
  ASSUME Geo, NEW p \in Pos, NEW q \in Pos, Near(Off(p)), Near(Off(q)), Off(p) < Off(q)
  PROVE  /\ Seg(p, q) \in SegRec /\ Seg(p, q).start = p
         /\ Off(Seg(p, q).start) + Seg(p, q).length = Off(q)
<1>1. Off(p) \in Int /\ Off(q) \in Int /\ Off(p) <= Off(q)
  BY PosCmp
<1>2. Minus(q, p) = Off(q) - Off(p)
  BY <1>1, OffMinus DEF Off, Geo, Types
<1> QED
  BY <1>1, <1>2 DEF Seg, SegRec

LEMMA SegsNear ==
  ASSUME Geo, SegInv
  PROVE  /\ Len(ooos) \in Nat /\ ooos \in Seq(SegRec)
         /\ \A i \in 1..Len(ooos) :
              /\ ooos[i].start \in Pos /\ ooos[i].length \in Nat \ {0}
              /\ SegSt(i) \in Int /\ SegEn(i) \in Int /\ SegSt(i) < SegEn(i)
              /\ SegEn(i) = SegSt(i) + ooos[i].length
              /\ Near(SegSt(i)) /\ Near(SegEn(i))
              /\ ooo_segment_end_pos(ooos[i]) \in Pos
              /\ Off(ooo_segment_end_pos(ooos[i])) = SegEn(i)
<1>1. Len(ooos) \in Nat /\ ooos \in Seq(SegRec)
  BY DEF Geo, Types, SegRec
<1>2. ASSUME NEW i \in 1..Len(ooos)
      PROVE   /\ ooos[i].start \in Pos /\ ooos[i].length \in Nat \ {0}
              /\ SegSt(i) \in Int /\ SegEn(i) \in Int /\ SegSt(i) < SegEn(i)
              /\ SegEn(i) = SegSt(i) + ooos[i].length
              /\ Near(SegSt(i)) /\ Near(SegEn(i))
              /\ ooo_segment_end_pos(ooos[i]) \in Pos
              /\ Off(ooo_segment_end_pos(ooos[i])) = SegEn(i)
  <2>1. ooos[i] \in SegRec
    BY <1>1
  <2>2. ooos[i].start \in Pos /\ ooos[i].length \in Nat \ {0}
    BY <2>1 DEF SegRec
  <2>3. SegSt(i) \in Int
    BY <2>2, OffInt DEF SegSt, Geo
  <2>4. SegEn(i) \in Int /\ SegSt(i) < SegEn(i) /\ SegEn(i) = SegSt(i) + ooos[i].length
    BY <2>2, <2>3 DEF SegEn
  <2>5. Off(produced) < SegSt(i) /\ SegEn(i) <= End
    BY DEF SegInv
  <2>6. Near(Off(produced)) /\ Near(End) /\ Off(produced) \in Int /\ End \in Int
    BY ListNear, ListTypes DEF Geo
  <2>7. Near(SegSt(i)) /\ Near(SegEn(i))
    <3>1. Off(produced) <= SegSt(i) /\ SegSt(i) <= End /\ Off(produced) <= SegEn(i)
      BY <2>3, <2>4, <2>5, <2>6
    <3> QED
      BY <2>3, <2>4, <2>5, <2>6, <3>1, NearBetween
  <2>8. /\ ooo_segment_end_pos(ooos[i]) \in Pos
        /\ Off(ooo_segment_end_pos(ooos[i])) = SegEn(i)
    <3>1. Near(SegSt(i) + ooos[i].length)
      BY <2>4, <2>7
    <3> QED
      BY <2>2, <2>4, <2>7, <3>1, OffPlus DEF ooo_segment_end_pos, SegSt, Off, Geo, Types
  <2> QED
    BY <2>2, <2>3, <2>4, <2>7, <2>8
<1> QED
  BY <1>1, <1>2

\* A list of segments that are sorted and apart, and what it covers.
Apart(r) ==
  /\ r \in Seq(SegRec)
  /\ \A i \in 1..Len(r) : /\ Off(produced) < Off(r[i].start)
                          /\ Off(r[i].start) + r[i].length <= Size
                          /\ Off(r[i].start) + r[i].length <= End
  /\ \A i, j \in 1..Len(r) : i < j => Off(r[i].start) + r[i].length < Off(r[j].start)
InSegs(r, x) == \E i \in 1..Len(r) : Off(r[i].start) <= x /\ x < Off(r[i].start) + r[i].length

\* Segment s takes the place of those between the k1-th and the k2-th.
Splice(r, s, k1, k2) ==
  /\ r \in Seq(SegRec)
  /\ Len(r) = k1 + 1 + (Len(ooos) + 1 - k2)
  /\ \A i \in 1..k1 : r[i] = ooos[i]
  /\ r[k1 + 1] = s
  /\ \A i \in (k1 + 2)..Len(r) : r[i] = ooos[i + k2 - k1 - 2]

LEMMA SpliceApart ==
  ASSUME Geo, SegInv, NEW s \in SegRec, NEW k1 \in 0..Len(ooos),
         NEW k2 \in (k1 + 1)..(Len(ooos) + 1), NEW r, Splice(r, s, k1, k2),
         NEW S \in Int, NEW E \in Int, S = Off(s.start), E = S + s.length,
         Off(produced) < S, E <= Size, E <= End,
         k1 >= 1 => SegEn(k1) < S,
         k2 <= Len(ooos) => E < SegSt(k2)
  PROVE  /\ Apart(r) /\ Len(r) >= 1
         /\ \A x \in Int : InSegs(r, x) => (S <= x /\ x < E) \/ InSegs(ooos, x)
         /\ Off(r[Len(r)].start) + r[Len(r)].length =
              IF k2 <= Len(ooos) THEN SegEn(Len(ooos)) ELSE E
<1> DEFINE n == Len(ooos)
           q == Len(r)
           old(i) == IF i <= k1 THEN i ELSE i + k2 - k1 - 2
<1>1. /\ n \in Nat
      /\ \A i \in 1..n : /\ SegSt(i) \in Int /\ SegEn(i) \in Int /\ SegSt(i) < SegEn(i)
                         /\ SegSt(i) = Off(ooos[i].start)
                         /\ SegEn(i) = Off(ooos[i].start) + ooos[i].length
  BY SegsNear DEF SegSt
<1>2. /\ r \in Seq(SegRec) /\ q = k1 + 1 + (n + 1 - k2) /\ r[k1 + 1] = s
      /\ k1 \in Nat /\ k2 \in Nat /\ k1 < k2 /\ k2 <= n + 1
  BY <1>1 DEF Splice
<1>a. q = k1 + 1 + (n + 1 - k2) /\ k1 \in Nat /\ k2 \in Nat /\ k1 < k2 /\ k2 <= n + 1 /\ n \in Nat
  BY <1>1, <1>2
<1>3. ASSUME NEW i \in 1..q, i # k1 + 1
      PROVE  /\ old(i) \in 1..n /\ r[i] = ooos[old(i)]
             /\ Off(r[i].start) = SegSt(old(i)) /\ Off(r[i].start) + r[i].length = SegEn(old(i))
  <2>1. CASE i <= k1
    <3>1. old(i) = i /\ i \in 1..n /\ i \in 1..k1
      BY <1>1, <1>2, <2>1
    <3>2. r[i] = ooos[i]
      BY <3>1 DEF Splice
    <3> QED
      BY <1>1, <3>1, <3>2
  <2>2. CASE i > k1
    <3>1. old(i) = i + k2 - k1 - 2 /\ old(i) \in 1..n /\ i \in (k1 + 2)..q
      BY <1>1, <1>2, <1>3, <2>2
    <3>2. r[i] = ooos[i + k2 - k1 - 2]
      BY <3>1 DEF Splice
    <3>3. r[i] = ooos[old(i)]
      BY <3>1, <3>2
    <3> HIDE DEF old
    <3> QED
      BY <1>1, <3>1, <3>3
  <2> QED
    BY <1>2, <2>1, <2>2
<1>4. \A i, j \in 1..n : i < j => SegEn(i) < SegSt(j)
  BY DEF SegInv
<1>5. ASSUME NEW i \in 1..q
      PROVE  /\ Off(produced) < Off(r[i].start)
             /\ Off(r[i].start) + r[i].length <= Size
             /\ Off(r[i].start) + r[i].length <= End
  <2>1. CASE i = k1 + 1
    BY <1>2, <2>1
  <2>2. CASE i # k1 + 1
    <3>1. /\ old(i) \in 1..n
          /\ Off(r[i].start) = SegSt(old(i)) /\ Off(r[i].start) + r[i].length = SegEn(old(i))
      BY <1>3, <2>2
    <3> HIDE DEF old
    <3> QED
      BY <3>1 DEF SegInv
  <2> QED
    BY <2>1, <2>2
<1>6. ASSUME NEW i \in 1..q, NEW j \in 1..q, i < j
      PROVE  Off(r[i].start) + r[i].length < Off(r[j].start)
  <2>0. i \in Nat /\ j \in Nat
    BY <1>1, <1>2, SMTT(20)
  <2>1. CASE i # k1 + 1 /\ j # k1 + 1
    <3>1. old(i) < old(j)
      <4> USE ONLY <1>a, <1>6, <2>0, <2>1
      <4>1. CASE i <= k1 /\ j <= k1
        BY <4>1
      <4>2. CASE i <= k1 /\ j > k1
        BY <4>2
      <4>3. CASE i > k1 /\ j > k1
        BY <4>3
      <4> QED
        BY <4>1, <4>2, <4>3
    <3>2. /\ old(i) \in 1..n /\ Off(r[i].start) + r[i].length = SegEn(old(i))
          /\ old(j) \in 1..n /\ Off(r[j].start) = SegSt(old(j))
      BY <1>3, <2>1
    <3> HIDE DEF old
    <3> QED
      BY <1>4, <3>1, <3>2
  <2>2. CASE i = k1 + 1
    <3>1. j # k1 + 1 /\ k2 <= n /\ k2 <= old(j)
      BY <1>1, <1>2, <1>6, <2>0, <2>2
    <3>2. old(j) \in 1..n /\ Off(r[j].start) = SegSt(old(j))
      BY <1>3, <3>1
    <3>3. E < SegSt(k2) /\ k2 \in 1..n
      BY <1>2, <3>1
    <3> HIDE DEF old
    <3>4. k2 = old(j) \/ SegEn(k2) < SegSt(old(j))
      BY <1>1, <1>2, <1>4, <3>1, <3>2, <3>3, SMTT(20)
    <3>5. E < SegSt(old(j))
      BY <1>1, <3>2, <3>3, <3>4, SMTT(20)
    <3> QED
      BY <1>2, <2>2, <3>2, <3>5
  <2>3. CASE j = k1 + 1
    <3>1. i # k1 + 1 /\ k1 >= 1 /\ old(i) <= k1 /\ k1 \in 1..n
      BY <1>1, <1>2, <1>6, <2>0, <2>3
    <3>2. old(i) \in 1..n /\ Off(r[i].start) + r[i].length = SegEn(old(i))
      BY <1>3, <3>1
    <3>3. SegEn(k1) < S
      BY <3>1
    <3> HIDE DEF old
    <3>4. k1 = old(i) \/ SegEn(old(i)) < SegSt(k1)
      BY <1>1, <1>2, <1>4, <3>1, <3>2, SMTT(20)
    <3>5. SegEn(old(i)) < S
      BY <1>1, <3>1, <3>2, <3>3, <3>4, SMTT(20)
    <3> QED
      BY <1>2, <2>3, <3>2, <3>5
  <2> QED
    BY <2>1, <2>2, <2>3
<1>7. Apart(r)
  BY <1>2, <1>5, <1>6 DEF Apart
<1>8. ASSUME NEW x \in Int, InSegs(r, x) PROVE (S <= x /\ x < E) \/ InSegs(ooos, x)
  <2>1. PICK i \in 1..q : Off(r[i].start) <= x /\ x < Off(r[i].start) + r[i].length
    BY <1>8 DEF InSegs
  <2>2. CASE i = k1 + 1
    BY <1>2, <2>1, <2>2
  <2>3. CASE i # k1 + 1
    <3>1. old(i) \in 1..n /\ r[i] = ooos[old(i)]
      BY <1>3, <2>3
    <3> HIDE DEF old
    <3> QED
      BY <2>1, <3>1 DEF InSegs
  <2> QED
    BY <2>2, <2>3
<1>9. Off(r[q].start) + r[q].length = IF k2 <= n THEN SegEn(n) ELSE E
  <2>1. CASE k2 <= n
    <3>1. q \in 1..q /\ q # k1 + 1 /\ old(q) = n
      BY <1>1, <1>2, <2>1, SMTT(20)
    <3>2. Off(r[q].start) + r[q].length = SegEn(old(q))
      BY <1>3, <3>1
    <3> QED
      BY <2>1, <3>1, <3>2
  <2>2. CASE ~(k2 <= n)
    <3>1. q = k1 + 1
      BY ONLY <1>a, <2>2
    <3> QED
      BY <1>2, <2>2, <3>1
  <2> QED
    BY <2>1, <2>2
<1>10. q >= 1
  BY <1>1, <1>2
<1> QED
  BY <1>7, <1>8, <1>9, <1>10

LEMMA Concat ==
  ASSUME NEW S, NEW u \in Seq(S), NEW v \in Seq(S)
  PROVE  u \o v \in Seq(S)
OBVIOUS

\* Sequence r is u followed by v.
Joined(r, u, v) ==
  /\ Len(r) = Len(u) + Len(v)
  /\ \A i \in 1..Len(u) : r[i] = u[i]
  /\ \A i \in 1..Len(v) : r[Len(u) + i] = v[i]

LEMMA Joins ==
  ASSUME NEW S, NEW u \in Seq(S), NEW v \in Seq(S), NEW r, r = u \o v
  PROVE  Joined(r, u, v)
BY DEF Joined

LEMMA SpliceOf ==
  ASSUME ooos \in Seq(SegRec), NEW s \in SegRec, NEW k1 \in 0..Len(ooos),
         NEW k2 \in (k1 + 1)..(Len(ooos) + 1),
         NEW r, r = SubSeq(ooos, 1, k1) \o <<s>> \o SubSeq(ooos, k2, Len(ooos))
  PROVE  Splice(r, s, k1, k2)
<1> DEFINE n == Len(ooos)
           u == SubSeq(ooos, 1, k1)
           v == SubSeq(ooos, k2, n)
<1>1. n \in Nat /\ k1 \in Nat /\ k2 \in Nat /\ k1 <= n /\ k1 < k2 /\ k2 <= n + 1
  OBVIOUS
<1>2. u \in Seq(SegRec) /\ Len(u) = k1 /\ \A i \in 1..k1 : u[i] = ooos[i]
  BY <1>1
<1>3. v \in Seq(SegRec) /\ Len(v) = n + 1 - k2 /\ \A i \in 1..(n + 1 - k2) : v[i] = ooos[k2 + i - 1]
  <2>1. CASE k2 = n + 1
    BY <1>1, <2>1
  <2>2. CASE k2 <= n
    BY <1>1, <2>2
  <2> QED
    BY <1>1, <2>1, <2>2
<1>4. r = u \o <<s>> \o v
  OBVIOUS
<1> HIDE DEF u, v
<1> DEFINE w == u \o <<s>>
<1>5. /\ w \in Seq(SegRec) /\ Len(w) = k1 + 1 /\ w[k1 + 1] = s
      /\ \A i \in 1..k1 : w[i] = u[i]
  BY <1>1, <1>2
<1> HIDE DEF w
<1>6. r = w \o v
  BY <1>4 DEF w
<1>a. w \in Seq(SegRec) /\ v \in Seq(SegRec) /\ Len(w) = k1 + 1 /\ Len(v) = n + 1 - k2
  BY <1>3, <1>5
<1>b. /\ r \in Seq(SegRec) /\ Len(r) = Len(w) + Len(v)
      /\ \A i \in 1..Len(w) : r[i] = w[i]
      /\ \A i \in 1..Len(v) : r[Len(w) + i] = v[i]
  <2>1. r \in Seq(SegRec)
    BY <1>a, <1>6, Concat
  <2>2. Joined(r, w, v)
    BY <1>a, <1>6, Joins
  <2> QED
    BY <2>1, <2>2 DEF Joined
<1>7. /\ r \in Seq(SegRec) /\ Len(r) = k1 + 1 + (n + 1 - k2)
      /\ \A i \in 1..(k1 + 1) : r[i] = w[i]
  BY <1>a, <1>b
<1>8. ASSUME NEW i \in (k1 + 2)..Len(r) PROVE r[i] = ooos[i + k2 - k1 - 2]
  <2> DEFINE j == i - (k1 + 1)
             l == Len(r)
  <2>0. i \in (k1 + 2)..l /\ l = k1 + 1 + (n + 1 - k2)
    BY <1>7
  <2> HIDE DEF n, l
  <2>1. j \in 1..(n + 1 - k2) /\ i = (k1 + 1) + j
    BY ONLY <1>1, <2>0
  <2> HIDE DEF j
  <2>2. r[i] = v[j]
    BY <1>a, <1>b, <2>1
  <2>3. k2 + j - 1 = i + k2 - k1 - 2
    BY ONLY <1>1, <2>1
  <2> QED
    BY <1>3, <2>1, <2>2, <2>3
<1>9. ASSUME NEW i \in 1..k1 PROVE r[i] = ooos[i]
  <2>1. i \in 1..(k1 + 1)
    BY <1>1
  <2> QED
    BY <1>2, <1>5, <1>7, <2>1
<1>10. r[k1 + 1] = s
  <2>1. k1 + 1 \in 1..(k1 + 1)
    BY <1>1
  <2> QED
    BY <1>5, <1>7, <2>1
<1> QED
  BY <1>7, <1>8, <1>9, <1>10 DEF Splice

LEMMA SpliceExcept ==
  ASSUME ooos \in Seq(SegRec), NEW s \in SegRec, NEW k \in 1..Len(ooos),
         NEW r, r = [ooos EXCEPT ![k] = s]
  PROVE  Splice(r, s, k - 1, k + 1)
<1>1. Len(ooos) \in Nat /\ k \in Nat
  OBVIOUS
<1>2. r \in Seq(SegRec) /\ Len(r) = Len(ooos) /\ r[k] = s
  OBVIOUS
<1>3. \A i \in 1..Len(ooos) : i # k => r[i] = ooos[i]
  OBVIOUS
<1>4. ASSUME NEW i \in (k - 1 + 2)..Len(r) PROVE r[i] = ooos[i + (k + 1) - (k - 1) - 2]
  <2>1. i \in 1..Len(ooos) /\ i # k /\ i + (k + 1) - (k - 1) - 2 = i
    BY <1>1, <1>2
  <2> QED
    BY <1>3, <2>1
<1>5. \A i \in 1..(k - 1) : r[i] = ooos[i]
  BY <1>1, <1>3
<1>6. k - 1 + 1 = k /\ Len(r) = (k - 1) + 1 + (Len(ooos) + 1 - (k + 1))
  <2>1. Len(r) = Len(ooos)
    BY <1>2
  <2> QED
    BY ONLY <1>1, <2>1
<1> QED
  BY <1>2, <1>4, <1>5, <1>6 DEF Splice

\* Bytes from a up to b are added: the segments stay apart, cover nothing else,
\* and the last one does not end earlier.
LEMMA SegmentAdd ==
  ASSUME Geo, SegInv, NEW a \in Pos, NEW b \in Pos, Near(Off(a)), Near(Off(b)),
         Off(a) < Off(b), Off(produced) < Off(a), Off(b) <= Size, Off(b) <= End
  PROVE  /\ Apart(ooo_segment_add(a, b)) /\ Len(ooo_segment_add(a, b)) >= 1
         /\ \A x \in Int : InSegs(ooo_segment_add(a, b), x) =>
              (Off(a) <= x /\ x < Off(b)) \/ InSegs(ooos, x)
         /\ LET r == ooo_segment_add(a, b)
            IN /\ Off(b) <= Off(r[Len(r)].start) + r[Len(r)].length
               /\ ooos # <<>> => SegEn(Len(ooos)) <= Off(r[Len(r)].start) + r[Len(r)].length
<1> DEFINE n == Len(ooos)
           A == Off(a)
           B == Off(b)
           r == ooo_segment_add(a, b)
           ends == Off(r[Len(r)].start) + r[Len(r)].length
<1> DEFINE Good(s, k1, k2, S, E) ==
               /\ Splice(r, s, k1, k2)
               /\ S = Off(s.start) /\ E = S + s.length
               /\ Off(produced) < S /\ E <= Size /\ E <= End
               /\ k1 >= 1 => SegEn(k1) < S
               /\ k2 <= n => E < SegSt(k2)
               /\ B <= E
               /\ k2 = n + 1 /\ n > 0 => SegEn(n) <= E
               /\ \A x \in Int : S <= x /\ x < E => (A <= x /\ x < B) \/ InSegs(ooos, x)
<1> SUFFICES \E s \in SegRec, k1 \in 0..n : \E k2 \in (k1 + 1)..(n + 1), S, E \in Int :
               Good(s, k1, k2, S, E)
  <2>1. PICK s \in SegRec, k1 \in 0..n : \E k2 \in (k1 + 1)..(n + 1), S, E \in Int :
               Good(s, k1, k2, S, E)
    OBVIOUS
  <2>2. PICK k2 \in (k1 + 1)..(n + 1), S \in Int, E \in Int : Good(s, k1, k2, S, E)
    BY <2>1
  <2> HIDE DEF r, A, B
  <2>3. /\ Apart(r) /\ Len(r) >= 1
        /\ \A x \in Int : InSegs(r, x) => (S <= x /\ x < E) \/ InSegs(ooos, x)
        /\ ends = IF k2 <= n THEN SegEn(n) ELSE E
    <3>1. /\ Splice(r, s, k1, k2) /\ S = Off(s.start) /\ E = S + s.length
          /\ Off(produced) < S /\ E <= Size /\ E <= End
          /\ k1 >= 1 => SegEn(k1) < S
          /\ k2 <= n => E < SegSt(k2)
      BY <2>2
    <3> HIDE DEF Good
    <3> QED
      BY <3>1, SpliceApart, SMTT(30)
  <2>4. \A x \in Int : InSegs(r, x) => (A <= x /\ x < B) \/ InSegs(ooos, x)
    BY <2>2, <2>3
  <2>5. /\ n \in Nat /\ k1 \in Nat /\ k2 \in Nat /\ k1 < k2 /\ k2 <= n + 1 /\ B \in Int
        /\ \A i \in 1..n : SegSt(i) \in Int /\ SegEn(i) \in Int /\ SegSt(i) < SegEn(i)
    BY SegsNear, PosCmp DEF B
  <2> HIDE DEF ends
  <2>6. B <= ends /\ (n > 0 => SegEn(n) <= ends)
    <3>1. CASE k2 <= n
      <4>1. k2 \in 1..n /\ n \in 1..n /\ ends = SegEn(n) /\ E < SegSt(k2) /\ B <= E
        BY <2>2, <2>3, <2>5, <3>1
      <4>2. k2 = n \/ SegEn(k2) < SegSt(n)
        BY <2>5, <3>1, <4>1 DEF SegInv
      <4> DEFINE s2 == SegSt(k2)
                 e2 == SegEn(k2)
                 sn == SegSt(n)
                 en == SegEn(n)
      <4>3. /\ s2 \in Int /\ e2 \in Int /\ sn \in Int /\ en \in Int /\ s2 < e2 /\ sn < en
            /\ B \in Int /\ ends = en /\ E < s2 /\ B <= E
            /\ (s2 = sn /\ e2 = en) \/ e2 < sn
        BY <2>5, <4>1, <4>2
      <4> HIDE DEF s2, e2, sn, en
      <4>4. B <= ends /\ en <= ends
        BY ONLY <4>3, E \in Int
      <4> QED
        BY <4>4 DEF en
    <3>2. CASE ~(k2 <= n)
      BY <2>2, <2>3, <2>5, <3>2
    <3> QED
      BY <3>1, <3>2
  <2>7. ooos # <<>> => n > 0
    BY SegsNear
  <2> QED
    BY <2>3, <2>4, <2>6, <2>7 DEF r, ends, A, B
<1>1. /\ n \in Nat /\ A \in Int /\ B \in Int /\ A < B /\ ooos \in Seq(SegRec)
      /\ Off(produced) \in Int /\ End \in Int /\ Size \in Nat
  BY SegsNear, PosCmp, ListTypes, FifoAssumption DEF Geo
<1>2. \A i \in 1..n : SegSt(i) \in Int /\ SegEn(i) \in Int /\ SegSt(i) < SegEn(i)
  BY SegsNear
<1>3. \A i, j \in 1..n : i < j => SegEn(i) < SegSt(j)
  BY DEF SegInv
<1>4. \A i \in 1..n : Off(produced) < SegSt(i) /\ SegEn(i) <= Size /\ SegEn(i) <= End
  BY DEF SegInv
<1>5. \A i \in 1..n :
        /\ f_pos_lt(ooos[i].start, a) <=> SegSt(i) < A
        /\ f_pos_lt(a, ooos[i].start) <=> A < SegSt(i)
        /\ f_pos_lt(b, ooos[i].start) <=> B < SegSt(i)
        /\ f_pos_leq(ooos[i].start, b) <=> SegSt(i) <= B
        /\ f_pos_leq(a, ooo_segment_end_pos(ooos[i])) <=> A <= SegEn(i)
        /\ f_pos_gt(a, ooo_segment_end_pos(ooos[i])) <=> A > SegEn(i)
        /\ f_pos_gt(b, ooo_segment_end_pos(ooos[i])) <=> B > SegEn(i)
        /\ f_pos_leq(ooo_segment_end_pos(ooos[i]), b) <=> SegEn(i) <= B
  <2> TAKE i \in 1..n
  <2>1. ooos[i].start \in Pos /\ Near(Off(ooos[i].start)) /\ Off(ooos[i].start) = SegSt(i)
    BY SegsNear DEF SegSt
  <2> DEFINE e == ooo_segment_end_pos(ooos[i])
  <2>2. e \in Pos /\ Near(Off(e)) /\ Off(e) = SegEn(i)
    BY SegsNear
  <2> HIDE DEF e
  <2>3. /\ f_pos_lt(ooos[i].start, a) <=> SegSt(i) < A
        /\ f_pos_lt(a, ooos[i].start) <=> A < SegSt(i)
        /\ f_pos_lt(b, ooos[i].start) <=> B < SegSt(i)
        /\ f_pos_leq(ooos[i].start, b) <=> SegSt(i) <= B
    BY <2>1, PosCmp
  <2>4. /\ f_pos_leq(a, e) <=> A <= SegEn(i)
        /\ f_pos_gt(a, e) <=> A > SegEn(i)
        /\ f_pos_gt(b, e) <=> B > SegEn(i)
        /\ f_pos_leq(e, b) <=> SegEn(i) <= B
    BY <2>2, PosCmp
  <2> QED
    BY <2>3, <2>4 DEF e
<1>6. \A i \in 1..n : \A x \in Int : SegSt(i) <= x /\ x < SegEn(i) => InSegs(ooos, x)
  BY DEF InSegs, SegSt, SegEn
<1> DEFINE i == SetMin({j \in 1..n : j = n \/ ~f_pos_lt(ooos[j].start, a)})
           onPrev == i > 1 /\ f_pos_leq(a, ooo_segment_end_pos(ooos[i - 1]))
           k == IF onPrev THEN i - 1 ELSE i
           start == IF ~onPrev /\ f_pos_lt(a, ooos[k].start) THEN a ELSE ooos[k].start
           it == SetMin({j \in (k + 1)..(n + 1) :
                      j = n + 1 \/ ~f_pos_leq(ooo_segment_end_pos(ooos[j]), b)})
           merges == it <= n /\ f_pos_leq(ooos[it].start, b)
           last == IF merges THEN ooo_segment_end_pos(ooos[it]) ELSE b
<1>7. /\ Seg(a, b) \in SegRec /\ Off(Seg(a, b).start) = A
      /\ Off(Seg(a, b).start) + Seg(a, b).length = B
  BY SegIs
<1>8. CASE n = 0
  <2>1. r = <<Seg(a, b)>>
    BY <1>8 DEF ooo_segment_add
  <2>2. r = SubSeq(ooos, 1, 0) \o <<Seg(a, b)>> \o SubSeq(ooos, 1, n)
    BY <1>1, <1>7, <1>8, <2>1
  <2> DEFINE s == Seg(a, b)
  <2>3. 0 \in 0..n /\ 1 \in (0 + 1)..(n + 1) /\ s \in SegRec
    BY <1>7, <1>8
  <2>4. Splice(r, s, 0, 1)
    BY <1>1, <2>2, <2>3, SpliceOf, Zenon
  <2> HIDE DEF r, s, A, B
  <2>5. /\ Off(s.start) = A /\ Off(s.start) + s.length = B
    BY <1>7 DEF s
  <2>6. Off(produced) < A /\ B <= Size /\ B <= End
    BY DEF A, B
  <2>7. Good(s, 0, 1, A, B)
    BY <1>1, <1>8, <2>4, <2>5, <2>6
  <2> HIDE DEF Good
  <2> QED
    BY <1>1, <2>3, <2>7
<1>9. CASE n # 0
  <2>1. /\ ~onPrev /\ f_pos_lt(b, ooos[k].start) => r = InsertAt(ooos, k, Seg(a, b))
        /\ /\ ~(~onPrev /\ f_pos_lt(b, ooos[k].start))
           /\ ~onPrev /\ f_pos_gt(a, ooo_segment_end_pos(ooos[k]))
           => r = InsertAt(ooos, k + 1, Seg(a, b))
        /\ /\ ~(~onPrev /\ f_pos_lt(b, ooos[k].start))
           /\ ~(~onPrev /\ f_pos_gt(a, ooo_segment_end_pos(ooos[k])))
           /\ onPrev \/ (f_pos_leq(ooos[k].start, b) /\ f_pos_leq(a, ooo_segment_end_pos(ooos[k])))
           => r = IF f_pos_gt(b, ooo_segment_end_pos(ooos[k]))
                  THEN SubSeq(ooos, 1, k - 1) \o <<Seg(start, last)>>
                       \o SubSeq(ooos, IF merges THEN it + 1 ELSE it, n)
                  ELSE [ooos EXCEPT ![k] = Seg(start, ooo_segment_end_pos(ooos[k]))]
    <3>1. r = IF n = 0 THEN <<Seg(a, b)>>
              ELSE IF ~onPrev /\ f_pos_lt(b, ooos[k].start) THEN InsertAt(ooos, k, Seg(a, b))
              ELSE IF ~onPrev /\ f_pos_gt(a, ooo_segment_end_pos(ooos[k]))
                   THEN InsertAt(ooos, k + 1, Seg(a, b))
              ELSE IF f_pos_gt(b, ooo_segment_end_pos(ooos[k]))
                   THEN SubSeq(ooos, 1, k - 1) \o <<Seg(start, last)>>
                        \o SubSeq(ooos, IF merges THEN it + 1 ELSE it, n)
                   ELSE [ooos EXCEPT ![k] = Seg(start, ooo_segment_end_pos(ooos[k]))]
      BY DEF ooo_segment_add
    <3> HIDE DEF r, onPrev, k, start, last, merges, it
    <3> QED
      BY ONLY <1>9, <3>1
  <2>2. i \in 1..n /\ (i = n \/ ~(SegSt(i) < A)) /\ \A j \in 1..(i - 1) : SegSt(j) < A
    <3> DEFINE T == {j \in 1..n : j = n \/ ~f_pos_lt(ooos[j].start, a)}
    <3>1. T \in SUBSET Nat /\ T # {}
      BY <1>1, <1>9
    <3>2. i = SetMin(T)
      OBVIOUS
    <3>3. \A j \in 1..n : j \in T <=> (j = n \/ ~(SegSt(j) < A))
      BY <1>5
    <3> HIDE DEF T, i
    <3>4. i \in T /\ \A j \in T : i <= j
      BY <3>1, <3>2, SetMinIs
    <3>5. i \in 1..n
      BY <3>4 DEF T
    <3>6. \A j \in 1..(i - 1) : SegSt(j) < A
      BY <1>1, <3>3, <3>4, <3>5
    <3> QED
      BY <3>3, <3>4, <3>5, <3>6
  <2> HIDE DEF i, r, A, B
  <2>3. onPrev <=> i > 1 /\ A <= SegEn(i - 1)
    <3>1. i > 1 => i - 1 \in 1..n
      BY <1>1, <2>2
    <3> QED
      BY <1>5, <3>1
  <2>4. k \in 1..n /\ k \in Nat
    BY <1>1, <2>2
  \* Where the new bytes and the k-th segment lie.
  <2>5. /\ k > 1 => SegEn(k - 1) < A /\ SegEn(k - 1) < SegSt(k)
        /\ onPrev => SegSt(k) < A /\ A <= SegEn(k)
        /\ ~onPrev => k = n \/ A <= SegSt(k)
    <3>1. CASE onPrev
      <4>1. k = i - 1 /\ i > 1 /\ A <= SegEn(k)
        BY <2>3, <3>1
      <4>2. SegSt(k) < A
        BY <1>1, <2>2, <2>4, <4>1
      <4> HIDE DEF k
      <4>3. k > 1 => SegEn(k - 1) < SegSt(k)
        <5> HAVE k > 1
        <5>1. k - 1 \in 1..n /\ k - 1 < k
          BY <1>1, <2>4
        <5> QED
          BY <1>3, <2>4, <5>1
      <4>4. k > 1 => SegEn(k - 1) < A
        <5> HAVE k > 1
        <5>1. k - 1 \in 1..n
          BY <1>1, <2>4
        <5> QED
          BY <1>1, <1>2, <2>4, <4>2, <4>3, <5>1, SMTT(20)
      <4> QED
        BY <3>1, <4>1, <4>2, <4>3, <4>4
    <3>2. CASE ~onPrev
      <4>1. k = i
        BY <3>2
      <4>2. k > 1 => ~(A <= SegEn(k - 1))
        BY <2>3, <3>2, <4>1
      <4> HIDE DEF k
      <4>3. k > 1 => SegEn(k - 1) < SegSt(k) /\ SegEn(k - 1) < A
        <5> HAVE k > 1
        <5>1. k - 1 \in 1..n /\ k - 1 < k
          BY <1>1, <2>4
        <5> QED
          BY <1>1, <1>2, <1>3, <2>4, <4>2, <5>1
      <4>4. k = n \/ A <= SegSt(k)
        BY <1>1, <1>2, <2>2, <2>4, <4>1
      <4> QED
        BY <3>2, <4>3, <4>4
    <3> QED
      BY <3>1, <3>2
  <2> HIDE DEF k, onPrev
  <2>6. Off(produced) < A /\ B <= Size /\ B <= End
    BY DEF A, B
  <2>7. SegSt(k) \in Int /\ SegEn(k) \in Int /\ SegSt(k) < SegEn(k)
    BY <1>2, <2>4
  <2>8. CASE ~onPrev /\ B < SegSt(k)
    <3>1. r = InsertAt(ooos, k, Seg(a, b))
      BY <1>5, <2>1, <2>4, <2>8
    <3> DEFINE s == Seg(a, b)
               k1 == k - 1
    <3>2. k1 \in 0..n /\ k \in (k1 + 1)..(n + 1) /\ s \in SegRec
      BY <1>1, <1>7, <2>4
    <3>3. r = SubSeq(ooos, 1, k1) \o <<s>> \o SubSeq(ooos, k, n)
      BY <3>1 DEF InsertAt
    <3> HIDE DEF s, k1
    <3>4. Splice(r, s, k1, k)
      BY <1>1, <3>2, <3>3, SpliceOf, Zenon
    <3>5. /\ Off(s.start) = A /\ Off(s.start) + s.length = B
      BY <1>7 DEF s
    <3>6. k1 >= 1 => SegEn(k1) < A
      BY <2>4, <2>5 DEF k1
    <3>7. k # n + 1
      BY <1>1, <2>4
    <3>8. Good(s, k1, k, A, B)
      BY <1>1, <2>6, <2>8, <3>4, <3>5, <3>6, <3>7
    <3> HIDE DEF Good
    <3> QED
      BY <1>1, <3>2, <3>8
  <2>9. CASE ~onPrev /\ A > SegEn(k)
    <3>0. k = n
      BY <1>1, <2>5, <2>7, <2>9
    <3>1. r = InsertAt(ooos, k + 1, Seg(a, b))
      <4>1. ~(B < SegSt(k))
        BY <1>1, <2>7, <2>9
      <4> QED
        BY <1>5, <2>1, <2>4, <2>9, <4>1
    <3> DEFINE s == Seg(a, b)
               k2 == k + 1
    <3>2. k \in 0..n /\ k2 \in (k + 1)..(n + 1) /\ s \in SegRec
      BY <1>1, <1>7, <2>4
    <3>3. r = SubSeq(ooos, 1, k) \o <<s>> \o SubSeq(ooos, k2, n)
      <4>1. (k + 1) - 1 = k
        BY <2>4
      <4> QED
        BY <3>1, <4>1 DEF InsertAt
    <3>a. k2 = n + 1
      BY <3>0
    <3> HIDE DEF s, k2
    <3>4. Splice(r, s, k, k2)
      BY <1>1, <3>2, <3>3, SpliceOf, Zenon
    <3>5. /\ Off(s.start) = A /\ Off(s.start) + s.length = B
      BY <1>7 DEF s
    <3>6. SegEn(n) <= B
      BY <1>1, <2>7, <2>9, <3>0
    <3>7. SegEn(k) < A
      BY <1>1, <2>7, <2>9
    <3>8. ~(k2 <= n)
      BY <1>1, <3>a
    <3>9. Good(s, k, k2, A, B)
      BY <1>1, <2>6, <3>4, <3>5, <3>6, <3>7, <3>8
    <3> HIDE DEF Good
    <3> QED
      BY <1>1, <3>2, <3>9
  <2>10. CASE onPrev \/ (SegSt(k) <= B /\ A <= SegEn(k))
    <3> DEFINE S == IF ~onPrev /\ A < SegSt(k) THEN A ELSE SegSt(k)
    <3>1. A <= SegEn(k) /\ SegSt(k) <= B
      BY <1>1, <2>5, <2>7, <2>10
    <3>2. start \in Pos /\ Near(Off(start)) /\ Off(start) = S
      <4>1. ooos[k].start \in Pos /\ Near(Off(ooos[k].start)) /\ Off(ooos[k].start) = SegSt(k)
        BY <2>4, SegsNear DEF SegSt
      <4> QED
        BY <1>5, <2>4, <4>1 DEF A
    <3>3. /\ S \in Int /\ S <= A /\ S <= SegSt(k) /\ Off(produced) < S
          /\ k > 1 => SegEn(k - 1) < S
          /\ \A x \in Int : S <= x /\ x < SegSt(k) => A <= x /\ x < B
      <4>1. Off(produced) < SegSt(k)
        BY <1>4, <2>4
      <4>2. onPrev => SegSt(k) < A
        BY <2>5
      <4>3. k > 1 => SegEn(k - 1) < A /\ SegEn(k - 1) < SegSt(k)
        BY <2>5
      <4> QED
        BY <1>1, <2>6, <2>7, <3>1, <4>1, <4>2, <4>3
    <3>4. \A x \in Int : S <= x /\ x < B => (A <= x /\ x < B) \/ InSegs(ooos, x)
      <4> SUFFICES ASSUME NEW x \in Int, S <= x, x < B, ~(A <= x) PROVE InSegs(ooos, x)
        OBVIOUS
      <4>1. SegSt(k) <= x /\ x < SegEn(k)
        BY <1>1, <2>7, <3>1, <3>3
      <4> QED
        BY <1>6, <2>4, <4>1
    <3> DEFINE k1 == k - 1
    <3>5. /\ k1 \in 0..n /\ k + 1 \in (k1 + 1)..(n + 1) /\ k1 + 1 = k
          /\ k1 >= 1 => SegEn(k1) < S
      BY <1>1, <2>4, <3>3
    <3> DEFINE e == ooo_segment_end_pos(ooos[k])
    <3>6. e \in Pos /\ Near(Off(e)) /\ Off(e) = SegEn(k)
      BY <2>4, SegsNear
    <3> HIDE DEF start, S, k1
    <3>7. CASE ~(B > SegEn(k))
      <4> DEFINE s == Seg(start, e)
      <4>1. r = [ooos EXCEPT ![k] = s]
        <5>1. /\ ~(~onPrev /\ f_pos_lt(b, ooos[k].start))
              /\ ~(~onPrev /\ f_pos_gt(a, e))
              /\ onPrev \/ (f_pos_leq(ooos[k].start, b) /\ f_pos_leq(a, e))
              /\ ~f_pos_gt(b, e)
          BY <1>1, <1>5, <2>4, <2>7, <2>10, <3>1, <3>7
        <5> HIDE DEF e
        <5> QED
          BY <2>1, <5>1 DEF e
      <4>2. S < SegEn(k)
        BY <2>7, <3>3
      <4>3. s \in SegRec /\ Off(s.start) = S /\ Off(s.start) + s.length = SegEn(k)
        <5> HIDE DEF e
        <5> QED
          BY <3>2, <3>6, <4>2, SegIs
      <4> HIDE DEF s, e
      <4>4. Splice(r, s, k1, k + 1)
        BY <1>1, <2>4, <4>1, <4>3, SpliceExcept DEF k1
      <4>5. k + 1 <= n => SegEn(k) < SegSt(k + 1)
        <5> HAVE k + 1 <= n
        <5>1. k + 1 \in 1..n /\ k < k + 1
          BY <1>1, <2>4
        <5> QED
          BY <1>3, <2>4, <5>1
      <4>6. B <= SegEn(k) /\ SegEn(k) <= Size /\ SegEn(k) <= End
        BY <1>1, <1>4, <2>4, <2>7, <3>7
      <4>7. k + 1 = n + 1 => SegEn(n) <= SegEn(k)
        BY <1>1, <2>4, <2>7
      <4>8. \A x \in Int : S <= x /\ x < SegEn(k) => (A <= x /\ x < B) \/ InSegs(ooos, x)
        <5> TAKE x \in Int
        <5>1. CASE x < SegSt(k)
          BY <3>3, <5>1
        <5>2. CASE SegSt(k) <= x
          BY <1>6, <2>4, <5>2
        <5> QED
          BY <2>7, <5>1, <5>2
      <4>9. s \in SegRec /\ k1 \in 0..n /\ k + 1 \in (k1 + 1)..(n + 1) /\ S \in Int /\ SegEn(k) \in Int
        BY <2>7, <3>3, <3>5, <4>3
      <4>10. Good(s, k1, k + 1, S, SegEn(k))
        BY <3>3, <3>5, <4>3, <4>4, <4>5, <4>6, <4>7, <4>8
      <4> HIDE DEF Good
      <4> QED
        BY <4>9, <4>10
    <3>8. CASE B > SegEn(k)
      <4>1. /\ it \in (k + 1)..(n + 1) /\ (it = n + 1 \/ ~(SegEn(it) <= B))
            /\ \A j \in (k + 1)..(it - 1) : SegEn(j) <= B
        <5> DEFINE T == {j \in (k + 1)..(n + 1) :
                           j = n + 1 \/ ~f_pos_leq(ooo_segment_end_pos(ooos[j]), b)}
        <5>1. T \in SUBSET Nat /\ T # {}
          BY <1>1, <2>4, SMTT(20)
        <5>2. it = SetMin(T)
          OBVIOUS
        <5>3. \A j \in (k + 1)..(n + 1) : j \in T <=> (j = n + 1 \/ ~(SegEn(j) <= B))
          <6> TAKE j \in (k + 1)..(n + 1)
          <6>1. j = n + 1 \/ j \in 1..n
            BY <1>1, <2>4
          <6> QED
            BY <1>5, <6>1
        <5> HIDE DEF T, it
        <5>4. it \in T /\ \A j \in T : it <= j
          BY <5>1, <5>2, SetMinIs
        <5>5. it \in (k + 1)..(n + 1)
          BY <5>4 DEF T
        <5>6. \A j \in (k + 1)..(it - 1) : SegEn(j) <= B
          <6> TAKE j \in (k + 1)..(it - 1)
          <6>1. j \in (k + 1)..(n + 1) /\ ~(it <= j)
            BY <1>1, <2>4, <5>5
          <6> QED
            BY <5>3, <5>4, <6>1
        <5> QED
          BY <5>3, <5>4, <5>5, <5>6
      <4> HIDE DEF it
      <4>2. it \in Nat /\ k < it /\ it <= n + 1 /\ (it <= n => it \in 1..n)
        BY <1>1, <2>4, <4>1
      <4>3. merges <=> it <= n /\ SegSt(it) <= B
        BY <1>5, <4>2
      <4> DEFINE k2 == IF merges THEN it + 1 ELSE it
                 E == IF merges THEN SegEn(it) ELSE B
      <4>4. last \in Pos /\ Near(Off(last)) /\ Off(last) = E
        <5>1. CASE merges
          <6>1. it \in 1..n
            BY <4>2, <4>3, <5>1
          <6> QED
            BY <5>1, <6>1, SegsNear
        <5>2. CASE ~merges
          BY <5>2 DEF B
        <5> QED
          BY <5>1, <5>2
      <4> DEFINE s == Seg(start, last)
      <4>5. r = SubSeq(ooos, 1, k1) \o <<s>> \o SubSeq(ooos, k2, n)
        <5>1. /\ ~(~onPrev /\ f_pos_lt(b, ooos[k].start))
              /\ ~(~onPrev /\ f_pos_gt(a, e))
              /\ onPrev \/ (f_pos_leq(ooos[k].start, b) /\ f_pos_leq(a, e))
              /\ f_pos_gt(b, e)
          BY <1>1, <1>5, <2>4, <2>7, <2>10, <3>1, <3>8
        <5> HIDE DEF e, last, merges
        <5> QED
          BY <2>1, <5>1 DEF e, k1
      <4> HIDE DEF last, merges
      <4>6. k2 \in (k1 + 1)..(n + 1)
        BY <1>1, <2>4, <3>5, <4>2, <4>3
      <4>7. /\ E \in Int /\ B <= E /\ E <= Size /\ E <= End
            /\ k2 <= n => E < SegSt(k2)
            /\ k2 = n + 1 /\ n > 0 => SegEn(n) <= E
        <5>1. CASE merges
          <6>1. it \in 1..n /\ SegSt(it) <= B /\ E = SegEn(it) /\ k2 = it + 1
            BY <4>2, <4>3, <5>1
          <6>2. ~(SegEn(it) <= B) /\ SegEn(it) \in Int /\ SegEn(it) <= Size /\ SegEn(it) <= End
            <7>1. it # n + 1
              BY <1>1, <6>1
            <7> QED
              BY <1>2, <1>4, <4>1, <6>1, <7>1
          <6>3. it + 1 <= n => SegEn(it) < SegSt(it + 1)
            <7> HAVE it + 1 <= n
            <7>1. it + 1 \in 1..n /\ it < it + 1
              BY <1>1, <4>2
            <7> QED
              BY <1>3, <6>1, <7>1
          <6>4. it + 1 = n + 1 => it = n
            BY <1>1, <4>2
          <6> QED
            BY <1>1, <6>1, <6>2, <6>3, <6>4
        <5>2. CASE ~merges
          <6>1. E = B /\ k2 = it
            BY <5>2
          <6>2. it <= n => B < SegSt(it)
            BY <1>1, <1>2, <4>2, <4>3, <5>2
          <6>3. it = n + 1 /\ n > 0 => SegEn(n) <= B
            <7> HAVE it = n + 1 /\ n > 0
            <7>1. CASE k = n
              BY <1>1, <2>7, <3>8, <7>1
            <7>2. CASE k # n
              <8>1. n \in (k + 1)..(it - 1)
                BY <1>1, <2>4, <7>2
              <8> QED
                BY <4>1, <8>1
            <7> QED
              BY <7>1, <7>2
          <6> QED
            BY <1>1, <2>6, <6>1, <6>2, <6>3
        <5> QED
          BY <5>1, <5>2
      <4>8. \A x \in Int : S <= x /\ x < E => (A <= x /\ x < B) \/ InSegs(ooos, x)
        <5> SUFFICES ASSUME NEW x \in Int, S <= x, x < E PROVE (A <= x /\ x < B) \/ InSegs(ooos, x)
          OBVIOUS
        <5>1. CASE x < B
          BY <3>4, <5>1
        <5>2. CASE ~(x < B)
          <6>1. merges /\ it \in 1..n /\ SegSt(it) <= B /\ x < SegEn(it)
            BY <4>2, <4>3, <5>2
          <6>2. SegSt(it) <= x
            BY <1>1, <1>2, <5>2, <6>1
          <6> QED
            BY <1>6, <6>1, <6>2
        <5> QED
          BY <5>1, <5>2
      <4> HIDE DEF E, k2
      <4>9. s \in SegRec /\ Off(s.start) = S /\ Off(s.start) + s.length = E
        <5>1. S < E
          BY <1>1, <3>3, <4>7
        <5> QED
          BY <3>2, <4>4, <5>1, SegIs
      <4> HIDE DEF s
      <4>10. Splice(r, s, k1, k2)
        <5>1. s \in SegRec /\ k1 \in 0..Len(ooos)
          BY <3>5, <4>9
        <5> QED
          BY <1>1, <4>5, <4>6, <5>1, SpliceOf, Zenon
      <4>11. k1 \in 0..n /\ S \in Int /\ E \in Int /\ s \in SegRec
        BY <3>3, <3>5, <4>7, <4>9
      <4>12. Good(s, k1, k2, S, E)
        BY <3>3, <3>5, <4>7, <4>8, <4>9, <4>10
      <4> HIDE DEF Good
      <4> QED
        BY <4>6, <4>11, <4>12
    <3> QED
      BY <3>7, <3>8
  <2> QED
    BY <1>1, <2>7, <2>8, <2>9, <2>10
<1> QED
  BY <1>1, <1>8, <1>9

\* What the producer collects when it has put n bytes behind the tail: np is
\* where it gets to.
LEMMA CollectIs ==
  ASSUME Geo, SegInv, NEW n \in Nat \ {0}, NEW t \in Pos, Near(Off(t)),
         Off(t) = Off(produced) + n, Off(t) <= Size, Off(t) <= End
  PROVE  LET c == ooo_segment_try_collect(n, t)
             np == Off(t) + c.bytes
         IN /\ c.gone \in 0..Len(ooos) /\ c.bytes \in Nat
            /\ np <= Size /\ np <= End /\ Near(np)
            /\ \A i \in (c.gone + 1)..Len(ooos) : np < SegSt(i)
            /\ \A i \in 1..c.gone : SegEn(i) <= np
            /\ \A x \in Int : Off(t) <= x /\ x < np => InSegs(ooos, x)
<1> DEFINE m == Len(ooos)
           T == Off(t)
           diff(i) == Diff(t, ooos[i].start)
           touched(i) == 0 <= diff(i) /\ diff(i) < n
           swallowed(i) == touched(i) /\ ooos[i].length <= diff(i)
           K == {i \in 1..(m + 1) : i = m + 1 \/ ~swallowed(i)}
           k == SetMin(K)
           c == ooo_segment_try_collect(n, t)
<1>1. /\ m \in Nat /\ T \in Int /\ Off(produced) \in Int /\ End \in Int /\ Size \in Nat
      /\ T = Off(produced) + n
  BY SegsNear, PosCmp, ListTypes, FifoAssumption DEF Geo
<1>2. \A i \in 1..m : /\ SegSt(i) \in Int /\ SegEn(i) \in Int /\ SegSt(i) < SegEn(i)
                      /\ SegEn(i) = SegSt(i) + ooos[i].length /\ ooos[i].length \in Nat
                      /\ Near(SegSt(i)) /\ Near(SegEn(i))
  BY SegsNear
<1>3. \A i, j \in 1..m : i < j => SegEn(i) < SegSt(j)
  BY DEF SegInv
<1>4. \A i \in 1..m : Off(produced) < SegSt(i) /\ SegEn(i) <= Size /\ SegEn(i) <= End
  BY DEF SegInv
<1>5. ASSUME NEW i \in 1..m
      PROVE  /\ diff(i) = T - SegSt(i)
             /\ touched(i) <=> SegSt(i) <= T
             /\ swallowed(i) <=> SegEn(i) <= T
  <2>1. ooos[i].start \in Pos /\ Near(Off(ooos[i].start)) /\ Off(ooos[i].start) = SegSt(i)
    BY SegsNear DEF SegSt
  <2>2. diff(i) = T - SegSt(i)
    BY <2>1, PosCmp
  <2> HIDE DEF diff
  <2>3. touched(i) <=> SegSt(i) <= T
    <3> DEFINE d == diff(i)
               s == SegSt(i)
               p == Off(produced)
    <3>1. /\ d = T - s /\ T \in Int /\ s \in Int /\ p \in Int /\ n \in Nat
          /\ T = p + n /\ p < s
      BY <1>1, <1>2, <1>4, <2>2
    <3> HIDE DEF d, s, p, T
    <3>2. (0 <= d /\ d < n) <=> s <= T
      BY ONLY <3>1
    <3> QED
      BY <3>2 DEF d, s
  <2>4. swallowed(i) <=> SegEn(i) <= T
    <3> DEFINE d == diff(i)
               s == SegSt(i)
               l == ooos[i].length
               e == SegEn(i)
    <3>1. d = T - s /\ T \in Int /\ s \in Int /\ e = s + l /\ l \in Nat /\ s < e
      BY <1>1, <1>2, <2>2
    <3>2. swallowed(i) <=> s <= T /\ l <= d
      BY <2>3
    <3> HIDE DEF d, s, l, e, T
    <3>3. (s <= T /\ l <= d) <=> e <= T
      BY ONLY <3>1
    <3> HIDE DEF swallowed
    <3> QED
      BY <3>2, <3>3 DEF e
  <2> QED
    BY <2>2, <2>3, <2>4
<1>6. c = IF k <= m /\ touched(k)
          THEN [gone |-> k, bytes |-> ooos[k].length - diff(k)]
          ELSE [gone |-> k - 1, bytes |-> 0]
  BY DEF ooo_segment_try_collect
<1> HIDE DEF diff, touched, swallowed, c
<1>7. K \in SUBSET Nat /\ K # {}
  <2>1. m \in Nat
    BY <1>1
  <2>2. K \in SUBSET Nat
    BY ONLY <2>1
  <2>3. m + 1 \in K
    BY ONLY <2>1
  <2> QED
    BY <2>2, <2>3
<1> HIDE DEF K
<1>8. k \in K /\ \A j \in K : k <= j
  BY <1>7, SetMinIs
<1> HIDE DEF k
<1>9. k \in 1..(m + 1) /\ (k <= m => ~(SegEn(k) <= T))
  <2>1. k \in 1..(m + 1) /\ (k = m + 1 \/ ~swallowed(k))
    BY <1>8 DEF K
  <2> QED
    BY <1>1, <1>5, <2>1
<1>10. ASSUME NEW i \in 1..(k - 1) PROVE i \in 1..m /\ SegEn(i) <= T
  <2>1. i \in 1..m /\ i \in 1..(m + 1) /\ ~(k <= i)
    BY <1>1, <1>9
  <2>2. swallowed(i)
    BY <1>8, <2>1 DEF K
  <2> QED
    BY <1>5, <2>1, <2>2
<1> DEFINE np == T + c.bytes
<1>11. CASE k <= m /\ touched(k)
  <2>1. k \in 1..m /\ k \in Nat
    BY <1>9, <1>11
  <2>2. c.gone = k /\ c.bytes = ooos[k].length - diff(k)
    BY <1>6, <1>11
  <2>3. /\ c.bytes = SegEn(k) - T /\ SegSt(k) <= T /\ T < SegEn(k)
        /\ np = SegEn(k) /\ c.bytes \in Nat
    <3>1. /\ diff(k) = T - SegSt(k) /\ SegSt(k) <= T /\ ~(SegEn(k) <= T)
      BY <1>5, <1>9, <1>11, <2>1
    <3>2. /\ SegSt(k) \in Int /\ SegEn(k) \in Int /\ SegEn(k) = SegSt(k) + ooos[k].length
          /\ ooos[k].length \in Nat /\ T \in Int
      BY <1>1, <1>2, <2>1
    <3> QED
      BY ONLY <2>2, <3>1, <3>2
  <2>4. np = SegEn(k) /\ c.bytes \in Nat
    BY <2>3
  <2>5. np <= Size /\ np <= End /\ Near(np)
    BY <1>2, <1>4, <2>1, <2>4
  <2>6. ASSUME NEW i \in (c.gone + 1)..m PROVE np < SegSt(i)
    <3>1. i \in 1..m /\ k < i
      BY <1>1, <2>1, <2>2
    <3> QED
      BY <1>3, <2>1, <2>4, <3>1
  <2>7. ASSUME NEW i \in 1..c.gone PROVE SegEn(i) <= np
    <3>1. CASE i = k
      BY <1>2, <2>1, <2>4, <3>1
    <3>2. CASE i # k
      <4>1. i \in 1..(k - 1)
        BY <2>1, <2>2, <3>2
      <4> QED
        <5>1. SegEn(i) <= T /\ SegEn(i) \in Int /\ SegEn(k) \in Int /\ T \in Int
          BY <1>1, <1>2, <1>10, <2>1, <4>1
        <5> QED
          BY ONLY <2>3, <5>1
    <3> QED
      BY <3>1, <3>2
  <2>8. ASSUME NEW x \in Int, T <= x, x < np PROVE InSegs(ooos, x)
    <3>0. SegSt(k) \in Int /\ SegEn(k) \in Int /\ T \in Int
      BY <1>1, <1>2, <2>1
    <3>1. SegSt(k) <= x /\ x < SegEn(k)
      BY ONLY <2>3, <2>8, <3>0
    <3> QED
      BY <2>1, <3>1 DEF InSegs, SegSt, SegEn
  <2>9. c.gone \in 0..m
    BY <2>1, <2>2
  <2> QED
    BY <2>4, <2>5, <2>6, <2>7, <2>8, <2>9 DEF c
<1>12. CASE ~(k <= m /\ touched(k))
  <2>1. c.gone = k - 1 /\ c.bytes = 0 /\ c.gone \in 0..m
    BY <1>1, <1>6, <1>9, <1>12
  <2>2. np = T
    BY <1>1, <2>1
  <2>3. np <= Size /\ np <= End /\ Near(np)
    BY <2>2
  <2>4. ASSUME NEW i \in (c.gone + 1)..m PROVE np < SegSt(i)
    <3>1. i \in 1..m /\ k <= m /\ k \in 1..m /\ (k = i \/ k < i)
      BY <1>1, <1>9, <2>1
    <3>2. T < SegSt(k)
      BY <1>1, <1>2, <1>5, <1>12, <3>1
    <3>3. k < i => SegEn(k) < SegSt(i)
      BY <1>3, <3>1
    <3> QED
      BY <1>1, <1>2, <2>2, <3>1, <3>2, <3>3
  <2>5. ASSUME NEW i \in 1..c.gone PROVE SegEn(i) <= np
    BY <1>10, <2>1, <2>2
  <2>6. ASSUME NEW x \in Int, T <= x, x < np PROVE InSegs(ooos, x)
    BY <1>1, <2>2, <2>6
  <2>7. c.bytes \in Nat
    BY <2>1
  <2> QED
    BY <2>1, <2>7, <2>3, <2>4, <2>5, <2>6 DEF c
<1> QED
  BY <1>11, <1>12
-----------------------------------------------------------------------------
(* Steps that leave the list and the head as they are. *)

LEMMA SameList ==
  ASSUME UNCHANGED <<head, chain, start_byte>>
  PROVE  /\ \A i : St(i)' = St(i) /\ En(i)' = En(i)
         /\ End' = End
         /\ \A c, x : HasAt(c, x)' <=> HasAt(c, x)
         /\ \A p : Off(p)' = Off(p)
<1>1. \A p : Off(p)' = Off(p)
  BY DEF Off
<1>2. \A i : St(i)' = St(i)
  BY DEF St, Off
<1>3. \A i : En(i)' = En(i)
  BY <1>2 DEF En
<1>4. End' = End
  BY <1>3 DEF End
<1>5. \A c, x : HasAt(c, x)' <=> HasAt(c, x)
  BY <1>2, <1>3 DEF HasAt
<1> QED
  BY <1>1, <1>2, <1>3, <1>4, <1>5

LEMMA ChainFrame ==
  ASSUME ChainInv, UNCHANGED <<head, chain, start_byte, free>>, consumed' = consumed
  PROVE  ChainInv'
<1>1. /\ \A i : St(i)' = St(i) /\ En(i)' = En(i)
      /\ End' = End /\ Off(consumed)' = Off(consumed)
  BY SameList DEF Off
<1> QED
  BY <1>1 DEF ChainInv, f_chunk_end, IsInjective, ToSet

LEMMA OrderFrame ==
  ASSUME OrderInv, UNCHANGED <<head, chain, start_byte, tail>>,
         consumed' = consumed, produced' = produced
  PROVE  OrderInv'
<1>1. /\ Off(consumed)' = Off(consumed) /\ Off(produced)' = Off(produced)
      /\ Off(tail)' = Off(tail) /\ End' = End
  BY SameList DEF Off
<1> QED
  BY <1>1 DEF OrderInv

LEMMA TailFrame ==
  ASSUME TailInv, UNCHANGED <<head, chain, start_byte, tail_chunk>>, produced' = produced
  PROVE  TailInv'
<1>1. /\ \A c, x : HasAt(c, x)' <=> HasAt(c, x)
      /\ Off(produced)' = Off(produced) /\ End' = End
  BY SameList DEF Off
<1>2. HasAt(tail_chunk, Off(produced))' <=> HasAt(tail_chunk, Off(produced))
  BY <1>1, SameList DEF HasAt, St, En
<1> QED
  BY <1>1, <1>2 DEF TailInv

LEMMA HeadFrame ==
  ASSUME HeadInv, UNCHANGED <<head, chain, start_byte, head_chunk>>, Target' = Target
  PROVE  HeadInv'
<1>1. HasAt(head_chunk, Target)' <=> HasAt(head_chunk, Target)
  BY SameList DEF HasAt, St, En
<1> QED
  BY <1>1 DEF HeadInv

LEMMA ProdFrame ==
  ASSUME ProdInv, UNCHANGED <<role, head, chain, start_byte, tail, tail_chunk, ooos, prod>>
  PROVE  ProdInv'
<1>1. Off(tail)' = Off(tail) /\ End' = End
  BY SameList DEF Off
<1> QED
  BY <1>1 DEF ProdInv

LEMMA ConsFrame ==
  ASSUME ConsInv, UNCHANGED <<role, head, tail, cons, closed>>
  PROVE  ConsInv'
<1>1. Off(tail)' = Off(tail)
  BY DEF Off
<1> QED
  BY <1>1 DEF ConsInv

LEMMA SegFrame ==
  ASSUME SegInv, UNCHANGED <<role, head, chain, start_byte, ooos>>, produced' = produced
  PROVE  SegInv'
<1>1. \A i : SegSt(i)' = SegSt(i) /\ SegEn(i)' = SegEn(i)
  BY DEF SegSt, SegEn, Off
<1>2. End' = End /\ Off(produced)' = Off(produced)
  BY SameList DEF Off
<1> QED
  BY <1>1, <1>2 DEF SegInv

LEMMA EnqFrame ==
  ASSUME EnqInv, UNCHANGED <<head, chain, start_byte, oooEnqVars>>, produced' = produced
  PROVE  EnqInv'
<1>1. \A i : SegSt(i)' = SegSt(i) /\ SegEn(i)' = SegEn(i)
  BY DEF SegSt, SegEn, Off, oooEnqVars
<1>2. /\ \A i : St(i)' = St(i) /\ En(i)' = En(i)
      /\ Off(produced)' = Off(produced)
      /\ SegEn(Len(ooos))' = SegEn(Len(ooos))
  BY <1>1, SameList DEF Off, oooEnqVars, SegEn, SegSt
<1> QED
  BY <1>2 DEF EnqInv, oooEnqVars

LEMMA DeqFrame ==
  ASSUME DeqInv, UNCHANGED <<role, chain, oooDeqVars, closed>>
  PROVE  DeqInv'
BY DEF DeqInv, oooDeqVars, ToSet

LEMMA DataFrame ==
  ASSUME DataInv, UNCHANGED <<head, chain, start_byte, data>>,
         \A x \in Int : Live(x)' => Live(x), \A i \in 1..Len(chain) : St(i) \in Int
  PROVE  DataInv'
<1>1. \A i : St(i)' = St(i)
  BY SameList
<1>2. SUFFICES ASSUME NEW i \in 1..Len(chain), NEW k \in 0..(Length[chain[i]] - 1), Live(St(i) + k)'
               PROVE  data[<<chain[i], k>>] = Plus(start_byte[chain[i]], k)
  BY DEF DataInv
<1>3. (St(i) + k)' = St(i) + k /\ St(i) + k \in Int
  BY <1>1
<1>4. Live(St(i) + k)
  BY <1>2, <1>3, <1>1 DEF Live, SegSt, SegEn, Off
<1> QED
  BY <1>4 DEF DataInv

LEMMA LiveFrame ==
  ASSUME UNCHANGED <<head, ooos>>, consumed' = consumed, produced' = produced
  PROVE  \A x \in Int : Live(x)' => Live(x)
BY DEF Live, SegSt, SegEn, Off
-----------------------------------------------------------------------------
(* The producer's steps. *)

LEMMA Basics ==
  ASSUME FifoInv
  PROVE  /\ Geo /\ Off(head) = 0 /\ head \in Pos /\ tail \in Pos
         /\ 0 <= Off(tail) /\ Off(tail) <= Size /\ Off(tail) <= End
         /\ f_cursize(head, tail) = Off(tail) /\ Avail = Off(tail)
         /\ f_free_count(head, tail) = Size - Off(tail)
         /\ f_chunk_end(end_chunk) \in Pos /\ Off(f_chunk_end(end_chunk)) = End
         /\ Minus(f_chunk_end(end_chunk), tail) = End - Off(tail)
<1>1. Geo
  BY DEF FifoInv, Geo
<1>2. /\ head \in Pos /\ tail \in Pos /\ Len(chain) \in 1..Len(chain)
      /\ Off(consumed) \in Int /\ Off(produced) \in Int /\ Off(tail) \in Int /\ End \in Int
  BY ListTypes DEF FifoInv, Types
<1>3. Size \in Nat
  BY FifoAssumption
<1>4. /\ 0 <= Off(consumed) /\ Off(consumed) <= Off(tail) /\ Off(tail) <= Off(produced)
      /\ Off(produced) <= End /\ Off(produced) <= Size
  BY DEF FifoInv, OrderInv
<1>5. 0 <= Off(tail) /\ Off(tail) <= Size /\ Off(tail) <= End
  BY ONLY <1>2, <1>3, <1>4
<1>6. Off(head) = 0
  BY <1>2, OffZero DEF Off
<1>7. Near(0) /\ Near(Off(tail)) /\ Near(End)
  BY <1>1, ListNear
<1>8. f_cursize(head, tail) = Off(tail)
  <2>1. Near(Diff(tail, head)) /\ Near(Diff(head, head)) /\ Diff(head, head) <= Diff(tail, head)
    BY <1>5, <1>6, <1>7 DEF Off
  <2>2. Minus(tail, head) = Diff(tail, head) - Diff(head, head)
    BY <1>2, <2>1, OffMinus
  <2> QED
    BY <1>2, <1>6, <2>2 DEF f_cursize, Off
<1>9. f_chunk_end(end_chunk) \in Pos /\ Off(f_chunk_end(end_chunk)) = End
  <2>1. end_chunk = chain[Len(chain)]
    BY DEF end_chunk, Last
  <2> QED
    BY <1>1, <1>2, <2>1, ChunkEnd DEF End
<1>10. Minus(f_chunk_end(end_chunk), tail) = End - Off(tail)
  <2> DEFINE e == f_chunk_end(end_chunk)
  <2>1. e \in Pos /\ Diff(e, head) = End
    BY <1>9 DEF Off
  <2> HIDE DEF e
  <2>2. Near(Diff(e, head)) /\ Near(Diff(tail, head)) /\ Diff(tail, head) <= Diff(e, head)
    BY <1>5, <1>7, <2>1 DEF Off
  <2>3. Minus(e, tail) = Diff(e, head) - Diff(tail, head)
    BY <1>2, <2>1, <2>2, OffMinus
  <2> QED
    BY <2>1, <2>3 DEF e, Off
<1> QED
  BY <1>1, <1>2, <1>5, <1>6, <1>8, <1>9, <1>10 DEF Avail, f_free_count

\* The position that lies n bytes behind another one.
LEMMA Ahead ==
  ASSUME Geo, NEW p \in Pos, NEW n \in Nat, Near(Off(p)), Near(Off(p) + n)
  PROVE  Plus(p, n) \in Pos /\ Off(Plus(p, n)) = Off(p) + n
BY OffPlus DEF Geo, Types, Off

LEMMA NearSize ==
  ASSUME Geo, NEW x \in Int, 0 <= x, x <= Size
  PROVE  Near(x)
<1>1. chain[1] \in Chunks /\ Length[chain[1]] \in Nat
  <2>1. 1 \in 1..Len(chain)
    BY ListTypes DEF Geo
  <2> QED
    BY <2>1, ListTypes DEF Geo
<1>2. Size \in Nat /\ MinAlloc \in Nat
  BY FifoAssumption
<1>3. -Length[chain[1]] <= x /\ x <= Size + MinAlloc + Length[chain[1]]
  BY <1>1, <1>2
<1> QED
  BY <1>1, <1>3 DEF Near

\* What an operation that has begun relies on.
OpInv(op, n, offset) ==
  /\ op \in Ops /\ n \in Nat \ {0} /\ offset \in Nat
  /\ Off(tail) + offset + n <= Size
  /\ op = "nocopy" => role = "tx"
  /\ op = "offset" => role = "rx" /\ offset > 0
  /\ op # "offset" => offset = 0

LEMMA CopyingInv ==
  ASSUME FifoInv, NEW op, NEW n, NEW offset, NEW c \in Links, OpInv(op, n, offset),
         UNCHANGED <<role, head, tail, ooos>>, ooos # <<>> => c = tail_chunk',
         End' \in Int, Off(tail) + offset + n <= End',
         prod' = Copying(op, n, offset, c)
  PROVE  prod' \in ProdCalls /\ ProdInv' /\ prod'.pc = "copy"
<1>0. Null \in Links
  BY DEF Links
<1>1. Off(tail)' = Off(tail) /\ End \in Int /\ Off(tail) \in Int
  BY ListTypes DEF Off, FifoInv
<1>2. CASE op \in InOrder
  <2>1. op # "offset" /\ offset = 0 /\ op \notin {"nocopy", "offset"}
    BY <1>2 DEF InOrder, OpInv
  <2>2. prod' = [pc |-> "copy", op |-> "inOrder", n |-> n, offset |-> 0,
                 old |-> IF ooos = <<>> THEN Null ELSE c]
    BY <1>2 DEF Copying
  <2> DEFINE old == IF ooos = <<>> THEN Null ELSE c
  <2>3. old \in Links /\ (ooos # <<>> => old = c)
    BY <1>0
  <2> HIDE DEF old
  <2>4. prod' = [pc |-> "copy", op |-> "inOrder", n |-> n, offset |-> 0, old |-> old]
    BY <2>2 DEF old
  <2>5. prod' \in ProdCalls
    BY <2>3, <2>4 DEF ProdCalls, OpInv
  <2>6. Off(tail)' + 0 + n <= Size /\ Off(tail)' + 0 + n <= End'
    <3>1. n \in Nat /\ Off(tail) + 0 + n <= Size /\ Off(tail) + 0 + n <= End'
      BY <2>1 DEF OpInv
    <3> QED
      BY <1>1, <3>1
  <2>7. /\ prod'.pc = "copy" /\ prod'.op = "inOrder" /\ prod'.n = n /\ prod'.offset = 0
        /\ prod'.old = old
    BY <2>4
  <2> QED
    BY <2>3, <2>5, <2>6, <2>7 DEF ProdInv
<1>3. CASE op \notin InOrder
  <2>1. /\ op \in {"nocopy", "offset"} /\ n \in Nat \ {0} /\ offset \in Nat
        /\ Off(tail) + offset + n <= Size
    BY <1>3 DEF OpInv, Ops
  <2>2. prod' = [pc |-> "copy", op |-> op, n |-> n, offset |-> offset]
    BY <1>3 DEF Copying
  <2>3. prod' \in ProdCalls
    BY <2>1, <2>2 DEF ProdCalls
  <2>4. Off(tail)' + offset + n <= Size /\ Off(tail)' + offset + n <= End'
    BY <1>1, <2>1
  <2>5. prod'.pc = "copy" /\ prod'.op = op /\ prod'.n = n /\ prod'.offset = offset
    BY <2>2
  <2>6. /\ op = "nocopy" => role' = "tx"
        /\ op = "offset" => role' = "rx" /\ offset > 0
        /\ op # "offset" => offset = 0
        /\ op # "inOrder"
    BY <2>1 DEF OpInv
  <2> QED
    BY <2>3, <2>4, <2>5, <2>6 DEF ProdInv
<1> QED
  BY <1>2, <1>3

\* A step that only changes the producer's call.
LEMMA ProdStep ==
  ASSUME FifoInv, UNCHANGED <<role, listVars, data, tail, tail_chunk, oooEnqVars, consVars>>,
         prod' \in ProdCalls, ProdInv', produced' = produced
  PROVE  FifoInv'
<1>1. /\ Types /\ ChainInv /\ OrderInv /\ TailInv /\ HeadInv /\ ProdInv /\ ConsInv
      /\ SegInv /\ EnqInv /\ DeqInv /\ DataInv
  BY DEF FifoInv
<1>2. UNCHANGED <<role, head, tail, chain, start_byte, free, data, head_chunk, tail_chunk,
                  ooos, ooo_enq, ooo_enq_lookup, ooo_deq, ooo_deq_lookup, cons, closed,
                  oooEnqVars, oooDeqVars>>
  BY DEF listVars, oooEnqVars, oooDeqVars, consVars
<1>3. consumed' = consumed /\ Target' = Target
  BY <1>2 DEF consumed, Target, Off
<1>4. Types'
  BY <1>1, <1>2 DEF Types
<1>5. ChainInv' /\ OrderInv' /\ TailInv' /\ HeadInv' /\ ConsInv'
  BY <1>1, <1>2, <1>3, ChainFrame, OrderFrame, TailFrame, HeadFrame, ConsFrame
<1>6. SegInv' /\ EnqInv' /\ DeqInv'
  BY <1>1, <1>2, SegFrame, EnqFrame, DeqFrame
<1>7. DataInv'
  <2>1. \A x \in Int : Live(x)' => Live(x)
    BY <1>2, <1>3, LiveFrame
  <2>2. \A i \in 1..Len(chain) : St(i) \in Int
    BY <1>1, ListTypes
  <2> QED
    BY <1>1, <1>2, <2>1, <2>2, DataFrame
<1> QED
  BY <1>4, <1>5, <1>6, <1>7 DEF FifoInv

LEMMA CallInv ==
  ASSUME FifoInv, Fits, prod = Idle, NEW op, NEW n, NEW offset, OpInv(op, n, offset),
         Call(op, n, offset),
         UNCHANGED <<role, listVars, data, tail, tail_chunk, oooEnqVars, consVars>>
  PROVE  FifoInv'
<1> DEFINE T == Off(tail) + offset + n
<1>1. /\ Geo /\ tail \in Pos /\ tail_chunk \in Links
      /\ op \in Ops /\ n \in Nat \ {0} /\ offset \in Nat /\ T <= Size
  BY Basics DEF OpInv, FifoInv, Types
<1>2. /\ Off(tail) \in Int /\ End \in Int /\ Size \in Nat /\ MinAlloc \in Nat
      /\ 0 <= Off(tail) /\ T \in Int /\ T = Off(tail) + (offset + n) /\ offset + n \in Nat
      /\ Off(tail) <= Size /\ Off(tail) <= End
      /\ LargestSize \in Nat /\ Size <= LargestSize
  BY <1>1, Basics, ListTypes, FifoAssumption DEF FifoInv, Fits
<1>3. UNCHANGED <<role, head, tail, chain, start_byte, ooos, tail_chunk>>
  BY DEF listVars, oooEnqVars, consVars
<1>4. End' = End /\ Off(tail)' = Off(tail)
  BY <1>3, SameList DEF Off
<1>5. prod' \in ProdCalls /\ ProdInv' /\ prod'.pc # "store"
  <2>1. CASE f_pos_gt(Plus(tail, offset + n), f_chunk_end(end_chunk))
    <3>1. prod' = [pc |-> "grow", op |-> op, n |-> n, offset |-> offset,
                   alloc |-> AllocSize(offset + n), old |-> tail_chunk]
      BY <2>1 DEF Call
    <3>2. T > End
      <4>1. Near(Off(tail)) /\ Near(Off(tail) + (offset + n)) /\ Near(End)
        <5>1. 0 <= T
          BY ONLY <1>1, <1>2
        <5> QED
          BY <1>1, <1>2, <5>1, NearSize, ListNear
      <4> DEFINE p == Plus(tail, offset + n)
                 e == f_chunk_end(end_chunk)
      <4>2. p \in Pos /\ Off(p) = T
        BY <1>1, <1>2, <4>1, Ahead
      <4>3. e \in Pos /\ Off(e) = End
        BY Basics
      <4>a. f_pos_gt(p, e)
        BY <2>1
      <4> HIDE DEF p, e
      <4>4. f_pos_gt(p, e) <=> Off(p) > Off(e)
        BY <1>1, <1>2, <4>1, <4>2, <4>3, PosCmp
      <4> QED
        BY <4>a, <4>2, <4>3, <4>4
    <3> DEFINE a == AllocSize(offset + n)
    <3>3. a \in Int /\ T <= End + a /\ End + a <= Size + MinAlloc /\ a <= LargestSize
      <4> DEFINE x == f_free_count(head, tail)
                 y == Minus(f_chunk_end(end_chunk), tail)
                 m == Min2(MinAlloc, x)
                 l == (offset + n) - y
      <4>1. a = Max2(m, l)
        BY DEF AllocSize
      <4>0. x = Size - Off(tail) /\ y = End - Off(tail)
        BY Basics
      <4> HIDE DEF a, T, x, y
      <4>2. /\ MinAlloc \in Nat /\ Off(tail) \in Int /\ Size \in Int /\ End \in Int
            /\ T \in Int /\ T <= Size /\ T > End /\ Off(tail) <= Size
            /\ 0 <= Off(tail) /\ Off(tail) <= End /\ LargestSize \in Nat /\ Size <= LargestSize
        BY <1>1, <1>2, <3>2
      <4>3. m \in Int /\ m <= MinAlloc /\ m <= Size
        BY ONLY <4>0, <4>2 DEF Min2
      <4>4. l \in Int /\ l <= T - End /\ T - End <= l
        BY <1>1, <1>2, <4>0
      <4> HIDE DEF m, l
      <4>6. a \in {m, l} /\ a \in Int /\ l <= a
        BY <4>3, <4>4, <4>1 DEF Max2
      <4> QED
        BY ONLY <4>2, <4>3, <4>4, <4>6
    <3> HIDE DEF a
    <3>4. prod' = [pc |-> "grow", op |-> op, n |-> n, offset |-> offset, alloc |-> a,
                   old |-> tail_chunk]
      BY <3>1 DEF a
    <3>5. prod' \in ProdCalls
      BY <1>1, <3>3, <3>4 DEF ProdCalls
    <3>6. /\ prod'.pc = "grow" /\ prod'.op = op /\ prod'.n = n /\ prod'.offset = offset
          /\ prod'.alloc = a /\ prod'.old = tail_chunk
      BY <3>4
    <3>7. End < T
      BY <1>2, <3>2
    <3>8. ProdInv'
      BY <1>3, <1>4, <1>1, <3>3, <3>6, <3>7 DEF ProdInv, OpInv
    <3> QED
      BY <3>5, <3>6, <3>8
  <2>2. CASE ~f_pos_gt(Plus(tail, offset + n), f_chunk_end(end_chunk))
    <3>1. prod' = Copying(op, n, offset, tail_chunk)
      BY <2>2 DEF Call
    <3>2. T <= End
      <4>1. Near(Off(tail)) /\ Near(Off(tail) + (offset + n)) /\ Near(End)
        <5>1. 0 <= T
          BY ONLY <1>1, <1>2
        <5> QED
          BY <1>1, <1>2, <5>1, NearSize, ListNear
      <4> DEFINE p == Plus(tail, offset + n)
                 e == f_chunk_end(end_chunk)
      <4>2. p \in Pos /\ Off(p) = T
        BY <1>1, <1>2, <4>1, Ahead
      <4>3. e \in Pos /\ Off(e) = End
        BY Basics
      <4>a. ~f_pos_gt(p, e)
        BY <2>2
      <4> HIDE DEF p, e
      <4>4. f_pos_gt(p, e) <=> Off(p) > Off(e)
        BY <1>1, <1>2, <4>1, <4>2, <4>3, PosCmp
      <4> QED
        BY <1>2, <4>a, <4>2, <4>3, <4>4
    <3>3. End' \in Int /\ Off(tail) + offset + n <= End'
      BY <1>2, <1>4, <3>2
    <3>4. tail_chunk \in Links /\ tail_chunk = tail_chunk'
      BY <1>1, <1>3
    <3>5. prod' \in ProdCalls /\ ProdInv' /\ prod'.pc = "copy"
      BY <1>3, <3>1, <3>2, <3>3, <3>4, CopyingInv
    <3> QED
      BY <3>5
  <2> QED
    BY <2>1, <2>2
<1>6. produced' = produced
  BY <1>3, <1>5 DEF produced, Idle
<1> QED
  BY <1>5, <1>6, ProdStep

LEMMA EnqueueLoadInv ==
  ASSUME FifoInv, Fits, EnqueueLoad
  PROVE  FifoInv'
<1>1. PICK op \in InOrder \cup {"nocopy"}, len \in Lens :
        /\ op = "nocopy" => role = "tx"
        /\ Call(op, Min2(len, f_free_count(head, tail)), 0)
  BY DEF EnqueueLoad
<1> DEFINE n == Min2(len, f_free_count(head, tail))
<1>2. f_free_count(head, tail) = Size - Off(tail) /\ f_free_count(head, tail) > 0
  BY Basics DEF EnqueueLoad
<1>3. Off(tail) \in Int /\ Size \in Nat /\ len \in Nat \ {0}
  BY ListTypes, FifoAssumption DEF FifoInv, Lens
<1>4. n \in Nat \ {0} /\ Off(tail) + 0 + n <= Size
  BY <1>2, <1>3 DEF Min2
<1>5. op \in Ops /\ op # "offset"
  BY DEF Ops, InOrder
<1> HIDE DEF n
<1>6. OpInv(op, n, 0)
  BY <1>1, <1>4, <1>5 DEF OpInv
<1>7. Call(op, n, 0)
  BY <1>1 DEF n
<1> QED
  BY <1>6, <1>7, CallInv DEF EnqueueLoad

LEMMA OffsetLoadInv ==
  ASSUME FifoInv, Fits, OffsetLoad
  PROVE  FifoInv'
<1>1. PICK offset \in Lens, len \in Lens :
        offset + len <= f_free_count(head, tail) /\ Call("offset", len, offset)
  BY DEF OffsetLoad
<1>2. f_free_count(head, tail) = Size - Off(tail) /\ role = "rx"
  BY Basics DEF OffsetLoad
<1>3. Off(tail) \in Int /\ Size \in Nat /\ len \in Nat \ {0} /\ offset \in Nat /\ offset > 0
  BY ListTypes, FifoAssumption DEF FifoInv, Lens
<1>4. Off(tail) + offset + len <= Size
  BY <1>1, <1>2, <1>3
<1>5. OpInv("offset", len, offset)
  BY <1>2, <1>3, <1>4 DEF OpInv, Ops
<1> QED
  BY <1>1, <1>5, CallInv DEF OffsetLoad

LEMMA ChunkAllocFailsInv ==
  ASSUME FifoInv, ChunkAllocFails
  PROVE  FifoInv'
<1> DEFINE n == Minus(f_chunk_end(end_chunk), tail)
<1>1. prod.pc = "grow" /\ prod' = IF prod.op \in {"enqueue", "partial"} /\ n > 0
                                  THEN Grown(n, tail_chunk) ELSE Idle
  BY DEF ChunkAllocFails
<1>2. n = End - Off(tail)
  BY Basics
<1> HIDE DEF n
<1>3. UNCHANGED <<role, listVars, data, tail, tail_chunk, oooEnqVars, consVars>>
  BY DEF ChunkAllocFails
<1>4. UNCHANGED <<role, head, tail, chain, start_byte, ooos, tail_chunk>>
  BY <1>3 DEF listVars, oooEnqVars, consVars
<1>5. prod' \in ProdCalls /\ ProdInv' /\ prod'.pc # "store"
  <2>1. CASE prod.op \in {"enqueue", "partial"} /\ n > 0
    <3>1. /\ End < Off(tail) + prod.offset + prod.n /\ Off(tail) + prod.offset + prod.n <= Size
          /\ prod.op # "offset" => prod.offset = 0
          /\ prod.old = tail_chunk
      BY <1>1 DEF FifoInv, ProdInv
    <3>2. prod.offset = 0
      BY <2>1, <3>1
    <3>3. /\ Off(tail) \in Int /\ End \in Int /\ Size \in Nat /\ tail_chunk \in Links
          /\ prod.n \in Nat /\ prod.op \in Ops
      <4>1. Off(tail) \in Int /\ End \in Int /\ Size \in Nat /\ tail_chunk \in Links
        BY ListTypes, FifoAssumption DEF FifoInv, Types
      <4>2. prod \in ProdCalls
        BY DEF FifoInv, Types
      <4>3. prod.n \in Nat
        BY <1>1, <4>2 DEF ProdCalls, Idle
      <4>4. prod.op \in Ops
        BY <2>1 DEF Ops, InOrder
      <4> QED
        BY <4>1, <4>3, <4>4
    <3>4. n \in Nat \ {0} /\ Off(tail) + 0 + n <= Size /\ Off(tail) + 0 + n <= End
      BY <1>2, <2>1, <3>1, <3>2, <3>3
    <3>5. prod' = Copying(prod.op, n, 0, tail_chunk)
      BY <1>1, <2>1, <3>1, <3>2 DEF Grown
    <3>6. OpInv(prod.op, n, 0)
      BY <2>1, <3>3, <3>4 DEF OpInv
    <3>7. End' = End
      BY <1>4, SameList
    <3>8. prod' \in ProdCalls /\ ProdInv' /\ prod'.pc = "copy"
      BY <1>4, <3>3, <3>4, <3>5, <3>6, <3>7, CopyingInv
    <3> QED
      BY <3>8
  <2>2. CASE ~(prod.op \in {"enqueue", "partial"} /\ n > 0)
    BY <1>1, <2>2 DEF ProdCalls, Idle, ProdInv
  <2> QED
    BY <2>1, <2>2
<1>6. produced' = produced
  BY <1>1, <1>4, <1>5 DEF produced
<1> QED
  BY <1>3, <1>5, <1>6, ProdStep

\* The tail chunk of an enqueue in progress.
LEMMA CopyChunk ==
  ASSUME FifoInv, prod.pc = "copy"
  PROVE  /\ produced = tail /\ prod.n \in Nat \ {0} /\ prod.offset \in Nat
         /\ Off(tail) + prod.offset + prod.n <= End /\ Off(tail) + prod.offset + prod.n <= Size
         /\ \E i \in 1..Len(chain) : tail_chunk = chain[i] /\ St(i) <= Off(tail) /\ Off(tail) < En(i)
<1>1. prod \in ProdCalls
  BY DEF FifoInv, Types
<1>2. prod.n \in Nat \ {0} /\ prod.offset \in Nat
  BY <1>1 DEF ProdCalls, Idle
<1>3. produced = tail
  BY DEF produced
<1>4. /\ Off(tail) + prod.offset + prod.n <= End /\ Off(tail) + prod.offset + prod.n <= Size
  BY DEF FifoInv, ProdInv
<1>5. Off(tail) \in Int /\ End \in Int /\ DOMAIN chain = 1..Len(chain)
  BY ListTypes DEF FifoInv
<1>6. Off(produced) # End
  BY <1>2, <1>3, <1>4, <1>5
<1>7. HasAt(tail_chunk, Off(produced))
  BY <1>6 DEF FifoInv, TailInv
<1> QED
  BY <1>2, <1>3, <1>4, <1>5, <1>7 DEF HasAt

LEMMA LiveIs ==
  \A x : Live(x) <=> (Off(consumed) <= x /\ x < Off(produced)) \/ InSegs(ooos, x)
BY DEF Live, InSegs, SegSt, SegEn

\* Bytes are copied behind the tail, and the tail will move up to np.
LEMMA AdvanceInv ==
  ASSUME FifoInv, prod.pc = "copy", prod.op # "offset",
         NEW n \in Nat \ {0}, n <= prod.n, NEW np \in Pos,
         Off(tail) + n <= Off(np), Off(np) <= Size, Off(np) <= End,
         data' = CopyTo(tail_chunk, tail, n), prod' = [pc |-> "store", tail |-> np],
         UNCHANGED <<role, listVars, tail, consVars>>,
         \A x \in Int : Off(tail) + n <= x /\ x < Off(np) => InSegs(ooos, x),
         \A x \in Int : InSegs(ooos', x) => InSegs(ooos, x),
         ooos' \in Seq(SegRec), tail_chunk' \in Links, ooo_enq' \in Links,
         TailInv', SegInv', EnqInv'
  PROVE  FifoInv'
<1>1. /\ Types /\ ChainInv /\ OrderInv /\ HeadInv /\ ProdInv /\ ConsInv /\ DeqInv /\ DataInv /\ Geo
  BY Basics DEF FifoInv
<1>2. UNCHANGED <<role, head, tail, chain, start_byte, free, head_chunk,
                  ooo_deq, ooo_deq_lookup, cons, closed, oooDeqVars>>
  BY DEF listVars, oooDeqVars, consVars
<1>3. consumed' = consumed /\ Target' = Target
  BY <1>2 DEF consumed, Target, Off
<1>4. /\ produced = tail /\ prod.n \in Nat /\ prod.offset = 0
      /\ Off(tail) + prod.offset + prod.n <= End
  BY <1>1, CopyChunk DEF ProdInv
<1>5. PICK i \in 1..Len(chain) : tail_chunk = chain[i] /\ St(i) <= Off(tail) /\ Off(tail) < En(i)
  BY CopyChunk
<1>6. produced' = np /\ prod'.pc = "store"
  BY DEF produced
<1>7. /\ Off(tail) \in Int /\ Off(np) \in Int /\ End \in Int /\ Off(consumed) \in Int /\ Size \in Nat
      /\ tail \in Pos /\ Off(tail) + n <= End
  <2>1. /\ Off(tail) \in Int /\ Off(np) \in Int /\ End \in Int /\ Off(consumed) \in Int /\ Size \in Nat
        /\ tail \in Pos
    BY <1>1, ListTypes, OffInt, FifoAssumption DEF Types
  <2> QED
    BY <1>4, <2>1
<1>8. /\ Off(produced)' = Off(np) /\ Off(consumed)' = Off(consumed) /\ End' = End
      /\ Off(tail)' = Off(tail)
  BY <1>2, <1>3, <1>6, SameList DEF Off
<1> DEFINE C == CopyTo(tail_chunk, tail, n)
<1>9. /\ DOMAIN C = AllCells
      /\ \A m \in 1..Len(chain) : \A k \in 0..(Length[chain[m]] - 1) :
           C[<<chain[m], k>>] = IF Off(tail) <= St(m) + k /\ St(m) + k < Off(tail) + n
                                THEN Plus(start_byte[chain[m]], k)
                                ELSE data[<<chain[m], k>>]
  BY <1>1, <1>5, <1>7, CopyToIs, SMTT(20)
<1> HIDE DEF C
<1>10. data' = C
  BY DEF C
<1>11. Types'
  <2>1. prod' \in ProdCalls
    BY DEF ProdCalls
  <2>2. DOMAIN data' = AllCells
    BY <1>9, <1>10
  <2>3. ooos' \in Seq([start : Pos, length : Nat \ {0}])
    BY DEF SegRec
  <2> QED
    BY <1>1, <1>2, <2>1, <2>2, <2>3 DEF Types
<1>12. ChainInv' /\ HeadInv' /\ ConsInv' /\ DeqInv'
  BY <1>1, <1>2, <1>3, ChainFrame, HeadFrame, ConsFrame, DeqFrame
<1>13. OrderInv'
  <2>1. 0 <= Off(consumed) /\ Off(consumed) <= Off(tail)
    BY <1>1 DEF OrderInv
  <2>2. Off(tail) <= Off(np)
    BY <1>7
  <2> QED
    BY <1>8, <2>1, <2>2 DEF OrderInv
<1>14. ProdInv'
  BY <1>6 DEF ProdInv
<1>15. DataInv'
  <2>1. \A m : St(m)' = St(m)
    BY <1>2, SameList
  <2>2. SUFFICES ASSUME NEW m \in 1..Len(chain), NEW k \in 0..(Length[chain[m]] - 1), Live(St(m) + k)'
                 PROVE  C[<<chain[m], k>>] = Plus(start_byte[chain[m]], k)
    BY <1>2, <1>10 DEF DataInv
  <2> DEFINE x == St(m) + k
  <2>3. x \in Int
    BY <1>1, CellPos
  <2>4. (Off(consumed) <= x /\ x < Off(np)) \/ InSegs(ooos', x)
    <3>1. \/ Off(consumed)' <= x /\ x < Off(produced)'
          \/ \E j \in 1..Len(ooos') : SegSt(j)' <= x /\ x < SegEn(j)'
      BY <2>1, <2>2 DEF Live
    <3>2. (\E j \in 1..Len(ooos') : SegSt(j)' <= x /\ x < SegEn(j)') => InSegs(ooos', x)
      BY <1>2 DEF SegSt, SegEn, InSegs, Off
    <3> QED
      BY <1>8, <3>1, <3>2
  <2>5. CASE Off(tail) <= x /\ x < Off(tail) + n
    BY <1>9, <2>5
  <2>6. CASE ~(Off(tail) <= x /\ x < Off(tail) + n)
    <3>1. (Off(consumed) <= x /\ x < Off(tail)) \/ InSegs(ooos, x)
      <4>1. CASE InSegs(ooos', x)
        BY <2>3, <4>1
      <4>2. CASE Off(consumed) <= x /\ x < Off(np)
        <5> HIDE DEF x
        <5>1. CASE x < Off(tail)
          BY <4>2, <5>1
        <5>2. CASE ~(x < Off(tail))
          <6>1. Off(tail) + n <= x
            <7>1. n \in Nat
              OBVIOUS
            <7> QED
              BY ONLY <1>7, <2>3, <2>6, <5>2, <7>1
          <6> QED
            BY <2>3, <4>2, <6>1
        <5> QED
          BY <5>1, <5>2
      <4> QED
        BY <2>4, <4>1, <4>2
    <3>2. Live(x)
      BY <1>4, <3>1, LiveIs
    <3>3. data[<<chain[m], k>>] = Plus(start_byte[chain[m]], k)
      BY <1>1, <3>2 DEF DataInv
    <3> QED
      BY <1>9, <2>6, <3>3
  <2> QED
    BY <2>5, <2>6
<1> QED
  BY <1>11, <1>12, <1>13, <1>14, <1>15 DEF FifoInv

LEMMA TailAt ==
  ASSUME Types, UNCHANGED <<head, chain, start_byte>>, NEW np, produced' = np,
         \/ \E m \in 1..Len(chain) : tail_chunk' = chain[m] /\ St(m) <= Off(np) /\ Off(np) < En(m)
         \/ tail_chunk' = Null /\ Off(np) = End
  PROVE  TailInv' /\ tail_chunk' \in Links
<1>1. Off(produced)' = Off(np) /\ End' = End /\ DOMAIN chain' = 1..Len(chain)
  BY SameList, ListTypes DEF Off
<1>2. \A m : St(m)' = St(m) /\ En(m)' = En(m)
  BY SameList
<1>3. CASE tail_chunk' = Null /\ Off(np) = End
  BY <1>1, <1>3 DEF TailInv, Links
<1>4. CASE \E m \in 1..Len(chain) : tail_chunk' = chain[m] /\ St(m) <= Off(np) /\ Off(np) < En(m)
  <2>1. PICK m \in 1..Len(chain) : tail_chunk' = chain[m] /\ St(m) <= Off(np) /\ Off(np) < En(m)
    BY <1>4
  <2>2. HasAt(tail_chunk, Off(produced))'
    BY <1>1, <1>2, <2>1 DEF HasAt
  <2>3. tail_chunk' \in Links
    BY <2>1, ListTypes DEF Links
  <2> QED
    BY <2>2, <2>3 DEF TailInv
<1> QED
  BY <1>3, <1>4

\* Without out-of-order segments the tail moves by what was copied.
LEMMA PlainInv ==
  ASSUME FifoInv, prod.pc = "copy", prod.op # "offset", ooos = <<>>,
         NEW n \in Nat \ {0}, n <= prod.n,
         data' = CopyTo(tail_chunk, tail, n), prod' = [pc |-> "store", tail |-> Plus(tail, n)],
         tail_chunk' \in {LastChunk(tail_chunk, tail, n), FindIn(From(tail_chunk), Plus(tail, n))},
         UNCHANGED <<role, listVars, tail, oooEnqVars, consVars>>
  PROVE  FifoInv'
<1> DEFINE np == Plus(tail, n)
<1>1. Types /\ Geo /\ EnqInv
  BY Basics DEF FifoInv
<1>2. /\ produced = tail /\ prod.n \in Nat /\ prod.offset = 0
      /\ Off(tail) + prod.offset + prod.n <= End /\ Off(tail) + prod.offset + prod.n <= Size
  BY CopyChunk DEF FifoInv, ProdInv
<1>3. /\ Off(tail) \in Int /\ End \in Int /\ Size \in Nat /\ tail \in Pos /\ 0 <= Off(tail)
      /\ Near(Off(tail))
  BY <1>1, Basics, ListTypes, ListNear, FifoAssumption DEF Types
<1>4. Off(tail) + n <= Size /\ Off(tail) + n <= End /\ Off(tail) + n \in Int /\ 0 <= Off(tail) + n
  BY <1>2, <1>3
<1>5. Near(Off(tail) + n)
  BY <1>1, <1>4, NearSize
<1>6. np \in Pos /\ Off(np) = Off(tail) + n
  BY <1>1, <1>3, <1>5, Ahead
<1>7. UNCHANGED <<head, chain, start_byte, ooos, ooo_enq, ooo_enq_lookup, role>>
  BY DEF listVars, oooEnqVars, consVars
<1> HIDE DEF np
<1>8. prod' = [pc |-> "store", tail |-> np]
  BY DEF np
<1>9. produced' = np
  BY <1>8 DEF produced
<1>10. TailInv' /\ tail_chunk' \in Links
  <2>1. PICK i \in 1..Len(chain) : tail_chunk = chain[i] /\ St(i) <= Off(tail) /\ Off(tail) < En(i)
    BY CopyChunk
  <2>2. St(i) \in Int /\ Near(Off(np)) /\ St(i) <= Off(np)
    <3>1. St(i) \in Int
      BY <1>1, ListTypes
    <3> QED
      BY <1>3, <1>5, <1>6, <2>1, <3>1
  <2>3. \A m \in i..Len(chain) : m \in 1..Len(chain)
    BY <1>1, ListTypes
  <2>4. \/ \E m \in 1..Len(chain) : tail_chunk' = chain[m] /\ St(m) <= Off(np) /\ Off(np) < En(m)
        \/ tail_chunk' = Null /\ Off(np) = End
    <3>1. CASE tail_chunk' = LastChunk(tail_chunk, tail, n)
      <4>1. /\ Off(tail) + n < End =>
                 \E m \in i..Len(chain) : /\ LastChunk(chain[i], tail, n) = chain[m]
                                          /\ St(m) <= Off(tail) + n /\ Off(tail) + n < En(m)
            /\ End <= Off(tail) + n => LastChunk(chain[i], tail, n) = Null
        BY <1>1, <1>3, <2>1, LastChunkIs
      <4>2. CASE Off(tail) + n < End
        BY <1>6, <2>1, <2>3, <3>1, <4>1, <4>2
      <4>3. CASE ~(Off(tail) + n < End)
        <5>1. Off(tail) + n = End
          BY <1>3, <1>4, <4>3
        <5> QED
          BY <1>3, <1>6, <2>1, <3>1, <4>1, <5>1
      <4> QED
        BY <4>2, <4>3
    <3>2. CASE tail_chunk' = FindIn(From(tail_chunk), np)
      <4>1. /\ Off(np) < End =>
                 \E m \in i..Len(chain) : /\ FindIn(From(chain[i]), np) = chain[m]
                                          /\ St(m) <= Off(np) /\ Off(np) < En(m)
            /\ End <= Off(np) => FindIn(From(chain[i]), np) = Null
        BY <1>1, <1>6, <2>2, FindFrom
      <4>2. CASE Off(np) < End
        BY <2>1, <2>3, <3>2, <4>1, <4>2
      <4>3. CASE ~(Off(np) < End)
        <5>1. Off(np) = End
          BY <1>3, <1>4, <1>6, <4>3
        <5> QED
          BY <1>3, <1>6, <2>1, <3>2, <4>1, <5>1
      <4> QED
        BY <4>2, <4>3
    <3> QED
      BY <3>1, <3>2 DEF np
  <2> QED
    BY <1>1, <1>7, <1>9, <2>4, TailAt
<1>11. SegInv'
  BY <1>7, SMT DEF SegInv
<1>12. ooo_enq = Null /\ ooo_enq_lookup = {}
  BY <1>1 DEF EnqInv
<1>13. EnqInv' /\ ooo_enq' \in Links
  BY <1>7, <1>12 DEF EnqInv, Links
<1>14. \A x : ~InSegs(ooos', x)
  BY <1>7 DEF InSegs
<1>15. ooos' \in Seq(SegRec)
  BY <1>1, <1>7 DEF Types, SegRec
<1>16. Off(tail) + n <= Off(np) /\ Off(np) <= Size /\ Off(np) <= End
  BY <1>3, <1>4, <1>6
<1>17. \A x \in Int : ~(Off(tail) + n <= x /\ x < Off(np))
  BY <1>3, <1>6
<1>18. UNCHANGED <<role, listVars, tail, consVars>>
  OBVIOUS
<1>19. \A x \in Int : Off(tail) + n <= x /\ x < Off(np) => InSegs(ooos, x)
  BY <1>17
<1>20. \A x \in Int : InSegs(ooos', x) => InSegs(ooos, x)
  BY <1>14
<1> QED
  BY <1>6, <1>8, <1>10, <1>11, <1>13, <1>15, <1>16, <1>18, <1>19, <1>20, AdvanceInv

LEMMA NocopyCopyInv ==
  ASSUME FifoInv, NocopyCopy
  PROVE  FifoInv'
<1>1. PICK n \in 1..prod.n :
        /\ data' = CopyTo(tail_chunk, tail, n)
        /\ tail_chunk' = FindIn(From(tail_chunk), Plus(tail, n))
        /\ prod' = [pc |-> "store", tail |-> Plus(tail, n)]
  BY DEF NocopyCopy
<1>2. prod.pc = "copy" /\ prod.op = "nocopy" /\ UNCHANGED <<role, listVars, tail, oooEnqVars, consVars>>
  BY DEF NocopyCopy
<1>3. prod.n \in Nat
  BY <1>2, CopyChunk
<1>4. ooos = <<>>
  BY <1>2 DEF FifoInv, ProdInv, SegInv
<1>5. n \in Nat \ {0} /\ n <= prod.n
  BY <1>3
<1> QED
  BY <1>1, <1>2, <1>4, <1>5, PlainInv

\* The chunks of the list from the a-th to the b-th.
Chunk(a, b) == {chain[m] : m \in a..b}

\* What is left in the producer's tree once the tail gets to np.
Cleared(r, np, segs) ==
  \/ Off(np) = End /\ r.chunk = Null /\ r.lookup = {}
  \/ \E j \in 1..Len(chain) :
       /\ r.chunk = chain[j] /\ St(j) <= Off(np) /\ Off(np) < En(j)
       /\ \/ r.lookup = {}
          \/ /\ segs # <<>>
             /\ \E hi \in 1..Len(chain) :
                  j <= hi /\ St(hi) <= SegEn(Len(ooos)) /\ r.lookup = Chunk(j, hi)

LEMMA ClearIs ==
  ASSUME Geo, EnqInv, NEW i \in 1..Len(chain), St(i) <= Off(produced), Off(produced) < En(i),
         NEW np \in Pos, Near(Off(np)), Off(produced) <= Off(np), Off(np) <= End, NEW segs,
         ooos \in Seq(SegRec), ooos # <<>>, SegEn(Len(ooos)) \in Int,
         segs = <<>> => SegEn(Len(ooos)) <= Off(np)
  PROVE  Cleared(ClearEnq(chain[i], np, segs), np, segs)
<1> DEFINE N == Len(chain)
           L == ooo_enq_lookup
           list == From(chain[i])
           last == FindIn(list, np)
           passed == IF last = Null THEN ToSet(list)
                     ELSE ToSet(SubSeq(list, 1, Index(last) - Index(chain[i])))
           r == ClearEnq(chain[i], np, segs)
<1>1. /\ N \in Nat \ {0} /\ Types
      /\ \A m \in 1..N : /\ chain[m] \in Chunks /\ chain[m] # Null
                         /\ St(m) \in Int /\ En(m) \in Int /\ St(m) < En(m)
      /\ Off(np) \in Int /\ Off(produced) \in Int /\ End \in Int
  BY ListTypes, OffInt, FifoAssumption DEF Geo
<1>2. r.chunk = last /\ r.lookup = (L \ passed) \ (IF segs = <<>> THEN {last} ELSE {})
  BY <1>1 DEF ClearEnq
<1>3. /\ Index(chain[i]) = i
      /\ list \in Seq(Chunks) /\ Len(list) = N - i + 1
      /\ \A j \in 1..(N - i + 1) : list[j] = chain[i + j - 1]
  BY FromIs
<1>4. /\ Off(np) < End =>
           \E j \in i..N : last = chain[j] /\ St(j) <= Off(np) /\ Off(np) < En(j)
      /\ End <= Off(np) => last = Null
  <2>1. St(i) <= Off(np)
    BY <1>1
  <2> QED
    BY <2>1, FindFrom
<1> HIDE DEF list, last, r
<1>5. \/ L = {}
      \/ \E hi \in 1..N : i <= hi /\ L = Chunk(i, hi) /\ St(hi) <= SegEn(Len(ooos))
  <2>1. CASE L # {}
    <3>1. PICK lo \in 1..N, hi \in 1..N :
            /\ lo <= hi /\ L = {chain[m] : m \in lo..hi}
            /\ St(lo) <= Off(produced) /\ Off(produced) < En(lo)
            /\ St(hi) <= SegEn(Len(ooos))
      BY <2>1 DEF EnqInv
    <3>2. lo = i
      BY <1>1, <3>1, Unique
    <3> QED
      BY <3>1, <3>2 DEF Chunk
  <2> QED
    BY <2>1
<1>6. CASE Off(np) = End
  <2>1. last = Null
    BY <1>1, <1>4, <1>6
  <2>2. passed = ToSet(list)
    BY <2>1
  <2>3. L \subseteq passed
    <3> SUFFICES ASSUME NEW hi \in 1..N, NEW m \in i..hi PROVE chain[m] \in ToSet(list)
      BY <1>5, <2>2 DEF Chunk
    <3>1. m - i + 1 \in 1..(N - i + 1) /\ i + (m - i + 1) - 1 = m
      BY <1>1
    <3>2. list[m - i + 1] = chain[m]
      BY <1>3, <3>1
    <3>3. DOMAIN list = 1..(N - i + 1)
      BY <1>3
    <3> QED
      BY <3>1, <3>2, <3>3 DEF ToSet
  <2>4. r.lookup = {}
    BY <1>2, <2>3
  <2> QED
    BY <1>2, <1>6, <2>1, <2>4 DEF r, Cleared
<1>7. CASE Off(np) # End
  <2>1. PICK j \in i..N : last = chain[j] /\ St(j) <= Off(np) /\ Off(np) < En(j)
    BY <1>1, <1>4, <1>7
  <2>2. j \in 1..N /\ last # Null /\ Index(last) = j /\ j \in Nat /\ i \in Nat /\ i <= j
    <3>1. j \in 1..N
      BY <1>1
    <3>2. Index(chain[j]) = j
      BY <3>1, FromIs
    <3>3. last # Null
      BY <1>1, <2>1, <3>1
    <3>4. j \in Nat /\ i \in Nat /\ i <= j
      BY <1>1
    <3> QED
      BY <2>1, <3>1, <3>2, <3>3, <3>4
  <2>3. passed = ToSet(SubSeq(list, 1, j - i))
    <3> DEFINE p == Index(last)
               q == Index(chain[i])
    <3>1. last # Null /\ p = j /\ q = i
      BY <1>3, <2>2
    <3>2. passed = ToSet(SubSeq(list, 1, p - q))
      BY <3>1
    <3> HIDE DEF p, q, passed
    <3> QED
      BY <3>1, <3>2
  <2>4. ASSUME NEW c PROVE c \in passed <=> \E m \in i..(j - 1) : c = chain[m]
    <3> DEFINE s == SubSeq(list, 1, j - i)
    <3>1. s \in Seq(Chunks) /\ Len(s) = j - i /\ \A q \in 1..(j - i) : s[q] = chain[i + q - 1]
      <4> DEFINE d == j - i
      <4>1. d \in Nat /\ d <= Len(list) /\ d <= N - i + 1
        BY <1>1, <1>3, <2>2
      <4> HIDE DEF d
      <4>2. s \in Seq(Chunks) /\ Len(s) = d /\ \A q \in 1..d : s[q] = list[q]
        <5>1. s = SubSeq(list, 1, d)
          BY DEF d
        <5> HIDE DEF s
        <5> QED
          BY ONLY <1>3, <4>1, <5>1
      <4>3. \A q \in 1..d : q \in 1..(N - i + 1)
        BY <1>1, <2>2, <4>1
      <4> QED
        BY <1>3, <4>2, <4>3 DEF d
    <3> HIDE DEF s
    <3>2. DOMAIN s = 1..(j - i)
      BY <3>1
    <3>3. ASSUME c \in passed PROVE \E m \in i..(j - 1) : c = chain[m]
      <4>1. PICK q \in 1..(j - i) : c = s[q]
        BY <2>3, <3>2, <3>3 DEF ToSet, s
      <4>2. i + q - 1 \in i..(j - 1) /\ c = chain[i + q - 1]
        BY <2>2, <3>1, <4>1
      <4> QED
        BY <4>2
    <3>4. ASSUME NEW m \in i..(j - 1), c = chain[m] PROVE c \in passed
      <4>1. m - i + 1 \in 1..(j - i) /\ i + (m - i + 1) - 1 = m
        BY <2>2
      <4>2. s[m - i + 1] = c
        BY <3>1, <3>4, <4>1
      <4> QED
        BY <2>3, <3>2, <4>1, <4>2 DEF ToSet, s
    <3> QED
      BY <3>3, <3>4
  <2> HIDE DEF passed
  <2>5. L \ passed = {} \/ \E hi \in 1..N : /\ j <= hi /\ L \ passed = Chunk(j, hi)
                                            /\ St(hi) <= SegEn(Len(ooos))
    <3>1. CASE L = {}
      BY <3>1
    <3>2. CASE L # {}
      <4>1. PICK hi \in 1..N : i <= hi /\ L = Chunk(i, hi) /\ St(hi) <= SegEn(Len(ooos))
        BY <1>5, <3>2
      <4>2. ASSUME NEW c PROVE c \in L \ passed <=> \E m \in j..hi : c = chain[m]
        <5>1. ASSUME c \in L \ passed PROVE \E m \in j..hi : c = chain[m]
          <6>1. PICK m \in i..hi : c = chain[m]
            BY <4>1, <5>1 DEF Chunk
          <6>2. ~(m \in i..(j - 1))
            BY <2>4, <5>1, <6>1
          <6>3. m \in j..hi
            BY <2>2, <6>2
          <6> QED
            BY <6>1, <6>3
        <5>2. ASSUME NEW m \in j..hi, c = chain[m] PROVE c \in L \ passed
          <6>0. N \in Nat /\ hi \in 1..N /\ i \in 1..N /\ m \in j..hi
            BY <1>1
          <6>1. m \in i..hi /\ m \in 1..N /\ m \in Nat /\ ~(m \in i..(j - 1))
            BY ONLY <6>0, <2>2
          <6>2. c \in L
            BY <4>1, <5>2, <6>1 DEF Chunk
          <6>3. ASSUME NEW q \in i..(j - 1), c = chain[q] PROVE FALSE
            <7>1. q \in 1..N /\ q # m
              BY ONLY <2>2, <6>0, <6>1, q \in i..(j - 1)
            <7> QED
              BY <5>2, <6>1, <6>3, <7>1, Inj
          <6> QED
            BY <2>4, <6>2, <6>3
        <5> QED
          BY <5>1, <5>2
      <4>3. CASE j <= hi
        <5>1. L \ passed = Chunk(j, hi)
          BY <4>2 DEF Chunk
        <5> QED
          BY <4>1, <4>3, <5>1
      <4>4. CASE ~(j <= hi)
        <5>1. L \ passed = {}
          BY <1>1, <2>2, <4>2, <4>4
        <5> QED
          BY <5>1
      <4> QED
        BY <4>3, <4>4
    <3> QED
      BY <3>1, <3>2
  <2>6. \/ r.lookup = {}
        \/ /\ segs # <<>>
           /\ \E hi \in 1..N : /\ j <= hi /\ St(hi) <= SegEn(Len(ooos))
                               /\ r.lookup = Chunk(j, hi)
    <3>1. CASE segs # <<>>
      BY <1>2, <2>5, <3>1
    <3>2. CASE segs = <<>>
      <4>1. r.lookup = (L \ passed) \ {chain[j]}
        BY <1>2, <2>1, <3>2
      <4>2. CASE L \ passed = {}
        BY <4>1, <4>2
      <4>3. CASE L \ passed # {}
        <5>1. PICK hi \in 1..N : j <= hi /\ L \ passed = Chunk(j, hi) /\ St(hi) <= SegEn(Len(ooos))
          BY <2>5, <4>3
        <5>2. hi = j
          <6>1. SegEn(Len(ooos)) <= Off(np)
            BY <3>2
          <6>2. j < hi => En(j) <= St(hi)
            BY <2>2 DEF Geo, ChainInv
          <6>3. St(hi) \in Int /\ En(j) \in Int
            BY <1>1, <2>2
          <6>4. ~(j < hi)
            <7>1. SegEn(Len(ooos)) \in Int /\ Off(np) \in Int
              BY <1>1
            <7>2. Off(np) < En(j) /\ St(hi) <= SegEn(Len(ooos))
              BY <2>1, <5>1
            <7> QED
              BY ONLY <6>1, <6>2, <6>3, <7>1, <7>2
          <6> QED
            BY <2>2, <5>1, <6>4
        <5>3. Chunk(j, hi) = {chain[j]}
          BY <2>2, <5>2 DEF Chunk
        <5> QED
          BY <4>1, <5>1, <5>3
      <4> QED
        BY <4>2, <4>3
    <3> QED
      BY <3>1, <3>2
  <2> QED
    BY <1>2, <2>1, <2>2, <2>6 DEF r, Cleared
<1> QED
  BY <1>6, <1>7

LEMMA SubIs ==
  ASSUME NEW S, NEW s \in Seq(S), NEW a \in 1..(Len(s) + 1)
  PROVE  /\ SubSeq(s, a, Len(s)) \in Seq(S)
         /\ Len(SubSeq(s, a, Len(s))) = Len(s) + 1 - a
         /\ \A i \in 1..(Len(s) + 1 - a) : SubSeq(s, a, Len(s))[i] = s[a + i - 1]
<1>1. CASE a = Len(s) + 1
  BY <1>1
<1>2. CASE a # Len(s) + 1
  BY <1>2
<1> QED
  BY <1>1, <1>2

LEMMA EnqueueCopyInv ==
  ASSUME FifoInv, EnqueueCopy
  PROVE  FifoInv'
<1> DEFINE n == prod.n
           t == Plus(tail, n)
           c == ooo_segment_try_collect(n, t)
           segs == SubSeq(ooos, c.gone + 1, Len(ooos))
           np == Plus(t, c.bytes)
           clear == ClearEnq(prod.old, np, segs)
<1>1. /\ prod.pc = "copy" /\ prod.op = "inOrder" /\ prod.op # "offset"
      /\ data' = CopyTo(tail_chunk, tail, n)
      /\ UNCHANGED <<role, listVars, tail, consVars>>
  BY DEF EnqueueCopy
<1>2. /\ produced = tail /\ n \in Nat \ {0} /\ n <= prod.n
      /\ Off(tail) + prod.offset + n <= End /\ Off(tail) + prod.offset + n <= Size
  BY <1>1, CopyChunk
<1>a. prod.offset = 0
  BY <1>1 DEF FifoInv, ProdInv
<1>3. CASE ooos = <<>>
  <2>1. /\ tail_chunk' = LastChunk(tail_chunk, tail, n)
        /\ prod' = [pc |-> "store", tail |-> t]
        /\ UNCHANGED oooEnqVars
    BY <1>3 DEF EnqueueCopy
  <2> QED
    BY <1>1, <1>2, <1>3, <2>1, PlainInv
<1>4. CASE ooos # <<>>
  <2>1. /\ tail_chunk' = clear.chunk
        /\ ooo_enq_lookup' = clear.lookup
        /\ ooo_enq' = Null
        /\ ooos' = segs
        /\ prod' = [pc |-> "store", tail |-> np]
    BY <1>4 DEF EnqueueCopy
  <2>2. Types /\ Geo /\ EnqInv /\ SegInv
    BY Basics DEF FifoInv
  <2>3. /\ Off(tail) \in Int /\ End \in Int /\ Size \in Nat /\ tail \in Pos /\ 0 <= Off(tail)
        /\ Near(Off(tail))
    BY <2>2, Basics, ListTypes, ListNear, FifoAssumption DEF Types
  <2>4. /\ Off(tail) + n <= Size /\ Off(tail) + n <= End
        /\ Off(tail) + n \in Int /\ 0 <= Off(tail) + n
    <3> HIDE DEF n
    <3> QED
      BY <1>2, <1>a, <2>3
  <2>5. t \in Pos /\ Off(t) = Off(tail) + n /\ Near(Off(t))
    <3>1. Near(Off(tail) + n)
      BY <2>2, <2>4, NearSize
    <3> QED
      BY <1>2, <2>2, <2>3, <3>1, Ahead
  <2> HIDE DEF n, t
  <2>6. /\ c.gone \in 0..Len(ooos) /\ c.bytes \in Nat
        /\ Off(t) + c.bytes <= Size /\ Off(t) + c.bytes <= End /\ Near(Off(t) + c.bytes)
        /\ \A i \in (c.gone + 1)..Len(ooos) : Off(t) + c.bytes < SegSt(i)
        /\ \A i \in 1..c.gone : SegEn(i) <= Off(t) + c.bytes
        /\ \A x \in Int : Off(t) <= x /\ x < Off(t) + c.bytes => InSegs(ooos, x)
    <3>1. Off(t) = Off(produced) + n /\ Off(t) <= Size /\ Off(t) <= End
      BY <1>2, <2>4, <2>5
    <3> QED
      BY <1>2, <2>2, <2>5, <3>1, CollectIs
  <2> HIDE DEF c
  <2>7. np \in Pos /\ Off(np) = Off(t) + c.bytes
    BY <2>2, <2>5, <2>6, Ahead
  <2> HIDE DEF np
  <2>8. Off(np) \in Int /\ Off(tail) + n <= Off(np) /\ Off(np) <= Size /\ Off(np) <= End /\ Near(Off(np))
    <3>1. n \in Nat /\ Off(tail) \in Int /\ c.bytes \in Nat
      BY <1>2, <2>3, <2>6
    <3>2. Off(t) \in Int /\ Off(tail) + n <= Off(np) /\ Off(np) \in Int
      BY ONLY <2>5, <2>7, <3>1
    <3> QED
      BY <2>6, <2>7, <3>2
  <2>9. UNCHANGED <<head, chain, start_byte, role>>
    BY <1>1 DEF listVars, consVars
  <2>10. produced' = np
    BY <2>1 DEF produced
  <2>11. /\ Len(ooos) \in Nat \ {0} /\ ooos \in Seq(SegRec)
         /\ \A i \in 1..Len(ooos) : SegSt(i) \in Int /\ SegEn(i) \in Int /\ SegEn(i) <= End
         /\ SegEn(Len(ooos)) \in Int
    <3>1. /\ Len(ooos) \in Nat /\ ooos \in Seq(SegRec)
          /\ \A i \in 1..Len(ooos) : SegSt(i) \in Int /\ SegEn(i) \in Int
      BY <2>2, SegsNear
    <3>2. Len(ooos) # 0
      BY <1>4, <3>1
    <3> QED
      BY <2>2, <3>1, <3>2 DEF SegInv
  <2>b. c.gone \in 0..Len(ooos) /\ Len(ooos) \in Nat
    BY <2>6, <2>11
  <2> DEFINE q == Len(ooos) - c.gone
  <2>12. /\ segs \in Seq(SegRec) /\ Len(segs) = q /\ q \in Nat
         /\ \A i \in 1..q : segs[i] = ooos[c.gone + i]
    <3> DEFINE a == c.gone + 1
    <3>1. a \in 1..(Len(ooos) + 1) /\ Len(ooos) + 1 - a = q /\ q \in Nat
      BY ONLY <2>b
    <3>2. \A i \in 1..q : a + i - 1 = c.gone + i
      BY ONLY <2>b
    <3> HIDE DEF a, q
    <3>3. /\ SubSeq(ooos, a, Len(ooos)) \in Seq(SegRec)
          /\ Len(SubSeq(ooos, a, Len(ooos))) = Len(ooos) + 1 - a
          /\ \A i \in 1..(Len(ooos) + 1 - a) : SubSeq(ooos, a, Len(ooos))[i] = ooos[a + i - 1]
      BY <2>11, <3>1, SubIs
    <3> QED
      BY <3>1, <3>2, <3>3 DEF a
  <2> HIDE DEF segs
  <2>13. segs = <<>> => c.gone = Len(ooos)
    BY <2>6, <2>11, <2>12
  <2>14. segs = <<>> => SegEn(Len(ooos)) <= Off(np)
    <3> HAVE segs = <<>>
    <3>1. Len(ooos) \in 1..c.gone
      BY <2>11, <2>13
    <3> QED
      BY <2>6, <2>7, <3>1
  <2>15. PICK i \in 1..Len(chain) : tail_chunk = chain[i] /\ St(i) <= Off(tail) /\ Off(tail) < En(i)
    BY <1>1, CopyChunk
  <2>16. prod.old = chain[i]
    BY <1>1, <1>4, <2>15 DEF FifoInv, ProdInv
  <2>17. \/ Off(np) = End /\ clear.chunk = Null /\ clear.lookup = {}
         \/ \E j \in 1..Len(chain) :
              /\ clear.chunk = chain[j]
              /\ St(j) <= Off(np) /\ Off(np) < En(j)
              /\ \/ clear.lookup = {}
                 \/ /\ segs # <<>>
                    /\ \E hi \in 1..Len(chain) :
                         /\ j <= hi /\ St(hi) <= SegEn(Len(ooos))
                         /\ clear.lookup = Chunk(j, hi)
    <3>1. Off(produced) <= Off(np) /\ St(i) <= Off(produced) /\ Off(produced) < En(i)
      <4>1. n \in Nat
        BY <1>2
      <4>2. Off(tail) <= Off(np)
        BY ONLY <2>3, <2>8, <4>1
      <4> QED
        BY <1>2, <2>15, <4>2
    <3> DEFINE r == ClearEnq(chain[i], np, segs)
    <3>2. clear = r
      BY <2>16
    <3> HIDE DEF clear
    <3>3. /\ np \in Pos /\ Near(Off(np)) /\ Off(produced) <= Off(np) /\ Off(np) <= End
          /\ ooos \in Seq(SegRec) /\ SegEn(Len(ooos)) \in Int
      BY <2>7, <2>8, <2>11, <3>1
    <3>4. Cleared(r, np, segs)
      BY <1>4, <2>2, <2>14, <3>1, <3>3, ClearIs, Zenon
    <3> HIDE DEF r
    <3> QED
      BY <3>2, <3>4 DEF Cleared
  <2> HIDE DEF clear
  <2>18. TailInv' /\ tail_chunk' \in Links
    BY <2>1, <2>2, <2>9, <2>10, <2>17, TailAt
  <2>19. ASSUME NEW k \in 1..q
         PROVE  /\ c.gone + k \in (c.gone + 1)..Len(ooos) /\ c.gone + k \in 1..Len(ooos)
                /\ SegSt(k)' = SegSt(c.gone + k) /\ SegEn(k)' = SegEn(c.gone + k)
    <3>1. c.gone + k \in (c.gone + 1)..Len(ooos) /\ c.gone + k \in 1..Len(ooos)
      BY ONLY <2>b, <2>19
    <3>2. ooos'[k] = ooos[c.gone + k]
      BY <2>1, <2>12
    <3> QED
      BY <2>9, <3>1, <3>2 DEF SegSt, SegEn, Off
  <2>20. Off(produced)' = Off(np) /\ End' = End /\ Len(ooos)' = q
         /\ (\A m : St(m)' = St(m) /\ En(m)' = En(m))
    BY <2>1, <2>9, <2>10, <2>12, SameList DEF Off
  <2>21. SegInv'
    <3>1. role' = "tx" => ooos' = <<>>
      BY <1>4, <2>2, <2>9 DEF SegInv
    <3>2. ASSUME NEW k \in 1..q PROVE Off(np) < SegSt(k)' /\ SegEn(k)' <= Size /\ SegEn(k)' <= End
      <4>1. Off(np) < SegSt(c.gone + k)
        BY <2>6, <2>7, <2>19
      <4>2. SegEn(c.gone + k) <= Size /\ SegEn(c.gone + k) <= End
        BY <2>2, <2>19 DEF SegInv
      <4> QED
        BY <2>19, <4>1, <4>2
    <3>3. ASSUME NEW k \in 1..q, NEW m \in 1..q, k < m PROVE SegEn(k)' < SegSt(m)'
      <4>1. c.gone + k < c.gone + m
        BY <2>6, <2>12, <3>3
      <4>2. SegEn(c.gone + k) < SegSt(c.gone + m)
        BY <2>2, <2>19, <4>1 DEF SegInv
      <4> QED
        BY <2>19, <4>2
    <3> QED
      BY <2>20, <3>1, <3>2, <3>3 DEF SegInv
  <2>22. EnqInv'
    <3>1. ooo_enq' = Null
      BY <2>1
    <3>2. CASE clear.lookup = {}
      BY <2>1, <3>1, <3>2 DEF EnqInv
    <3>3. CASE clear.lookup # {}
      <4>1. segs # <<>>
        BY <2>17, <3>3
      <4>2. PICK j \in 1..Len(chain) :
              /\ St(j) <= Off(np) /\ Off(np) < En(j)
              /\ \E hi \in 1..Len(chain) :
                   j <= hi /\ St(hi) <= SegEn(Len(ooos)) /\ clear.lookup = Chunk(j, hi)
        BY <2>17, <3>3
      <4>3. PICK hi \in 1..Len(chain) :
              j <= hi /\ St(hi) <= SegEn(Len(ooos)) /\ clear.lookup = Chunk(j, hi)
        BY <4>2
      <4>4. q \in 1..q /\ c.gone + q = Len(ooos)
        <5>1. q # 0
          BY <2>12, <4>1
        <5>2. q \in Nat /\ c.gone + q = Len(ooos)
          BY ONLY <2>b
        <5> QED
          BY <5>1, <5>2
      <4>5. SegEn(Len(ooos))' = SegEn(Len(ooos))
        <5>1. PICK k \in 1..q : k = q
          BY <4>4
        <5>2. SegEn(k)' = SegEn(c.gone + k)
          BY <2>19
        <5>3. SegEn(Len(ooos))' = SegEn(k)'
          BY <2>20, <5>1 DEF SegEn, SegSt
        <5> QED
          BY <4>4, <5>1, <5>2, <5>3
      <4>6. ooo_enq_lookup' = {chain'[m] : m \in j..hi}
        BY <2>1, <2>9, <4>3 DEF Chunk
      <4>7. j \in 1..Len(chain') /\ hi \in 1..Len(chain')
        BY <2>9
      <4> QED
        BY <2>1, <2>20, <3>1, <4>1, <4>2, <4>3, <4>5, <4>6, <4>7 DEF EnqInv
    <3> QED
      BY <3>2, <3>3
  <2>23. ASSUME NEW x \in Int, InSegs(ooos', x) PROVE InSegs(ooos, x)
    <3>1. PICK k \in 1..q : Off(ooos'[k].start) <= x /\ x < Off(ooos'[k].start) + ooos'[k].length
      BY <2>1, <2>12, <2>23 DEF InSegs
    <3>2. c.gone + k \in 1..Len(ooos) /\ ooos'[k] = ooos[c.gone + k]
      BY <2>1, <2>12, <2>19
    <3> QED
      BY <3>1, <3>2 DEF InSegs
  <2>24. \A x \in Int : Off(tail) + n <= x /\ x < Off(np) => InSegs(ooos, x)
    BY <2>5, <2>6, <2>7
  <2>25. ooos' \in Seq(SegRec) /\ ooo_enq' \in Links
    BY <2>1, <2>12 DEF Links
  <2>26. \A x \in Int : InSegs(ooos', x) => InSegs(ooos, x)
    BY <2>23
  <2>27. n \in Nat \ {0} /\ n <= prod.n /\ data' = CopyTo(tail_chunk, tail, n)
    BY <1>1, <1>2
  <2> QED
    BY <1>1, <2>1, <2>7, <2>8, <2>18, <2>21, <2>22, <2>24, <2>25, <2>26, <2>27, AdvanceInv
<1> QED
  BY <1>3, <1>4

\* The positions of an out-of-order enqueue.
LEMMA OffsetPos ==
  ASSUME FifoInv, prod.pc = "copy", NEW pos, pos = Plus(tail, prod.offset)
  PROVE  /\ pos \in Pos /\ Off(pos) = Off(tail) + prod.offset /\ Near(Off(pos)) /\ Off(pos) \in Int
         /\ Plus(pos, prod.n) \in Pos /\ Off(Plus(pos, prod.n)) = Off(pos) + prod.n
         /\ Near(Off(Plus(pos, prod.n))) /\ Off(Plus(pos, prod.n)) \in Int
         /\ Off(pos) < Off(Plus(pos, prod.n))
         /\ Off(Plus(pos, prod.n)) <= End /\ Off(Plus(pos, prod.n)) <= Size
<1>1. /\ prod.n \in Nat \ {0} /\ prod.offset \in Nat
      /\ Off(tail) + prod.offset + prod.n <= End /\ Off(tail) + prod.offset + prod.n <= Size
  BY CopyChunk
<1>2. Geo /\ tail \in Pos /\ 0 <= Off(tail) /\ Off(tail) <= Size
  BY Basics
<1>3. Off(tail) \in Int /\ End \in Int /\ Size \in Nat /\ Near(Off(tail))
  BY <1>2, ListTypes, ListNear, FifoAssumption DEF FifoInv
<1> DEFINE a == Off(tail) + prod.offset
           b == a + prod.n
<1>4. /\ a \in Int /\ b \in Int /\ 0 <= a /\ a < b /\ 0 <= b /\ a <= Size /\ b <= Size /\ b <= End
  BY <1>1, <1>2, <1>3
<1>5. Near(a) /\ Near(b)
  <2> HIDE DEF a, b
  <2> QED
    BY <1>2, <1>4, NearSize
<1>6. pos \in Pos /\ Off(pos) = a
  BY <1>1, <1>2, <1>3, <1>5, Ahead
<1> HIDE DEF a
<1>7. Plus(pos, prod.n) \in Pos /\ Off(Plus(pos, prod.n)) = Off(pos) + prod.n
  BY <1>1, <1>2, <1>3, <1>5, <1>6, Ahead
<1>8. Off(Plus(pos, prod.n)) = b
  BY <1>6, <1>7
<1> HIDE DEF b
<1> QED
  BY <1>4, <1>5, <1>6, <1>7, <1>8 DEF a

\* The chunk and the tree that an out-of-order enqueue gets.
LEMMA EnqChunkIs ==
  ASSUME FifoInv, prod.pc = "copy", prod.op = "offset", NEW pos, pos = Plus(tail, prod.offset)
  PROVE  /\ \E i \in 1..Len(chain) :
              EnqChunk.chunk = chain[i] /\ St(i) <= Off(pos) /\ Off(pos) < En(i)
         /\ \/ EnqChunk.lookup = {}
            \/ \E lo, hi \in 1..Len(chain) :
                 /\ lo <= hi /\ EnqChunk.lookup = Chunk(lo, hi)
                 /\ St(lo) <= Off(produced) /\ Off(produced) < En(lo)
                 /\ \/ St(hi) <= Off(Plus(pos, prod.n))
                    \/ ooos # <<>> /\ St(hi) <= SegEn(Len(ooos))
<1> DEFINE to == Plus(pos, prod.n)
           L == ooo_enq_lookup
           u == Update(ooo_enq, L, tail_chunk, pos, to)
           N == Len(chain)
<1>1. /\ pos \in Pos /\ Off(pos) = Off(tail) + prod.offset /\ Near(Off(pos)) /\ Off(pos) \in Int
      /\ to \in Pos /\ Near(Off(to)) /\ Off(to) \in Int
      /\ Off(pos) < Off(to) /\ Off(to) <= End
  BY OffsetPos
<1> HIDE DEF to
<1>2. EnqChunk = u
  BY DEF EnqChunk, to
<1>3. Geo /\ EnqInv
  BY Basics DEF FifoInv
<1>4. produced = tail /\ prod.offset \in Nat /\ Off(tail) \in Int /\ N \in Nat
  BY CopyChunk, ListTypes DEF FifoInv
<1>5. ooo_enq = Null \/ \E i \in 1..N : ooo_enq = chain[i]
  BY <1>3 DEF EnqInv
<1>6. ASSUME NEW lo \in 1..N, NEW hi \in 1..N,
             St(lo) <= Off(produced), Off(produced) < En(lo),
             \/ L = {} /\ tail_chunk = chain[lo]
             \/ L # {} /\ lo <= hi /\ L = {chain[i] : i \in lo..hi}
      PROVE  /\ \/ u.lookup = L
                \/ \E h \in lo..N :
                     /\ u.lookup = {chain[i] : i \in lo..h}
                     /\ St(h) <= Off(to) \/ (L # {} /\ h = hi)
             /\ \E i \in 1..N : u.chunk = chain[i] /\ St(i) <= Off(pos) /\ Off(pos) < En(i)
  <2>1. St(lo) \in Int
    BY ListTypes DEF FifoInv
  <2>2. St(lo) <= Off(pos) /\ Off(pos) <= Off(to) /\ Off(pos) < End
    <3>1. End \in Int
      BY ListTypes DEF FifoInv
    <3> QED
      BY <1>1, <1>4, <1>6, <2>1, <3>1
  <2>3. Updated(u, L, pos, to, lo, hi)
    BY <1>1, <1>3, <1>5, <1>6, <2>2, UpdateIs
  <2> HIDE DEF u
  <2> QED
    BY <2>2, <2>3 DEF Updated
<1>7. CASE L = {}
  <2>1. PICK i \in 1..N : tail_chunk = chain[i] /\ St(i) <= Off(tail) /\ Off(tail) < En(i)
    BY CopyChunk
  <2> HIDE DEF u
  <2>2. /\ \/ u.lookup = L
           \/ \E h \in i..N :
                /\ u.lookup = {chain[m] : m \in i..h}
                /\ St(h) <= Off(to) \/ (L # {} /\ h = i)
        /\ \E m \in 1..N : u.chunk = chain[m] /\ St(m) <= Off(pos) /\ Off(pos) < En(m)
    BY <1>4, <1>6, <1>7, <2>1
  <2>3. CASE u.lookup = L
    BY <1>2, <1>7, <2>2, <2>3
  <2>4. CASE u.lookup # L
    <3>1. PICK h \in i..N : u.lookup = {chain[m] : m \in i..h} /\ St(h) <= Off(to)
      BY <1>7, <2>2, <2>4
    <3>2. h \in 1..N /\ i <= h /\ u.lookup = Chunk(i, h)
      BY <1>4, <3>1 DEF Chunk
    <3> QED
      BY <1>2, <1>4, <2>1, <2>2, <3>1, <3>2 DEF to
  <2> QED
    BY <2>3, <2>4
<1>8. CASE L # {}
  <2>1. PICK lo \in 1..N, hi \in 1..N :
          /\ lo <= hi /\ L = {chain[m] : m \in lo..hi}
          /\ St(lo) <= Off(produced) /\ Off(produced) < En(lo)
          /\ St(hi) <= SegEn(Len(ooos))
    BY <1>3, <1>8 DEF EnqInv
  <2>2. ooos # <<>>
    BY <1>3, <1>8 DEF EnqInv
  <2> HIDE DEF u
  <2>3. /\ \/ u.lookup = L
           \/ \E h \in lo..N :
                /\ u.lookup = {chain[m] : m \in lo..h}
                /\ St(h) <= Off(to) \/ (L # {} /\ h = hi)
        /\ \E m \in 1..N : u.chunk = chain[m] /\ St(m) <= Off(pos) /\ Off(pos) < En(m)
    BY <1>6, <1>8, <2>1
  <2>4. CASE u.lookup = L
    <3>1. u.lookup = Chunk(lo, hi)
      BY <2>1, <2>4 DEF Chunk
    <3> QED
      BY <1>2, <2>1, <2>2, <2>3, <3>1
  <2>5. CASE u.lookup # L
    <3>1. PICK h \in lo..N : /\ u.lookup = {chain[m] : m \in lo..h}
                             /\ St(h) <= Off(to) \/ h = hi
      BY <2>3, <2>5
    <3>2. h \in 1..N /\ lo <= h /\ u.lookup = Chunk(lo, h)
      BY <1>4, <3>1 DEF Chunk
    <3>3. St(h) <= Off(to) \/ (ooos # <<>> /\ St(h) <= SegEn(Len(ooos)))
      BY <2>1, <2>2, <3>1
    <3> QED
      BY <1>2, <2>1, <2>3, <3>2, <3>3 DEF to
  <2> QED
    BY <2>4, <2>5
<1> QED
  BY <1>7, <1>8

LEMMA OffsetCopyInv ==
  ASSUME FifoInv, OffsetCopy
  PROVE  FifoInv'
<1> DEFINE n == prod.n
           N == Len(chain)
           pos == Plus(tail, prod.offset)
           to == Plus(pos, n)
           u == EnqChunk
           r == ooo_segment_add(pos, to)
           last == Off(r[Len(r)].start) + r[Len(r)].length
<1>1. /\ prod.pc = "copy" /\ prod.op = "offset"
      /\ ooos' = r
      /\ ooo_enq_lookup' = u.lookup
      /\ data' = CopyTo(u.chunk, pos, n)
      /\ ooo_enq' = LastChunk(u.chunk, pos, n)
      /\ prod' = Idle
      /\ UNCHANGED <<role, listVars, tail, tail_chunk, consVars>>
  BY DEF OffsetCopy
<1>2. /\ Types /\ ChainInv /\ OrderInv /\ TailInv /\ HeadInv /\ ProdInv /\ ConsInv
      /\ SegInv /\ EnqInv /\ DeqInv /\ DataInv /\ Geo
  BY Basics DEF FifoInv
<1>3. UNCHANGED <<role, head, tail, chain, start_byte, free, head_chunk, tail_chunk,
                  ooo_deq, ooo_deq_lookup, cons, closed, oooDeqVars>>
  BY <1>1 DEF listVars, oooDeqVars, consVars
<1>4. /\ pos \in Pos /\ Near(Off(pos)) /\ Off(pos) \in Int /\ Off(pos) = Off(tail) + prod.offset
      /\ to \in Pos /\ Near(Off(to)) /\ Off(to) \in Int /\ Off(to) = Off(pos) + n
      /\ Off(pos) < Off(to) /\ Off(to) <= End /\ Off(to) <= Size
  BY <1>1, OffsetPos
<1>5. /\ produced = tail /\ n \in Nat \ {0} /\ prod.offset \in Nat /\ prod.offset > 0 /\ role = "rx"
  BY <1>1, <1>2, CopyChunk DEF ProdInv
<1>6. /\ Off(tail) \in Int /\ Off(consumed) \in Int /\ End \in Int /\ Size \in Nat /\ N \in Nat
      /\ \A m \in 1..N : St(m) \in Int /\ En(m) \in Int /\ chain[m] \in Chunks
      /\ Off(produced) < Off(pos)
  <2>1. /\ Off(tail) \in Int /\ Off(consumed) \in Int /\ End \in Int /\ Size \in Nat /\ N \in Nat
        /\ \A m \in 1..N : St(m) \in Int /\ En(m) \in Int /\ chain[m] \in Chunks
    BY <1>2, ListTypes, FifoAssumption
  <2> QED
    BY <1>4, <1>5, <2>1
<1>7. /\ \E i \in 1..N : u.chunk = chain[i] /\ St(i) <= Off(pos) /\ Off(pos) < En(i)
      /\ \/ u.lookup = {}
         \/ \E lo, hi \in 1..N :
              /\ lo <= hi /\ u.lookup = Chunk(lo, hi)
              /\ St(lo) <= Off(produced) /\ Off(produced) < En(lo)
              /\ \/ St(hi) <= Off(to)
                 \/ ooos # <<>> /\ St(hi) <= SegEn(Len(ooos))
  BY <1>1, EnqChunkIs
<1> HIDE DEF pos, to, u
<1>8. /\ Apart(r) /\ Len(r) >= 1
      /\ \A x \in Int : InSegs(r, x) => (Off(pos) <= x /\ x < Off(to)) \/ InSegs(ooos, x)
      /\ Off(to) <= last
      /\ ooos # <<>> => SegEn(Len(ooos)) <= last
  BY <1>2, <1>4, <1>6, SegmentAdd
<1> HIDE DEF r
<1>9. PICK i \in 1..N : u.chunk = chain[i] /\ St(i) <= Off(pos) /\ Off(pos) < En(i)
  BY <1>7
<1>10. consumed' = consumed /\ Target' = Target /\ produced' = produced
  <2>1. produced' = tail
    BY <1>1, <1>3 DEF produced, Idle
  <2> QED
    BY <1>3, <1>5, <2>1 DEF consumed, Target, Off
<1>11. /\ Off(produced)' = Off(produced) /\ Off(consumed)' = Off(consumed) /\ End' = End
       /\ \A m : St(m)' = St(m) /\ En(m)' = En(m)
  BY <1>3, <1>10, SameList DEF Off
<1> DEFINE C == CopyTo(u.chunk, pos, n)
<1>12. /\ DOMAIN C = AllCells
       /\ \A m \in 1..N : \A k \in 0..(Length[chain[m]] - 1) :
            C[<<chain[m], k>>] = IF Off(pos) <= St(m) + k /\ St(m) + k < Off(pos) + n
                                 THEN Plus(start_byte[chain[m]], k)
                                 ELSE data[<<chain[m], k>>]
  BY <1>2, <1>4, <1>5, <1>9, CopyToIs, SMTT(20)
<1> HIDE DEF C
<1>13. data' = C
  BY <1>1 DEF C
<1>14. \/ ooo_enq' = Null
       \/ \E m \in 1..N : ooo_enq' = chain[m] /\ Off(produced) < En(m)
  <2>1. /\ Off(pos) + n < End =>
             \E m \in i..N : /\ LastChunk(chain[i], pos, n) = chain[m]
                             /\ St(m) <= Off(pos) + n /\ Off(pos) + n < En(m)
        /\ End <= Off(pos) + n => LastChunk(chain[i], pos, n) = Null
    BY <1>2, <1>4, <1>5, <1>9, LastChunkIs
  <2>2. CASE Off(pos) + n < End
    <3>1. PICK m \in i..N : ooo_enq' = chain[m] /\ Off(pos) + n < En(m)
      BY <1>1, <1>9, <2>1, <2>2
    <3>2. m \in 1..N /\ En(m) \in Int
      BY <1>6
    <3>3. Off(produced) < En(m)
      <4>1. Off(produced) \in Int
        BY <1>5, <1>6
      <4>2. /\ n \in Nat /\ Off(pos) \in Int /\ Off(produced) < Off(pos) /\ Off(pos) + n < En(m)
        BY <1>4, <1>5, <1>6, <3>1
      <4>3. En(m) \in Int
        BY <3>2
      <4> HIDE DEF n
      <4> QED
        BY ONLY <4>1, <4>2, <4>3
    <3> QED
      BY <3>1, <3>2, <3>3
  <2>3. CASE ~(Off(pos) + n < End)
    <3>1. End <= Off(pos) + n
      <4>1. n \in Nat /\ Off(pos) \in Int /\ End \in Int
        BY <1>4, <1>5, <1>6
      <4> HIDE DEF n
      <4> QED
        BY ONLY <4>1, <2>3
    <3> QED
      BY <1>1, <1>9, <2>1, <3>1
  <2> QED
    BY <2>2, <2>3
<1>15. Types'
  <2>1. prod' \in ProdCalls
    BY <1>1 DEF ProdCalls
  <2>2. DOMAIN data' = AllCells
    BY <1>12, <1>13
  <2>3. ooos' \in Seq([start : Pos, length : Nat \ {0}])
    BY <1>1, <1>8 DEF Apart, SegRec
  <2>4. ooo_enq' \in Links
    BY <1>6, <1>14 DEF Links
  <2> QED
    BY <1>2, <1>3, <2>1, <2>2, <2>3, <2>4 DEF Types
<1>16. ChainInv' /\ OrderInv' /\ TailInv' /\ HeadInv' /\ ConsInv' /\ DeqInv'
  BY <1>2, <1>3, <1>10, ChainFrame, OrderFrame, TailFrame, HeadFrame, ConsFrame, DeqFrame
<1>17. ProdInv'
  BY <1>1 DEF ProdInv, Idle
<1>18. \A k : SegSt(k)' = Off(r[k].start) /\ SegEn(k)' = Off(r[k].start) + r[k].length
  BY <1>1, <1>3 DEF SegSt, SegEn, Off
<1>19. SegInv'
  BY <1>1, <1>3, <1>5, <1>8, <1>11, <1>18 DEF SegInv, Apart
<1>20. EnqInv'
  <2>1. SegEn(Len(ooos))' = last
    BY <1>1, <1>3 DEF SegSt, SegEn, Off
  <2>2. ooos' # <<>>
    BY <1>1, <1>8
  <2>3. last \in Int
    <3>1. r \in Seq(SegRec) /\ Len(r) \in 1..Len(r)
      BY <1>8 DEF Apart
    <3>2. r[Len(r)] \in SegRec
      BY <3>1
    <3> QED
      BY <1>2, <3>2, OffInt DEF SegRec
  <2>4. CASE u.lookup = {}
    BY <1>1, <1>3, <1>11, <1>14, <2>2, <2>4 DEF EnqInv
  <2>5. CASE u.lookup # {}
    <3>1. PICK lo \in 1..N, hi \in 1..N :
            /\ lo <= hi /\ u.lookup = Chunk(lo, hi)
            /\ St(lo) <= Off(produced) /\ Off(produced) < En(lo)
            /\ \/ St(hi) <= Off(to)
               \/ ooos # <<>> /\ St(hi) <= SegEn(Len(ooos))
      BY <1>7, <2>5
    <3>2. St(hi) <= last
      <4>1. CASE St(hi) <= Off(to)
        <5>1. St(hi) \in Int /\ Off(to) \in Int /\ Off(to) <= last
          BY <1>4, <1>6, <1>8
        <5> HIDE DEF last
        <5> QED
          BY ONLY <2>3, <4>1, <5>1
      <4>2. CASE ooos # <<>> /\ St(hi) <= SegEn(Len(ooos))
        <5>1. SegEn(Len(ooos)) \in Int
          <6>1. /\ Len(ooos) \in Nat /\ ooos \in Seq(SegRec)
                /\ \A k \in 1..Len(ooos) : SegEn(k) \in Int
            BY <1>2, SegsNear
          <6>2. Len(ooos) # 0
            BY <4>2, <6>1
          <6> QED
            BY <6>1, <6>2
        <5>2. St(hi) \in Int /\ SegEn(Len(ooos)) <= last
          BY <1>6, <1>8, <4>2
        <5> HIDE DEF last
        <5> QED
          BY ONLY <2>3, <4>2, <5>1, <5>2
      <4> QED
        BY <3>1, <4>1, <4>2
    <3>3. ooo_enq_lookup' = {chain'[m] : m \in lo..hi}
      BY <1>1, <1>3, <3>1 DEF Chunk
    <3>4. lo \in 1..Len(chain') /\ hi \in 1..Len(chain')
      BY <1>3
    <3> HIDE DEF last
    <3> QED
      BY <1>3, <1>11, <1>14, <2>1, <2>2, <3>1, <3>2, <3>3, <3>4 DEF EnqInv
  <2> QED
    BY <2>4, <2>5
<1>21. DataInv'
  <2>1. SUFFICES ASSUME NEW m \in 1..N, NEW k \in 0..(Length[chain[m]] - 1), Live(St(m) + k)'
                 PROVE  C[<<chain[m], k>>] = Plus(start_byte[chain[m]], k)
    BY <1>3, <1>13 DEF DataInv
  <2> DEFINE x == St(m) + k
  <2>2. x \in Int
    BY <1>2, CellPos
  <2>3. (Off(consumed) <= x /\ x < Off(produced)) \/ InSegs(r, x)
    <3>1. \/ Off(consumed)' <= x /\ x < Off(produced)'
          \/ \E j \in 1..Len(r) : SegSt(j)' <= x /\ x < SegEn(j)'
      BY <1>1, <1>11, <2>1 DEF Live
    <3>2. (\E j \in 1..Len(r) : SegSt(j)' <= x /\ x < SegEn(j)') => InSegs(r, x)
      BY <1>18 DEF InSegs
    <3> QED
      BY <1>11, <3>1, <3>2
  <2>4. CASE Off(pos) <= x /\ x < Off(pos) + n
    BY <1>12, <2>4
  <2>5. CASE ~(Off(pos) <= x /\ x < Off(pos) + n)
    <3>1. Live(x)
      BY <1>4, <1>8, <2>2, <2>3, <2>5, LiveIs
    <3>2. data[<<chain[m], k>>] = Plus(start_byte[chain[m]], k)
      BY <1>2, <3>1 DEF DataInv
    <3> QED
      BY <1>12, <2>5, <3>2
  <2> QED
    BY <2>4, <2>5
<1> QED
  BY <1>15, <1>16, <1>17, <1>19, <1>20, <1>21 DEF FifoInv

LEMMA EnqueueStoreInv ==
  ASSUME FifoInv, EnqueueStore
  PROVE  FifoInv'
<1>1. /\ Types /\ ChainInv /\ OrderInv /\ TailInv /\ HeadInv /\ ConsInv
      /\ SegInv /\ EnqInv /\ DeqInv /\ DataInv
  BY DEF FifoInv
<1>2. /\ prod.pc = "store" /\ tail' = prod.tail /\ prod' = Idle
      /\ UNCHANGED <<role, head, chain, start_byte, free, data, head_chunk, tail_chunk,
                  ooos, ooo_enq, ooo_enq_lookup, ooo_deq, ooo_deq_lookup, cons, closed,
                  oooEnqVars, oooDeqVars>>
  BY DEF EnqueueStore, listVars, oooEnqVars, oooDeqVars, consVars
<1>3. produced = tail' /\ produced' = produced
  BY <1>2 DEF produced, Idle
<1>4. consumed' = consumed /\ Target' = Target
  BY <1>2 DEF consumed, Target, Off
<1>5. Types'
  <2>1. produced \in Pos
    BY <1>1, ListTypes
  <2>2. prod' \in ProdCalls
    BY <1>2 DEF ProdCalls
  <2> QED
    BY <1>1, <1>2, <1>3, <2>1, <2>2 DEF Types
<1>6. ChainInv' /\ TailInv' /\ HeadInv'
  BY <1>1, <1>2, <1>3, <1>4, ChainFrame, TailFrame, HeadFrame
<1>7. SegInv' /\ EnqInv' /\ DeqInv'
  BY <1>1, <1>2, <1>3, SegFrame, EnqFrame, DeqFrame
<1>8. DataInv'
  <2>1. \A x \in Int : Live(x)' => Live(x)
    BY <1>2, <1>3, <1>4, LiveFrame
  <2>2. \A i \in 1..Len(chain) : St(i) \in Int
    BY <1>1, ListTypes
  <2> QED
    BY <1>1, <1>2, <2>1, <2>2, DataFrame
<1>9. /\ Off(tail)' = Off(produced) /\ Off(produced)' = Off(produced)
      /\ Off(consumed)' = Off(consumed) /\ End' = End
  BY <1>2, <1>3, <1>4, SameList DEF Off
<1>10. Off(consumed) \in Int /\ Off(tail) \in Int /\ Off(produced) \in Int /\ End \in Int /\ Size \in Nat
  BY <1>1, ListTypes, FifoAssumption
<1>11. OrderInv'
  BY <1>1, <1>9, <1>10 DEF OrderInv
<1>12. ConsInv'
  <2>1. Off(tail) <= Off(tail)'
    BY <1>1, <1>9 DEF OrderInv
  <2>2. cons.pc \in {"unlink", "dropAll"} => cons.n \in Nat
    BY <1>1 DEF Types, ConsCalls, Idle
  <2> QED
    BY <1>1, <1>2, <1>9, <1>10, <2>1, <2>2 DEF ConsInv
<1>13. ProdInv'
  BY <1>2 DEF ProdInv, Idle
<1> QED
  BY <1>5, <1>6, <1>7, <1>8, <1>11, <1>12, <1>13 DEF FifoInv

\* The list gets longer.
LEMMA BeforeMono ==
  ASSUME NEW list \in Seq(Chunks), NEW i \in 0..Len(list), NEW j \in 0..Len(list), i <= j
  PROVE  Before(list)[i] <= Before(list)[j]
<1> DEFINE b == Before(list)
           n == Len(list)
           S == {d \in 0..(n - i) : b[i] <= b[i + d]}
<1>1. /\ n \in Nat /\ b \in [0..n -> Nat]
      /\ \A k \in 1..n : b[k] = b[k - 1] + Length[list[k]]
      /\ \A k \in 1..n : Length[list[k]] \in Nat
  <2>1. \A k \in 1..n : Length[list[k]] \in Nat
    BY FifoAssumption
  <2> QED
    BY <2>1, BeforeDef
<1> HIDE DEF b
<1>2. 0 \in S
  <2>0. b[i] \in Nat /\ i \in 0..n /\ n \in Nat
    BY <1>1
  <2>1. i + 0 = i /\ 0 \in 0..(n - i)
    BY ONLY <2>0
  <2>2. b[i] <= b[i + 0]
    BY <2>0, <2>1
  <2> QED
    BY <2>1, <2>2
<1>3. ASSUME NEW d \in 0..(n - i - 1), d \in S PROVE d + 1 \in S
  <2>1. i + d + 1 \in 1..n /\ i + d \in 0..n /\ i + (d + 1) = i + d + 1 /\ (i + d + 1) - 1 = i + d
        /\ d + 1 \in 0..(n - i)
    BY <1>1
  <2>2. b[i + d + 1] = b[i + d] + Length[list[i + d + 1]] /\ Length[list[i + d + 1]] \in Nat
    BY <1>1, <2>1
  <2>3. b[i] \in Nat /\ b[i + d] \in Nat /\ b[i] <= b[i + d]
    BY <1>1, <1>3, <2>1
  <2>4. b[i] <= b[i + (d + 1)]
    <3> DEFINE x == b[i]
               y == b[i + d]
               z == b[i + d + 1]
               l == Length[list[i + d + 1]]
    <3>0. z = y + l /\ l \in Nat /\ x \in Nat /\ y \in Nat /\ x <= y
      BY <2>2, <2>3
    <3>1. x <= z
      <4> HIDE DEF x, y, z, l
      <4> QED
        BY ONLY <3>0
    <3> QED
      BY <2>1, <3>1
  <2> QED
    BY <2>1, <2>4
<1>4. n - i \in Nat
  BY <1>1
<1> DEFINE m == n - i
<1>5. \A d \in 0..m : d \in S
  <2>1. \A d \in 0..(m - 1) : d \in S => d + 1 \in S
    BY <1>3
  <2>2. m \in Nat
    BY <1>4
  <2> HIDE DEF S, m
  <2> QED
    BY <1>2, <2>1, <2>2, UpTo
<1>6. j - i \in 0..m /\ i + (j - i) = j
  BY <1>1
<1> QED
  BY <1>5, <1>6 DEF b

LEMMA AllocIs ==
  ASSUME NEW n \in Int, n <= LargestSize, NEW from \in SUBSET Chunks, NEW list \in Allocs(n, from)
  PROVE  /\ list \in Seq(Chunks) /\ Len(list) \in Nat \ {0} /\ 1 \in 1..Len(list)
         /\ \A j \in 1..Len(list) : list[j] \in from
         /\ \A i, j \in 1..Len(list) : list[i] = list[j] => i = j
         /\ \A j \in 1..Len(list) : IndexIn(list, list[j]) = j
         /\ Total(list) >= n /\ Total(list) - Length[list[1]] < n
<1>1. /\ list \in SeqOf(from, MaxAlloc) /\ list # <<>> /\ IsInjective(list)
      /\ Total(list) >= n /\ Total(list) - Length[list[1]] < n
  <2>1. ~(LargestSize < n)
    BY FifoAssumption
  <2> QED
    BY <2>1 DEF Allocs
<1>2. PICK m \in 0..MaxAlloc : list \in [1..m -> from]
  BY <1>1 DEF SeqOf
<1>3. MaxAlloc \in Nat
  BY FifoAssumption
<1>4. list \in Seq(from)
  BY <1>2, <1>3
<1>5. Len(list) \in Nat \ {0} /\ list \in Seq(Chunks)
  BY <1>1, <1>4
<1>6. \A j \in 1..Len(list) : list[j] \in from
  BY <1>4
<1>7. DOMAIN list = 1..Len(list)
  BY <1>4
<1>8. \A i, j \in 1..Len(list) : list[i] = list[j] => i = j
  BY <1>1, <1>7 DEF IsInjective
<1>9. \A j \in 1..Len(list) : IndexIn(list, list[j]) = j
  BY <1>7, <1>8 DEF IndexIn
<1> QED
  BY <1>1, <1>5, <1>6, <1>8, <1>9

\* The chunks of a new list behind the last chunk: where they begin and end.
Grow(list) ==
  /\ list \in Allocs(prod.alloc, free)
  /\ chain' = chain \o list
  /\ free' = free \ ToSet(list)
  /\ start_byte' = StartBytes(list, f_chunk_end(end_chunk))
  /\ head' = head

LEMMA GrowList ==
  ASSUME FifoInv, prod.pc = "grow", NEW list, Grow(list)
  PROVE  /\ prod.alloc \in Int /\ free \subseteq Chunks
         /\ list \in Seq(Chunks) /\ Len(list) \in Nat \ {0} /\ 1 \in 1..Len(list)
         /\ \A j \in 1..Len(list) : list[j] \in free /\ IndexIn(list, list[j]) = j
         /\ \A i, j \in 1..Len(list) : list[i] = list[j] => i = j
         /\ Total(list) >= prod.alloc /\ Total(list) - Length[list[1]] < prod.alloc
         /\ chain' \in Seq(Chunks) /\ Len(chain') = Len(chain) + Len(list)
         /\ \A i \in 1..Len(chain) : chain'[i] = chain[i]
         /\ \A j \in 1..Len(list) : chain'[Len(chain) + j] = list[j]
         /\ \A i \in 1..Len(chain) : /\ chain[i] \notin ToSet(list)
                                     /\ start_byte'[chain[i]] = start_byte[chain[i]]
         /\ \A j \in 1..Len(list) :
              start_byte'[list[j]] = Plus(f_chunk_end(end_chunk), Before(list)[j - 1])
<1>1. prod.alloc \in Int /\ prod.alloc <= LargestSize
  <2>1. prod \in ProdCalls
    BY DEF FifoInv, Types
  <2> QED
    BY <2>1 DEF ProdCalls, Idle, FifoInv, ProdInv
<1>2. ToSet(chain) \cap free = {} /\ ToSet(chain) \cup free = Chunks /\ chain \in Seq(Chunks)
  BY DEF FifoInv, ChainInv, Types
<1>3. free \in SUBSET Chunks
  BY <1>2
<1>4. list \in Allocs(prod.alloc, free)
  BY DEF Grow
<1>5. /\ list \in Seq(Chunks) /\ Len(list) \in Nat \ {0} /\ 1 \in 1..Len(list)
      /\ \A j \in 1..Len(list) : list[j] \in free
      /\ \A i, j \in 1..Len(list) : list[i] = list[j] => i = j
      /\ \A j \in 1..Len(list) : IndexIn(list, list[j]) = j
      /\ Total(list) >= prod.alloc /\ Total(list) - Length[list[1]] < prod.alloc
  BY <1>1, <1>3, <1>4, AllocIs
<1>6. chain' = chain \o list
  BY DEF Grow
<1>7. chain' \in Seq(Chunks)
  BY <1>2, <1>5, <1>6, Concat
<1>8. Len(chain') = Len(chain) + Len(list)
  BY <1>2, <1>5, <1>6
<1>9. \A i \in 1..Len(chain) : chain'[i] = chain[i]
  BY <1>2, <1>5, <1>6
<1>10. ASSUME NEW j \in 1..Len(list) PROVE chain'[Len(chain) + j] = list[j]
  <2>1. Len(chain) \in Nat /\ Len(list) \in Nat
    BY <1>2, <1>5
  <2>2. /\ Len(chain) + j \in 1..(Len(chain) + Len(list)) /\ ~(Len(chain) + j <= Len(chain))
        /\ (Len(chain) + j) - Len(chain) = j
    BY ONLY <1>10, <2>1
  <2> QED
    BY <1>2, <1>5, <1>6, <2>2
<1>11. DOMAIN list = 1..Len(list) /\ DOMAIN chain = 1..Len(chain)
  BY <1>2, <1>5
<1>12. ASSUME NEW i \in 1..Len(chain) PROVE chain[i] \notin ToSet(list) /\ chain[i] \in Chunks
  <2>1. chain[i] \in ToSet(chain) /\ chain[i] \in Chunks
    BY <1>2, <1>11 DEF ToSet
  <2>2. chain[i] \notin free
    BY <1>2, <2>1
  <2> QED
    BY <1>5, <1>11, <2>1, <2>2 DEF ToSet
<1>13. \A c \in Chunks : start_byte'[c] =
         IF c \in ToSet(list) THEN Plus(f_chunk_end(end_chunk), Before(list)[IndexIn(list, c) - 1])
         ELSE start_byte[c]
  BY DEF Grow, StartBytes
<1>14. \A i \in 1..Len(chain) : start_byte'[chain[i]] = start_byte[chain[i]]
  BY <1>12, <1>13
<1>15. ASSUME NEW j \in 1..Len(list)
       PROVE  start_byte'[list[j]] = Plus(f_chunk_end(end_chunk), Before(list)[j - 1])
  <2>1. list[j] \in ToSet(list) /\ list[j] \in Chunks /\ IndexIn(list, list[j]) = j
    BY <1>5, <1>11 DEF ToSet
  <2> QED
    BY <1>13, <2>1
<1> QED
  BY <1>1, <1>3, <1>5, <1>7, <1>8, <1>9, <1>10, <1>12, <1>14, <1>15

LEMMA GrowGeo ==
  ASSUME FifoInv, prod.pc = "grow", NEW list, Grow(list), NEW b, b = Before(list)
  PROVE  /\ b \in [0..Len(list) -> Nat] /\ b[0] = 0
         /\ \A j \in 1..Len(list) : b[j] = b[j - 1] + Length[list[j]] /\ Length[list[j]] \in Nat \ {0}
         /\ start_byte' \in [Chunks -> Pos]
         /\ Near(End + Total(list)) /\ Total(list) = b[Len(list)] /\ Total(list) \in Nat
         /\ \A i \in 1..Len(chain) : St(i)' = St(i) /\ En(i)' = En(i)
         /\ \A j \in 1..Len(list) : /\ Diff(start_byte'[list[j]], head) = End + b[j - 1]
                                    /\ Near(End + b[j - 1]) /\ Near(End + b[j])
         /\ End + prod.alloc <= End + Total(list)
         /\ End + Total(list) <= Size + MinAlloc + Length[list[1]]
<1> DEFINE M == Len(list)
           T == Total(list)
           e == f_chunk_end(end_chunk)
<1>1. /\ list \in Seq(Chunks) /\ M \in Nat \ {0} /\ 1 \in 1..M /\ prod.alloc \in Int
      /\ T >= prod.alloc /\ T - Length[list[1]] < prod.alloc
  BY GrowList
<1>2. /\ b \in [0..M -> Nat] /\ b[0] = 0
      /\ \A j \in 1..M : b[j] = b[j - 1] + Length[list[j]]
  BY <1>1, BeforeDef
<1>3. \A j \in 1..M : list[j] \in Chunks /\ Length[list[j]] \in Nat \ {0}
  <2>1. \A j \in 1..M : list[j] \in Chunks
    BY <1>1
  <2>2. \A c \in Chunks : Length[c] \in Nat \ {0}
    BY FifoAssumption
  <2> QED
    BY <2>1, <2>2
<1>4. T = b[M] /\ T \in Nat
  <2>1. M \in 0..M
    BY <1>1
  <2>2. T = b[M]
    BY DEF Total
  <2> QED
    BY <1>2, <2>1, <2>2
<1> HIDE DEF T
<1>5. Geo /\ e \in Pos /\ Off(e) = End
  BY Basics
<1>6. Near(End) /\ End \in Int /\ Size \in Nat /\ MinAlloc \in Nat
  BY <1>5, ListNear, ListTypes, FifoAssumption DEF Geo
<1>7. End + prod.alloc <= Size + MinAlloc
  BY DEF FifoInv, ProdInv
<1>8. list[1] \in Chunks /\ Length[list[1]] \in Nat
  BY <1>1, <1>3
<1>9. End + prod.alloc <= End + T /\ End + T <= Size + MinAlloc + Length[list[1]] /\ End <= End + T
  <2> DEFINE l == Length[list[1]]
             a == prod.alloc
  <2>1. l \in Nat /\ a \in Int /\ T \in Nat /\ End \in Int /\ T >= a /\ T - l < a
        /\ End + a <= Size + MinAlloc /\ Size \in Nat /\ MinAlloc \in Nat
    BY <1>1, <1>4, <1>6, <1>7, <1>8
  <2> HIDE DEF l, a
  <2>2. End + a <= End + T /\ End + T <= Size + MinAlloc + l /\ End <= End + T
    BY ONLY <2>1
  <2> QED
    BY <2>2 DEF l, a
<1>10. Near(End + T)
  <2>1. PICK d \in Chunks : -Length[d] <= End
    BY <1>6 DEF Near
  <2>2. Length[d] \in Nat
    BY FifoAssumption
  <2>3. -Length[d] <= End + T /\ End + T \in Int
    BY <1>4, <1>6, <2>1, <2>2
  <2> QED
    BY <1>8, <1>9, <2>3 DEF Near
<1>11. ASSUME NEW j \in 0..M PROVE Near(End + b[j]) /\ b[j] \in Nat
  <2>1. b[j] \in Nat /\ M \in 0..M /\ j <= M
    BY <1>1, <1>2
  <2>2. b[j] <= b[M]
    BY <1>1, <2>1, BeforeMono
  <2> DEFINE y == b[j]
             z == End + y
  <2>3. y \in Nat /\ y <= T
    BY <1>4, <2>1, <2>2
  <2> HIDE DEF y
  <2>4. z \in Int /\ End <= z /\ z <= End + T
    BY <1>4, <1>6, <2>3
  <2> HIDE DEF z
  <2>5. Near(z)
    BY <1>6, <1>10, <2>4, NearBetween
  <2> QED
    BY <2>1, <2>5 DEF y, z
<1>12. ASSUME NEW j \in 1..M
       PROVE  /\ start_byte'[list[j]] \in Pos /\ Diff(start_byte'[list[j]], head) = End + b[j - 1]
              /\ Near(End + b[j - 1]) /\ Near(End + b[j])
  <2>1. j - 1 \in 0..M /\ j \in 0..M
    BY <1>1
  <2>2. Near(End + b[j - 1]) /\ Near(End + b[j]) /\ b[j - 1] \in Nat
    BY <1>11, <2>1
  <2>3. start_byte'[list[j]] = Plus(e, b[j - 1])
    BY GrowList
  <2> HIDE DEF e
  <2>4. Plus(e, b[j - 1]) \in Pos /\ Off(Plus(e, b[j - 1])) = Off(e) + b[j - 1]
    BY <1>5, <1>6, <2>2, Ahead
  <2> QED
    BY <1>5, <2>2, <2>3, <2>4 DEF Off
<1>13. start_byte' \in [Chunks -> Pos]
  <2>1. start_byte' = StartBytes(list, e) /\ start_byte \in [Chunks -> Pos]
    BY DEF Grow, FifoInv, Types
  <2>2. ASSUME NEW c \in Chunks PROVE start_byte'[c] \in Pos
    <3>1. CASE c \in ToSet(list)
      <4>1. PICK j \in 1..M : c = list[j]
        BY <1>1, <3>1 DEF ToSet
      <4> QED
        BY <1>12, <4>1
    <3>2. CASE c \notin ToSet(list)
      BY <2>1, <3>2 DEF StartBytes
    <3> QED
      BY <3>1, <3>2
  <2>3. DOMAIN start_byte' = Chunks /\ start_byte' = [c \in Chunks |-> start_byte'[c]]
    BY <2>1 DEF StartBytes
  <2> QED
    BY <2>2, <2>3
<1>14. ASSUME NEW i \in 1..Len(chain) PROVE St(i)' = St(i) /\ En(i)' = En(i)
  <2>1. chain'[i] = chain[i] /\ start_byte'[chain[i]] = start_byte[chain[i]] /\ head' = head
    BY GrowList DEF Grow
  <2> QED
    BY <2>1 DEF St, En, Off
<1> QED
  BY <1>2, <1>3, <1>4, <1>9, <1>10, <1>12, <1>13, <1>14 DEF T

LEMMA GrowChain ==
  ASSUME FifoInv, prod.pc = "grow", NEW list, Grow(list), consumed' = consumed
  PROVE  /\ ChainInv' /\ End' \in Int /\ End + prod.alloc <= End' /\ End <= End'
         /\ \A k \in (Len(chain) + 1)..Len(chain') : End <= St(k)'
<1> DEFINE N == Len(chain)
           M == Len(list)
           b == Before(list)
           T == Total(list)
           st(k) == Diff(start_byte'[chain'[k]], head)
           en(k) == st(k) + Length[chain'[k]]
<1>1. /\ Geo /\ Types /\ ChainInv /\ N \in Nat \ {0} /\ End \in Int /\ head \in Pos /\ head' = head
      /\ \A i \in 1..N : St(i) \in Int /\ En(i) \in Int /\ St(i) < En(i) /\ chain[i] \in Chunks
  BY Basics, ListTypes DEF FifoInv, Grow
<1>2. /\ list \in Seq(Chunks) /\ M \in Nat \ {0} /\ 1 \in 1..M
      /\ \A j \in 1..M : list[j] \in free /\ list[j] \in Chunks
      /\ \A i, j \in 1..M : list[i] = list[j] => i = j
      /\ chain' \in Seq(Chunks) /\ Len(chain') = N + M
  BY GrowList
<1>3. /\ \A i \in 1..N : chain'[i] = chain[i] /\ start_byte'[chain[i]] = start_byte[chain[i]]
                         /\ chain[i] \notin ToSet(list)
      /\ \A j \in 1..M : chain'[N + j] = list[j]
  BY GrowList
<1>4. /\ b \in [0..M -> Nat] /\ b[0] = 0
      /\ \A j \in 1..M : b[j] = b[j - 1] + Length[list[j]] /\ Length[list[j]] \in Nat \ {0}
      /\ start_byte' \in [Chunks -> Pos]
      /\ Near(End + T) /\ T = b[M] /\ T \in Nat
      /\ \A i \in 1..N : St(i)' = St(i) /\ En(i)' = En(i)
      /\ \A j \in 1..M : /\ Diff(start_byte'[list[j]], head) = End + b[j - 1]
                         /\ Near(End + b[j - 1]) /\ Near(End + b[j])
      /\ End + prod.alloc <= End + T
      /\ End + T <= Size + MinAlloc + Length[list[1]]
  BY GrowGeo
<1> HIDE DEF T, b
<1>5. \A k : St(k)' = st(k) /\ En(k)' = en(k)
  BY <1>1 DEF St, En, Off
<1>6. ASSUME NEW k \in 1..N
      PROVE  /\ st(k) = St(k) /\ en(k) = En(k) /\ chain'[k] = chain[k]
             /\ start_byte'[chain'[k]] = start_byte[chain[k]]
  BY <1>3, <1>4, <1>5
<1>7. ASSUME NEW k \in (N + 1)..(N + M)
      PROVE  /\ k - N \in 1..M /\ chain'[k] = list[k - N]
             /\ st(k) = End + b[k - N - 1] /\ en(k) = End + b[k - N]
             /\ Near(st(k)) /\ Near(en(k))
             /\ b[k - N - 1] \in Nat /\ b[k - N] \in Nat
             /\ Length[chain'[k]] \in Nat
  <2> DEFINE j == k - N
  <2>1. j \in 1..M /\ N + j = k /\ j - 1 \in 0..M /\ j \in 0..M
    BY <1>1, <1>2
  <2> HIDE DEF j
  <2>2. chain'[k] = list[j]
    BY <1>3, <2>1
  <2>3. st(k) = End + b[j - 1] /\ Near(End + b[j - 1]) /\ Near(End + b[j])
    BY <1>4, <2>1, <2>2
  <2> DEFINE x == b[j - 1]
             y == b[j]
             l == Length[list[j]]
             s == st(k)
  <2>4. x \in Nat /\ y \in Nat /\ y = x + l /\ l \in Nat
    BY <1>4, <2>1
  <2>5. s = End + x /\ en(k) = s + l
    BY <2>2, <2>3
  <2> HIDE DEF x, y, l, s, st
  <2>6. en(k) = End + y
    BY <1>1, <2>4, <2>5
  <2> QED
    BY <2>1, <2>2, <2>3, <2>4, <2>5, <2>6 DEF x, y, l, s, j
<1> HIDE DEF st
<1>8. ASSUME NEW k \in 1..(N + M)
      PROVE  /\ st(k) \in Int /\ en(k) \in Int /\ chain'[k] \in Chunks /\ start_byte'[chain'[k]] \in Pos
             /\ Near(st(k)) /\ Near(en(k)) /\ Length[chain'[k]] \in Nat
             /\ k \in 1..N \/ k \in (N + 1)..(N + M)
  <2>1. k \in 1..N \/ k \in (N + 1)..(N + M)
    BY <1>1, <1>2
  <2>2. chain'[k] \in Chunks
    BY <1>2
  <2>3. start_byte'[chain'[k]] \in Pos /\ Length[chain'[k]] \in Nat
    BY <1>4, <2>2, FifoAssumption
  <2>4. CASE k \in 1..N
    BY <1>1, <1>6, <2>1, <2>2, <2>3, <2>4, ListNear
  <2>5. CASE k \in (N + 1)..(N + M)
    <3>1. Near(st(k)) /\ Near(en(k))
      BY <1>7, <2>5
    <3> QED
      BY <2>1, <2>2, <2>3, <3>1 DEF Near
  <2> QED
    BY <2>1, <2>4, <2>5
<1>9. ASSUME NEW i \in 1..(N + M - 1) PROVE st(i + 1) = en(i)
  <2>1. CASE i \in 1..(N - 1)
    <3>1. i \in 1..N /\ i + 1 \in 1..N
      BY <1>1, <2>1
    <3>2. St(i + 1) = En(i)
      BY <1>1, <2>1 DEF ChainInv
    <3> QED
      BY <1>6, <3>1, <3>2
  <2>2. CASE i = N
    <3>1. i \in 1..N /\ i + 1 \in (N + 1)..(N + M) /\ (i + 1) - N - 1 = 0
      BY <1>1, <1>2, <2>2
    <3>2. st(i + 1) = End + 0
      BY <1>4, <1>7, <3>1
    <3>3. en(i) = End
      BY <1>6, <2>2, <3>1 DEF End
    <3> QED
      BY <1>1, <3>2, <3>3
  <2>3. CASE i \in (N + 1)..(N + M - 1)
    <3>1. i \in (N + 1)..(N + M) /\ i + 1 \in (N + 1)..(N + M) /\ (i + 1) - N - 1 = i - N
      BY <1>1, <1>2, <2>3
    <3> QED
      BY <1>7, <3>1
  <2> QED
    BY <1>1, <1>2, <2>1, <2>2, <2>3
<1>10. ASSUME NEW i \in 1..(N + M), NEW j \in 1..(N + M), i < j PROVE en(i) <= st(j)
  <2>1. CASE i \in 1..N /\ j \in 1..N
    <3>1. En(i) <= St(j)
      BY <1>1, <1>10, <2>1 DEF ChainInv
    <3> QED
      BY <1>6, <2>1, <3>1
  <2>2. CASE i \in 1..N /\ j \in (N + 1)..(N + M)
    <3>1. En(i) <= End /\ en(i) = En(i) /\ En(i) \in Int
      BY <1>1, <1>6, <2>2, ListNear
    <3>2. st(j) = End + b[j - N - 1] /\ b[j - N - 1] \in Nat
      BY <1>7, <2>2
    <3> DEFINE x == b[j - N - 1]
               y == En(i)
    <3>3. x \in Nat /\ y \in Int /\ y <= End /\ End \in Int
      BY <1>1, <3>1, <3>2
    <3>4. y <= End + x
      <4> HIDE DEF x, y
      <4> QED
        BY ONLY <3>3
    <3> QED
      BY <3>1, <3>2, <3>4
  <2>3. CASE i \in (N + 1)..(N + M) /\ j \in (N + 1)..(N + M)
    <3>1. i - N \in 0..M /\ j - N - 1 \in 0..M /\ i - N <= j - N - 1
      BY <1>1, <1>2, <1>10, <2>3
    <3>2. b[i - N] <= b[j - N - 1]
      BY <1>2, <3>1, BeforeMono DEF b
    <3>3. st(j) = End + b[j - N - 1] /\ b[j - N - 1] \in Nat /\ en(i) = End + b[i - N] /\ b[i - N] \in Nat
      BY <1>7, <2>3
    <3> DEFINE x == b[j - N - 1]
               y == b[i - N]
    <3>4. x \in Nat /\ y \in Nat /\ y <= x /\ End \in Int
      BY <1>1, <3>2, <3>3
    <3>5. End + y <= End + x
      <4> HIDE DEF x, y
      <4> QED
        BY ONLY <3>4
    <3> QED
      BY <3>3, <3>5
  <2>4. ~(i \in (N + 1)..(N + M) /\ j \in 1..N)
    BY <1>1, <1>2, <1>10
  <2> QED
    BY <1>8, <2>1, <2>2, <2>3, <2>4
<1>11. End' = End + T
  <2>1. N + M \in (N + 1)..(N + M) /\ (N + M) - N = M
    BY <1>1, <1>2
  <2>2. End' = en(N + M)
    BY <1>2, <1>1 DEF End, En, St, Off, st
  <2>3. en(N + M) = End + b[M]
    BY <1>7, <2>1
  <2> QED
    BY <1>4, <2>2, <2>3
<1>12. End' \in Int /\ End + prod.alloc <= End' /\ End <= End'
  BY <1>1, <1>4, <1>11
<1>13. \A k \in (N + 1)..(N + M) : End <= st(k)
  <2> TAKE k \in (N + 1)..(N + M)
  <2>1. st(k) = End + b[k - N - 1] /\ b[k - N - 1] \in Nat
    BY <1>7
  <2> DEFINE x == b[k - N - 1]
  <2>2. x \in Nat /\ End \in Int
    BY <1>1, <2>1
  <2>3. End <= End + x
    <3> HIDE DEF x
    <3> QED
      BY ONLY <2>2
  <2> QED
    BY <2>1, <2>3
<1>14. DOMAIN chain' = 1..(N + M) /\ DOMAIN list = 1..M /\ DOMAIN chain = 1..N
  BY <1>1, <1>2, ListTypes
<1>15. IsInjective(chain')
  <2> SUFFICES ASSUME NEW i \in 1..(N + M), NEW j \in 1..(N + M), chain'[i] = chain'[j] PROVE i = j
    BY <1>14 DEF IsInjective
  <2>1. ~(i < j) /\ ~(j < i)
    <3>1. ASSUME NEW x \in 1..(N + M), NEW y \in 1..(N + M), chain'[x] = chain'[y], x < y PROVE FALSE
      <4>1. en(x) <= st(y) /\ en(x) = st(x) + Length[chain'[x]]
        BY <1>10, <3>1
      <4>2. st(x) = st(y)
        BY <3>1 DEF st
      <4>3. Length[chain'[x]] # 0 /\ Length[chain'[x]] \in Nat /\ st(x) \in Int /\ st(y) \in Int
        BY <1>8, FifoAssumption
      <4> DEFINE l == Length[chain'[x]]
                 p == st(x)
                 q == st(y)
      <4>4. p + l <= q /\ p = q /\ l # 0 /\ l \in Nat /\ p \in Int /\ q \in Int
        BY <4>1, <4>2, <4>3
      <4> HIDE DEF l, p, q
      <4> QED
        BY ONLY <4>4
    <3> QED
      BY <3>1
  <2> QED
    BY <1>1, <1>2, <2>1
<1>16. ToSet(chain') \cap free' = {} /\ ToSet(chain') \cup free' = Chunks
  <2>1. ToSet(chain) \cap free = {} /\ ToSet(chain) \cup free = Chunks
    BY <1>1 DEF ChainInv
  <2>2. free' = free \ ToSet(list)
    BY DEF Grow
  <2>3. ToSet(list) \subseteq free
    BY <1>2, <1>14 DEF ToSet
  <2>4. ASSUME NEW c PROVE c \in ToSet(chain') <=> c \in ToSet(chain) \/ c \in ToSet(list)
    <3>1. ASSUME NEW i \in 1..(N + M), c = chain'[i] PROVE c \in ToSet(chain) \/ c \in ToSet(list)
      <4>1. CASE i \in 1..N
        BY <1>6, <1>14, <3>1, <4>1 DEF ToSet
      <4>2. CASE i \in (N + 1)..(N + M)
        BY <1>7, <1>14, <3>1, <4>2 DEF ToSet
      <4> QED
        BY <1>8, <4>1, <4>2
    <3>2. ASSUME NEW i \in 1..N, c = chain[i] PROVE c \in ToSet(chain')
      <4>1. i \in 1..(N + M)
        BY <1>1, <1>2
      <4> QED
        BY <1>6, <1>14, <3>2, <4>1 DEF ToSet
    <3>3. ASSUME NEW j \in 1..M, c = list[j] PROVE c \in ToSet(chain')
      <4>1. N + j \in 1..(N + M)
        BY <1>1, <1>2
      <4> QED
        BY <1>3, <1>14, <3>3, <4>1 DEF ToSet
    <3>4. c \in ToSet(chain') => \E i \in 1..(N + M) : c = chain'[i]
      BY <1>14 DEF ToSet
    <3>5. c \in ToSet(chain) => \E i \in 1..N : c = chain[i]
      BY <1>14 DEF ToSet
    <3>6. c \in ToSet(list) => \E i \in 1..M : c = list[i]
      BY <1>14 DEF ToSet
    <3> QED
      BY <3>1, <3>2, <3>3, <3>4, <3>5, <3>6
  <2> QED
    BY <2>1, <2>2, <2>3, <2>4
<1>17. ASSUME NEW i \in 1..(N + M - 1)
       PROVE  start_byte'[chain'[i + 1]] = Plus(start_byte'[chain'[i]], Length[chain'[i]])
  <2>1. i \in 1..(N + M) /\ i + 1 \in 1..(N + M)
    BY <1>1, <1>2
  <2> DEFINE p == start_byte'[chain'[i]]
             l == Length[chain'[i]]
             q == start_byte'[chain'[i + 1]]
  <2>2. /\ p \in Pos /\ l \in Nat /\ q \in Pos
        /\ Near(Diff(p, head)) /\ Near(Diff(p, head) + l) /\ Diff(q, head) = Diff(p, head) + l
    BY <1>8, <1>9, <2>1 DEF st
  <2> HIDE DEF p, l, q
  <2>3. Plus(p, l) \in Pos /\ Diff(Plus(p, l), head) = Diff(p, head) + l
    BY <1>1, <2>2, OffPlus
  <2>4. q = Plus(p, l)
    BY <1>1, <2>2, <2>3, OffSame
  <2> QED
    BY <2>4 DEF p, l, q
<1>18. ChainInv'
  <2>1. \A i \in 1..(Len(chain') - 1) : (start_byte[chain[i + 1]] = f_chunk_end(chain[i]))'
    BY <1>2, <1>17 DEF f_chunk_end
  <2>2. \A i \in 1..(Len(chain') - 1) : St(i + 1)' = En(i)'
    BY <1>2, <1>5, <1>9, SMTT(20)
  <2>3. \A i, j \in 1..Len(chain') : i < j => En(i)' <= St(j)'
    BY <1>2, <1>5, <1>10
  <2>4. (St(1) <= Off(consumed))' /\ (Off(consumed) <= En(1))'
    <3>1. 1 \in 1..N
      BY <1>1
    <3>2. St(1)' = St(1) /\ En(1)' = En(1)
      BY <1>4, <3>1
    <3>3. Off(consumed)' = Off(consumed)
      BY <1>1 DEF Off
    <3> QED
      BY <1>1, <3>2, <3>3 DEF ChainInv
  <2>5. \E c \in Chunks : End' <= Size + MinAlloc + Length[c]
    BY <1>2, <1>4, <1>11
  <2> QED
    BY <1>15, <1>16, <2>1, <2>2, <2>3, <2>4, <2>5 DEF ChainInv
<1> QED
  BY <1>2, <1>5, <1>12, <1>13, <1>18

LEMMA TryChunkAllocInv ==
  ASSUME FifoInv, TryChunkAlloc
  PROVE  FifoInv'
<1> DEFINE N == Len(chain)
<1>1. PICK list \in Allocs(prod.alloc, free) :
        /\ chain' = chain \o list
        /\ free' = free \ ToSet(list)
        /\ start_byte' = StartBytes(list, f_chunk_end(end_chunk))
        /\ tail_chunk' = IF tail_chunk = Null THEN list[1] ELSE tail_chunk
  BY DEF TryChunkAlloc
<1>2. /\ prod.pc = "grow" /\ prod' = Grown(prod.n, tail_chunk')
      /\ UNCHANGED <<role, head, tail, data, head_chunk, ooos, ooo_enq, ooo_enq_lookup,
                     ooo_deq, ooo_deq_lookup, cons, closed>>
  BY DEF TryChunkAlloc, consVars, oooEnqVars, oooDeqVars
<1>3. Grow(list)
  BY <1>1, <1>2 DEF Grow
<1>4. /\ Types /\ ChainInv /\ OrderInv /\ TailInv /\ HeadInv /\ ProdInv /\ ConsInv
      /\ SegInv /\ EnqInv /\ DeqInv /\ DataInv /\ Geo
  BY Basics DEF FifoInv
<1>5. consumed' = consumed /\ produced = tail
  BY <1>2 DEF consumed, produced
<1>6. ChainInv' /\ End' \in Int /\ End + prod.alloc <= End' /\ End <= End'
  BY <1>2, <1>3, <1>5, GrowChain
<1>7. \A k \in (Len(chain) + 1)..Len(chain') : End <= St(k)'
  BY <1>2, <1>3, <1>5, GrowChain
<1>8. /\ list \in Seq(Chunks) /\ Len(list) \in Nat \ {0} /\ 1 \in 1..Len(list)
      /\ chain' \in Seq(Chunks) /\ Len(chain') = N + Len(list)
      /\ \A i \in 1..N : chain'[i] = chain[i]
      /\ \A j \in 1..Len(list) : chain'[N + j] = list[j]
      /\ \A i \in 1..N : start_byte'[chain[i]] = start_byte[chain[i]]
  BY <1>2, <1>3, GrowList
<1>9. /\ N \in Nat \ {0} /\ DOMAIN chain = 1..N /\ Off(tail) \in Int /\ End \in Int
      /\ Off(consumed) \in Int
      /\ \A i \in 1..N : St(i) \in Int /\ En(i) \in Int /\ chain[i] \in Chunks
  BY <1>4, ListTypes
<1>10. DOMAIN chain' = 1..Len(chain') /\ 1..N \subseteq 1..Len(chain') /\ N + 1 \in 1..Len(chain')
  BY <1>8, <1>9
<1>11. start_byte' \in [Chunks -> Pos] /\ \A i \in 1..N : St(i)' = St(i) /\ En(i)' = En(i)
  BY <1>2, <1>3, GrowGeo
<1>a. PICK q \in Nat : q = N + 1
  BY <1>9
<1>b. ASSUME NEW i \in 1..Len(ooos)
      PROVE  SegSt(i) \in Int /\ SegEn(i) \in Int /\ ooos[i].length \in Nat \ {0} /\ SegEn(i) <= End
  BY <1>4, SegsNear DEF SegInv
<1>12. St(q)' = End /\ End < En(q)' /\ chain'[q] = list[1] /\ list[1] \in Links
  <2>1. chain'[q] = list[1] /\ list[1] \in Chunks
    BY <1>8, <1>a
  <2> DEFINE b == Before(list)
  <2>2. b[0] = 0 /\ Diff(start_byte'[list[1]], head) = End + b[1 - 1]
    BY <1>2, <1>3, <1>8, GrowGeo
  <2>3. St(q)' = End
    BY <1>2, <1>9, <2>1, <2>2 DEF St, Off
  <2>4. Length[list[1]] \in Nat \ {0}
    BY <2>1, FifoAssumption
  <2>5. En(q)' = St(q)' + Length[list[1]]
    BY <2>1 DEF En
  <2>6. End < En(q)'
    BY <1>9, <2>3, <2>4, <2>5
  <2> QED
    BY <2>1, <2>3, <2>6 DEF Links
<1>13. \A p : Off(p)' = Off(p)
  BY <1>2 DEF Off
<1>14. tail_chunk' \in Links
  BY <1>1, <1>4, <1>12 DEF Types
<1>15. ooos # <<>> => tail_chunk # Null /\ tail_chunk' = tail_chunk
  <2>1. SUFFICES ASSUME ooos # <<>> PROVE tail_chunk # Null
    BY <1>1
  <2>2. Len(ooos) \in Nat /\ 1 \in 1..Len(ooos)
    BY <1>4, <2>1 DEF Types
  <2>3. Off(tail) < SegSt(1) /\ SegEn(1) <= End
    BY <1>4, <1>5, <2>2 DEF SegInv
  <2>4. SegSt(1) \in Int /\ ooos[1].length \in Nat
    BY <1>b, <2>2
  <2>5. Off(produced) # End
    BY <1>5, <1>9, <2>3, <2>4 DEF SegEn
  <2>6. HasAt(tail_chunk, Off(produced))
    BY <1>4, <2>5 DEF TailInv
  <2>7. tail_chunk \in Chunks
    BY <1>9, <2>6 DEF HasAt
  <2> QED
    BY <2>7, FifoAssumption
<1>16. prod' \in ProdCalls /\ ProdInv' /\ prod'.pc = "copy"
  <2>0. prod \in ProdCalls
    BY <1>4 DEF Types
  <2>1. prod.n \in Nat \ {0} /\ prod.offset \in Nat /\ prod.op \in Ops /\ prod.alloc \in Int /\ prod.old \in Links
    BY <1>2, <2>0 DEF ProdCalls, Idle
  <2>2. /\ Off(tail) + prod.offset + prod.n <= Size
        /\ prod.op = "nocopy" => role = "tx"
        /\ prod.op = "offset" => role = "rx" /\ prod.offset > 0
        /\ prod.op # "offset" => prod.offset = 0
        /\ Off(tail) + prod.offset + prod.n <= End + prod.alloc
        /\ prod.old = tail_chunk
    BY <1>2, <1>4 DEF ProdInv
  <2>3. OpInv(prod.op, prod.n, prod.offset)
    BY <2>1, <2>2 DEF OpInv
  <2> DEFINE c == IF prod.op = "enqueue" THEN tail_chunk' ELSE prod.old
             op == prod.op
             n == prod.n
             offset == prod.offset
             al == prod.alloc
  <2>4. c \in Links /\ (ooos # <<>> => c = tail_chunk')
    BY <1>14, <1>15, <2>1, <2>2
  <2>5. prod' = Copying(op, n, offset, c)
    BY <1>2 DEF Grown
  <2>6. /\ Off(tail) + offset + n <= End + al /\ n \in Nat /\ offset \in Nat /\ al \in Int
        /\ End + al <= End'
    BY <1>6, <2>1, <2>2
  <2>6a. OpInv(op, n, offset)
    BY <2>3
  <2> HIDE DEF c, op, n, offset, al
  <2>7. Off(tail) + offset + n <= End'
    BY ONLY <1>6, <1>9, <2>6
  <2> QED
    BY <1>2, <1>6, <2>4, <2>5, <2>6a, <2>7, CopyingInv
<1>17. produced' = produced
  BY <1>2, <1>5, <1>16 DEF produced
<1>18. Types'
  <2>1. chain' # <<>>
    BY <1>8, <1>9
  <2> QED
    BY <1>2, <1>4, <1>8, <1>11, <1>14, <1>16, <2>1 DEF Types
<1>19. /\ Off(consumed)' = Off(consumed) /\ Off(produced)' = Off(produced) /\ Off(tail)' = Off(tail)
  BY <1>2, <1>5, <1>17 DEF Off
<1>20. OrderInv'
  <2>1. Off(produced) \in Int
    BY <1>4, ListTypes
  <2> QED
    BY <1>4, <1>6, <1>9, <1>19, <2>1 DEF OrderInv
<1>21. ASSUME NEW c, NEW x, HasAt(c, x)
       PROVE  \E i \in DOMAIN chain' : chain'[i] = c /\ St(i)' <= x /\ x < En(i)'
  <2>1. PICK i \in 1..N : chain[i] = c /\ St(i) <= x /\ x < En(i)
    BY <1>9, <1>21 DEF HasAt
  <2>2. i \in DOMAIN chain' /\ chain'[i] = c /\ St(i)' <= x /\ x < En(i)'
    BY <1>8, <1>10, <1>11, <2>1
  <2> QED
    BY <2>2
<1>22. TailInv'
  <2>1. CASE HasAt(tail_chunk, Off(produced))
    <3>1. tail_chunk' = tail_chunk
      <4>1. tail_chunk \in Chunks
        BY <1>9, <2>1 DEF HasAt
      <4> QED
        BY <1>1, <4>1, FifoAssumption
    <3>2. \E i \in DOMAIN chain' : chain'[i] = tail_chunk /\ St(i)' <= Off(produced) /\ Off(produced) < En(i)'
      BY <1>21, <2>1
    <3> QED
      BY <1>19, <3>1, <3>2 DEF TailInv, HasAt
  <2>2. CASE tail_chunk = Null /\ Off(produced) = End
    <3>1. tail_chunk' = chain'[q] /\ q \in DOMAIN chain'
      BY <1>1, <1>10, <1>12, <1>a, <2>2
    <3>2. St(q)' <= Off(produced) /\ Off(produced) < En(q)'
      BY <1>9, <1>12, <2>2
    <3> QED
      BY <1>19, <3>1, <3>2 DEF TailInv, HasAt
  <2> QED
    BY <1>4, <2>1, <2>2 DEF TailInv
<1>23. HeadInv'
  <2>1. Target' = Target
    BY <1>2, <1>19 DEF Target
  <2>2. CASE head_chunk = Null
    BY <1>2, <2>2 DEF HeadInv
  <2>3. CASE HasAt(head_chunk, Target)
    <3>1. \E i \in DOMAIN chain' : chain'[i] = head_chunk /\ St(i)' <= Target /\ Target < En(i)'
      BY <1>21, <2>3
    <3> QED
      BY <1>2, <2>1, <3>1 DEF HeadInv, HasAt
  <2> QED
    BY <1>4, <2>2, <2>3 DEF HeadInv
<1>24. ConsInv'
  BY <1>2, <1>4, ConsFrame
<1>25. \A i : SegSt(i)' = SegSt(i) /\ SegEn(i)' = SegEn(i)
  BY <1>2 DEF SegSt, SegEn, Off
<1>26. SegInv'
  <2>1. ASSUME NEW i \in 1..Len(ooos) PROVE SegEn(i) <= End'
    <3>1. SegEn(i) \in Int /\ SegEn(i) <= End
      BY <1>b
    <3> QED
      BY <1>6, <1>9, <3>1
  <2> QED
    BY <1>2, <1>4, <1>19, <1>25, <2>1 DEF SegInv
<1>27. EnqInv'
  <2>1. ooos' = <<>> => ooo_enq' = Null /\ ooo_enq_lookup' = {}
    BY <1>2, <1>4 DEF EnqInv
  <2>2. ooo_enq' # Null => (\E i \in 1..Len(chain) : chain[i] = ooo_enq /\ Off(produced) < En(i))'
    <3> SUFFICES ASSUME ooo_enq # Null
                 PROVE  \E i \in 1..Len(chain') : chain'[i] = ooo_enq' /\ Off(produced)' < En(i)'
      BY <1>2
    <3>1. PICK i \in 1..N : chain[i] = ooo_enq /\ Off(produced) < En(i)
      BY <1>4 DEF EnqInv
    <3> QED
      BY <1>2, <1>8, <1>10, <1>11, <1>19, <3>1
  <2>3. ASSUME ooo_enq_lookup # {}
        PROVE  \E lo, hi \in 1..Len(chain') :
          /\ lo <= hi
          /\ ooo_enq_lookup' = {chain'[i] : i \in lo..hi}
          /\ St(lo)' <= Off(produced)' /\ Off(produced)' < En(lo)'
          /\ St(hi)' <= SegEn(Len(ooos))'
    <3>1. PICK lo \in 1..N, hi \in 1..N :
          /\ lo <= hi
          /\ ooo_enq_lookup = {chain[i] : i \in lo..hi}
          /\ St(lo) <= Off(produced) /\ Off(produced) < En(lo)
          /\ St(hi) <= SegEn(Len(ooos))
      BY <1>4, <2>3 DEF EnqInv
    <3>2. {chain'[i] : i \in lo..hi} = {chain[i] : i \in lo..hi}
      <4>1. \A i \in lo..hi : chain'[i] = chain[i]
        BY <1>8, <1>9
      <4> QED
        BY <4>1, Zenon
    <3>3. lo \in 1..Len(chain') /\ hi \in 1..Len(chain')
      BY <1>10
    <3>4. St(lo)' = St(lo) /\ En(lo)' = En(lo) /\ St(hi)' = St(hi)
      BY <1>11
    <3>5. SegEn(Len(ooos))' = SegEn(Len(ooos))
      BY <1>2 DEF SegSt, SegEn, Off
    <3> QED
      BY <1>2, <1>19, <3>1, <3>2, <3>3, <3>4, <3>5
  <2> QED
    BY <1>2, <2>1, <2>2, <2>3 DEF EnqInv
<1>28. DeqInv'
  <2> SUFFICES ASSUME ~closed
               PROVE  /\ ooo_deq # Null => ooo_deq \in ToSet(chain')
                      /\ \E m \in 0..Len(chain') : ooo_deq_lookup = {chain'[i] : i \in 1..m}
    BY <1>2, <1>4 DEF DeqInv
  <2>1. ooo_deq # Null => ooo_deq \in ToSet(chain')
    <3>1. ooo_deq # Null => \E i \in 1..N : ooo_deq = chain[i]
      BY <1>4, <1>9 DEF DeqInv, ToSet
    <3>2. ASSUME NEW i \in 1..N PROVE chain[i] \in ToSet(chain')
      BY <1>8, <1>10 DEF ToSet
    <3> QED
      BY <3>1, <3>2
  <2>2. PICK m \in 0..N : ooo_deq_lookup = {chain[i] : i \in 1..m}
    BY <1>4 DEF DeqInv
  <2>3. m \in 0..Len(chain') /\ 1..m \subseteq 1..N
    BY <1>8, <1>9
  <2>4. {chain[i] : i \in 1..m} = {chain'[i] : i \in 1..m}
    <3>1. \A i \in 1..m : chain'[i] = chain[i]
      BY <1>8, <2>3
    <3> QED
      BY <3>1, Zenon
  <2> QED
    BY <2>1, <2>2, <2>3, <2>4
<1>29. DataInv'
  <2> SUFFICES ASSUME NEW i \in 1..Len(chain'), NEW k \in 0..(Length[chain'[i]] - 1), Live(St(i) + k)'
               PROVE  data'[<<chain'[i], k>>] = Plus(start_byte'[chain'[i]], k)
    BY DEF DataInv
  <2>1. CASE i \in 1..N
    <3>1. chain'[i] = chain[i] /\ St(i)' = St(i) /\ start_byte'[chain[i]] = start_byte[chain[i]]
      BY <1>8, <1>11, <2>1
    <3>2. (St(i) + k)' = St(i) + k
      BY <3>1
    <3>3. Live(St(i) + k)
      BY <1>2, <1>19, <1>25, <3>2 DEF Live
    <3> QED
      BY <1>2, <1>4, <2>1, <3>1, <3>3 DEF DataInv
  <2>2. CASE i \notin 1..N
    <3> DEFINE y == St(i)'
               x == y + k
    <3>0. i \in (N + 1)..Len(chain')
      BY <1>8, <1>9, <2>2
    <3>1. End <= y /\ y \in Int /\ k \in Nat
      <4>1. chain'[i] \in Chunks
        BY <1>8, <1>10
      <4>2. start_byte'[chain'[i]] \in Pos /\ head \in Pos /\ head' = head /\ Length[chain'[i]] \in Nat
        BY <1>2, <1>4, <1>11, <4>1, FifoAssumption DEF Types
      <4>3. St(i)' \in Int
        BY <4>2, DiffCases DEF St, Off
      <4> QED
        BY <1>7, <3>0, <4>2, <4>3
    <3> HIDE DEF y
    <3>2. x \in Int /\ End <= x
      BY <1>9, <3>1
    <3>3. \/ Off(consumed) <= x /\ x < Off(produced)
          \/ \E j \in 1..Len(ooos) : SegSt(j) <= x /\ x < SegEn(j)
      BY <1>2, <1>19, <1>25 DEF Live, y
    <3>4. ~(x < Off(produced))
      BY <1>4, <1>5, <1>9, <3>2 DEF OrderInv
    <3>5. ASSUME NEW j \in 1..Len(ooos) PROVE ~(x < SegEn(j))
      <4>1. SegEn(j) \in Int /\ SegEn(j) <= End
        BY <1>b
      <4> QED
        BY <1>9, <3>2, <4>1
    <3> QED
      BY <3>3, <3>4, <3>5
  <2> QED
    BY <2>1, <2>2
<1> QED
  BY <1>6, <1>16, <1>18, <1>20, <1>22, <1>23, <1>24, <1>26, <1>27, <1>28, <1>29 DEF FifoInv
-----------------------------------------------------------------------------
(* The consumer's steps. *)

\* A step that only changes the consumer's call and what it remembers.
LEMMA ConsStep ==
  ASSUME FifoInv, UNCHANGED <<role, listVars, data, prodVars, head>>,
         consumed' = consumed, cons' \in ConsCalls, head_chunk' \in Links, ooo_deq' \in Links,
         closed' \in BOOLEAN, ConsInv', HeadInv', DeqInv'
  PROVE  FifoInv'
<1>1. /\ Types /\ ChainInv /\ OrderInv /\ TailInv /\ ProdInv
      /\ SegInv /\ EnqInv /\ DataInv
  BY DEF FifoInv
<1>2. UNCHANGED <<role, head, tail, chain, start_byte, free, data, tail_chunk,
                  ooos, ooo_enq, ooo_enq_lookup, prod, oooEnqVars>>
  BY DEF listVars, oooEnqVars, prodVars
<1>3. produced' = produced
  BY <1>2 DEF produced
<1>4. Types'
  BY <1>1, <1>2 DEF Types
<1>5. ChainInv' /\ OrderInv' /\ TailInv' /\ ProdInv'
  BY <1>1, <1>2, <1>3, ChainFrame, OrderFrame, TailFrame, ProdFrame
<1>6. SegInv' /\ EnqInv'
  BY <1>1, <1>2, <1>3, SegFrame, EnqFrame
<1>7. DataInv'
  <2>1. \A x \in Int : Live(x)' => Live(x)
    BY <1>2, <1>3, LiveFrame
  <2>2. \A i \in 1..Len(chain) : St(i) \in Int
    BY <1>1, ListTypes
  <2> QED
    BY <1>1, <1>2, <2>1, <2>2, DataFrame
<1> QED
  BY <1>4, <1>5, <1>6, <1>7 DEF FifoInv

LEMMA HeadAt ==
  ASSUME Types, UNCHANGED <<head, chain, start_byte>>, NEW x, Target' = x,
         \/ \E m \in 1..Len(chain) : head_chunk' = chain[m] /\ St(m) <= x /\ x < En(m)
         \/ head_chunk' = Null
  PROVE  HeadInv' /\ head_chunk' \in Links
<1>1. \A i : St(i)' = St(i) /\ En(i)' = En(i)
  BY SameList
<1>2. DOMAIN chain = 1..Len(chain) /\ \A i \in 1..Len(chain) : chain[i] \in Chunks
  BY ListTypes
<1>3. CASE head_chunk' = Null
  BY <1>3 DEF HeadInv, Links
<1>4. ASSUME NEW m \in 1..Len(chain), head_chunk' = chain[m], St(m) <= x, x < En(m)
      PROVE  HeadInv' /\ head_chunk' \in Links
  <2>1. m \in DOMAIN chain' /\ chain'[m] = head_chunk' /\ St(m)' <= Target' /\ Target' < En(m)'
    BY <1>1, <1>2, <1>4
  <2>2. HasAt(head_chunk, Target)'
    BY <2>1 DEF HasAt
  <2> QED
    BY <1>2, <1>4, <2>2 DEF HeadInv, Links
<1> QED
  BY <1>3, <1>4

\* A search in the whole list.
LEMMA FindChain ==
  ASSUME Geo, NEW p \in Pos, Near(Off(p)), St(1) <= Off(p)
  PROVE  /\ Off(p) < End =>
              \E i \in 1..Len(chain) : /\ FindIn(chain, p) = chain[i]
                                       /\ St(i) <= Off(p) /\ Off(p) < En(i)
         /\ End <= Off(p) => FindIn(chain, p) = Null
<1>1. 1 \in 1..Len(chain) /\ chain \in Seq(Chunks)
  BY ListTypes DEF Geo, Types
<1>2. From(chain[1]) = SubSeq(chain, 1, Len(chain))
  BY <1>1, FromIs
<1>3. SubSeq(chain, 1, Len(chain)) = chain
  BY <1>1
<1> QED
  BY <1>1, <1>2, <1>3, FindFrom

LEMMA IdleHead ==
  ASSUME FifoInv, cons.pc \notin {"unlink", "store"}
  PROVE  consumed = head /\ Off(consumed) = 0 /\ Target = 0 /\ St(1) <= 0 /\ St(1) \in Int
<1>1. consumed = head /\ Off(consumed) = 0
  BY Basics DEF consumed
<1>2. St(1) <= Off(consumed)
  BY DEF FifoInv, ChainInv
<1>3. 1 \in 1..Len(chain) /\ St(1) \in Int
  BY ListTypes DEF FifoInv
<1> QED
  BY <1>1, <1>2, <1>3 DEF Target

LEMMA HeadChunkIs ==
  ASSUME FifoInv, cons.pc \notin {"unlink", "store"}, 0 < Off(tail)
  PROVE  \E i \in 1..Len(chain) : HeadChunk = chain[i] /\ St(i) <= 0 /\ 0 < En(i)
<1>1. consumed = head /\ Off(consumed) = 0 /\ Target = 0 /\ St(1) <= 0
  BY IdleHead
<1>2. Geo /\ head \in Pos /\ Off(head) = 0 /\ Off(tail) <= End /\ Off(tail) \in Int /\ End \in Int
  BY Basics, ListTypes DEF FifoInv
<1>3. CASE head_chunk = Null
  <2>1. HeadChunk = FindIn(chain, head)
    BY <1>3 DEF HeadChunk
  <2>2. Near(Off(head)) /\ St(1) <= Off(head) /\ Off(head) < End
    BY <1>1, <1>2, ListNear
  <2> QED
    BY <1>2, <2>1, <2>2, FindChain
<1>4. CASE head_chunk # Null
  <2>1. HeadChunk = head_chunk /\ HasAt(head_chunk, 0)
    BY <1>1, <1>4 DEF HeadChunk, FifoInv, HeadInv
  <2>2. DOMAIN chain = 1..Len(chain)
    BY ListTypes DEF FifoInv
  <2> QED
    BY <2>1, <2>2 DEF HasAt
<1> QED
  BY <1>3, <1>4

LEMMA DequeueInv ==
  ASSUME FifoInv, NEW n \in Lens, Dequeue(n)
  PROVE  FifoInv'
<1>1. /\ cons = Idle /\ role = "rx" /\ Reads(0, n)
      /\ head_chunk' = LastChunk(HeadChunk, head, n)
      /\ cons' = [pc |-> "unlink", n |-> n]
      /\ UNCHANGED <<role, listVars, data, prodVars, head, oooDeqVars, closed>>
  BY DEF Dequeue
<1>2. n \in Nat \ {0} /\ cons.pc = "idle"
  BY <1>1, FifoAssumption DEF Lens, Idle
<1>3. /\ Geo /\ Types /\ head \in Pos /\ Off(head) = 0 /\ Off(tail) <= End /\ Off(tail) \in Int
      /\ End \in Int /\ Avail = Off(tail)
  BY Basics, ListTypes DEF FifoInv
<1>4. n <= Off(tail)
  BY <1>1, <1>2, <1>3 DEF Reads
<1>5. PICK i \in 1..Len(chain) : HeadChunk = chain[i] /\ St(i) <= 0 /\ 0 < En(i)
  <2>1. 0 < Off(tail)
    BY <1>2, <1>3, <1>4
  <2> QED
    BY <1>2, <2>1, HeadChunkIs
<1>6. /\ n < End => \E m \in 1..Len(chain) : head_chunk' = chain[m] /\ St(m) <= n /\ n < En(m)
      /\ End <= n => head_chunk' = Null
  <2>1. /\ Off(head) + n < End =>
             \E m \in i..Len(chain) : /\ LastChunk(chain[i], head, n) = chain[m]
                                      /\ St(m) <= Off(head) + n /\ Off(head) + n < En(m)
        /\ End <= Off(head) + n => LastChunk(chain[i], head, n) = Null
    BY <1>2, <1>3, <1>5, LastChunkIs
  <2>2. Off(head) + n = n /\ i..Len(chain) \subseteq 1..Len(chain)
    BY <1>2, <1>3
  <2> QED
    BY <1>1, <1>5, <2>1, <2>2
<1>7. UNCHANGED <<head, chain, start_byte, tail>>
  BY <1>1 DEF listVars, prodVars
<1>8. HeadInv' /\ head_chunk' \in Links
  <2>1. Target' = n
    BY <1>1 DEF Target
  <2>2. n < End \/ End <= n
    BY <1>2, <1>3
  <2> QED
    BY <1>3, <1>6, <1>7, <2>1, <2>2, HeadAt
<1>9. consumed' = consumed
  BY <1>1, <1>2, <1>7 DEF consumed
<1>10. cons' \in ConsCalls
  BY <1>1, <1>2 DEF ConsCalls
<1>11. ConsInv'
  <2>1. Off(tail)' = Off(tail)
    BY <1>7 DEF Off
  <2> QED
    BY <1>1, <1>2, <1>4, <2>1 DEF ConsInv
<1>12. DeqInv'
  BY <1>1, <1>7, DeqFrame DEF FifoInv
<1>13. closed' \in BOOLEAN /\ ooo_deq' \in Links
  BY <1>1, <1>3 DEF Types, oooDeqVars
<1> QED
  BY <1>1, <1>8, <1>9, <1>10, <1>11, <1>12, <1>13, ConsStep

LEMMA SegmentsInv ==
  ASSUME FifoInv, Segments
  PROVE  FifoInv'
<1>1. /\ cons = Idle /\ Reads(0, 1) /\ head_chunk' = HeadChunk
      /\ UNCHANGED <<role, listVars, data, prodVars, head, oooDeqVars, cons, closed>>
  BY DEF Segments, Transport
<1>2. cons.pc = "idle"
  BY <1>1 DEF Idle
<1>3. Types /\ Off(tail) \in Int /\ Avail = Off(tail)
  BY Basics, ListTypes DEF FifoInv
<1>4. PICK i \in 1..Len(chain) : HeadChunk = chain[i] /\ St(i) <= 0 /\ 0 < En(i)
  <2>1. 0 < Off(tail)
    BY <1>1, <1>3 DEF Reads
  <2> QED
    BY <1>2, <2>1, HeadChunkIs
<1>5. UNCHANGED <<head, chain, start_byte, tail>>
  BY <1>1 DEF listVars, prodVars
<1>6. consumed' = consumed /\ Target' = 0
  <2>1. Target = 0
    BY <1>2, IdleHead
  <2> QED
    BY <1>1, <1>2, <1>5, <2>1 DEF consumed, Target, Off
<1>7. HeadInv' /\ head_chunk' \in Links
  BY <1>1, <1>3, <1>4, <1>5, <1>6, HeadAt
<1>8. cons' \in ConsCalls /\ closed' \in BOOLEAN /\ ooo_deq' \in Links
  BY <1>1, <1>3 DEF Types, oooDeqVars
<1>9. ConsInv'
  BY <1>1, <1>2 DEF ConsInv
<1>10. DeqInv'
  BY <1>1, <1>5, DeqFrame DEF FifoInv
<1> QED
  BY <1>1, <1>6, <1>7, <1>8, <1>9, <1>10, ConsStep

LEMMA DropAllLoadInv ==
  ASSUME FifoInv, DropAllLoad
  PROVE  FifoInv'
<1>1. /\ cons = Idle /\ role = "tx" /\ cons' = [pc |-> "dropAll", n |-> Avail] /\ closed' = TRUE
      /\ UNCHANGED <<role, listVars, data, prodVars, head, head_chunk, oooDeqVars>>
  BY DEF DropAllLoad
<1>2. cons.pc = "idle"
  BY <1>1 DEF Idle
<1>3. Types /\ Off(tail) \in Int /\ Avail = Off(tail) /\ 0 <= Off(tail)
  BY Basics, ListTypes DEF FifoInv
<1>4. UNCHANGED <<head, chain, start_byte, tail>>
  BY <1>1 DEF listVars, prodVars
<1>5. consumed' = consumed /\ Target' = Target
  BY <1>1, <1>2, <1>4 DEF consumed, Target, Off
<1>6. HeadInv'
  BY <1>1, <1>4, <1>5, HeadFrame DEF FifoInv
<1>7. cons' \in ConsCalls /\ closed' \in BOOLEAN /\ ooo_deq' \in Links /\ head_chunk' \in Links
  BY <1>1, <1>3 DEF Types, oooDeqVars, ConsCalls
<1>8. ConsInv'
  <2>1. Off(tail)' = Off(tail)
    BY <1>4 DEF Off
  <2> QED
    BY <1>1, <1>3, <2>1 DEF ConsInv
<1>9. DeqInv'
  BY <1>1, <1>4 DEF DeqInv
<1> QED
  BY <1>1, <1>5, <1>6, <1>7, <1>8, <1>9, ConsStep

LEMMA ReadPos ==
  ASSUME FifoInv, NEW offset \in Nat, NEW n \in Nat, offset + n <= Off(tail),
         NEW p, p = Plus(head, offset)
  PROVE  /\ p \in Pos /\ Off(p) = offset /\ Near(offset)
         /\ Plus(p, n) \in Pos /\ Off(Plus(p, n)) = offset + n /\ Near(offset + n)
         /\ offset + n <= End /\ offset + n <= Size
<1>1. /\ Geo /\ head \in Pos /\ Off(head) = 0 /\ Off(tail) <= Size /\ Off(tail) <= End
      /\ Off(tail) \in Int /\ End \in Int /\ Size \in Nat
  BY Basics, ListTypes, FifoAssumption DEF FifoInv
<1> DEFINE z == offset + n
<1>2. z \in Int /\ 0 <= z /\ z <= Size /\ z <= End /\ offset <= Size /\ 0 <= offset
  BY <1>1
<1>3. Near(0) /\ Near(offset) /\ Near(z)
  <2> HIDE DEF z
  <2> QED
    BY <1>1, <1>2, NearSize, ListNear
<1>4. Near(Off(head)) /\ Near(Off(head) + offset) /\ Off(head) + offset = offset
  BY <1>1, <1>3
<1>5. p \in Pos /\ Off(p) = offset
  BY <1>1, <1>4, Ahead
<1>6. Plus(p, n) \in Pos /\ Off(Plus(p, n)) = Off(p) + n
  BY <1>1, <1>3, <1>5, Ahead
<1> QED
  BY <1>2, <1>3, <1>5, <1>6

\* The chunk and the tree that a peek gets.
LEMMA DeqChunkIs ==
  ASSUME FifoInv, cons.pc \notin {"unlink", "store"}, ~closed,
         NEW offset \in Nat, NEW n \in Nat, offset + n <= Off(tail)
  PROVE  /\ offset < End =>
              \E i \in 1..Len(chain) :
                DeqChunk(offset, n).chunk = chain[i] /\ St(i) <= offset /\ offset < En(i)
         /\ DeqChunk(offset, n).chunk = Null \/ \E i \in 1..Len(chain) : DeqChunk(offset, n).chunk = chain[i]
         /\ \E m \in 0..Len(chain) : DeqChunk(offset, n).lookup = {chain[i] : i \in 1..m}
<1> DEFINE pos == Plus(head, offset)
           to == Plus(pos, n)
           L == ooo_deq_lookup
           u == Update(ooo_deq, L, start_chunk, pos, to)
           N == Len(chain)
<1>1. /\ pos \in Pos /\ Off(pos) = offset /\ Near(offset)
      /\ to \in Pos /\ Off(to) = offset + n /\ Near(offset + n) /\ offset + n <= End
  BY ReadPos
<1> HIDE DEF pos, to
<1>2. DeqChunk(offset, n) = u
  BY DEF DeqChunk, pos, to
<1>3. Geo /\ DeqInv /\ N \in Nat \ {0} /\ 1 \in 1..N /\ DOMAIN chain = 1..N
  BY Basics, ListTypes DEF FifoInv
<1>4. St(1) <= 0 /\ St(1) \in Int
  BY IdleHead
<1>5. ooo_deq = Null \/ \E i \in 1..N : ooo_deq = chain[i]
  BY <1>3 DEF DeqInv, ToSet
<1>6. PICK m \in 0..N : L = {chain[i] : i \in 1..m}
  BY <1>3 DEF DeqInv
<1>7. /\ Near(Off(pos)) /\ Near(Off(to)) /\ Off(pos) <= Off(to) /\ Off(to) <= End
      /\ St(1) <= Off(pos)
  BY <1>1, <1>4
<1>8. ASSUME NEW hi \in 1..N, \/ L = {} /\ start_chunk = chain[1]
                              \/ L # {} /\ 1 <= hi /\ L = {chain[i] : i \in 1..hi}
      PROVE  /\ Off(pos) < End =>
                  \E i \in 1..N : u.chunk = chain[i] /\ St(i) <= Off(pos) /\ Off(pos) < En(i)
             /\ u.chunk = Null \/ \E i \in 1..N : u.chunk = chain[i]
             /\ u.lookup = L \/ \E h \in 1..N : u.lookup = {chain[i] : i \in 1..h}
  <2>1. Updated(u, L, pos, to, 1, hi)
    BY <1>1, <1>3, <1>5, <1>7, <1>8, UpdateIs
  <2> HIDE DEF u
  <2> QED
    BY <2>1 DEF Updated
<1>9. \E hi \in 1..N : \/ L = {} /\ start_chunk = chain[1]
                       \/ L # {} /\ 1 <= hi /\ L = {chain[i] : i \in 1..hi}
  <2>1. CASE L = {}
    BY <1>3, <2>1 DEF start_chunk
  <2>2. CASE L # {}
    <3>1. m \in 1..N /\ 1 <= m
      <4>1. m # 0
        BY <1>6, <2>2
      <4> QED
        BY <1>3, <4>1
    <3> QED
      BY <1>6, <2>2, <3>1
  <2> QED
    BY <2>1, <2>2
<1> HIDE DEF u
<1>10. /\ Off(pos) < End =>
            \E i \in 1..N : u.chunk = chain[i] /\ St(i) <= Off(pos) /\ Off(pos) < En(i)
       /\ u.chunk = Null \/ \E i \in 1..N : u.chunk = chain[i]
       /\ u.lookup = L \/ \E h \in 1..N : u.lookup = {chain[i] : i \in 1..h}
  BY <1>8, <1>9
<1>11. 1..N \subseteq 0..N
  BY <1>3
<1> QED
  BY <1>1, <1>2, <1>6, <1>10, <1>11

LEMMA PeekInv ==
  ASSUME FifoInv, NEW offset \in 0..Size, NEW n \in 0..Size, Peek(offset, n)
  PROVE  FifoInv'
<1> DEFINE N == Len(chain)
           p == Plus(head, offset)
           u == DeqChunk(offset, n)
<1>1. /\ cons = Idle /\ role = "tx" /\ ~closed /\ Reads(offset, n)
      /\ ooo_deq_lookup' = u.lookup
      /\ UNCHANGED <<role, listVars, data, prodVars, head, head_chunk, closed>>
      /\ IF u.chunk = Null
         THEN ooo_deq' = Null /\ cons' = [pc |-> "crashed"]
         ELSE ooo_deq' = PeekedChunk(u.chunk, p, n) /\ cons' = Idle
  BY DEF Peek, Transport
<1>2. n \in Nat /\ offset \in Nat /\ cons.pc = "idle" /\ cons'.pc \in {"idle", "crashed"}
  BY <1>1, FifoAssumption DEF Idle
<1>3. Geo /\ Types /\ Off(tail) \in Int /\ Avail = Off(tail) /\ Off(tail) <= End /\ N \in Nat \ {0}
      /\ DOMAIN chain = 1..N /\ \A i \in 1..N : chain[i] \in Chunks
  BY Basics, ListTypes DEF FifoInv
<1>4. offset + n <= Off(tail)
  BY <1>1, <1>3 DEF Reads
<1>5. p \in Pos /\ Off(p) = offset /\ Off(p) \in Int /\ Off(p) + n \in Int /\ End \in Int
  BY <1>2, <1>3, <1>4, ReadPos, ListTypes
<1> HIDE DEF p, u
<1>6. /\ offset < End => \E i \in 1..N : u.chunk = chain[i] /\ St(i) <= offset /\ offset < En(i)
      /\ u.chunk = Null \/ \E i \in 1..N : u.chunk = chain[i]
      /\ \E m \in 0..N : u.lookup = {chain[i] : i \in 1..m}
  BY <1>1, <1>2, <1>4, DeqChunkIs DEF u
<1>7. u.chunk # Null => PeekedChunk(u.chunk, p, n) \in {chain[m] : m \in 1..N} \cup {Null}
  <2> SUFFICES ASSUME u.chunk # Null
               PROVE  PeekedChunk(u.chunk, p, n) \in {chain[m] : m \in 1..N} \cup {Null}
    OBVIOUS
  <2>1. CASE n = 0 /\ p # f_chunk_end(u.chunk)
    BY <1>6, <2>1 DEF PeekedChunk
  <2>2. CASE n = 0 /\ p = f_chunk_end(u.chunk)
    <3>1. PICK i \in 1..N : u.chunk = chain[i]
      BY <1>6
    <3>2. Off(p) = En(i) /\ St(i) \in Int /\ En(i) \in Int /\ St(i) < En(i)
      BY <1>3, <2>2, <3>1, ChunkEnd, ListTypes
    <3>3. ~(offset < End)
      <4> SUFFICES ASSUME offset < End PROVE FALSE
        OBVIOUS
      <4>1. PICK k \in 1..N : u.chunk = chain[k] /\ St(k) <= offset /\ offset < En(k)
        BY <1>6
      <4>2. k = i
        BY <1>3, <3>1, <4>1, Inj
      <4> QED
        BY <1>5, <3>2, <4>1, <4>2
    <3>4. PeekedChunk(u.chunk, p, n) = LastChunk(u.chunk, p, n)
      BY <2>2 DEF PeekedChunk
    <3>5. Room(chain[i], p) = 0
      <4>1. Off(p) = End
        BY <1>2, <1>3, <1>4, <1>5, <3>3
      <4>2. St(i) <= Off(p) /\ Off(p) <= En(i)
        BY <3>2
      <4>3. Room(chain[i], p) = End - Off(p)
        BY <1>3, <1>5, <4>2, CopyRoom
      <4> QED
        BY <1>5, <4>1, <4>3
    <3> QED
      BY <2>2, <3>1, <3>4, <3>5 DEF LastChunk
  <2>3. CASE n # 0
    <3>1. PICK i \in 1..N : u.chunk = chain[i] /\ St(i) <= offset /\ offset < En(i)
      BY <1>2, <1>3, <1>4, <1>5, <1>6, <2>3
    <3>2. /\ Off(p) + n < End =>
               \E m \in i..N : /\ LastChunk(chain[i], p, n) = chain[m]
                               /\ St(m) <= Off(p) + n /\ Off(p) + n < En(m)
          /\ End <= Off(p) + n => LastChunk(chain[i], p, n) = Null
      BY <1>2, <1>3, <1>5, <2>3, <3>1, LastChunkIs
    <3>3. i..N \subseteq 1..N /\ (Off(p) + n < End \/ End <= Off(p) + n)
      BY <1>3, <1>5
    <3> QED
      BY <2>3, <3>1, <3>2, <3>3 DEF PeekedChunk
  <2> QED
    BY <2>1, <2>2, <2>3
<1>8. ooo_deq' = Null \/ \E m \in 1..N : ooo_deq' = chain[m]
  BY <1>1, <1>7
<1>9. UNCHANGED <<head, chain, start_byte, tail>>
  BY <1>1 DEF listVars, prodVars
<1>10. consumed' = consumed /\ Target' = Target
  BY <1>1, <1>2, <1>9 DEF consumed, Target, Off
<1>11. HeadInv'
  BY <1>1, <1>9, <1>10, HeadFrame DEF FifoInv
<1>12. /\ cons' \in ConsCalls /\ closed' \in BOOLEAN /\ ooo_deq' \in Links /\ head_chunk' \in Links
  BY <1>1, <1>3, <1>8 DEF Types, Links, ConsCalls
<1>13. ConsInv'
  BY <1>1, <1>2 DEF ConsInv
<1>14. DeqInv'
  <2>1. ooo_deq' # Null => ooo_deq' \in ToSet(chain')
    BY <1>3, <1>8, <1>9 DEF ToSet
  <2>2. \E m \in 0..Len(chain') : ooo_deq_lookup' = {chain'[k] : k \in 1..m}
    BY <1>1, <1>6, <1>9
  <2> QED
    BY <1>1, <2>1, <2>2 DEF DeqInv
<1> QED
  BY <1>1, <1>10, <1>11, <1>12, <1>13, <1>14, ConsStep

\* The list from the K-th chunk on is kept, as it is.
CutTo(K) ==
  /\ K \in 1..Len(chain)
  /\ chain' \in Seq(Chunks) /\ Len(chain') = Len(chain) - K + 1
  /\ \A i \in K..Len(chain) :
       /\ chain'[i - K + 1] = chain[i]
       /\ start_byte'[chain[i]] = start_byte[chain[i]]
       /\ \A k \in 0..(Length[chain[i]] - 1) : data'[<<chain[i], k>>] = data[<<chain[i], k>>]
  /\ start_byte' \in [Chunks -> Pos] /\ DOMAIN data' = AllCells
  /\ ToSet(chain') \cap free' = {} /\ ToSet(chain') \cup free' = Chunks
  /\ head' = head

LEMMA CutGeo ==
  ASSUME FifoInv, NEW K, CutTo(K)
  PROVE  /\ Len(chain') \in Nat \ {0} /\ chain' # <<>> /\ DOMAIN chain' = 1..Len(chain')
         /\ \A i \in K..Len(chain) :
              /\ i - K + 1 \in 1..Len(chain') /\ chain'[i - K + 1] = chain[i]
              /\ St(i - K + 1)' = St(i) /\ En(i - K + 1)' = En(i)
         /\ \A i \in 1..Len(chain') :
              /\ i + K - 1 \in K..Len(chain) /\ i + K - 1 \in 1..Len(chain)
              /\ chain'[i] = chain[i + K - 1]
              /\ start_byte'[chain'[i]] = start_byte[chain[i + K - 1]]
              /\ St(i)' = St(i + K - 1) /\ En(i)' = En(i + K - 1)
         /\ End' = End
<1> DEFINE N == Len(chain)
           M == Len(chain')
<1>1. /\ K \in 1..N /\ chain' \in Seq(Chunks) /\ M = N - K + 1
      /\ \A i \in K..N : chain'[i - K + 1] = chain[i] /\ start_byte'[chain[i]] = start_byte[chain[i]]
      /\ head' = head
  BY DEF CutTo
<1>2. N \in Nat \ {0}
  BY ListTypes DEF FifoInv
<1>3. M \in Nat \ {0} /\ chain' # <<>> /\ DOMAIN chain' = 1..M
  BY <1>1, <1>2
<1>4. ASSUME NEW i \in K..N
      PROVE  /\ i - K + 1 \in 1..M
             /\ St(i - K + 1)' = St(i) /\ En(i - K + 1)' = En(i)
  <2>1. i - K + 1 \in 1..M
    BY <1>1, <1>2
  <2>2. PICK j \in 1..M : j = i - K + 1
    BY <2>1
  <2>3. chain'[j] = chain[i] /\ start_byte'[chain'[j]] = start_byte[chain[i]]
    BY <1>1, <2>2
  <2>4. St(j)' = St(i) /\ En(j)' = En(i)
    BY <1>1, <2>3 DEF St, En, Off
  <2> QED
    BY <2>1, <2>2, <2>4
<1>5. ASSUME NEW i \in 1..M
      PROVE  /\ i + K - 1 \in K..N /\ i + K - 1 \in 1..N
             /\ chain'[i] = chain[i + K - 1]
             /\ start_byte'[chain'[i]] = start_byte[chain[i + K - 1]]
             /\ St(i)' = St(i + K - 1) /\ En(i)' = En(i + K - 1)
  <2>1. i + K - 1 \in K..N /\ i + K - 1 \in 1..N
    BY <1>1, <1>2
  <2>2. PICK j \in K..N : j = i + K - 1
    BY <2>1
  <2>3. j - K + 1 = i
    BY <1>1, <1>2, <2>2
  <2>4. chain'[i] = chain[j] /\ start_byte'[chain'[i]] = start_byte[chain[j]]
    BY <1>1, <2>3
  <2>5. St(i)' = St(j) /\ En(i)' = En(j)
    BY <1>1, <2>4 DEF St, En, Off
  <2> QED
    BY <2>1, <2>2, <2>4, <2>5
<1>6. End' = End
  <2>1. M \in 1..M /\ M + K - 1 = N
    BY <1>1, <1>2, <1>3
  <2>2. PICK j \in 1..M : j = M
    BY <2>1
  <2>3. En(j)' = En(N)
    BY <1>5, <2>1, <2>2
  <2>4. End' = En(j)'
    BY <2>2 DEF End, En, St, Off
  <2> QED
    BY <2>3, <2>4 DEF End
<1> QED
  BY <1>1, <1>3, <1>4, <1>5, <1>6

LEMMA CutChain ==
  ASSUME FifoInv, NEW K, CutTo(K), NEW p \in Pos, consumed' = p,
         St(K) <= Off(p), Off(p) <= En(K)
  PROVE  ChainInv'
<1> DEFINE N == Len(chain)
           M == Len(chain')
<1>1. /\ M \in Nat \ {0} /\ DOMAIN chain' = 1..M /\ End' = End
      /\ \A i \in 1..M :
           /\ i + K - 1 \in 1..N /\ chain'[i] = chain[i + K - 1]
           /\ start_byte'[chain'[i]] = start_byte[chain[i + K - 1]]
           /\ St(i)' = St(i + K - 1) /\ En(i)' = En(i + K - 1)
  BY CutGeo
<1>2. K \in 1..N /\ M = N - K + 1 /\ head' = head
      /\ ToSet(chain') \cap free' = {} /\ ToSet(chain') \cup free' = Chunks
  BY DEF CutTo
<1>3. N \in Nat \ {0} /\ Geo /\ ChainInv
  BY Basics, ListTypes DEF FifoInv
<1>4. IsInjective(chain')
  <2> SUFFICES ASSUME NEW i \in 1..M, NEW j \in 1..M, chain'[i] = chain'[j] PROVE i = j
    BY <1>1 DEF IsInjective
  <2>1. i + K - 1 = j + K - 1
    BY <1>1, <1>3, Inj, SMTT(20)
  <2> QED
    BY <1>2, <1>3, <2>1
<1>5. ASSUME NEW i \in 1..(M - 1)
      PROVE  start_byte'[chain'[i + 1]] = Plus(start_byte'[chain'[i]], Length[chain'[i]])
             /\ St(i + 1)' = En(i)'
  <2>1. i \in 1..M /\ i + 1 \in 1..M /\ i + K - 1 \in 1..(N - 1) /\ (i + 1) + K - 1 = (i + K - 1) + 1
    BY <1>1, <1>2, <1>3
  <2> DEFINE j == i + K - 1
  <2>2. start_byte[chain[j + 1]] = f_chunk_end(chain[j]) /\ St(j + 1) = En(j)
    BY <1>3, <2>1 DEF ChainInv
  <2>3. start_byte'[chain'[i + 1]] = start_byte[chain[j + 1]]
    BY <1>1, <2>1
  <2>4. start_byte'[chain'[i]] = start_byte[chain[j]] /\ chain'[i] = chain[j]
    BY <1>1, <2>1
  <2>5. PICK i1 \in 1..M : i1 = i + 1
    BY <2>1
  <2>6. St(i1)' = St(j + 1) /\ En(i)' = En(j)
    BY <1>1, <2>1, <2>5
  <2> QED
    BY <2>2, <2>3, <2>4, <2>5, <2>6 DEF f_chunk_end
<1>6. ASSUME NEW i \in 1..M, NEW j \in 1..M, i < j PROVE En(i)' <= St(j)'
  <2>1. i + K - 1 \in 1..N /\ j + K - 1 \in 1..N /\ i + K - 1 < j + K - 1
    BY <1>1, <1>2, <1>3, <1>6
  <2>2. En(i + K - 1) <= St(j + K - 1)
    BY <1>3, <2>1 DEF ChainInv
  <2> QED
    BY <1>1, <2>2
<1>7. (St(1) <= Off(consumed))' /\ (Off(consumed) <= En(1))'
  <2>1. 1 \in 1..M /\ 1 + K - 1 = K
    BY <1>1, <1>2
  <2>2. St(1)' = St(K) /\ En(1)' = En(K)
    BY <1>1, <2>1
  <2>3. Off(consumed)' = Off(p)
    BY <1>2 DEF Off
  <2> QED
    BY <2>2, <2>3
<1>8. \E c \in Chunks : End' <= Size + MinAlloc + Length[c]
  BY <1>1, <1>3 DEF ChainInv
<1>9. \A i \in 1..(M - 1) : (start_byte[chain[i + 1]] = f_chunk_end(chain[i]))'
  BY <1>5 DEF f_chunk_end
<1> QED
  BY <1>2, <1>4, <1>5, <1>6, <1>7, <1>8, <1>9 DEF ChainInv

\* The chunks that hold what is not consumed are kept.
LEMMA CutKeeps ==
  ASSUME FifoInv, NEW K \in 1..Len(chain), NEW x \in Int, St(K) <= x,
         NEW i \in 1..Len(chain), x < En(i)
  PROVE  i \in K..Len(chain)
<1>1. /\ Len(chain) \in Nat /\ St(K) \in Int /\ En(i) \in Int
  BY ListTypes DEF FifoInv
<1>2. i < K => En(i) <= St(K)
  BY DEF FifoInv, ChainInv
<1> QED
  BY <1>1, <1>2

LEMMA CutInv ==
  ASSUME FifoInv, cons.pc # "store", NEW n \in Nat, n <= Off(tail), NEW p \in Pos, Off(p) = n,
         NEW K, CutTo(K), St(K) <= n, n <= En(K),
         cons' = [pc |-> "store", head |-> p],
         UNCHANGED <<role, prodVars>>, closed' = closed,
         \/ head_chunk' = Null
         \/ \E m \in 1..Len(chain) : head_chunk' = chain[m] /\ St(m) <= n /\ n < En(m),
         ooo_deq' \in Links, DeqInv'
  PROVE  FifoInv'
<1> DEFINE N == Len(chain)
           M == Len(chain')
<1>1. /\ Types /\ ChainInv /\ OrderInv /\ TailInv /\ ProdInv
      /\ SegInv /\ EnqInv /\ DataInv /\ Geo
  BY Basics DEF FifoInv
<1>2. /\ M \in Nat \ {0} /\ chain' # <<>> /\ DOMAIN chain' = 1..M /\ End' = End
  BY CutGeo
<1>3. ASSUME NEW i \in K..N
      PROVE  /\ i - K + 1 \in 1..M /\ chain'[i - K + 1] = chain[i]
             /\ St(i - K + 1)' = St(i) /\ En(i - K + 1)' = En(i)
  BY CutGeo
<1>4. ASSUME NEW i \in 1..M
      PROVE  /\ i + K - 1 \in K..N /\ i + K - 1 \in 1..N
             /\ chain'[i] = chain[i + K - 1]
             /\ start_byte'[chain'[i]] = start_byte[chain[i + K - 1]]
             /\ St(i)' = St(i + K - 1) /\ En(i)' = En(i + K - 1)
  BY CutGeo
<1>5. UNCHANGED <<head, tail, role, tail_chunk, ooos, ooo_enq, ooo_enq_lookup, prod>>
  BY DEF CutTo, prodVars, oooEnqVars
<1>6. /\ consumed' = p /\ produced' = produced
      /\ Off(consumed)' = n /\ Off(produced)' = Off(produced) /\ Off(tail)' = Off(tail)
  <2>1. consumed' = p
    BY DEF consumed
  <2>2. produced' = produced
    BY <1>5 DEF produced
  <2> QED
    BY <1>5, <2>1, <2>2 DEF Off
<1>7. /\ Off(tail) \in Int /\ Off(produced) \in Int /\ End \in Int /\ N \in Nat \ {0} /\ K \in 1..N
      /\ DOMAIN chain = 1..N /\ Off(tail) <= Off(produced) /\ St(K) \in Int
      /\ \A i \in 1..N : chain[i] \in Chunks
  BY <1>1, ListTypes DEF CutTo, OrderInv
<1>8. n <= Off(produced) /\ St(K) <= Off(produced)
  BY <1>7
<1>9. ChainInv'
  BY <1>6, CutChain
<1>10. Types'
  <2>1. head_chunk' \in Links
    BY <1>7 DEF Links
  <2>2. cons' \in ConsCalls
    BY DEF ConsCalls
  <2>3. chain' \in Seq(Chunks) /\ start_byte' \in [Chunks -> Pos] /\ DOMAIN data' = AllCells
    BY DEF CutTo
  <2> QED
    BY <1>1, <1>2, <1>5, <2>1, <2>2, <2>3 DEF Types
<1>11. OrderInv'
  BY <1>1, <1>2, <1>6 DEF OrderInv
<1>12. ASSUME NEW c, NEW x \in Int, n <= x, NEW i \in 1..N, chain[i] = c, St(i) <= x, x < En(i)
       PROVE  \E j \in DOMAIN chain' : chain'[j] = c /\ St(j)' <= x /\ x < En(j)'
  <2>1. St(K) <= x
    BY <1>7, <1>12
  <2>2. i \in K..N
    BY <1>7, <1>12, <2>1, CutKeeps
  <2>3. PICK j \in 1..M : j = i - K + 1
    BY <1>3, <2>2
  <2>4. chain'[j] = c /\ St(j)' = St(i) /\ En(j)' = En(i)
    BY <1>3, <1>12, <2>2, <2>3
  <2> QED
    BY <1>2, <1>12, <2>3, <2>4
<1>13. TailInv'
  <2>1. CASE HasAt(tail_chunk, Off(produced))
    <3>1. PICK i \in 1..N : chain[i] = tail_chunk /\ St(i) <= Off(produced) /\ Off(produced) < En(i)
      BY <1>7, <2>1 DEF HasAt
    <3>2. \E j \in DOMAIN chain' : chain'[j] = tail_chunk /\ St(j)' <= Off(produced) /\ Off(produced) < En(j)'
      BY <1>7, <1>8, <1>12, <3>1
    <3> QED
      BY <1>5, <1>6, <3>2 DEF TailInv, HasAt
  <2>2. CASE tail_chunk = Null /\ Off(produced) = End
    BY <1>2, <1>5, <1>6, <2>2 DEF TailInv
  <2> QED
    BY <1>1, <2>1, <2>2 DEF TailInv
<1>14. HeadInv'
  <2>1. Target' = n
    BY <1>6 DEF Target
  <2>2. ASSUME NEW m \in 1..N, head_chunk' = chain[m], St(m) <= n, n < En(m)
        PROVE  HeadInv'
    <3>0. n \in Int /\ n <= n /\ chain[m] = chain[m]
      OBVIOUS
    <3>1. \E j \in DOMAIN chain' : chain'[j] = chain[m] /\ St(j)' <= n /\ n < En(j)'
      BY <1>12, <2>2, <3>0
    <3> QED
      BY <2>1, <2>2, <3>1 DEF HeadInv, HasAt
  <2> QED
    BY <2>2 DEF HeadInv
<1>15. ProdInv'
  BY <1>1, <1>2, <1>5, <1>6 DEF ProdInv
<1>16. ConsInv'
  BY DEF ConsInv
<1>17. \A i : SegSt(i)' = SegSt(i) /\ SegEn(i)' = SegEn(i)
  BY <1>5 DEF SegSt, SegEn, Off
<1>18. SegInv'
  BY <1>1, <1>2, <1>5, <1>6, <1>17 DEF SegInv
<1>19. EnqInv'
  <2>1. ooos' = <<>> => ooo_enq' = Null /\ ooo_enq_lookup' = {}
    BY <1>1, <1>5 DEF EnqInv
  <2>2. ooo_enq' # Null => (\E i \in 1..Len(chain) : chain[i] = ooo_enq /\ Off(produced) < En(i))'
    <3> SUFFICES ASSUME ooo_enq # Null
                 PROVE  \E i \in 1..Len(chain') : chain'[i] = ooo_enq' /\ Off(produced)' < En(i)'
      BY <1>5
    <3>1. PICK i \in 1..N : chain[i] = ooo_enq /\ Off(produced) < En(i)
      BY <1>1 DEF EnqInv
    <3>2. i \in K..N
      BY <1>7, <1>8, <3>1, CutKeeps
    <3>3. PICK j \in 1..M : j = i - K + 1
      BY <1>3, <3>2
    <3>4. chain'[j] = chain[i] /\ En(j)' = En(i)
      BY <1>3, <3>2, <3>3
    <3> QED
      BY <1>5, <1>6, <3>1, <3>4
  <2>3. ASSUME ooo_enq_lookup # {}
        PROVE  \E lo, hi \in 1..Len(chain') :
          /\ lo <= hi
          /\ ooo_enq_lookup' = {chain'[i] : i \in lo..hi}
          /\ St(lo)' <= Off(produced)' /\ Off(produced)' < En(lo)'
          /\ St(hi)' <= SegEn(Len(ooos))'
    <3>1. PICK lo \in 1..N, hi \in 1..N :
          /\ lo <= hi
          /\ ooo_enq_lookup = {chain[i] : i \in lo..hi}
          /\ St(lo) <= Off(produced) /\ Off(produced) < En(lo)
          /\ St(hi) <= SegEn(Len(ooos))
      BY <1>1, <2>3 DEF EnqInv
    <3>2. lo \in K..N
      BY <1>7, <1>8, <3>1, CutKeeps
    <3>3. hi \in K..N
      BY <1>7, <3>1, <3>2
    <3>4. PICK lo1 \in 1..M, hi1 \in 1..M : lo1 = lo - K + 1 /\ hi1 = hi - K + 1
      BY <1>3, <3>2, <3>3
    <3>5. lo1 <= hi1
      BY <1>7, <3>1, <3>4
    <3>6. St(lo1)' = St(lo) /\ En(lo1)' = En(lo) /\ St(hi1)' = St(hi)
      BY <1>3, <3>2, <3>3, <3>4
    <3>7. SegEn(Len(ooos))' = SegEn(Len(ooos))
      BY <1>5 DEF SegSt, SegEn, Off
    <3>8. {chain'[i] : i \in lo1..hi1} = {chain[i] : i \in lo..hi}
      <4>1. ASSUME NEW i \in lo1..hi1
            PROVE  i + K - 1 \in lo..hi /\ chain'[i] = chain[i + K - 1]
        <5>1. i \in 1..M /\ i + K - 1 \in lo..hi
          BY <1>2, <1>7, <3>4
        <5> QED
          BY <1>4, <5>1
      <4>2. ASSUME NEW i \in lo..hi
            PROVE  i - K + 1 \in lo1..hi1 /\ chain[i] = chain'[i - K + 1]
        <5>1. i \in K..N /\ i - K + 1 \in lo1..hi1
          BY <1>7, <3>2, <3>3, <3>4
        <5> QED
          BY <1>3, <5>1
      <4>3. \A i \in lo1..hi1 : \E j \in lo..hi : chain'[i] = chain[j]
        BY <4>1
      <4>4. \A j \in lo..hi : \E i \in lo1..hi1 : chain[j] = chain'[i]
        BY <4>2
      <4> DEFINE f == chain'
                 g == chain
                 S == lo1..hi1
                 T == lo..hi
      <4>5. (\A i \in S : \E j \in T : f[i] = g[j]) /\ (\A j \in T : \E i \in S : g[j] = f[i])
        BY <4>3, <4>4
      <4>6. {f[i] : i \in S} = {g[j] : j \in T}
        <5> HIDE DEF f, g, S, T
        <5> QED
          BY ONLY <4>5
      <4> QED
        BY <4>6
    <3> QED
      BY <1>5, <1>6, <3>1, <3>4, <3>5, <3>6, <3>7, <3>8
  <2> QED
    BY <1>5, <2>1, <2>2, <2>3 DEF EnqInv
<1>20. DataInv'
  <2> SUFFICES ASSUME NEW i \in 1..M, NEW k \in 0..(Length[chain'[i]] - 1), Live(St(i) + k)'
               PROVE  data'[<<chain'[i], k>>] = Plus(start_byte'[chain'[i]], k)
    BY DEF DataInv
  <2>1. PICK j \in K..N : j = i + K - 1 /\ j \in 1..N
    BY <1>4
  <2>2. /\ chain'[i] = chain[j] /\ St(i)' = St(j) /\ start_byte'[chain'[i]] = start_byte[chain[j]]
    BY <1>4, <2>1
  <2>3. data'[<<chain[j], k>>] = data[<<chain[j], k>>]
    BY <2>1, <2>2 DEF CutTo
  <2>4. (St(i) + k)' = St(j) + k
    BY <2>2
  <2> DEFINE x == St(j) + k
  <2>5. \/ n <= x /\ x < Off(produced)
        \/ \E m \in 1..Len(ooos) : SegSt(m) <= x /\ x < SegEn(m)
    BY <1>5, <1>6, <1>17, <2>4 DEF Live
  <2>6. St(j) \in Int /\ x \in Int
    <3>1. St(j) \in Int /\ Length[chain[j]] \in Nat
      BY <1>1, <2>1, ListTypes
    <3> QED
      BY <2>2, <3>1
  <2>7. cons.pc = "store" \/ Off(consumed) = 0
    BY Basics DEF consumed
  <2>8. Live(x)
    <3> HIDE DEF x
    <3> QED
      BY <2>5, <2>6, <2>7 DEF Live
  <2>9. k \in 0..(Length[chain[j]] - 1)
    BY <2>2
  <2> QED
    BY <1>1, <2>1, <2>2, <2>3, <2>8, <2>9 DEF DataInv
<1> QED
  BY <1>9, <1>10, <1>11, <1>13, <1>14, <1>15, <1>16, <1>18, <1>19, <1>20 DEF FifoInv

\* What is consumed next: n bytes, up to position p.
LEMMA UsedUp ==
  ASSUME FifoInv, NEW n \in Nat, n <= Off(tail), NEW p, p = Plus(head, n)
  PROVE  /\ p \in Pos /\ Off(p) = n /\ Near(n) /\ n <= End
         /\ StartUsedUp(p) <=> En(1) <= n
<1>1. Geo /\ Off(tail) \in Int /\ 1 \in 1..Len(chain)
  BY Basics, ListTypes DEF FifoInv
<1>2. p \in Pos /\ Off(p) = n /\ Near(n)
  <2>1. 0 \in Nat /\ n + 0 <= Off(tail)
    OBVIOUS
  <2> QED
    BY <1>1, <2>1, ReadPos
<1>3. n <= End /\ En(1) \in Int
  BY <1>1, Basics, ListTypes DEF FifoInv
<1> DEFINE e == f_chunk_end(chain[1])
<1>4. e \in Pos /\ Off(e) = En(1) /\ Near(En(1))
  BY <1>1, ChunkEnd, ListNear
<1>5. StartUsedUp(p) <=> f_pos_geq(p, e)
  BY DEF StartUsedUp, start_chunk
<1> HIDE DEF e
<1>6. f_pos_geq(p, e) <=> Off(p) >= Off(e)
  BY <1>1, <1>2, <1>4, PosCmp
<1> QED
  BY <1>2, <1>3, <1>4, <1>5, <1>6

\* The list is kept from the chunk of the next byte on, or it keeps its last chunk.
LEMMA KeptIs ==
  ASSUME FifoInv, cons.pc # "store", NEW n \in Nat, n <= Off(tail), NEW p, p = Plus(head, n),
         StartUsedUp(p)
  PROVE  /\ Kept(p) \in 1..Len(chain) /\ St(Kept(p)) <= n /\ n <= En(Kept(p))
         /\ n < En(Kept(p)) \/ Kept(p) = Len(chain)
         /\ f_chunk_includes_pos(chain[Kept(p)], p) <=> n < En(Kept(p))
<1> DEFINE N == Len(chain)
           K == Kept(p)
           hits == {i \in 2..N : f_chunk_includes_pos(chain[i], p)}
<1>1. /\ Geo /\ Types /\ N \in Nat \ {0} /\ End \in Int /\ 1 \in 1..N
      /\ \A i \in 1..N : St(i) \in Int /\ En(i) \in Int /\ St(i) < En(i)
  BY Basics, ListTypes DEF FifoInv
<1>2. p \in Pos /\ Off(p) = n /\ Near(n) /\ n <= End /\ En(1) <= n
  BY UsedUp
<1>3. ASSUME NEW i \in 1..N PROVE f_chunk_includes_pos(chain[i], p) <=> St(i) <= n /\ n < En(i)
  BY <1>1, <1>2, Includes
<1>4. St(1) <= n
  BY <1>1, <1>2
<1>5. K \in 1..N /\ St(K) <= n /\ n <= En(K) /\ (n < En(K) \/ K = N)
  <2>1. CASE hits # {}
    <3>1. K = SetMin(hits) /\ hits \in SUBSET Nat
      BY <2>1, <1>1 DEF Kept
    <3> HIDE DEF K
    <3>2. K \in hits
      BY <2>1, <3>1, SetMinIs
    <3>3. K \in 1..N /\ f_chunk_includes_pos(chain[K], p)
      BY <1>1, <3>2
    <3> QED
      BY <1>1, <1>3, <3>3
  <2>2. CASE hits = {}
    <3>1. K = N
      BY <2>2 DEF Kept
    <3>2. ~(n < End)
      <4> SUFFICES ASSUME n < End PROVE FALSE
        OBVIOUS
      <4>1. PICK i \in 1..N : St(i) <= n /\ n < En(i)
        BY <1>1, <1>4, Cover
      <4>2. i # 1 /\ i \in 2..N
        BY <1>1, <1>2, <4>1
      <4>3. i \in hits
        BY <1>3, <4>1, <4>2
      <4> QED
        BY <2>2, <4>3
    <3>3. n = En(N) /\ N \in 1..N
      BY <1>1, <1>2, <3>2 DEF End
    <3> QED
      BY <1>1, <3>1, <3>3
  <2> QED
    BY <2>1, <2>2
<1> HIDE DEF K
<1>6. f_chunk_includes_pos(chain[K], p) <=> n < En(K)
  BY <1>3, <1>5
<1> QED
  BY <1>5, <1>6 DEF K

LEMMA UnlinkIs ==
  ASSUME FifoInv, NEW p, Kept(p) \in 1..Len(chain), UnlinkChunks(p), head' = head,
         NEW K, K = Kept(p)
  PROVE  CutTo(K)
<1> DEFINE N == Len(chain)
           gone == ToSet(SubSeq(chain, 1, K - 1))
<1>1. /\ chain' = SubSeq(chain, K, N)
      /\ free' = free \cup gone
      /\ data' = [x \in AllCells |-> IF x[1] \in gone THEN Junk ELSE data[x]]
      /\ start_byte' = [c \in Chunks |-> IF c \in gone THEN 0 ELSE start_byte[c]]
  BY DEF UnlinkChunks
<1>2. /\ Geo /\ Types /\ N \in Nat \ {0} /\ K \in 1..N /\ chain \in Seq(Chunks)
      /\ DOMAIN chain = 1..N /\ \A i \in 1..N : chain[i] \in Chunks
      /\ start_byte \in [Chunks -> Pos]
      /\ ToSet(chain) \cap free = {} /\ ToSet(chain) \cup free = Chunks
  BY Basics, ListTypes DEF FifoInv, Types, ChainInv
<1>3. ASSUME NEW c PROVE c \in gone <=> \E i \in 1..(K - 1) : c = chain[i]
  <2> DEFINE s == SubSeq(chain, 1, K - 1)
  <2>1. K - 1 \in Nat /\ K - 1 <= N
    BY <1>2
  <2>2. s \in Seq(Chunks) /\ Len(s) = K - 1
    BY <1>2, <2>1
  <2>3. \A i \in 1..(K - 1) : s[i] = chain[i]
    BY <1>2, <2>1
  <2>4. DOMAIN s = 1..(K - 1)
    BY <2>2
  <2> HIDE DEF s
  <2>5. c \in ToSet(s) <=> \E i \in 1..(K - 1) : c = s[i]
    BY <2>4 DEF ToSet
  <2> QED
    BY <2>3, <2>5 DEF s
<1> HIDE DEF gone
<1>4. ASSUME NEW i \in K..N PROVE chain[i] \notin gone /\ chain[i] \in Chunks /\ i \in 1..N
  <2>1. i \in 1..N
    BY <1>2
  <2>2. ASSUME NEW j \in 1..(K - 1), chain[i] = chain[j] PROVE FALSE
    <3>1. j \in 1..N /\ j # i
      BY <1>2
    <3> QED
      BY <1>2, <2>1, <2>2, <3>1, Inj
  <2> QED
    BY <1>2, <1>3, <2>1, <2>2
<1>5. chain' \in Seq(Chunks) /\ Len(chain') = N - K + 1 /\ \A j \in 1..(N - K + 1) : chain'[j] = chain[j + K - 1]
  <2>1. \A j \in 1..(N - K + 1) : chain'[j] = chain[K + j - 1]
    BY <1>1, <1>2
  <2>2. chain' \in Seq(Chunks) /\ Len(chain') = N - K + 1
    BY <1>1, <1>2
  <2>3. \A j \in 1..(N - K + 1) : K + j - 1 = j + K - 1
    BY <1>2
  <2> QED
    BY <2>1, <2>2, <2>3
<1>6. ASSUME NEW i \in K..N
      PROVE  /\ chain'[i - K + 1] = chain[i]
             /\ start_byte'[chain[i]] = start_byte[chain[i]]
             /\ \A k \in 0..(Length[chain[i]] - 1) : data'[<<chain[i], k>>] = data[<<chain[i], k>>]
  <2>1. i - K + 1 \in 1..(N - K + 1) /\ (i - K + 1) + K - 1 = i
    BY <1>2
  <2>2. chain'[i - K + 1] = chain[i]
    BY <1>5, <2>1
  <2>3. start_byte'[chain[i]] = start_byte[chain[i]]
    BY <1>1, <1>4
  <2>4. ASSUME NEW k \in 0..(Length[chain[i]] - 1) PROVE data'[<<chain[i], k>>] = data[<<chain[i], k>>]
    <3>1. <<chain[i], k>> \in AllCells /\ <<chain[i], k>>[1] = chain[i]
      BY <1>2, <1>4, CellIn
    <3> QED
      BY <1>1, <1>4, <3>1
  <2> QED
    BY <2>2, <2>3, <2>4
<1>7. start_byte' \in [Chunks -> Pos]
  <2>1. 0 \in Pos
    BY FifoAssumption DEF Pos
  <2> QED
    BY <1>1, <1>2, <2>1
<1>8. DOMAIN data' = AllCells
  BY <1>1
<1>9. ASSUME NEW c
      PROVE  c \in ToSet(chain') <=> c \in ToSet(chain) /\ c \notin gone
  <2>0. N - K + 1 \in Nat /\ DOMAIN chain' = 1..(N - K + 1)
    BY <1>2, <1>5
  <2>1. ASSUME NEW j \in 1..(N - K + 1), c = chain'[j] PROVE c \in ToSet(chain) /\ c \notin gone
    <3>1. j + K - 1 \in K..N
      BY <1>2
    <3> QED
      BY <1>2, <1>4, <1>5, <2>1, <3>1, SMTT(20) DEF ToSet
  <2>2. ASSUME NEW i \in 1..N, c = chain[i], c \notin gone PROVE c \in ToSet(chain')
    <3>1. ~(i \in 1..(K - 1))
      BY <1>3, <2>2
    <3>2. i \in K..N
      BY <1>2, <3>1
    <3>3. i - K + 1 \in 1..(N - K + 1)
      BY <1>2, <3>2
    <3> QED
      BY <1>6, <2>0, <2>2, <3>2, <3>3 DEF ToSet
  <2>3. c \in ToSet(chain') => \E j \in 1..(N - K + 1) : c = chain'[j]
    BY <2>0 DEF ToSet
  <2>4. c \in ToSet(chain) => \E i \in 1..N : c = chain[i]
    BY <1>2 DEF ToSet
  <2> QED
    BY <2>1, <2>2, <2>3, <2>4
<1>10. gone \subseteq ToSet(chain)
  <2>1. ASSUME NEW c \in gone PROVE c \in ToSet(chain)
    <3>1. PICK i \in 1..(K - 1) : c = chain[i]
      BY <1>3
    <3>2. i \in 1..N
      BY <1>2
    <3> QED
      BY <1>2, <3>1, <3>2 DEF ToSet
  <2> QED
    BY <2>1
<1>11. ToSet(chain') \cap free' = {} /\ ToSet(chain') \cup free' = Chunks
  <2>1. ToSet(chain') = ToSet(chain) \ gone
    BY <1>9
  <2> HIDE DEF gone
  <2> QED
    BY <1>1, <1>2, <1>10, <2>1
<1> QED
  BY <1>2, <1>5, <1>6, <1>7, <1>8, <1>11 DEF CutTo

LEMMA NoCut ==
  ASSUME FifoInv, head' = head, UNCHANGED <<listVars, data>>
  PROVE  CutTo(1)
<1>1. /\ Types /\ Len(chain) \in Nat \ {0}
      /\ ToSet(chain) \cap free = {} /\ ToSet(chain) \cup free = Chunks
  BY ListTypes DEF FifoInv, ChainInv
<1>2. UNCHANGED <<chain, start_byte, free, data>>
  BY DEF listVars
<1>3. ToSet(chain') = ToSet(chain)
  BY <1>2
<1>4. \A i \in 1..Len(chain) : i - 1 + 1 = i
  BY <1>1
<1>5. 1 \in 1..Len(chain) /\ Len(chain) = Len(chain) - 1 + 1
  BY <1>1
<1>6. chain \in Seq(Chunks) /\ start_byte \in [Chunks -> Pos] /\ DOMAIN data = AllCells
  BY <1>1 DEF Types
<1> QED
  BY <1>1, <1>2, <1>3, <1>4, <1>5, <1>6 DEF CutTo

LEMMA UnlinkStep ==
  ASSUME FifoInv, cons.pc # "store", NEW n \in Nat, n <= Off(tail), NEW p, p = Plus(head, n),
         head' = head, StartUsedUp(p) => UnlinkChunks(p),
         ~StartUsedUp(p) => UNCHANGED <<listVars, data>>
  PROVE  \E K \in 1..Len(chain) : CutTo(K) /\ St(K) <= n /\ n <= En(K)
<1>1. CASE StartUsedUp(p)
  <2>1. PICK K \in 1..Len(chain) : K = Kept(p) /\ St(K) <= n /\ n <= En(K)
    BY <1>1, KeptIs
  <2>2. CutTo(K)
    BY <1>1, <2>1, UnlinkIs
  <2> QED
    BY <2>1, <2>2
<1>2. CASE ~StartUsedUp(p)
  <2>1. CutTo(1)
    BY <1>2, NoCut
  <2>2. 1 \in 1..Len(chain) /\ St(1) \in Int /\ En(1) \in Int
    BY ListTypes DEF FifoInv
  <2>3. St(1) <= 0
    <3>1. Off(consumed) = 0
      BY Basics DEF consumed
    <3> QED
      BY <3>1 DEF FifoInv, ChainInv
  <2>4. ~(En(1) <= n)
    BY <1>2, UsedUp
  <2>5. St(1) <= n /\ n <= En(1)
    BY <2>2, <2>3, <2>4
  <2> QED
    BY <2>1, <2>2, <2>5
<1> QED
  BY <1>1, <1>2

LEMMA DequeueUnlinkInv ==
  ASSUME FifoInv, DequeueUnlink
  PROVE  FifoInv'
<1> DEFINE n == cons.n
           p == Plus(head, n)
<1>1. /\ cons.pc = "unlink" /\ cons' = [pc |-> "store", head |-> p]
      /\ StartUsedUp(p) => UnlinkChunks(p)
      /\ ~StartUsedUp(p) => UNCHANGED <<listVars, data>>
      /\ UNCHANGED <<role, prodVars, head, head_chunk, ooo_deq, ooo_deq_lookup, closed>>
  BY DEF DequeueUnlink, oooDeqVars
<1>2. role = "rx" /\ n <= Off(tail) /\ n \in Nat
  <2>1. cons \in ConsCalls
    BY DEF FifoInv, Types
  <2>2. n \in Nat
    BY <1>1, <2>1 DEF ConsCalls, Idle
  <2> QED
    BY <1>1, <2>2 DEF FifoInv, ConsInv
<1>3. p \in Pos /\ Off(p) = n
  BY <1>2, UsedUp
<1>4. head_chunk = Null \/ \E m \in 1..Len(chain) : head_chunk = chain[m] /\ St(m) <= n /\ n < En(m)
  <2>1. head_chunk = Null \/ HasAt(head_chunk, n)
    BY <1>1 DEF FifoInv, HeadInv, Target
  <2>2. DOMAIN chain = 1..Len(chain)
    BY ListTypes DEF FifoInv
  <2> QED
    BY <2>1, <2>2 DEF HasAt
<1> HIDE DEF n
<1>5. PICK K \in 1..Len(chain) : CutTo(K) /\ St(K) <= n /\ n <= En(K)
  BY <1>1, <1>2, UnlinkStep
<1>6. ooo_deq = Null /\ ooo_deq_lookup = {}
  BY <1>2 DEF FifoInv, DeqInv
<1>7. DeqInv' /\ ooo_deq' \in Links
  <2>1. 0 \in 0..Len(chain')
    BY <1>5, CutGeo
  <2>2. {} = {chain'[i] : i \in 1..0}
    OBVIOUS
  <2> QED
    BY <1>1, <1>6, <2>1, <2>2 DEF DeqInv, Links
<1> HIDE DEF p
<1> QED
  BY <1>1, <1>2, <1>3, <1>4, <1>5, <1>7, CutInv

LEMMA DropAllInv ==
  ASSUME FifoInv, DropAll
  PROVE  FifoInv'
<1> DEFINE n == cons.n
           p == Plus(head, n)
           N == Len(chain)
           c == IF head_chunk = Null \/ ~f_chunk_includes_pos(head_chunk, head)
                THEN FindIn(chain, head) ELSE head_chunk
<1>1. /\ cons.pc = "dropAll" /\ cons' = [pc |-> "store", head |-> p]
      /\ StartUsedUp(p) => UnlinkChunks(p)
      /\ ~StartUsedUp(p) => UNCHANGED <<listVars, data>>
      /\ head_chunk' = IF c = Null THEN Null ELSE FindIn(From(c), p)
      /\ ooo_deq' = Null /\ ooo_deq_lookup' = {}
      /\ UNCHANGED <<role, prodVars, head, closed>>
  BY DEF DropAll
<1>2. role = "tx" /\ closed /\ n <= Off(tail) /\ n \in Nat
  <2>1. cons \in ConsCalls
    BY DEF FifoInv, Types
  <2>2. n \in Nat
    BY <1>1, <2>1 DEF ConsCalls, Idle
  <2> QED
    BY <1>1, <2>2 DEF FifoInv, ConsInv
<1>3. p \in Pos /\ Off(p) = n /\ Near(n) /\ n <= End
  BY <1>2, UsedUp
<1>4. /\ Geo /\ head \in Pos /\ Off(head) = 0 /\ End \in Int /\ DOMAIN chain = 1..N /\ Near(0)
      /\ \A i \in 1..N : St(i) \in Int /\ chain[i] \in Chunks
  BY Basics, ListTypes, ListNear DEF FifoInv
<1>5. Target = 0 /\ St(1) <= 0
  BY <1>1, IdleHead
<1> HIDE DEF n, p
<1>6. c = Null \/ \E i \in 1..N : c = chain[i] /\ St(i) <= 0
  <2>1. CASE head_chunk = Null \/ ~f_chunk_includes_pos(head_chunk, head)
    <3>1. c = FindIn(chain, head)
      BY <2>1
    <3>2. Off(head) < End \/ End <= Off(head)
      BY <1>4
    <3> HIDE DEF c
    <3> QED
      BY <1>4, <1>5, <3>1, <3>2, FindChain
  <2>2. CASE ~(head_chunk = Null \/ ~f_chunk_includes_pos(head_chunk, head))
    <3>1. c = head_chunk /\ HasAt(head_chunk, 0)
      BY <1>5, <2>2 DEF FifoInv, HeadInv
    <3> HIDE DEF c
    <3> QED
      BY <1>4, <3>1 DEF HasAt
  <2> QED
    BY <2>1, <2>2
<1> HIDE DEF c
<1>7. head_chunk' = Null \/ \E m \in 1..N : head_chunk' = chain[m] /\ St(m) <= n /\ n < En(m)
  <2>1. CASE c = Null
    BY <1>1, <2>1
  <2>2. ASSUME NEW i \in 1..N, c = chain[i], St(i) <= 0
        PROVE  head_chunk' = Null \/ \E m \in 1..N : head_chunk' = chain[m] /\ St(m) <= n /\ n < En(m)
    <3>1. c # Null
      BY <1>4, <2>2, FifoAssumption
    <3>2. head_chunk' = FindIn(From(chain[i]), p)
      BY <1>1, <2>2, <3>1
    <3>3. St(i) <= Off(p) /\ (Off(p) < End \/ End <= Off(p)) /\ Near(Off(p))
      BY <1>2, <1>3, <1>4, <2>2
    <3>4. /\ Off(p) < End =>
              \E m \in i..N : /\ FindIn(From(chain[i]), p) = chain[m]
                              /\ St(m) <= Off(p) /\ Off(p) < En(m)
          /\ End <= Off(p) => FindIn(From(chain[i]), p) = Null
      BY <1>3, <1>4, <3>3, FindFrom
    <3>5. i..N \subseteq 1..N
      OBVIOUS
    <3> QED
      BY <1>3, <3>2, <3>3, <3>4, <3>5
  <2> QED
    BY <1>6, <2>1, <2>2
<1>8. PICK K \in 1..N : CutTo(K) /\ St(K) <= n /\ n <= En(K)
  BY <1>1, <1>2, UnlinkStep DEF p
<1>9. DeqInv' /\ ooo_deq' \in Links
  BY <1>1, <1>2 DEF DeqInv, Links
<1> QED
  BY <1>1, <1>2, <1>3, <1>7, <1>8, <1>9, CutInv

\* What is left of the first m chunks when those before the K-th are taken away.
LEMMA LookupCut ==
  ASSUME FifoInv, NEW K, CutTo(K), NEW m \in 0..Len(chain),
         NEW lookup, lookup = Chunk(1, m),
         NEW gone, gone = ToSet(SubSeq(chain, 1, K - 1))
  PROVE  \E h \in 0..Len(chain') : lookup \ gone = Chunk(1, h)'
<1> DEFINE N == Len(chain)
           M == Len(chain')
           h == IF m < K THEN 0 ELSE m - K + 1
<1>1. /\ M \in Nat \ {0}
      /\ \A i \in 1..M : i + K - 1 \in K..N /\ chain'[i] = chain[i + K - 1]
      /\ \A i \in K..N : i - K + 1 \in 1..M /\ chain'[i - K + 1] = chain[i]
  BY CutGeo
<1>2. N \in Nat \ {0} /\ K \in 1..N /\ M = N - K + 1 /\ Geo /\ chain \in Seq(Chunks)
      /\ DOMAIN chain = 1..N
  BY Basics, ListTypes DEF FifoInv, CutTo, Types
<1>3. h \in 0..M
  BY <1>1, <1>2
<1>4. ASSUME NEW c PROVE c \in gone <=> \E i \in 1..(K - 1) : c = chain[i]
  <2> DEFINE s == SubSeq(chain, 1, K - 1)
  <2>1. K - 1 \in Nat /\ K - 1 <= N
    BY <1>2
  <2>2. s \in Seq(Chunks) /\ Len(s) = K - 1
    BY <1>2, <2>1
  <2>3. \A i \in 1..(K - 1) : s[i] = chain[i]
    BY <1>2, <2>1
  <2>4. DOMAIN s = 1..(K - 1) /\ gone = ToSet(s)
    BY <2>2
  <2> HIDE DEF s
  <2>5. c \in ToSet(s) <=> \E i \in 1..(K - 1) : c = s[i]
    BY <2>4 DEF ToSet
  <2> QED
    BY <2>3, <2>4, <2>5 DEF s
<1>5. ASSUME NEW i \in 1..m, chain[i] \notin gone
      PROVE  i - K + 1 \in 1..h /\ chain[i] = chain'[i - K + 1]
  <2>1. ~(i \in 1..(K - 1))
    BY <1>4, <1>5
  <2>2. i \in K..N /\ i <= m
    BY <1>2, <2>1
  <2>3. i - K + 1 \in 1..h
    BY <1>2, <2>2
  <2> QED
    BY <1>1, <2>2, <2>3
<1>6. ASSUME NEW j \in 1..h
      PROVE  j + K - 1 \in 1..m /\ chain'[j] = chain[j + K - 1] /\ chain[j + K - 1] \notin gone
  <2>1. j \in 1..M /\ j + K - 1 \in 1..m /\ j + K - 1 \in 1..N
    BY <1>1, <1>2
  <2>2. ASSUME NEW i \in 1..(K - 1), chain[j + K - 1] = chain[i] PROVE FALSE
    <3>1. i \in 1..N /\ i # j + K - 1
      BY <1>2
    <3> QED
      BY <1>2, <2>1, <2>2, <3>1, Inj
  <2> QED
    BY <1>1, <1>4, <2>1, <2>2
<1> DEFINE f == chain
           g == chain'
           S == 1..m
           T == 1..h
<1>7. /\ \A i \in S : f[i] \notin gone => \E j \in T : f[i] = g[j]
      /\ \A j \in T : \E i \in S : g[j] = f[i] /\ f[i] \notin gone
      /\ lookup = {f[i] : i \in S}
  BY <1>5, <1>6 DEF Chunk
<1>8. lookup \ gone = {g[j] : j \in T}
  <2> HIDE DEF f, g, S, T
  <2> QED
    BY ONLY <1>7
<1>9. PICK l \in 0..M : l = h
  BY <1>3
<1>10. lookup \ gone = Chunk(1, l)'
  BY <1>8, <1>9 DEF Chunk
<1> QED
  BY <1>10

LEMMA DropInv ==
  ASSUME FifoInv, NEW n \in Lens, Drop(n)
  PROVE  FifoInv'
<1> DEFINE p == Plus(head, n)
           N == Len(chain)
           first == chain[Kept(p)]
           passed == ToSet(SubSeq(chain, 1, Kept(p) - 1))
<1>1. /\ cons = Idle /\ role = "tx" /\ ~closed /\ Reads(0, n)
      /\ cons' = [pc |-> "store", head |-> p]
      /\ UNCHANGED <<role, prodVars, head, closed>>
      /\ StartUsedUp(p) =>
           /\ UnlinkChunks(p)
           /\ head_chunk' = IF f_chunk_includes_pos(first, p) THEN first ELSE Null
           /\ ooo_deq' = IF ooo_deq # Null /\ f_pos_lt(start_byte[ooo_deq], f_chunk_end(first))
                         THEN Null ELSE ooo_deq
           /\ ooo_deq_lookup' =
                ooo_deq_lookup \ (IF f_chunk_includes_pos(first, p) THEN passed
                                  ELSE passed \cup {first})
      /\ ~StartUsedUp(p) => UNCHANGED <<listVars, data, oooDeqVars, head_chunk>>
  BY DEF Drop, Transport
<1>2. n \in Nat \ {0} /\ cons.pc = "idle"
  BY <1>1, FifoAssumption DEF Lens, Idle
<1>3. /\ Geo /\ Types /\ Off(tail) \in Int /\ Avail = Off(tail) /\ DeqInv /\ N \in Nat \ {0}
      /\ DOMAIN chain = 1..N /\ 1 \in 1..N
      /\ \A i \in 1..N : /\ chain[i] \in Chunks /\ St(i) \in Int /\ En(i) \in Int
                         /\ start_byte[chain[i]] \in Pos /\ St(i) < En(i)
  BY Basics, ListTypes DEF FifoInv
<1>4. n <= Off(tail)
  BY <1>1, <1>2, <1>3 DEF Reads
<1>5. p \in Pos /\ Off(p) = n /\ Near(n) /\ n <= End /\ (StartUsedUp(p) <=> En(1) <= n)
  BY <1>2, <1>4, UsedUp
<1>6. CASE ~StartUsedUp(p)
  <2>1. UNCHANGED <<listVars, data, oooDeqVars, head_chunk>> /\ n < En(1)
    BY <1>1, <1>2, <1>3, <1>5, <1>6
  <2>2. CutTo(1)
    BY <1>1, <2>1, NoCut
  <2>3. Target = 0 /\ St(1) <= 0
    BY <1>2, IdleHead
  <2>4. St(1) <= n /\ n <= En(1)
    BY <1>2, <1>3, <2>1, <2>3
  <2>5. head_chunk' = Null \/ \E m \in 1..N : head_chunk' = chain[m] /\ St(m) <= n /\ n < En(m)
    <3>1. CASE head_chunk = Null
      BY <2>1, <3>1
    <3>2. CASE head_chunk # Null
      <4>1. HasAt(head_chunk, 0)
        BY <2>3, <3>2 DEF FifoInv, HeadInv
      <4>2. PICK m \in 1..N : head_chunk = chain[m] /\ St(m) <= 0 /\ 0 < En(m)
        BY <1>3, <4>1 DEF HasAt
      <4>3. m = 1
        <5>0. En(1) \in Int /\ n < En(1)
          BY <1>3, <2>1
        <5>1. 0 < En(1)
          BY <1>2, <5>0
        <5> QED
          BY <1>3, <2>3, <4>2, <5>1, Unique
      <4> QED
        BY <1>3, <2>1, <2>4, <4>2, <4>3
    <3> QED
      BY <3>1, <3>2
  <2>6. DeqInv' /\ ooo_deq' \in Links
    <3>1. UNCHANGED <<role, chain, oooDeqVars, closed>>
      BY <1>1, <2>1 DEF listVars
    <3> QED
      BY <1>3, <3>1, DeqFrame DEF Types, oooDeqVars
  <2> HIDE DEF p
  <2> QED
    BY <1>1, <1>2, <1>4, <1>5, <2>2, <2>4, <2>5, <2>6, CutInv
<1>7. CASE StartUsedUp(p)
  <2>1. PICK K \in 1..N :
          /\ K = Kept(p) /\ St(K) <= n /\ n <= En(K) /\ (n < En(K) \/ K = N)
          /\ f_chunk_includes_pos(chain[K], p) <=> n < En(K)
    BY <1>2, <1>4, <1>7, KeptIs
  <2>2. CutTo(K)
    BY <1>1, <1>7, <2>1, UnlinkIs
  <2>3. first = chain[K] /\ passed = ToSet(SubSeq(chain, 1, K - 1))
    BY <2>1
  <2> HIDE DEF first, passed, p
  <2>4. head_chunk' = Null \/ \E m \in 1..N : head_chunk' = chain[m] /\ St(m) <= n /\ n < En(m)
    BY <1>1, <1>7, <2>1, <2>3
  <2>5. /\ Len(chain') \in Nat \ {0} /\ DOMAIN chain' = 1..Len(chain')
        /\ \A i \in K..N : i - K + 1 \in 1..Len(chain') /\ chain'[i - K + 1] = chain[i]
    BY <2>2, CutGeo
  <2>6. ooo_deq' = Null \/ ooo_deq' \in ToSet(chain')
    <3> SUFFICES ASSUME ooo_deq' # Null PROVE ooo_deq' \in ToSet(chain')
      OBVIOUS
    <3> DEFINE e == f_chunk_end(first)
               q == start_byte[ooo_deq]
    <3>1. ooo_deq' = ooo_deq /\ ooo_deq # Null /\ ~f_pos_lt(q, e)
      BY <1>1, <1>7
    <3>2. PICK i \in 1..N : ooo_deq = chain[i]
      BY <1>1, <1>3, <3>1 DEF DeqInv, ToSet
    <3>3. e \in Pos /\ Off(e) = En(K) /\ Near(En(K))
      BY <1>3, <2>3, ChunkEnd, ListNear
    <3>4. q \in Pos /\ Off(q) = St(i) /\ Near(St(i))
      BY <1>3, <3>2, ListNear DEF St
    <3> HIDE DEF e, q
    <3>5. f_pos_lt(q, e) <=> Off(q) < Off(e)
      BY <1>3, <3>3, <3>4, PosCmp
    <3>6. En(K) <= St(i) /\ St(K) <= St(i) /\ St(i) < En(i) /\ St(i) \in Int
      BY <1>3, <3>1, <3>3, <3>4, <3>5
    <3>7. i \in K..N
      BY <3>6, CutKeeps
    <3> QED
      BY <2>5, <3>1, <3>2, <3>7 DEF ToSet
  <2>7. \E h \in 0..Len(chain') : ooo_deq_lookup' = {chain'[i] : i \in 1..h}
    <3>1. PICK m \in 0..N : ooo_deq_lookup = {chain[i] : i \in 1..m}
      BY <1>1, <1>3 DEF DeqInv
    <3>a. ooo_deq_lookup = Chunk(1, m)
      BY <3>1 DEF Chunk
    <3>b. \E h \in 0..Len(chain') : ooo_deq_lookup \ passed = Chunk(1, h)'
      BY <2>2, <2>3, <3>a, LookupCut
    <3>2. \E h \in 0..Len(chain') : ooo_deq_lookup \ passed = {chain'[i] : i \in 1..h}
      BY <3>b DEF Chunk
    <3>3. CASE f_chunk_includes_pos(first, p)
      BY <1>1, <1>7, <3>2, <3>3
    <3>4. CASE ~f_chunk_includes_pos(first, p)
      <4>1. K = N
        BY <2>1, <2>3, <3>4
      <4>2. Len(chain') = 1 /\ chain'[1] = chain[N]
        <5>1. Len(chain') = N - K + 1
          BY <2>2 DEF CutTo
        <5>2. N \in K..N /\ N - K + 1 = 1
          BY <1>3, <4>1
        <5> QED
          BY <2>5, <5>1, <5>2
      <4>3. PICK h \in 0..1 : ooo_deq_lookup \ passed = {chain'[i] : i \in 1..h}
        BY <3>2, <4>2
      <4>4. \A i \in 1..h : chain'[i] = first
        <5>1. \A i \in 1..h : i = 1
          OBVIOUS
        <5> QED
          BY <2>3, <4>1, <4>2, <5>1
      <4>5. ooo_deq_lookup' = ooo_deq_lookup \ (passed \cup {first})
        BY <1>1, <1>7, <3>4
      <4>6. (ooo_deq_lookup \ passed) \subseteq {first}
        BY <4>3, <4>4
      <4>7. ooo_deq_lookup' = {}
        BY <4>5, <4>6
      <4>8. {} = {chain'[i] : i \in 1..0} /\ 0 \in 0..Len(chain')
        BY <2>5
      <4> QED
        BY <4>7, <4>8
    <3> QED
      BY <3>3, <3>4
  <2>8. DeqInv' /\ ooo_deq' \in Links
    <3>1. ooo_deq' \in Links
      BY <1>1, <1>3, <1>7 DEF Types, Links
    <3> QED
      BY <1>1, <2>6, <2>7, <3>1 DEF DeqInv
  <2> QED
    BY <1>1, <1>2, <1>4, <1>5, <2>1, <2>2, <2>4, <2>8, CutInv
<1> QED
  BY <1>6, <1>7

LEMMA Shift ==
  ASSUME NEW a \in Int, NEW b \in Int, NEW e \in Int
  PROVE  (a <= b <=> a - e <= b - e) /\ (a < b <=> a - e < b - e)
OBVIOUS

\* The head moves: every offset becomes smaller by as much.
LEMMA DequeueStoreInv ==
  ASSUME FifoInv, DequeueStore
  PROVE  FifoInv'
<1> DEFINE d == Off(consumed)
           N == Len(chain)
<1>1. /\ Types /\ ChainInv /\ OrderInv /\ TailInv /\ HeadInv /\ ProdInv /\ ConsInv
      /\ SegInv /\ EnqInv /\ DeqInv /\ DataInv /\ Geo
  BY Basics DEF FifoInv
<1>2. /\ cons.pc = "store" /\ head' = cons.head /\ cons' = Idle
      /\ UNCHANGED <<role, tail, chain, start_byte, free, data, head_chunk, tail_chunk,
                  ooos, ooo_enq, ooo_enq_lookup, ooo_deq, ooo_deq_lookup, prod, closed, oooDeqVars>>
  BY DEF DequeueStore, listVars, oooEnqVars, oooDeqVars, prodVars
<1>3. consumed = head' /\ consumed' = head' /\ produced' = produced /\ consumed \in Pos /\ produced \in Pos
  BY <1>1, <1>2, ListTypes DEF consumed, produced, Idle
<1>4. /\ Near(0) /\ Near(d) /\ Near(Off(produced)) /\ Near(Off(tail)) /\ Near(End)
      /\ d \in Int /\ Off(produced) \in Int /\ Off(tail) \in Int /\ End \in Int /\ Size \in Nat
      /\ head \in Pos /\ tail \in Pos /\ MinAlloc \in Nat /\ N \in Nat \ {0} /\ DOMAIN chain = 1..N
      /\ 0 <= d /\ d <= Off(tail) /\ Off(tail) <= Off(produced) /\ Off(produced) <= End
      /\ Off(produced) <= Size
  BY <1>1, ListTypes, ListNear, FifoAssumption DEF Types, OrderInv
<1>5. ASSUME NEW p \in Pos, Near(Off(p)) PROVE Diff(p, head') = Off(p) - d
  BY <1>3, <1>4, <1>5, OffDiff DEF Off
<1>6. /\ Off(tail)' = Off(tail) - d /\ Off(produced)' = Off(produced) - d /\ Off(consumed)' = 0
  <2>1. Off(tail)' = Off(tail) - d
    BY <1>2, <1>4, <1>5 DEF Off
  <2>2. Off(produced)' = Off(produced) - d
    BY <1>3, <1>4, <1>5 DEF Off
  <2>3. Off(consumed)' = d - d
    BY <1>3, <1>4, <1>5 DEF Off
  <2> QED
    BY <1>4, <2>1, <2>2, <2>3
<1>7. ASSUME NEW i \in 1..N
      PROVE  /\ St(i)' = St(i) - d /\ En(i)' = En(i) - d
             /\ St(i) \in Int /\ En(i) \in Int /\ Length[chain[i]] \in Nat \ {0}
  <2>1. /\ start_byte[chain[i]] \in Pos /\ Near(St(i)) /\ St(i) \in Int /\ En(i) \in Int
        /\ Length[chain[i]] \in Nat \ {0}
    BY <1>1, ListTypes, ListNear
  <2>2. St(i)' = St(i) - d
    BY <1>2, <1>5, <2>1 DEF St, Off
  <2>3. En(i) = St(i) + Length[chain[i]] /\ En(i)' = St(i)' + Length[chain[i]]
    BY <1>2 DEF En
  <2>4. En(i)' = En(i) - d
    <3> DEFINE l == Length[chain[i]]
               a == St(i)
    <3>1. l \in Nat /\ a \in Int /\ d \in Int
      BY <1>4, <2>1
    <3>2. (a - d) + l = (a + l) - d
      <4> HIDE DEF l, a, d
      <4> QED
        BY ONLY <3>1
    <3> QED
      BY <2>2, <2>3, <3>2
  <2> QED
    BY <2>1, <2>2, <2>4
<1>8. End' = End - d
  <2>0. N \in 1..N
    BY <1>4
  <2>1. PICK q \in 1..N : q = N
    BY <2>0
  <2>2. En(q)' = En(q) - d
    BY <1>7
  <2>3. End = En(q) /\ End' = En(q)'
    BY <1>2, <2>1 DEF End, En, St, Off
  <2> QED
    BY <2>2, <2>3
<1>9. ASSUME NEW i \in 1..Len(ooos)
      PROVE  SegSt(i)' = SegSt(i) - d /\ SegEn(i)' = SegEn(i) - d /\ SegSt(i) \in Int /\ SegEn(i) \in Int
  <2>1. /\ ooos[i].start \in Pos /\ ooos[i].length \in Nat /\ Near(SegSt(i)) /\ SegSt(i) \in Int
        /\ SegEn(i) \in Int
    BY <1>1, SegsNear
  <2>2. SegSt(i)' = SegSt(i) - d
    BY <1>2, <1>5, <2>1 DEF SegSt, Off
  <2>3. SegEn(i) = SegSt(i) + ooos[i].length /\ SegEn(i)' = SegSt(i)' + ooos[i].length
    BY <1>2 DEF SegEn
  <2>4. SegEn(i)' = SegEn(i) - d
    <3> DEFINE l == ooos[i].length
               a == SegSt(i)
    <3>1. l \in Nat /\ a \in Int /\ d \in Int
      BY <1>4, <2>1
    <3>2. (a - d) + l = (a + l) - d
      <4> HIDE DEF l, a, d
      <4> QED
        BY ONLY <3>1
    <3> QED
      BY <2>2, <2>3, <3>2
  <2> QED
    BY <2>1, <2>2, <2>4
<1> HIDE DEF d
<1>a. d \in Int
  BY <1>4
<1>10. Types'
  <2>1. head' \in Pos
    BY <1>3
  <2>2. cons' \in ConsCalls
    BY <1>2 DEF ConsCalls
  <2> QED
    BY <1>1, <1>2, <2>1, <2>2 DEF Types
<1>11. ChainInv'
  <2>1. \A i \in 1..(N - 1) : start_byte[chain[i + 1]] = f_chunk_end(chain[i])
    BY <1>1 DEF ChainInv
  <2>2. \A i \in 1..(Len(chain') - 1) : (start_byte[chain[i + 1]] = f_chunk_end(chain[i]))'
    BY <1>2, <2>1 DEF f_chunk_end
  <2>3. ASSUME NEW i \in 1..(N - 1) PROVE St(i + 1)' = En(i)'
    <3>1. PICK j \in 1..N : j = i + 1
      BY <1>4
    <3>2. i \in 1..N /\ St(j) = En(i)
      BY <1>1, <1>4, <3>1 DEF ChainInv
    <3>3. St(j)' = En(i)'
      BY <1>7, <3>2
    <3> QED
      BY <3>1, <3>3
  <2>4. ASSUME NEW i \in 1..N, NEW j \in 1..N, i < j PROVE En(i)' <= St(j)'
    <3>1. En(i) <= St(j)
      BY <1>1, <2>4 DEF ChainInv
    <3>2. En(i)' = En(i) - d /\ St(j)' = St(j) - d /\ En(i) \in Int /\ St(j) \in Int
      BY <1>7
    <3>3. En(i) - d <= St(j) - d
      BY <1>a, <3>1, <3>2, Shift
    <3> QED
      BY <3>2, <3>3
  <2>5. (St(1) <= Off(consumed))' /\ (Off(consumed) <= En(1))'
    <3>1. 1 \in 1..N /\ St(1) <= d /\ d <= En(1)
      BY <1>1, <1>4 DEF ChainInv, d
    <3>2. St(1)' = St(1) - d /\ En(1)' = En(1) - d /\ St(1) \in Int /\ En(1) \in Int
      BY <1>7, <3>1
    <3> QED
      BY <1>4, <1>6, <3>1, <3>2
  <2>6. \E c \in Chunks : End' <= Size + MinAlloc + Length[c]
    <3>1. PICK c \in Chunks : End <= Size + MinAlloc + Length[c]
      BY <1>1 DEF ChainInv
    <3>2. Length[c] \in Nat
      BY FifoAssumption
    <3> QED
      BY <1>4, <1>8, <3>1, <3>2
  <2>7. IsInjective(chain') /\ ToSet(chain') \cap free' = {} /\ ToSet(chain') \cup free' = Chunks
    BY <1>1, <1>2 DEF ChainInv
  <2> QED
    BY <1>2, <2>2, <2>3, <2>4, <2>5, <2>6, <2>7 DEF ChainInv
<1>12. OrderInv'
  BY <1>4, <1>6, <1>8 DEF OrderInv
<1>13. ASSUME NEW c, NEW x \in Int, HasAt(c, x)
       PROVE  \E i \in DOMAIN chain' : chain'[i] = c /\ St(i)' <= x - d /\ x - d < En(i)'
  <2>1. PICK i \in 1..N : chain[i] = c /\ St(i) <= x /\ x < En(i)
    BY <1>4, <1>13 DEF HasAt
  <2>2. St(i)' <= x - d /\ x - d < En(i)'
    <3>1. En(i)' = En(i) - d /\ St(i)' = St(i) - d /\ En(i) \in Int /\ St(i) \in Int
      BY <1>7
    <3>2. St(i) - d <= x - d /\ x - d < En(i) - d
      BY <1>a, <2>1, <3>1, Shift
    <3> QED
      BY <3>1, <3>2
  <2> QED
    BY <1>2, <1>4, <2>1, <2>2
<1>14. TailInv'
  <2>1. CASE HasAt(tail_chunk, Off(produced))
    <3>1. \E i \in DOMAIN chain' : /\ chain'[i] = tail_chunk /\ St(i)' <= Off(produced) - d
                                   /\ Off(produced) - d < En(i)'
      BY <1>4, <1>13, <2>1
    <3> QED
      BY <1>2, <1>6, <3>1 DEF TailInv, HasAt
  <2>2. CASE tail_chunk = Null /\ Off(produced) = End
    BY <1>2, <1>6, <1>8, <2>2 DEF TailInv
  <2> QED
    BY <1>1, <2>1, <2>2 DEF TailInv
<1>15. HeadInv'
  <2>1. Target = d /\ Target' = d - d
    <3>1. Target = d
      BY <1>2 DEF Target, d
    <3>2. Target' = 0
      BY <1>2, <1>6 DEF Target, Idle
    <3> QED
      BY <1>4, <3>1, <3>2
  <2>2. CASE head_chunk = Null
    BY <1>2, <2>2 DEF HeadInv
  <2>3. CASE HasAt(head_chunk, d)
    <3>1. \E i \in DOMAIN chain' : chain'[i] = head_chunk /\ St(i)' <= d - d /\ d - d < En(i)'
      BY <1>4, <1>13, <2>3
    <3> QED
      BY <1>2, <2>1, <3>1 DEF HeadInv, HasAt
  <2> QED
    BY <1>1, <2>1, <2>2, <2>3 DEF HeadInv
<1>16. ProdInv'
  <2>0. prod \in ProdCalls
    BY <1>1 DEF Types
  <2>1. prod.pc \in {"grow", "copy"} => prod.n \in Nat /\ prod.offset \in Nat
    BY <2>0 DEF ProdCalls, Idle
  <2>2. prod.pc = "grow" => prod.alloc \in Int
    BY <2>0 DEF ProdCalls, Idle
  <2> DEFINE o == prod.offset
             n == prod.n
             al == prod.alloc
             t == Off(tail)
             e == End
  <2>3. CASE prod.pc = "grow"
    <3>1. /\ t + o + n <= Size /\ e < t + o + n /\ t + o + n <= e + al /\ e + al <= Size + MinAlloc
      BY <1>1, <2>3 DEF ProdInv
    <3>2. /\ o \in Nat /\ n \in Nat /\ al \in Int /\ t \in Int /\ e \in Int /\ d \in Int /\ 0 <= d
          /\ Size \in Nat /\ MinAlloc \in Nat
      BY <1>4, <2>1, <2>2, <2>3
    <3>3. /\ (t - d) + o + n <= Size /\ e - d < (t - d) + o + n /\ (t - d) + o + n <= (e - d) + al
          /\ (e - d) + al <= Size + MinAlloc
      <4> HIDE DEF o, n, al, t, e
      <4> QED
        BY ONLY <3>1, <3>2
    <3>4. /\ (Off(tail) + prod.offset + prod.n <= Size)'
          /\ (End < Off(tail) + prod.offset + prod.n)'
          /\ (Off(tail) + prod.offset + prod.n <= End + prod.alloc)'
          /\ (End + prod.alloc <= Size + MinAlloc)'
          /\ (prod.alloc <= LargestSize)'
      BY <1>1, <1>2, <1>6, <1>8, <2>3, <3>3 DEF ProdInv
    <3> QED
      BY <1>1, <1>2, <2>3, <3>4 DEF ProdInv
  <2>4. CASE prod.pc = "copy"
    <3>1. t + o + n <= Size /\ t + o + n <= e
      BY <1>1, <2>4 DEF ProdInv
    <3>2. /\ o \in Nat /\ n \in Nat /\ t \in Int /\ e \in Int /\ d \in Int /\ 0 <= d /\ Size \in Nat
      BY <1>4, <2>1, <2>4
    <3>3. (t - d) + o + n <= Size /\ (t - d) + o + n <= (e - d)
      <4> HIDE DEF o, n, al, t, e
      <4> QED
        BY ONLY <3>1, <3>2
    <3>4. /\ (Off(tail) + prod.offset + prod.n <= Size)'
          /\ (Off(tail) + prod.offset + prod.n <= End)'
      BY <1>2, <1>6, <1>8, <3>3
    <3> QED
      BY <1>1, <1>2, <2>4, <3>4 DEF ProdInv
  <2>5. CASE prod.pc \notin {"grow", "copy"}
    BY <1>2, <2>5 DEF ProdInv
  <2> QED
    BY <2>3, <2>4, <2>5
<1>17. ConsInv'
  BY <1>2 DEF ConsInv, Idle
<1>18. SegInv'
  <2>1. ASSUME NEW i \in 1..Len(ooos)
        PROVE  (Off(produced) < SegSt(i))' /\ (SegEn(i) <= Size)' /\ (SegEn(i) <= End)'
    <3>1. Off(produced) < SegSt(i) /\ SegEn(i) <= Size /\ SegEn(i) <= End
      BY <1>1 DEF SegInv
    <3> QED
      BY <1>4, <1>6, <1>8, <1>9, <3>1, SMTT(20)
  <2>2. ASSUME NEW i \in 1..Len(ooos), NEW j \in 1..Len(ooos), i < j
        PROVE  (SegEn(i) < SegSt(j))'
    <3>1. SegEn(i) < SegSt(j)
      BY <1>1, <2>2 DEF SegInv
    <3>2. SegEn(i)' = SegEn(i) - d /\ SegSt(j)' = SegSt(j) - d /\ SegEn(i) \in Int /\ SegSt(j) \in Int
      BY <1>9
    <3>3. SegEn(i) - d < SegSt(j) - d
      BY <1>a, <3>1, <3>2, Shift
    <3> QED
      BY <3>2, <3>3
  <2> QED
    BY <1>1, <1>2, <2>1, <2>2 DEF SegInv
<1>19. EnqInv'
  <2>1. ooos' = <<>> => ooo_enq' = Null /\ ooo_enq_lookup' = {}
    BY <1>1, <1>2 DEF EnqInv
  <2>2. ooo_enq' # Null => (\E i \in 1..Len(chain) : chain[i] = ooo_enq /\ Off(produced) < En(i))'
    <3> SUFFICES ASSUME ooo_enq # Null
                 PROVE  \E i \in 1..Len(chain') : chain'[i] = ooo_enq' /\ Off(produced)' < En(i)'
      BY <1>2
    <3>1. PICK i \in 1..N : chain[i] = ooo_enq /\ Off(produced) < En(i)
      BY <1>1 DEF EnqInv
    <3>2. Off(produced)' < En(i)'
      BY <1>4, <1>6, <1>7, <3>1
    <3> QED
      BY <1>2, <3>1, <3>2
  <2>3. ASSUME ooo_enq_lookup # {}
        PROVE  \E lo, hi \in 1..Len(chain') :
          /\ lo <= hi
          /\ ooo_enq_lookup' = {chain'[i] : i \in lo..hi}
          /\ St(lo)' <= Off(produced)' /\ Off(produced)' < En(lo)'
          /\ St(hi)' <= SegEn(Len(ooos))'
    <3>1. PICK lo \in 1..N, hi \in 1..N :
          /\ lo <= hi
          /\ ooo_enq_lookup = {chain[i] : i \in lo..hi}
          /\ St(lo) <= Off(produced) /\ Off(produced) < En(lo)
          /\ St(hi) <= SegEn(Len(ooos))
      BY <1>1, <2>3 DEF EnqInv
    <3>2. ooos # <<>> /\ ooos \in Seq(SegRec)
      BY <1>1, <2>3 DEF EnqInv, Types, SegRec
    <3>3. PICK m \in 1..Len(ooos) : m = Len(ooos)
      BY <3>2
    <3>4. SegEn(Len(ooos))' = SegEn(m)'
      BY <1>2, <3>3 DEF SegSt, SegEn, Off
    <3>5. St(hi) <= SegEn(m)
      BY <3>1, <3>3
    <3>6. St(hi)' <= SegEn(m)'
      <4>1. SegEn(m)' = SegEn(m) - d /\ St(hi)' = St(hi) - d /\ SegEn(m) \in Int /\ St(hi) \in Int
        BY <1>7, <1>9
      <4>2. St(hi) - d <= SegEn(m) - d
        BY <1>a, <3>5, <4>1, Shift
      <4> QED
        BY <4>1, <4>2
    <3>7. St(lo)' <= Off(produced)' /\ Off(produced)' < En(lo)'
      <4>1. St(lo)' = St(lo) - d /\ En(lo)' = En(lo) - d /\ St(lo) \in Int /\ En(lo) \in Int
        BY <1>7
      <4>2. Off(produced) \in Int
        BY <1>4
      <4>3. St(lo) - d <= Off(produced) - d /\ Off(produced) - d < En(lo) - d
        BY <1>a, <3>1, <4>1, <4>2, Shift
      <4> QED
        BY <1>6, <4>1, <4>3
    <3> QED
      BY <1>2, <3>1, <3>4, <3>6, <3>7
  <2> QED
    BY <1>2, <2>1, <2>2, <2>3 DEF EnqInv
<1>20. DeqInv'
  BY <1>1, <1>2, DeqFrame
<1>21. DataInv'
  <2> SUFFICES ASSUME NEW i \in 1..N, NEW k \in 0..(Length[chain[i]] - 1), Live(St(i) + k)'
               PROVE  data[<<chain[i], k>>] = Plus(start_byte[chain[i]], k)
    BY <1>2 DEF DataInv
  <2>1. St(i)' = St(i) - d /\ St(i) \in Int /\ k \in Nat
    BY <1>7
  <2> DEFINE x == St(i) + k
  <2>2. (St(i) + k)' = x - d /\ x \in Int
    BY <1>4, <2>1
  <2> HIDE DEF x
  <2>3. \/ 0 <= x - d /\ x - d < Off(produced) - d
        \/ \E j \in 1..Len(ooos) : SegSt(j) - d <= x - d /\ x - d < SegEn(j) - d
    BY <1>2, <1>6, <1>9, <2>2 DEF Live
  <2>4. \/ d <= x /\ x < Off(produced)
        \/ \E j \in 1..Len(ooos) : SegSt(j) <= x /\ x < SegEn(j)
    <3>1. ASSUME NEW j \in 1..Len(ooos), SegSt(j) - d <= x - d, x - d < SegEn(j) - d
          PROVE  SegSt(j) <= x /\ x < SegEn(j)
      <4>1. SegEn(j) \in Int /\ SegSt(j) \in Int /\ x \in Int
        BY <1>9, <2>2
      <4> QED
        BY <1>a, <3>1, <4>1, Shift
    <3>2. 0 <= x - d /\ x - d < Off(produced) - d => d <= x /\ x < Off(produced)
      <4>1. Off(produced) \in Int /\ x \in Int
        BY <1>4, <2>2
      <4>2. 0 <= x - d => d <= x
        BY ONLY <1>a, <4>1
      <4> QED
        BY <1>a, <4>1, <4>2, Shift
    <3> QED
      BY <2>3, <3>1, <3>2
  <2>5. Live(x)
    BY <2>4 DEF Live, d
  <2> QED
    BY <1>1, <2>5 DEF DataInv, x
<1> QED
  BY <1>10, <1>11, <1>12, <1>14, <1>15, <1>16, <1>17, <1>18, <1>19, <1>20, <1>21 DEF FifoInv
-----------------------------------------------------------------------------
(* The invariant. *)

LEMMA InitInv ==
  ASSUME Fits, Init
  PROVE  FifoInv
<1> DEFINE N == Len(chain)
           b == Before(chain)
           T == Total(chain)
<1>1. /\ role \in Roles /\ head = 0 /\ tail = 0 /\ chain \in Allocs(FirstAlloc, Chunks)
      /\ data = [x \in AllCells |-> Junk] /\ free = Chunks \ ToSet(chain)
      /\ head_chunk = chain[1] /\ tail_chunk = chain[1] /\ ooos = <<>> /\ ooo_enq = Null
      /\ ooo_enq_lookup = {} /\ ooo_deq = Null /\ ooo_deq_lookup = {}
      /\ prod = Idle /\ cons = Idle /\ closed = FALSE
  BY DEF Init
<1>2. start_byte = [c \in Chunks |->
        IF c \in ToSet(chain) THEN b[Index(c) - 1] ELSE 0]
  BY DEF Init
<1>3. /\ FirstAlloc \in Nat \ {0} /\ FirstAlloc <= Size + MinAlloc /\ Size \in Nat /\ MinAlloc \in Nat
      /\ Modulus \in Nat \ {0} /\ FirstAlloc <= LargestSize
  BY FifoAssumption DEF Fits
<1>4. /\ chain \in Seq(Chunks) /\ N \in Nat \ {0} /\ 1 \in 1..N
      /\ \A i, j \in 1..N : chain[i] = chain[j] => i = j
      /\ \A j \in 1..N : IndexIn(chain, chain[j]) = j
      /\ T >= FirstAlloc /\ T - Length[chain[1]] < FirstAlloc
  <2>1. Chunks \in SUBSET Chunks /\ FirstAlloc \in Int /\ FirstAlloc <= LargestSize
    BY <1>3
  <2> QED
    BY <1>1, <2>1, AllocIs
<1>5. DOMAIN chain = 1..N /\ \A i \in 1..N : chain[i] \in Chunks /\ Length[chain[i]] \in Nat \ {0}
  <2>1. \A c \in Chunks : Length[c] \in Nat \ {0}
    BY FifoAssumption
  <2> QED
    BY <1>4, <2>1
<1>6. /\ b \in [0..N -> Nat] /\ b[0] = 0
      /\ \A i \in 1..N : b[i] = b[i - 1] + Length[chain[i]]
  BY <1>4, BeforeDef
<1>7. T = b[N] /\ N \in 0..N /\ T \in Nat
  <2>1. N \in 0..N
    BY <1>4
  <2> QED
    BY <1>6, <2>1 DEF Total
<1> HIDE DEF b, T
<1>8. T <= Size + MinAlloc + Length[chain[1]] /\ chain[1] \in Chunks
  <2> DEFINE l == Length[chain[1]]
  <2>1. l \in Nat /\ T - l < FirstAlloc
    BY <1>4, <1>5
  <2> HIDE DEF l
  <2>2. T <= Size + MinAlloc + l
    BY ONLY <1>3, <1>7, <2>1
  <2> QED
    BY <1>4, <1>5, <2>2 DEF l
<1>9. 2 * T < Modulus
  <2> DEFINE l == Length[chain[1]]
  <2>1. l \in Nat /\ T <= Size + MinAlloc + l
    BY <1>4, <1>5, <1>8
  <2>2. 2 * (Size + MinAlloc + l + l) < Modulus
    BY <1>8, FifoAssumption
  <2> HIDE DEF l
  <2> QED
    BY ONLY <1>3, <1>7, <2>1, <2>2
<1>10. ASSUME NEW i \in 0..N PROVE b[i] \in Nat /\ b[i] <= T /\ b[i] \in Pos
  <2>1. b[i] \in Nat /\ i <= N
    BY <1>4, <1>6
  <2>2. b[i] <= b[N]
    BY <1>4, <1>7, <2>1, BeforeMono DEF b
  <2> DEFINE y == b[i]
  <2>3. y \in Nat /\ y <= T
    BY <1>7, <2>1, <2>2
  <2> HIDE DEF y
  <2>4. y \in Pos
    BY <1>3, <1>7, <1>9, <2>3 DEF Pos
  <2> QED
    BY <2>3, <2>4 DEF y
<1>11. ASSUME NEW i \in 1..N
       PROVE  start_byte[chain[i]] = b[i - 1] /\ i - 1 \in 0..N /\ b[i - 1] \in Pos
  <2>1. chain[i] \in ToSet(chain) /\ chain[i] \in Chunks /\ Index(chain[i]) = i
    BY <1>4, <1>5 DEF ToSet, Index
  <2>2. i - 1 \in 0..N
    BY <1>4
  <2> QED
    BY <1>2, <1>10, <2>1, <2>2
<1>12. 0 \in Pos
  BY <1>3 DEF Pos
<1>13. ASSUME NEW i \in 1..N
       PROVE  St(i) = b[i - 1] /\ En(i) = b[i] /\ i \in 0..N /\ i - 1 \in 0..N
  <2>1. start_byte[chain[i]] = b[i - 1] /\ b[i - 1] \in Pos /\ i - 1 \in 0..N /\ i \in 0..N
    BY <1>4, <1>11
  <2>2. b[i - 1] \in Nat /\ b[i - 1] <= T
    BY <1>10, <2>1
  <2> DEFINE y == b[i - 1]
  <2>a. y \in Pos /\ y \in Nat /\ y <= T
    BY <2>1, <2>2
  <2> HIDE DEF y
  <2>3. y \in Pos /\ y \in Int /\ -Modulus <= 2 * y /\ 2 * y < Modulus /\ y = y - 0
    BY ONLY <1>3, <1>7, <1>9, <2>a
  <2>4. Diff(y, 0) = y
    BY <1>12, <2>3, DiffIs
  <2>5. St(i) = b[i - 1]
    BY <1>1, <2>1, <2>4 DEF St, Off, y
  <2>6. En(i) = b[i]
    BY <1>6, <2>5 DEF En
  <2> QED
    BY <2>1, <2>5, <2>6
<1>14. consumed = 0 /\ produced = 0 /\ Off(consumed) = 0 /\ Off(produced) = 0 /\ Off(tail) = 0
  <2>1. Diff(0, 0) = 0
    BY <1>12, OffZero
  <2> QED
    BY <1>1, <2>1 DEF consumed, produced, Off, Idle
<1>15. Types
  <2>1. start_byte \in [Chunks -> Pos]
    <3>1. ASSUME NEW c \in Chunks PROVE start_byte[c] \in Pos
      <4>1. CASE c \in ToSet(chain)
        <5>1. PICK i \in 1..N : c = chain[i]
          BY <1>5, <4>1 DEF ToSet
        <5> QED
          BY <1>11, <5>1
      <4>2. CASE c \notin ToSet(chain)
        BY <1>2, <1>12, <4>2
      <4> QED
        BY <4>1, <4>2
    <3>2. DOMAIN start_byte = Chunks /\ start_byte = [c \in Chunks |-> start_byte[c]]
      BY <1>2
    <3> QED
      BY <3>1, <3>2
  <2>2. chain # <<>>
    BY <1>4
  <2>3. ooos \in Seq([start : Pos, length : Nat \ {0}])
    BY <1>1
  <2> QED
    BY <1>1, <1>4, <1>8, <1>12, <2>1, <2>2, <2>3 DEF Types, ProdCalls, ConsCalls, Links
<1>16. End = T
  BY <1>4, <1>7, <1>13 DEF End
<1>17. ASSUME NEW i \in 1..(N - 1) PROVE St(i + 1) = En(i)
  <2>1. i \in 1..N /\ i + 1 \in 1..N /\ (i + 1) - 1 = i
    BY <1>4
  <2> QED
    BY <1>13, <2>1
<1>18. ASSUME NEW i \in 1..N, NEW j \in 1..N, i < j PROVE En(i) <= St(j)
  <2>1. i \in 0..N /\ j - 1 \in 0..N /\ i <= j - 1
    BY <1>4, <1>18
  <2>2. b[i] <= b[j - 1]
    BY <1>4, <2>1, BeforeMono DEF b
  <2> QED
    BY <1>13, <2>2
<1>19. ASSUME NEW i \in 1..(N - 1) PROVE start_byte[chain[i + 1]] = f_chunk_end(chain[i])
  <2>1. i \in 1..N /\ i + 1 \in 1..N /\ (i + 1) - 1 = i /\ i \in 0..N
    BY <1>4
  <2>2. start_byte[chain[i + 1]] = b[i] /\ start_byte[chain[i]] = b[i - 1] /\ b[i] = b[i - 1] + Length[chain[i]]
    BY <1>6, <1>11, <2>1
  <2>3. b[i] \in Nat /\ b[i] < Modulus
    BY <1>10, <2>1, <1>3 DEF Pos
  <2>4. f_chunk_end(chain[i]) = b[i] % Modulus
    BY <2>2 DEF f_chunk_end, Plus
  <2> DEFINE y == b[i]
  <2>5. y % Modulus = y
    <3>1. y \in Nat /\ y < Modulus
      BY <2>3
    <3> HIDE DEF y
    <3> QED
      BY <1>3, <3>1
  <2> QED
    BY <2>2, <2>4, <2>5
<1>20. St(1) = 0 /\ En(1) = b[1] /\ b[1] = Length[chain[1]] /\ 0 < En(1) /\ En(1) \in Nat
  <2>1. St(1) = b[1 - 1] /\ En(1) = b[1] /\ b[1] = b[1 - 1] + Length[chain[1]]
    BY <1>4, <1>6, <1>13
  <2> QED
    BY <1>4, <1>5, <1>6, <2>1
<1>21. ChainInv
  <2>1. IsInjective(chain)
    BY <1>4, <1>5 DEF IsInjective
  <2>2. ToSet(chain) \subseteq Chunks
    BY <1>5 DEF ToSet
  <2>3. ToSet(chain) \cap free = {} /\ ToSet(chain) \cup free = Chunks
    BY <1>1, <2>2
  <2>4. St(1) <= Off(consumed) /\ Off(consumed) <= En(1)
    BY <1>14, <1>20
  <2>5. \E c \in Chunks : End <= Size + MinAlloc + Length[c]
    BY <1>8, <1>16
  <2> QED
    BY <1>17, <1>18, <1>19, <2>1, <2>3, <2>4, <2>5 DEF ChainInv
<1>22. OrderInv
  BY <1>3, <1>7, <1>14, <1>16 DEF OrderInv
<1>23. HasAt(chain[1], 0)
  BY <1>4, <1>5, <1>20 DEF HasAt
<1>24. TailInv /\ HeadInv
  BY <1>1, <1>14, <1>23 DEF TailInv, HeadInv, Target, Idle
<1>25. ProdInv /\ ConsInv
  BY <1>1 DEF ProdInv, ConsInv, Idle
<1>26. SegInv /\ EnqInv
  BY <1>1 DEF SegInv, EnqInv
<1>27. DeqInv
  <2>1. {} = {chain[i] : i \in 1..0} /\ 0 \in 0..N
    BY <1>4
  <2> QED
    BY <1>1, <2>1 DEF DeqInv
<1>28. DataInv
  <2>1. ASSUME NEW i \in 1..N, NEW k \in 0..(Length[chain[i]] - 1) PROVE ~Live(St(i) + k)
    <3>1. St(i) + k \in Int
      <4>1. St(i) \in Nat /\ k \in Int
        BY <1>5, <1>10, <1>13
      <4> QED
        BY <4>1
    <3> DEFINE x == St(i) + k
    <3> HIDE DEF x
    <3>2. ~Live(x)
      BY <1>1, <1>14, <3>1 DEF Live, x
    <3> QED
      BY <3>2 DEF x
  <2> QED
    BY <2>1 DEF DataInv
<1> QED
  BY <1>15, <1>21, <1>22, <1>24, <1>25, <1>26, <1>27, <1>28 DEF FifoInv

LEMMA StutterInv ==
  ASSUME FifoInv, UNCHANGED vars
  PROVE  FifoInv'
<1>1. UNCHANGED <<role, listVars, data, tail, tail_chunk, oooEnqVars, consVars>> /\ prod' = prod
  BY DEF vars, prodVars
<1>2. prod' \in ProdCalls /\ produced' = produced
  BY <1>1 DEF FifoInv, Types, produced
<1>3. ProdInv'
  <2>1. UNCHANGED <<role, head, chain, start_byte, tail, tail_chunk, ooos, prod>>
    BY <1>1 DEF listVars, oooEnqVars, consVars
  <2> QED
    BY <2>1, ProdFrame DEF FifoInv
<1> QED
  BY <1>1, <1>2, <1>3, ProdStep

LEMMA NextInv ==
  ASSUME FifoInv, Fits, [Next]_vars
  PROVE  FifoInv'
<1>1. ASSUME Producer PROVE FifoInv'
  BY <1>1, EnqueueLoadInv, OffsetLoadInv, TryChunkAllocInv, ChunkAllocFailsInv, EnqueueCopyInv,
     NocopyCopyInv, OffsetCopyInv, EnqueueStoreInv DEF Producer
<1>2. ASSUME Consumer PROVE FifoInv'
  BY <1>2, DequeueInv, DropInv, PeekInv, SegmentsInv, DequeueUnlinkInv, DropAllLoadInv, DropAllInv,
     DequeueStoreInv, StutterInv DEF Consumer, Crashed
<1> QED
  BY <1>1, <1>2, StutterInv DEF Next

\* The list of chunks always covers, in order and without gaps, what the fifo
\* holds and what its calls in progress are about to use, whatever the other
\* side does between two steps of a call.
THEOREM Inductive ==
  ASSUME Fits
  PROVE  Spec => []FifoInv
<1>1. Init => FifoInv
  BY InitInv
<1>2. FifoInv /\ [Next]_vars => FifoInv'
  BY NextInv
<1> QED
  BY <1>1, <1>2, PTL DEF Spec

LEMMA TypesOK == FifoInv => TypeOK
<1> SUFFICES ASSUME FifoInv PROVE TypeOK
  OBVIOUS
<1>1. f_cursize(head, tail) <= Size
  BY Basics
<1> QED
  BY <1>1 DEF FifoInv, Types, TypeOK, Links

\* Every variable has its type, and there is never more in the fifo than its size.
THEOREM TypeCorrect ==
  ASSUME Fits
  PROVE  Spec => []TypeOK
BY Inductive, TypesOK, PTL

LEMMA OwnedOK == FifoInv => ChunksOwned
<1> SUFFICES ASSUME FifoInv PROVE ChunksOwned
  OBVIOUS
<1>1. DOMAIN chain = 1..Len(chain) /\ Len(chain) \in Nat
  BY ListTypes DEF FifoInv
<1>2. ASSUME NEW i \in 1..Len(chain) PROVE chain[i] \in ToSet(chain)
  BY <1>1 DEF ToSet
<1>3. \A c, x : HasAt(c, x) => c \in ToSet(chain)
  BY <1>1, <1>2 DEF HasAt
<1>4. {head_chunk, tail_chunk, ooo_enq} \subseteq ToSet(chain) \cup {Null}
  <2>1. head_chunk \in ToSet(chain) \cup {Null}
    BY <1>3 DEF FifoInv, HeadInv
  <2>2. tail_chunk \in ToSet(chain) \cup {Null}
    BY <1>3 DEF FifoInv, TailInv
  <2>3. ooo_enq \in ToSet(chain) \cup {Null}
    BY <1>2 DEF FifoInv, EnqInv
  <2> QED
    BY <2>1, <2>2, <2>3
<1>5. ooo_enq_lookup \subseteq ToSet(chain)
  <2>1. CASE ooo_enq_lookup # {}
    <3>1. PICK lo \in 1..Len(chain), hi \in 1..Len(chain) : ooo_enq_lookup = {chain[i] : i \in lo..hi}
      BY <2>1 DEF FifoInv, EnqInv
    <3>2. \A i \in lo..hi : i \in 1..Len(chain)
      BY <1>1
    <3> QED
      BY <1>2, <3>1, <3>2
  <2> QED
    BY <2>1
<1>6. ~closed => {ooo_deq} \cup ooo_deq_lookup \subseteq ToSet(chain) \cup {Null}
  <2> SUFFICES ASSUME ~closed PROVE {ooo_deq} \cup ooo_deq_lookup \subseteq ToSet(chain) \cup {Null}
    OBVIOUS
  <2>1. ooo_deq \in ToSet(chain) \cup {Null}
    BY DEF FifoInv, DeqInv
  <2>2. PICK m \in 0..Len(chain) : ooo_deq_lookup = {chain[i] : i \in 1..m}
    BY DEF FifoInv, DeqInv
  <2>3. \A i \in 1..m : i \in 1..Len(chain)
    BY <1>1
  <2>4. ooo_deq_lookup \subseteq ToSet(chain)
    BY <1>2, <2>2, <2>3
  <2> QED
    BY <2>1, <2>4
<1> QED
  BY <1>4, <1>5, <1>6 DEF FifoInv, ChainInv, ChunksOwned

\* Every chunk is on the free lists or in the list of the fifo, once, the list has
\* no gaps, and no cached pointer or tree holds on to a chunk that was given back.
THEOREM Ownership ==
  ASSUME Fits
  PROVE  Spec => []ChunksOwned
BY Inductive, OwnedOK, PTL

LEMMA SegmentsOK == FifoInv => SegmentsApart
<1> SUFFICES ASSUME FifoInv PROVE SegmentsApart
  OBVIOUS
<1> DEFINE e == [i \in DOMAIN ooos |-> ooo_segment_end_pos(ooos[i])]
           ends == <<produced>> \o e
           m == Len(ooos)
<1>1. /\ Geo /\ SegInv /\ head \in Pos /\ Off(head) = 0 /\ Near(0) /\ Near(Off(produced))
      /\ produced \in Pos
  BY Basics, ListNear, ListTypes DEF FifoInv
<1>2. /\ m \in Nat /\ ooos \in Seq(SegRec) /\ DOMAIN ooos = 1..m
      /\ \A i \in 1..m :
           /\ ooos[i].start \in Pos /\ ooos[i].length \in Nat \ {0}
           /\ SegSt(i) \in Int /\ SegEn(i) \in Int /\ SegSt(i) < SegEn(i)
           /\ Near(SegSt(i)) /\ Near(SegEn(i))
           /\ ooo_segment_end_pos(ooos[i]) \in Pos
           /\ Off(ooo_segment_end_pos(ooos[i])) = SegEn(i)
  BY <1>1, SegsNear
<1>3. e \in Seq(Pos) /\ Len(e) = m /\ \A i \in 1..m : e[i] = ooo_segment_end_pos(ooos[i])
  <2>1. e \in [1..m -> Pos]
    BY <1>2
  <2> HIDE DEF e
  <2>2. e \in Seq(Pos) /\ Len(e) = m
    BY <1>2, <2>1
  <2> QED
    BY <1>2, <2>2 DEF e
<1> HIDE DEF e
<1>4. ends[1] = produced /\ \A i \in 1..m : ends[i + 1] = e[i]
  <2>1. <<produced>> \in Seq(Pos) /\ Len(<<produced>>) = 1
    BY <1>1
  <2>2. \A j \in 1..(1 + m) : ends[j] = IF j <= 1 THEN <<produced>>[j] ELSE e[j - 1]
    BY <1>2, <1>3, <2>1
  <2>3. ends[1] = produced
    BY <1>2, <2>2
  <2>4. ASSUME NEW i \in 1..m PROVE ends[i + 1] = e[i]
    <3>1. i + 1 \in 1..(1 + m) /\ ~(i + 1 <= 1) /\ (i + 1) - 1 = i
      BY <1>2
    <3> QED
      BY <2>2, <3>1
  <2> QED
    BY <2>3, <2>4
<1> HIDE DEF ends
<1>5. ASSUME NEW i \in 1..m
      PROVE  /\ f_pos_lt(ends[i], ooos[i].start)
             /\ ooos[i].length > 0
             /\ Minus(ends[i + 1], head) <= Size
  <2>1. ends[i] \in Pos /\ Near(Off(ends[i])) /\ Off(ends[i]) < SegSt(i)
    <3>1. CASE i = 1
      BY <1>1, <1>4, <3>1 DEF SegInv
    <3>2. CASE i # 1
      <4>1. PICK j \in 1..m : i = j + 1 /\ j < i
        <5>1. i - 1 \in 1..m /\ i = (i - 1) + 1 /\ i - 1 < i
          BY <1>2, <3>2
        <5> QED
          BY <5>1
      <4>2. ends[i] = ooo_segment_end_pos(ooos[j])
        BY <1>3, <1>4, <4>1
      <4>3. SegEn(j) < SegSt(i)
        BY <1>1, <4>1 DEF SegInv
      <4> QED
        BY <1>2, <4>2, <4>3
    <3> QED
      BY <3>1, <3>2
  <2>2. Off(ooos[i].start) = SegSt(i)
    BY DEF SegSt
  <2>3. f_pos_lt(ends[i], ooos[i].start)
    BY <1>1, <1>2, <2>1, <2>2, PosCmp
  <2> DEFINE q == ooo_segment_end_pos(ooos[i])
  <2>4. q \in Pos /\ Off(q) = SegEn(i) /\ ends[i + 1] = q /\ Near(SegEn(i)) /\ SegEn(i) \in Int
    BY <1>2, <1>3, <1>4
  <2>5. 0 <= SegEn(i) /\ SegEn(i) <= Size
    <3>1. Off(produced) < SegSt(i) /\ SegEn(i) <= Size
      BY <1>1 DEF SegInv
    <3>2. 0 <= Off(produced) /\ Off(produced) \in Int
      <4>1. Off(consumed) \in Int /\ Off(tail) \in Int /\ Off(produced) \in Int
        BY ListTypes DEF FifoInv
      <4> QED
        BY <4>1 DEF FifoInv, OrderInv
    <3>3. SegSt(i) \in Int /\ SegSt(i) < SegEn(i)
      BY <1>2
    <3> QED
      BY <2>4, <3>1, <3>2, <3>3
  <2> HIDE DEF q
  <2>6. Minus(q, head) = Diff(q, head) - Diff(head, head)
    <3>1. Near(Diff(q, head)) /\ Near(Diff(head, head)) /\ Diff(head, head) <= Diff(q, head)
      BY <1>1, <2>4, <2>5 DEF Off
    <3> QED
      BY <1>1, <2>4, <3>1, OffMinus
  <2>7. Minus(q, head) = SegEn(i)
    BY <1>1, <2>4, <2>6 DEF Off
  <2> QED
    BY <1>2, <2>3, <2>4, <2>5, <2>7
<1> QED
  BY <1>2, <1>5 DEF SegmentsApart, ends, e

\* The out-of-order segments are sorted and apart from each other and from the
\* tail, also while the tail is about to move, and within the fifo's size.
THEOREM SegmentsCorrect ==
  ASSUME Fits
  PROVE  Spec => []SegmentsApart
BY Inductive, SegmentsOK, PTL

LEMMA ReachesIs ==
  ASSUME FifoInv, NEW i \in 1..Len(chain), NEW p \in Pos, St(i) <= Off(p), Off(p) < En(i),
         NEW n \in Nat, Off(p) + n <= End
  PROVE  Reaches(chain[i], p, n)
<1>1. Geo /\ chain[i] \in ToSet(chain)
  BY Basics, FromIs
<1>2. Near(Off(p)) /\ Off(p) \in Int /\ Room(chain[i], p) = End - Off(p) /\ End \in Int
  BY <1>1, CopyStart, ListTypes DEF FifoInv
<1>3. f_chunk_includes_pos(chain[i], p)
  BY <1>1, <1>2, Includes
<1>4. Room(chain[i], p) >= n
  BY <1>2
<1> QED
  BY <1>1, <1>3, <1>4 DEF Reaches

LEMMA InBoundsOK == FifoInv => CopyInBounds
<1> SUFFICES ASSUME FifoInv PROVE CopyInBounds
  OBVIOUS
<1>1. ASSUME prod.pc = "copy", prod.op = "offset"
      PROVE  Reaches(EnqChunk.chunk, Plus(tail, prod.offset), prod.n)
  <2> DEFINE pos == Plus(tail, prod.offset)
  <2>1. prod.n \in Nat
    BY <1>1, CopyChunk
  <2>2. pos \in Pos /\ Off(pos) + prod.n <= End
    BY <1>1, OffsetPos
  <2>3. PICK i \in 1..Len(chain) : EnqChunk.chunk = chain[i] /\ St(i) <= Off(pos) /\ Off(pos) < En(i)
    BY <1>1, EnqChunkIs
  <2> HIDE DEF pos
  <2> QED
    BY <2>1, <2>2, <2>3, ReachesIs DEF pos
<1>2. ASSUME prod.pc = "copy", prod.op # "offset"
      PROVE  Reaches(tail_chunk, tail, prod.n)
  <2>1. prod.n \in Nat /\ prod.offset \in Nat /\ Off(tail) + prod.offset + prod.n <= End
    BY <1>2, CopyChunk
  <2>2. PICK i \in 1..Len(chain) : tail_chunk = chain[i] /\ St(i) <= Off(tail) /\ Off(tail) < En(i)
    BY <1>2, CopyChunk
  <2>3. tail \in Pos /\ Off(tail) \in Int /\ End \in Int
    BY ListTypes DEF FifoInv, Types
  <2> DEFINE t == Off(tail)
             o == prod.offset
             n == prod.n
             e == End
  <2>4. n \in Nat /\ o \in Nat /\ t \in Int /\ e \in Int /\ t + o + n <= e
    BY <2>1, <2>3
  <2> HIDE DEF t, o, n, e
  <2>5. t + n <= e
    BY ONLY <2>4
  <2> QED
    BY <2>1, <2>2, <2>3, <2>5, ReachesIs DEF t, n, e
<1>3. ASSUME cons = Idle, ~closed, Avail > 0,
             NEW offset \in IF role = "rx" THEN {0} ELSE 0..(Avail - 1),
             NEW p, p = Plus(head, offset), NEW n, n = Avail - offset,
             NEW c \in ReadChunks(offset, n)
      PROVE  Reaches(c, p, n) /\ CopyFrom(c, p, n) = [i \in 1..n |-> Plus(p, i - 1)]
  <2>1. /\ Avail = Off(tail) /\ Off(tail) \in Int /\ Off(tail) > 0 /\ cons.pc = "idle"
        /\ Geo /\ End \in Int /\ Off(tail) <= End
    BY <1>3, Basics, ListTypes DEF FifoInv, Idle
  <2>2. offset \in Nat /\ offset < Off(tail) /\ (role = "rx" => offset = 0)
    BY <1>3, <2>1
  <2>3. n \in Nat \ {0} /\ offset + n = Off(tail) /\ offset + n <= Off(tail)
    BY <1>3, <2>1, <2>2
  <2>4. p \in Pos /\ Off(p) = offset /\ Near(offset)
    BY <1>3, <2>2, <2>3, ReadPos
  <2>5. \E i \in 1..Len(chain) : c = chain[i] /\ St(i) <= offset /\ offset < En(i)
    <3>0. PICK h \in 1..Len(chain) : HeadChunk = chain[h] /\ St(h) <= 0 /\ 0 < En(h)
      BY <2>1, HeadChunkIs
    <3>1. CASE role = "rx"
      <4>1. c = HeadChunk /\ offset = 0
        BY <1>3, <2>2, <3>1 DEF ReadChunks
      <4> QED
        BY <3>0, <4>1
    <3>2. CASE role # "rx" /\ c = DeqChunk(offset, n).chunk
      <4>1. offset < End
        BY <2>1, <2>2
      <4> QED
        BY <1>3, <2>1, <2>2, <2>3, <3>2, <4>1, DeqChunkIs
    <3>3. CASE role # "rx" /\ c = SegmentsChunk(offset)
      <4>1. c = FindIn(From(chain[h]), p)
        BY <1>3, <3>0, <3>3 DEF SegmentsChunk
      <4>2. St(h) <= Off(p) /\ Off(p) < End /\ Near(Off(p))
        <5>1. St(h) \in Int
          BY ListTypes DEF FifoInv
        <5> QED
          BY <2>1, <2>2, <2>4, <3>0, <5>1
      <4>3. \E i \in h..Len(chain) : /\ FindIn(From(chain[h]), p) = chain[i]
                                     /\ St(i) <= Off(p) /\ Off(p) < En(i)
        BY <2>1, <2>4, <4>2, FindFrom
      <4>4. h..Len(chain) \subseteq 1..Len(chain)
        OBVIOUS
      <4> QED
        BY <2>4, <4>1, <4>3, <4>4
    <3> QED
      BY <1>3, <3>1, <3>2, <3>3 DEF ReadChunks
  <2>6. PICK i \in 1..Len(chain) : c = chain[i] /\ St(i) <= Off(p) /\ Off(p) < En(i)
    BY <2>4, <2>5
  <2>7. Off(p) + n <= End
    BY <2>1, <2>3, <2>4
  <2>8. Reaches(c, p, n)
    BY <2>3, <2>4, <2>6, <2>7, ReachesIs
  <2>9. \A x \in Int : Off(p) <= x /\ x < Off(p) + n => Live(x)
    <3> SUFFICES ASSUME NEW x \in Int, Off(p) <= x, x < Off(p) + n PROVE Live(x)
      OBVIOUS
    <3>1. Off(consumed) = 0
      BY <2>1, IdleHead
    <3>2. Off(tail) <= Off(produced) /\ Off(produced) \in Int
      BY ListTypes DEF FifoInv, OrderInv
    <3>3. Off(consumed) <= x /\ x < Off(produced)
      BY <2>1, <2>2, <2>3, <2>4, <3>1, <3>2
    <3> QED
      BY <3>3 DEF Live
  <2>10. CopyFrom(c, p, n) = [j \in 1..n |-> Plus(p, j - 1)]
    BY <2>1, <2>3, <2>4, <2>6, <2>7, <2>9, CopyFromIs DEF FifoInv
  <2> QED
    BY <2>8, <2>10
<1>4. ASSUME Transport, NEW offset \in 0..Avail,
             NEW p, p = Plus(head, offset), p # f_chunk_end(end_chunk)
      PROVE  Reaches(DeqChunk(offset, 0).chunk, p, 0)
  <2>1. /\ Avail = Off(tail) /\ Off(tail) \in Int /\ Off(tail) <= End /\ End \in Int
        /\ cons.pc = "idle" /\ ~closed /\ Geo /\ head \in Pos
        /\ f_chunk_end(end_chunk) \in Pos /\ Off(f_chunk_end(end_chunk)) = End
    BY <1>4, Basics, ListTypes DEF FifoInv, Idle, Transport
  <2>2. offset \in Nat /\ offset + 0 <= Off(tail) /\ 0 \in Nat
    BY <1>4, <2>1
  <2>3. p \in Pos /\ Off(p) = offset /\ Near(offset)
    BY <1>4, <2>2, ReadPos
  <2>4. offset < End
    <3>1. Off(p) # End
      BY <1>4, <2>1, <2>3, OffSame DEF Off
    <3> QED
      BY <2>1, <2>2, <2>3, <3>1
  <2>5. PICK i \in 1..Len(chain) :
          DeqChunk(offset, 0).chunk = chain[i] /\ St(i) <= offset /\ offset < En(i)
    BY <2>1, <2>2, <2>4, DeqChunkIs
  <2>6. Off(p) + 0 <= End
    BY <2>1, <2>3, <2>4
  <2> QED
    BY <2>2, <2>3, <2>5, <2>6, ReachesIs
<1> QED
  BY <1>1, <1>2, <1>3, <1>4 DEF CopyInBounds

\* A copy into the fifo or out of it starts in the chunk of its first byte and
\* the list is long enough for it, whichever cached pointer or tree the chunk
\* came from, and what the consumer reads is what the producer put there.  A peek
\* of no bytes has its chunk too, anywhere but at the end of the list.
THEOREM CopiesInBounds ==
  ASSUME Fits
  PROVE  Spec => []CopyInBounds
BY Inductive, InBoundsOK, PTL
-----------------------------------------------------------------------------
(* The byte stream. *)

\* The positions from b up to e.
Window(b, e) == [i \in 1..Minus(e, b) |-> Plus(b, i - 1)]
Bytes == [i \in 1..f_cursize(consumed, tail) |-> ByteAt(Plus(consumed, i - 1))]

LEMMA SizeFits ==
  ASSUME Types
  PROVE  Size \in Nat /\ Modulus \in Nat \ {0} /\ 2 * Size < Modulus
<1>1. PICK c \in Chunks : TRUE
  BY ListTypes
<1>2. /\ 2 * (Size + MinAlloc + Length[c] + Length[c]) < Modulus
      /\ Size \in Nat /\ MinAlloc \in Nat /\ Length[c] \in Nat /\ Modulus \in Nat \ {0}
  BY <1>1, FifoAssumption
<1> QED
  BY <1>2

LEMMA PlusPlus ==
  ASSUME Types, NEW p \in Pos, NEW m \in Nat, NEW n \in Nat, m + n <= Size
  PROVE  Plus(Plus(p, m), n) = Plus(p, m + n) /\ Plus(p, m) \in Pos
<1>1. Size \in Nat /\ Modulus \in Nat \ {0} /\ 2 * Size < Modulus
  BY SizeFits
<1> DEFINE q == Plus(p, m)
           k == m + n
<1>2. m \in 0..Modulus /\ n \in 0..Modulus /\ k \in 0..Modulus
  BY <1>1
<1>3. q \in Pos /\ q = IF p + m < Modulus THEN p + m ELSE p + m - Modulus
  BY <1>2, PlusCases
<1> HIDE DEF q, k
<1>4. Plus(q, n) = IF q + n < Modulus THEN q + n ELSE q + n - Modulus
  BY <1>2, <1>3, PlusCases
<1>5. Plus(p, k) = IF p + k < Modulus THEN p + k ELSE p + k - Modulus
  BY <1>2, PlusCases
<1>6. Plus(q, n) = Plus(p, k)
  <2> DEFINE a == Plus(q, n)
             b == Plus(p, k)
  <2>1. a = (IF q + n < Modulus THEN q + n ELSE q + n - Modulus)
        /\ b = (IF p + k < Modulus THEN p + k ELSE p + k - Modulus)
    BY <1>4, <1>5
  <2>2. k = m + n /\ p \in 0..(Modulus - 1)
    BY DEF k, Pos
  <2> HIDE DEF a, b
  <2>3. a = b
    BY ONLY <1>1, <1>3, <2>1, <2>2, m \in Nat, n \in Nat, m + n <= Size
  <2> QED
    BY <2>3 DEF a, b
<1> QED
  BY <1>3, <1>6 DEF q, k

LEMMA PlusMinus ==
  ASSUME Types, NEW p \in Pos, NEW n \in Nat, n <= Size
  PROVE  Minus(Plus(p, n), p) = n
<1>1. Size \in Nat /\ Modulus \in Nat \ {0} /\ 2 * Size < Modulus
  BY SizeFits
<1> DEFINE q == Plus(p, n)
<1>2. n \in 0..Modulus
  BY <1>1
<1>3. q \in Pos /\ q = IF p + n < Modulus THEN p + n ELSE p + n - Modulus
  BY <1>2, PlusCases
<1> HIDE DEF q
<1>4. Minus(q, p) = IF p <= q THEN q - p ELSE q - p + Modulus
  BY <1>3, MinusCases
<1>5. p \in 0..(Modulus - 1)
  BY DEF Pos
<1>6. Minus(q, p) = n
  BY <1>1, <1>3, <1>4, <1>5
<1> QED
  BY <1>6 DEF q

LEMMA MinusPlus ==
  ASSUME NEW a \in Pos, NEW b \in Pos
  PROVE  Plus(b, Minus(a, b)) = a /\ Minus(a, b) \in Nat
<1>1. Modulus \in Nat \ {0}
  BY FifoAssumption
<1> DEFINE d == Minus(a, b)
<1>2. d = IF b <= a THEN a - b ELSE a - b + Modulus
  BY MinusCases
<1> HIDE DEF d
<1>3. d \in 0..Modulus /\ d \in Nat
  BY <1>1, <1>2 DEF Pos
<1>4. Plus(b, d) = IF b + d < Modulus THEN b + d ELSE b + d - Modulus
  BY <1>3, PlusCases
<1>5. Plus(b, d) = a
  BY <1>1, <1>2, <1>4 DEF Pos
<1> QED
  BY <1>3, <1>5 DEF d

LEMMA WindowWrite ==
  ASSUME Types, NEW b \in Pos, NEW e \in Pos, NEW n \in 1..Size, Minus(e, b) + n <= Size
  PROVE  /\ Minus(Plus(e, n), b) = Minus(e, b) + n
         /\ Window(b, Plus(e, n)) = Window(b, e) \o [i \in 1..n |-> (e + i - 1) % Modulus]
         /\ Len(Window(b, e)) = Minus(e, b)
<1> DEFINE m == Minus(e, b)
           t == Plus(e, n)
<1>1. Size \in Nat /\ Modulus \in Nat \ {0} /\ 2 * Size < Modulus
  BY SizeFits
<1>2. m \in Nat /\ Plus(b, m) = e /\ m + n <= Size /\ n \in Nat
  BY <1>1, MinusPlus
<1>3. t = Plus(b, m + n)
  BY <1>2, PlusPlus
<1>4. Minus(t, b) = m + n
  <2> DEFINE k == m + n
  <2>1. k \in Nat /\ k <= Size
    BY <1>2
  <2> HIDE DEF k
  <2>2. Minus(Plus(b, k), b) = k
    BY <2>1, PlusMinus
  <2> QED
    BY <1>3, <2>2 DEF k
<1> DEFINE v == Window(b, e)
           w == [i \in 1..n |-> (e + i - 1) % Modulus]
<1>5. v = [i \in 1..m |-> Plus(b, i - 1)] /\ Len(v) = m
  BY <1>2 DEF Window
<1>6. Window(b, t) = [i \in 1..(m + n) |-> Plus(b, i - 1)]
  BY <1>4 DEF Window
<1>7. ASSUME NEW i \in 1..n PROVE w[i] = Plus(b, m + i - 1)
  <2> DEFINE j == i - 1
  <2>1. j \in Nat /\ m + j <= Size /\ m + j = m + i - 1
    BY <1>1, <1>2
  <2>2. Plus(Plus(b, m), j) = Plus(b, m + j)
    <3> HIDE DEF j, m
    <3> QED
      BY <1>2, <2>1, PlusPlus
  <2>3. Plus(e, j) = w[i]
    BY <1>1 DEF Plus, Pos
  <2> QED
    BY <1>2, <2>1, <2>2, <2>3
<1> HIDE DEF m, v, w, t
<1>8. Window(b, t) = v \o w
  <2>1. w = [i \in 1..n |-> w[i]]
    BY DEF w
  <2> DEFINE g(i) == Plus(b, i - 1)
  <2>2. \A i \in 1..n : w[i] = g(m + i)
    BY <1>7, <1>2
  <2>3. v = [i \in 1..m |-> g(i)] /\ Window(b, t) = [i \in 1..(m + n) |-> g(i)]
    BY <1>5, <1>6
  <2> HIDE DEF g
  <2>4. v \o w = [i \in 1..(m + n) |-> IF i <= m THEN v[i] ELSE w[i - m]]
    <3>1. Len(v) = m /\ Len(w) = n
      BY <1>2, <2>1, <2>3
    <3> QED
      BY <1>2, <2>1, <2>3, <3>1
  <2>5. \A i \in 1..(m + n) : (IF i <= m THEN v[i] ELSE w[i - m]) = g(i)
    <3> SUFFICES ASSUME NEW i \in 1..(m + n) PROVE (IF i <= m THEN v[i] ELSE w[i - m]) = g(i)
      OBVIOUS
    <3>1. CASE i <= m
      BY <1>2, <2>3, <3>1
    <3>2. CASE ~(i <= m)
      <4>1. i - m \in 1..n /\ m + (i - m) = i
        BY <1>2, <3>2
      <4> QED
        BY <2>2, <3>2, <4>1
    <3> QED
      BY <3>1, <3>2
  <2> QED
    BY <2>3, <2>4, <2>5
<1> QED
  BY <1>4, <1>5, <1>8 DEF m, t, v, w

LEMMA WindowConsume ==
  ASSUME Types, NEW b \in Pos, NEW e \in Pos, NEW n \in 1..Size, n <= Minus(e, b), Minus(e, b) <= Size
  PROVE  /\ Len(Window(b, e)) = Minus(e, b)
         /\ Window(Plus(b, n), e) = SubSeq(Window(b, e), n + 1, Len(Window(b, e)))
<1> DEFINE m == Minus(e, b)
           h == Plus(b, n)
           d == m - n
           v == Window(b, e)
<1>1. Size \in Nat /\ Modulus \in Nat \ {0} /\ 2 * Size < Modulus
  BY SizeFits
<1>2. m \in Nat /\ Plus(b, m) = e /\ m <= Size /\ n \in Nat /\ n <= m
  BY <1>1, MinusPlus
<1>3. d \in Nat /\ n + d = m /\ d <= Size
  BY <1>1, <1>2
<1>4. v = [i \in 1..m |-> Plus(b, i - 1)] /\ Len(v) = m
  BY <1>2 DEF Window
<1> HIDE DEF m, d, h, v
<1>5. h \in Pos /\ e = Plus(h, d)
  BY <1>2, <1>3, PlusPlus DEF h
<1>6. Minus(e, h) = d
  BY <1>3, <1>5, PlusMinus
<1>7. Window(h, e) = [i \in 1..d |-> Plus(h, i - 1)]
  BY <1>6 DEF Window
<1>8. ASSUME NEW i \in 1..d PROVE Plus(h, i - 1) = Plus(b, i + n - 1)
  <2> DEFINE j == i - 1
  <2>1. j \in Nat /\ n + j <= Size /\ n + j = i + n - 1
    BY <1>1, <1>2, <1>3
  <2> HIDE DEF j
  <2>2. Plus(h, j) = Plus(b, n + j)
    BY <1>2, <2>1, PlusPlus DEF h
  <2> QED
    BY <2>1, <2>2 DEF j
<1>9. SubSeq(v, n + 1, m) = [i \in 1..d |-> v[i + n]]
  <2>1. SubSeq(v, n + 1, m) = [i \in 1..(m - (n + 1) + 1) |-> v[i + (n + 1) - 1]]
    BY <1>2, <1>4
  <2>2. m - (n + 1) + 1 = d
    BY <1>2, <1>3
  <2>3. \A i \in 1..d : i + (n + 1) - 1 = i + n
    BY <1>2, <1>3
  <2> QED
    BY <2>1, <2>2, <2>3
<1>10. \A i \in 1..d : v[i + n] = Plus(b, i + n - 1)
  BY <1>2, <1>3, <1>4
<1>11. Window(h, e) = SubSeq(v, n + 1, m)
  BY <1>7, <1>8, <1>9, <1>10
<1> QED
  BY <1>4, <1>11 DEF m, h, v

LEMMA CursizeIs ==
  ASSUME FifoInv
  PROVE  /\ consumed \in Pos /\ tail \in Pos
         /\ f_cursize(consumed, tail) = Off(tail) - Off(consumed)
         /\ Minus(tail, consumed) = Off(tail) - Off(consumed)
         /\ Off(tail) - Off(consumed) \in 0..Size
<1>1. /\ Geo /\ head \in Pos /\ tail \in Pos /\ consumed \in Pos /\ Off(tail) \in Int
      /\ Off(consumed) \in Int /\ 0 <= Off(consumed) /\ Off(consumed) <= Off(tail)
      /\ Off(tail) <= Size /\ Near(Off(consumed)) /\ Near(Off(tail)) /\ Size \in Nat
  BY Basics, ListTypes, ListNear, FifoAssumption DEF Geo, OrderInv
<1>2. Minus(tail, consumed) = Off(tail) - Off(consumed)
  BY <1>1, OffMinus DEF Off
<1>3. Off(tail) - Off(consumed) \in 0..Size
  <2> DEFINE t == Off(tail)
             c == Off(consumed)
  <2> HIDE DEF t, c
  <2>1. t \in Int /\ c \in Int /\ 0 <= c /\ c <= t /\ t <= Size /\ Size \in Nat
    BY <1>1 DEF t, c
  <2>2. t - c \in 0..Size
    BY ONLY <2>1
  <2> QED
    BY <2>2 DEF t, c
<1> QED
  BY <1>1, <1>2, <1>3 DEF f_cursize

\* The bytes between what is consumed and the tail are those of their positions.
LEMMA BytesAre ==
  ASSUME FifoInv
  PROVE  Bytes = Window(consumed, tail)
<1> DEFINE n == Minus(tail, consumed)
<1>1. f_cursize(consumed, tail) = n /\ n \in 0..Size /\ consumed \in Pos /\ n = Off(tail) - Off(consumed)
  BY CursizeIs
<1>2. /\ Geo /\ Types /\ Off(consumed) \in Int /\ Off(tail) \in Int /\ 0 <= Off(consumed) /\ End \in Int
      /\ Off(tail) <= Off(produced) /\ Off(produced) \in Int /\ Off(produced) <= End
      /\ Near(Off(consumed)) /\ Near(Off(tail)) /\ head \in Pos
      /\ St(1) <= Off(consumed) /\ St(1) \in Int /\ Size \in Nat
  <2>1. Geo /\ Types /\ head \in Pos
    BY Basics DEF FifoInv
  <2>2. /\ 0 <= Off(consumed) /\ Off(tail) <= Off(produced) /\ Off(produced) <= End
        /\ St(1) <= Off(consumed)
    BY <2>1 DEF Geo, OrderInv, ChainInv
  <2>3. /\ Off(consumed) \in Int /\ Off(tail) \in Int /\ Off(produced) \in Int /\ End \in Int
        /\ St(1) \in Int
    BY <2>1, ListTypes
  <2>4. Near(Off(consumed)) /\ Near(Off(tail)) /\ Size \in Nat
    BY <2>1, ListNear, FifoAssumption
  <2> QED
    BY <2>1, <2>2, <2>3, <2>4
<1> HIDE DEF n
<1>3. ASSUME NEW i \in 1..n PROVE ByteAt(Plus(consumed, i - 1)) = Plus(consumed, i - 1)
  <2> DEFINE d == i - 1
             p == Plus(consumed, d)
             b == Off(consumed)
             t == Off(tail)
             x == b + d
             w == Off(produced)
             s == St(1)
             z == End
  <2>1. d \in Nat /\ d < n
    BY <1>1
  <2>2. n = t - b /\ b \in Int /\ t \in Int /\ w \in Int /\ s \in Int /\ z \in Int /\ 0 <= b /\ t <= w
        /\ w <= z /\ s <= b
    BY <1>1, <1>2
  <2> HIDE DEF d, b, t, w, s, z
  <2>3. x \in Int /\ b <= x /\ x <= t /\ x < w /\ s <= x /\ x < z
    BY ONLY <2>1, <2>2
  <2>4. Near(x)
    <3> HIDE DEF x
    <3>1. Near(b) /\ Near(t)
      BY <1>2 DEF b, t
    <3> QED
      BY <3>1, <2>3, NearBetween
  <2>5. p \in Pos /\ Off(p) = x
    <3>1. Near(Diff(consumed, head)) /\ Near(Diff(consumed, head) + d)
      BY <1>2, <2>4 DEF b, Off
    <3>2. Plus(consumed, d) \in Pos /\ Diff(Plus(consumed, d), head) = Diff(consumed, head) + d
      BY <1>1, <1>2, <2>1, <3>1, OffPlus
    <3> QED
      BY <3>2 DEF b, Off
  <2> HIDE DEF p, x
  <2>6. St(1) <= Off(p) /\ Off(p) < End /\ Near(Off(p))
    BY <2>3, <2>4, <2>5 DEF s, z
  <2>7. PICK m \in 1..Len(chain) : FindIn(chain, p) = chain[m] /\ St(m) <= Off(p) /\ Off(p) < En(m)
    BY <1>2, <2>5, <2>6, FindChain
  <2> DEFINE k == Minus(p, start_byte[chain[m]])
  <2>8. chain[m] \in Chunks /\ St(m) \in Int /\ Length[chain[m]] \in Nat
    BY <1>2, ListTypes
  <2>9. k = x - St(m)
    BY <1>2, <2>5, <2>7, CopyStart DEF Skipped
  <2>10. k \in 0..(Length[chain[m]] - 1) /\ St(m) + k = x
    <3> DEFINE a == St(m)
               l == Length[chain[m]]
    <3>1. x < a + l /\ a <= x /\ a \in Int /\ l \in Nat /\ k = x - a
      BY <2>5, <2>7, <2>8, <2>9 DEF En
    <3> HIDE DEF k, a, l
    <3>2. k \in 0..(l - 1) /\ a + k = x
      BY ONLY <2>3, <3>1
    <3> QED
      BY <3>2 DEF a, l
  <2> HIDE DEF k
  <2>11. Live(St(m) + k)
    BY <2>3, <2>10 DEF Live, b, w
  <2>12. data[<<chain[m], k>>] = Plus(start_byte[chain[m]], k)
    BY <2>10, <2>11 DEF FifoInv, DataInv
  <2>13. Plus(p, 0) = Plus(start_byte[chain[m]], k)
    <3>1. Off(p) + 0 = St(m) + k
      BY <2>3, <2>5, <2>10
    <3> QED
      BY <1>2, <2>5, <2>6, <2>10, <3>1, SamePos
  <2>14. Plus(p, 0) = p
    <3>1. Modulus \in Nat \ {0}
      BY FifoAssumption
    <3> QED
      BY <2>5, <3>1, PlusCases DEF Pos
  <2>15. chain[m] # Null
    BY <2>8, FifoAssumption
  <2>16. ByteAt(p) = p
    BY <2>7, <2>12, <2>13, <2>14, <2>15 DEF ByteAt, k
  <2> QED
    BY <2>16 DEF p, d
<1> QED
  BY <1>1, <1>3 DEF Bytes, Window, n

\* A step adds bytes at the tail, takes some from the other end, or does neither.
Adds == \E n \in 1..Size : /\ consumed' = consumed /\ tail' = Plus(tail, n)
                           /\ Minus(tail, consumed) + n <= Size
Takes == \E n \in 1..Size : /\ tail' = tail /\ consumed' = Plus(consumed, n)
                            /\ n <= Minus(tail, consumed)
Stays == consumed' = consumed /\ tail' = tail

LEMMA StoreAdds ==
  ASSUME FifoInv, EnqueueStore
  PROVE  Adds \/ Stays
<1>1. prod.pc = "store" /\ tail' = prod.tail /\ head' = head /\ cons' = cons
  BY DEF EnqueueStore, consVars
<1>2. consumed' = consumed /\ tail' = produced
  BY <1>1 DEF consumed, produced
<1> DEFINE n == Minus(produced, tail)
<1>3. produced \in Pos /\ tail \in Pos /\ tail' = Plus(tail, n) /\ n \in Nat
  BY <1>2, ListTypes, MinusPlus DEF FifoInv, Types
<1>4. /\ Geo /\ head \in Pos /\ Near(Off(produced)) /\ Near(Off(tail)) /\ Off(tail) <= Off(produced)
      /\ Off(tail) \in Int /\ Off(produced) \in Int /\ Off(consumed) \in Int /\ 0 <= Off(consumed)
      /\ Off(produced) <= Size /\ Size \in Nat
  BY Basics, ListNear, ListTypes, FifoAssumption DEF Geo, OrderInv
<1>5. n = Off(produced) - Off(tail)
  BY <1>3, <1>4, OffMinus DEF Off
<1> DEFINE c == Off(consumed)
           t == Off(tail)
           p == Off(produced)
           m == Minus(tail, consumed)
<1>6. m = t - c /\ n = p - t
  BY <1>5, CursizeIs
<1>7. t \in Int /\ p \in Int /\ c \in Int /\ 0 <= c /\ p <= Size /\ Size \in Nat /\ n \in Nat /\ t <= p
      /\ c <= t
  BY <1>3, <1>4 DEF FifoInv, OrderInv
<1> HIDE DEF n, m, c, t, p
<1>8. m + n <= Size /\ n <= Size
  BY ONLY <1>6, <1>7
<1>9. CASE n = 0
  <2>1. Plus(tail, 0) = tail
    BY <1>3, PlusCases, FifoAssumption DEF Pos
  <2> QED
    BY <1>2, <1>3, <1>9, <2>1 DEF Stays
<1>10. CASE n # 0
  <2>1. n \in 1..Size
    BY <1>7, <1>8, <1>10
  <2> QED
    BY <1>2, <1>3, <1>8, <2>1 DEF Adds, m
<1> QED
  BY <1>9, <1>10

LEMMA GiveTakes ==
  ASSUME FifoInv, NEW n \in Nat, n <= Off(tail), cons.pc # "store",
         cons' = [pc |-> "store", head |-> Plus(head, n)], UNCHANGED prodVars
  PROVE  Takes \/ Stays
<1>1. consumed = head /\ consumed' = Plus(head, n) /\ tail' = tail
  BY DEF consumed, prodVars
<1>2. Off(head) = 0 /\ head \in Pos /\ Off(tail) <= Size /\ Off(tail) \in Int /\ Size \in Nat
  BY Basics, ListTypes, FifoAssumption DEF FifoInv
<1>3. Minus(tail, consumed) = Off(tail)
  BY <1>1, <1>2, CursizeIs
<1>4. CASE n = 0
  <2>1. Plus(head, 0) = head
    BY <1>2, PlusCases, FifoAssumption DEF Pos
  <2> QED
    BY <1>1, <1>4, <2>1 DEF Stays
<1>5. CASE n # 0
  <2>1. n \in 1..Size
    BY <1>2, <1>5
  <2> QED
    BY <1>1, <1>3, <2>1 DEF Takes
<1> QED
  BY <1>4, <1>5

LEMMA Moves ==
  ASSUME FifoInv, [Next]_vars
  PROVE  Adds \/ Takes \/ Stays
<1>1. ASSUME tail' = tail, UNCHANGED <<head, cons>> PROVE Stays
  BY <1>1 DEF Stays, consumed
<1>2. ASSUME EnqueueLoad \/ OffsetLoad \/ TryChunkAlloc \/ ChunkAllocFails \/ EnqueueCopy
             \/ NocopyCopy \/ OffsetCopy
      PROVE  Stays
  <2>1. tail' = tail /\ UNCHANGED <<head, cons>>
    BY <1>2 DEF EnqueueLoad, OffsetLoad, TryChunkAlloc, ChunkAllocFails, EnqueueCopy, NocopyCopy,
       OffsetCopy, consVars
  <2> QED
    BY <1>1, <2>1
<1>3. ASSUME cons.pc # "store", cons'.pc # "store", head' = head, UNCHANGED prodVars
      PROVE  Stays
  BY <1>3 DEF Stays, consumed, prodVars
<1>4. ASSUME NEW n \in Lens, Dequeue(n) PROVE Stays
  BY <1>3, <1>4 DEF Dequeue, Idle
<1>5. ASSUME NEW offset \in 0..Size, NEW n \in 0..Size, Peek(offset, n) PROVE Stays
  BY <1>3, <1>5 DEF Peek, Transport, Idle
<1>6. ASSUME Segments PROVE Stays
  BY <1>1, <1>6 DEF Segments, prodVars
<1>7. ASSUME DropAllLoad PROVE Stays
  BY <1>3, <1>7 DEF DropAllLoad, Idle
<1>8. ASSUME NEW n \in Lens, Drop(n) PROVE Takes \/ Stays
  <2>1. cons = Idle /\ 0 + n <= Avail /\ cons' = [pc |-> "store", head |-> Plus(head, n)]
        /\ UNCHANGED prodVars
    BY <1>8 DEF Drop, Transport, Reads
  <2>2. n \in Nat /\ n <= Off(tail) /\ cons.pc # "store"
    BY <2>1, Basics, FifoAssumption DEF Lens, Idle
  <2> QED
    BY <2>1, <2>2, GiveTakes
<1>9. ASSUME DequeueUnlink \/ DropAll PROVE Takes \/ Stays
  <2>1. /\ cons.pc \in {"unlink", "dropAll"} /\ UNCHANGED prodVars
        /\ cons' = [pc |-> "store", head |-> Plus(head, cons.n)]
    BY <1>9 DEF DequeueUnlink, DropAll
  <2>2. cons.n \in Nat /\ cons.n <= Off(tail)
    BY <2>1 DEF FifoInv, Types, ConsCalls, ConsInv, Idle
  <2> QED
    BY <2>1, <2>2, GiveTakes
<1>10. ASSUME DequeueStore PROVE Stays
  BY <1>10 DEF DequeueStore, Stays, consumed, prodVars, Idle
<1>11. ASSUME UNCHANGED vars PROVE Stays
  BY <1>1, <1>11 DEF vars, prodVars, consVars
<1>12. ASSUME Producer PROVE Adds \/ Stays
  BY <1>2, <1>12, StoreAdds DEF Producer
<1>13. ASSUME Consumer PROVE Takes \/ Stays
  BY <1>4, <1>5, <1>6, <1>7, <1>8, <1>9, <1>10, <1>11, <1>13 DEF Consumer, Crashed
<1> QED
  BY <1>11, <1>12, <1>13 DEF Next

LEMMA BytesNext == FifoInv' => (Bytes = Window(consumed, tail))'
<1>1. FifoInv => Bytes = Window(consumed, tail)
  BY BytesAre
<1> QED
  BY <1>1, PTL

LEMMA StreamStep ==
  ASSUME FifoInv, FifoInv', [Next]_vars
  PROVE  [Stream!StreamNext]_(Stream!streamVars)
<1>1. Bytes = Window(consumed, tail) /\ Bytes' = Window(consumed', tail')
  <2>1. (Window(consumed, tail))' = Window(consumed', tail')
    BY DEF Window, Minus, Plus
  <2> QED
    BY <2>1, BytesAre, BytesNext
<1>2. consumed \in Pos /\ tail \in Pos /\ Types /\ Minus(tail, consumed) <= Size
  BY CursizeIs, FifoAssumption DEF FifoInv
<1>3. CASE Adds
  <2>1. PICK n \in 1..Size : /\ consumed' = consumed /\ tail' = Plus(tail, n)
                             /\ Minus(tail, consumed) + n <= Size
    BY <1>3 DEF Adds
  <2>2. /\ Bytes' = Bytes \o [i \in 1..n |-> (tail + i - 1) % Modulus]
        /\ Len(Bytes) + n <= Size
    BY <1>1, <1>2, <2>1, WindowWrite
  <2>3. Stream!Write(n)
    BY <2>1, <2>2 DEF Stream!Write, Bytes, Plus
  <2> QED
    BY <2>3 DEF Stream!StreamNext
<1>4. CASE Takes
  <2>1. PICK n \in 1..Size : /\ tail' = tail /\ consumed' = Plus(consumed, n)
                             /\ n <= Minus(tail, consumed)
    BY <1>4 DEF Takes
  <2>2. Bytes' = SubSeq(Bytes, n + 1, Len(Bytes)) /\ n <= Len(Bytes)
    BY <1>1, <1>2, <2>1, WindowConsume
  <2>3. Stream!Consume(n)
    BY <2>1, <2>2 DEF Stream!Consume, Bytes, Plus
  <2> QED
    BY <2>3 DEF Stream!StreamNext
<1>5. CASE Stays
  <2>1. Bytes' = Bytes
    BY <1>1, <1>5 DEF Stays
  <2> QED
    BY <1>5, <2>1 DEF Stays, Bytes, Stream!streamVars
<1> QED
  BY <1>3, <1>4, <1>5, Moves

\* The fifo is a bounded byte stream: what the consumer finds between its
\* position and the tail are the bytes that the producer wrote, in order and
\* once, and never more than the size, although the list of chunks is extended
\* by one side while the other shortens it.
THEOREM StreamCorrect ==
  ASSUME Fits
  PROVE  Spec => StreamRefinement
<1>1. Init => Stream!StreamInit
  <2> SUFFICES ASSUME Init PROVE Stream!StreamInit
    OBVIOUS
  <2>1. consumed = 0 /\ tail = 0
    BY DEF Init, consumed, Idle
  <2>2. FifoInv
    BY InitInv
  <2>3. Minus(tail, consumed) = 0
    <3>1. 0 \in Pos /\ Modulus \in Nat \ {0}
      BY <2>1, CursizeIs, <2>2, FifoAssumption
    <3> QED
      BY <2>1, <3>1, MinusCases
  <2>4. Bytes = <<>>
    BY <2>2, <2>3, BytesAre DEF Window
  <2> QED
    BY <2>1, <2>4 DEF Stream!StreamInit, Bytes
<1>2. FifoInv /\ FifoInv' /\ [Next]_vars => [Stream!StreamNext]_(Stream!streamVars)
  BY StreamStep
<1> QED
  BY <1>1, <1>2, Inductive, PTL DEF Spec, StreamRefinement, Stream!StreamSpec
=============================================================================
