------------------------- MODULE BufferLayoutProofs -------------------------
(***************************************************************************)
(* parse_args, allocate_buffer and deallocate_buffer for every size of      *)
(* size_t and all numbers on the command line.                              *)
(*                                                                          *)
(* The loops keep a running base and test an index modulo the number of     *)
(* buffers per region.  The invariant says in closed form what they have    *)
(* built: the block of buffer i is the one numbered i \div count_per_mr.    *)
(***************************************************************************)
EXTENDS BufferLayout, FiniteSetTheorems, TLAPS

-----------------------------------------------------------------------------
(* The inductive invariant.                                                 *)

Sizes == 0..(SIZE - 1)

Parameters == [verb : {"send", "read", "write"}, mode : {"latency", "throughput"},
               count : Sizes, length : {2} \union Sizes, repeat : {1} \union Sizes,
               warmup_count : Sizes, mr_count : {1} \union Sizes]

\* The parameters are left alone once they are accepted.
ParamsInv ==
    /\ params \in Parameters
    /\ status = "accepted" => accepted = WarmedUp(params) /\ Valid(accepted)

\* Block j, buffer i, and the blocks that the first i buffers need.
Base(j) == 1 + j * (buffer_length + 1)

Block(j) == [base |-> Base(j), length |-> buffer_length]

Place(i) == Request(Base(i \div count_per_mr) + (i % count_per_mr) * accepted.length,
                    Base(i \div count_per_mr))

Blocks(i) == IF i % count_per_mr = 0 THEN i \div count_per_mr ELSE (i \div count_per_mr) + 1

Placed(i) == requests = [m \in 0..(i - 1) |-> Place(m)]

Waiting == /\ pc = "allocate" /\ n = 0 /\ heap = {} /\ brk = 1
           /\ requests = [i \in {} |-> Request(0, 0)]

Allocating ==
    /\ pc = "allocate" /\ n \in 0..accepted.count
    /\ brk = Base(Blocks(n)) /\ heap = {Block(j) : j \in 0..(Blocks(n) - 1)}
    /\ n % count_per_mr # 0 => buf_base = Base(n \div count_per_mr)
    /\ Placed(n)

Deallocating ==
    /\ pc = "deallocate" /\ n \in 0..accepted.count
    /\ heap = {Block(j) : j \in Blocks(n)..(accepted.mr_count - 1)}
    /\ Placed(accepted.count)

LayoutInv ==
    IF status = "accepted"
    THEN Allocating \/ Deallocating \/ (pc = "done" /\ heap = {})
    ELSE Waiting

IInv == ParamsInv /\ LayoutInv

-----------------------------------------------------------------------------
(* Arithmetic.                                                              *)

LEMMA DivMod ==
  ASSUME NEW i \in Nat, NEW k \in Nat \ {0}
  PROVE  /\ i \div k \in Nat /\ i % k \in 0..(k - 1)
         /\ i = k * (i \div k) + (i % k)
  OBVIOUS

LEMMA Divides ==
  ASSUME NEW i \in Nat, NEW k \in Nat \ {0}, i % k = 0
  PROVE  i \div k \in Nat /\ i = k * (i \div k)
  <1>1. i \div k \in Nat /\ i = k * (i \div k) + (i % k)
    BY DivMod
  <1>2. k * (i \div k) \in Nat
    BY <1>1
  <1> QED
    BY <1>1, <1>2

LEMMA TimesMonotone ==
  ASSUME NEW k \in Nat, NEW p \in Nat, NEW q \in Nat, p < q
  PROVE  k * p + k <= k * q
  <1>1. PICK d \in Nat : q = p + 1 + d
    <2>1. q - (p + 1) \in Nat /\ q = p + 1 + (q - (p + 1))
      OBVIOUS
    <2> QED
      BY <2>1
  <1>2. k * (p + 1 + d) = k * p + k + k * d
    OBVIOUS
  <1>3. k * d \in Nat /\ k * p \in Nat
    OBVIOUS
  <1> QED
    BY <1>1, <1>2, <1>3

LEMMA DivModUnique ==
  ASSUME NEW k \in Nat \ {0}, NEW q \in Nat, NEW r \in 0..(k - 1)
  PROVE  (k * q + r) \div k = q /\ (k * q + r) % k = r
  <1> DEFINE i == k * q + r
             q2 == i \div k
             r2 == i % k
  <1>1. k * q \in Nat /\ i \in Nat
    OBVIOUS
  <1>2. q2 \in Nat /\ r2 \in 0..(k - 1) /\ k * q + r = k * q2 + r2
    BY <1>1, DivMod
  <1>3. k * q2 \in Nat
    BY <1>2
  <1> HIDE DEF q2, r2
  <1>4. ~(q < q2)
    <2> SUFFICES ASSUME q < q2 PROVE FALSE
      OBVIOUS
    <2>1. k * q + k <= k * q2
      BY <1>2, TimesMonotone
    <2> QED
      BY <1>1, <1>2, <1>3, <2>1
  <1>5. ~(q2 < q)
    <2> SUFFICES ASSUME q2 < q PROVE FALSE
      OBVIOUS
    <2>1. k * q2 + k <= k * q
      BY <1>2, TimesMonotone
    <2> QED
      BY <1>1, <1>2, <1>3, <2>1
  <1>6. q2 = q
    BY <1>2, <1>4, <1>5
  <1>7. r2 = r
    BY <1>1, <1>2, <1>6
  <1> QED
    BY <1>6, <1>7 DEF q2, r2

\* A larger index is not in an earlier block, and the first of a block in a later
\* one.
LEMMA DivOrder ==
  ASSUME NEW i \in Nat, NEW m \in Nat, NEW k \in Nat \ {0}, i < m
  PROVE  i \div k <= m \div k /\ (m % k = 0 => i \div k < m \div k)
  <1> DEFINE q == i \div k
             r == i % k
             q2 == m \div k
             r2 == m % k
  <1>1. q \in Nat /\ r \in 0..(k - 1) /\ i = k * q + r
    BY DivMod
  <1>2. q2 \in Nat /\ r2 \in 0..(k - 1) /\ m = k * q2 + r2
    BY DivMod
  <1> HIDE DEF q, r, q2, r2
  <1>3. k * q \in Nat /\ k * q2 \in Nat
    BY <1>1, <1>2
  <1>4. ~(q2 < q)
    <2> SUFFICES ASSUME q2 < q PROVE FALSE
      OBVIOUS
    <2>1. k * q2 + k <= k * q
      BY <1>1, <1>2, TimesMonotone
    <2> QED
      BY <1>1, <1>2, <1>3, <2>1
  <1>5. r2 = 0 => q # q2
    BY <1>1, <1>2, <1>3
  <1>6. q <= q2 /\ (r2 = 0 => q < q2)
    BY <1>1, <1>2, <1>4, <1>5
  <1> QED
    BY <1>6 DEF q, r, q2, r2

\* The next buffer is in the same block, or the first of the next one.
LEMMA NextIndex ==
  ASSUME NEW i \in Nat, NEW k \in Nat \ {0}
  PROVE  \/ /\ (i + 1) % k = (i % k) + 1 /\ (i + 1) \div k = i \div k
            /\ (i % k) + 1 < k
         \/ /\ (i + 1) % k = 0 /\ (i + 1) \div k = (i \div k) + 1
            /\ (i % k) + 1 = k
  <1> DEFINE q == i \div k
             r == i % k
  <1>1. q \in Nat /\ r \in 0..(k - 1) /\ i = k * q + r
    BY DivMod
  <1> HIDE DEF q, r
  <1>2. k * q \in Nat /\ k * (q + 1) = k * q + k
    BY <1>1
  <1>3. CASE r + 1 < k
    <2>1. i + 1 = k * q + (r + 1) /\ r + 1 \in 0..(k - 1)
      BY <1>1, <1>2, <1>3
    <2>2. (i + 1) \div k = q /\ (i + 1) % k = r + 1
      BY <1>1, <2>1, DivModUnique
    <2> QED
      BY <1>3, <2>2 DEF q, r
  <1>4. CASE r + 1 = k
    <2>1. i + 1 = k * (q + 1) + 0 /\ q + 1 \in Nat /\ 0 \in 0..(k - 1)
      BY <1>1, <1>2, <1>4
    <2>2. (k * (q + 1) + 0) \div k = q + 1 /\ (k * (q + 1) + 0) % k = 0
      BY <2>1, DivModUnique
    <2> QED
      BY <1>4, <2>1, <2>2 DEF q, r
  <1> QED
    BY <1>1, <1>3, <1>4

-----------------------------------------------------------------------------
(* What the accepted parameters promise.                                    *)

LEMMA Accepted ==
  ASSUME ParamsInv, status = "accepted"
  PROVE  /\ accepted.count \in Nat \ {0} /\ accepted.length \in Nat \ {0}
         /\ accepted.mr_count \in Nat \ {0} /\ count_per_mr \in Nat \ {0}
         /\ accepted.count = count_per_mr * accepted.mr_count
         /\ buffer_length \in Nat
  <1>1. SIZE \in Nat \ {0}
    BY SizeAssumption
  <1>2. accepted = WarmedUp(params) /\ Valid(accepted) /\ params \in Parameters
    BY DEF ParamsInv
  <1>3. /\ params.count \in Nat /\ params.warmup_count \in Nat /\ params.length \in Nat
        /\ params.mr_count \in Nat
    BY <1>1, <1>2 DEF Parameters, Sizes
  <1>4. (params.count + params.warmup_count) % SIZE \in Nat
    BY <1>1, <1>3
  <1>5. accepted.count \in Nat /\ accepted.length \in Nat /\ accepted.mr_count \in Nat
    BY <1>2, <1>3, <1>4 DEF WarmedUp, Parameters
  <1>6. /\ accepted.count \in Nat \ {0} /\ accepted.length \in Nat \ {0}
        /\ accepted.mr_count \in Nat \ {0} /\ accepted.count % accepted.mr_count = 0
    BY <1>2, <1>5 DEF Valid
  <1>7. count_per_mr \in Nat /\ accepted.count = accepted.mr_count * count_per_mr
    BY <1>6, Divides DEF count_per_mr
  <1>8. count_per_mr # 0
    BY <1>6, <1>7
  <1>9. buffer_length \in Nat
    <2>1. count_per_mr * accepted.length \in Nat
      BY <1>6, <1>7
    <2> QED
      BY <1>1, <2>1, DivMod DEF buffer_length
  <1> QED
    BY <1>6, <1>7, <1>8, <1>9

\* All the buffers need mr_count blocks.
LEMMA AllBlocks ==
  ASSUME ParamsInv, status = "accepted"
  PROVE  Blocks(accepted.count) = accepted.mr_count
  <1>1. /\ accepted.mr_count \in Nat /\ count_per_mr \in Nat \ {0}
        /\ accepted.count = count_per_mr * accepted.mr_count
    BY Accepted
  <1>2. count_per_mr * accepted.mr_count + 0 = accepted.count /\ 0 \in 0..(count_per_mr - 1)
    BY <1>1
  <1>3. /\ (count_per_mr * accepted.mr_count + 0) \div count_per_mr = accepted.mr_count
        /\ (count_per_mr * accepted.mr_count + 0) % count_per_mr = 0
    BY <1>1, <1>2, DivModUnique
  <1> QED
    BY <1>2, <1>3 DEF Blocks

\* No buffer needs no block; another one needs a block when it is the first of it.
LEMMA NextBlocks ==
  ASSUME NEW i \in Nat, count_per_mr \in Nat \ {0}
  PROVE  /\ Blocks(0) = 0 /\ Blocks(i) \in Nat
         /\ i % count_per_mr = 0 => /\ Blocks(i) = i \div count_per_mr
                                    /\ Blocks(i + 1) = Blocks(i) + 1
         /\ i % count_per_mr # 0 => Blocks(i + 1) = Blocks(i)
  <1> DEFINE k == count_per_mr
  <1>1. i \div k \in Nat /\ i % k \in 0..(k - 1)
    BY DivMod
  <1>2. 0 \div k = 0 /\ 0 % k = 0
    BY DivMod
  <1>3. \/ /\ (i + 1) % k = (i % k) + 1 /\ (i + 1) \div k = i \div k
           /\ (i % k) + 1 < k
        \/ /\ (i + 1) % k = 0 /\ (i + 1) \div k = (i \div k) + 1
           /\ (i % k) + 1 = k
    BY NextIndex
  <1> QED
    BY <1>1, <1>2, <1>3 DEF Blocks

\* Blocks follow each other.
LEMMA BasesApart ==
  ASSUME NEW i \in Nat, NEW j \in Nat, i < j, buffer_length \in Nat
  PROVE  /\ Base(i) \in Nat /\ Base(j) \in Nat
         /\ Base(i) + buffer_length < Base(j)
  <1> DEFINE L == buffer_length + 1
  <1>1. L * i + L <= L * j
    BY TimesMonotone
  <1>2. L * i = i * L /\ L * j = j * L /\ i * L \in Nat /\ j * L \in Nat
    OBVIOUS
  <1> QED
    BY <1>1, <1>2 DEF Base

LEMMA BaseInjective ==
  ASSUME NEW i \in Nat, NEW j \in Nat, Base(i) = Base(j), buffer_length \in Nat
  PROVE  i = j
  <1>1. ~(i < j)
    <2> SUFFICES ASSUME i < j PROVE FALSE
      OBVIOUS
    <2> QED
      BY BasesApart
  <1>2. ~(j < i)
    <2> SUFFICES ASSUME j < i PROVE FALSE
      OBVIOUS
    <2> QED
      BY BasesApart
  <1> QED
    BY <1>1, <1>2

-----------------------------------------------------------------------------
(* The invariant holds at first and implies the properties.                 *)

LEMMA DefaultsTyped ==
  Defaults \in Parameters
  BY SizeAssumption DEF Defaults, Parameters, Sizes

LEMMA InitInv ==
  ASSUME Init PROVE IInv
  BY DefaultsTyped DEF Init, ParseInit, IInv, ParamsInv, LayoutInv, Waiting

\* Buffer i, and how it lies in its block.
LEMMA PlaceFacts ==
  ASSUME ParamsInv, Fits, NEW i \in Nat
  PROVE  LET k == count_per_mr
             j == i \div k
             r == i % k
         IN  /\ j \in Nat /\ r \in 0..(k - 1) /\ i = k * j + r
             /\ Base(j) \in Nat /\ r * accepted.length \in Nat
             /\ r * accepted.length + accepted.length <= buffer_length
             /\ Place(i).buf = Base(j) + r * accepted.length
             /\ Place(i).mr = Base(j)
  <1> DEFINE k == count_per_mr
             j == i \div k
             r == i % k
             l == accepted.length
  <1>1. status = "accepted" /\ k * l < SIZE
    BY DEF Fits
  <1>2. k \in Nat \ {0} /\ l \in Nat \ {0} /\ buffer_length \in Nat
    BY <1>1, Accepted
  <1>3. j \in Nat /\ r \in 0..(k - 1) /\ i = k * j + r
    BY <1>2, DivMod
  <1>4. buffer_length = k * l
    <2>1. k * l \in Nat /\ SIZE \in Nat \ {0}
      BY <1>2, SizeAssumption
    <2>2. \A x \in Nat : x < SIZE => x % SIZE = x
      BY <2>1
    <2> QED
      BY <1>1, <2>1, <2>2 DEF buffer_length
  <1>5. l * r + l <= l * k
    BY <1>2, <1>3, TimesMonotone
  <1>6. l * r = r * l /\ l * k = k * l /\ r * l \in Nat
    BY <1>2, <1>3
  <1>7. Base(j) \in Nat
    <2>1. j * (buffer_length + 1) \in Nat
      BY <1>2, <1>3
    <2> QED
      BY <2>1 DEF Base
  <1>8. Place(i).buf = Base(j) + r * l /\ Place(i).mr = Base(j)
    BY DEF Place, Request
  <1> QED
    BY <1>3, <1>4, <1>5, <1>6, <1>7, <1>8

\* Two buffers do not meet.
LEMMA PlacesApart ==
  ASSUME ParamsInv, Fits, NEW i \in Nat, NEW m \in Nat, i < m
  PROVE  Place(i).buf + accepted.length <= Place(m).buf
  <1> DEFINE k == count_per_mr
             l == accepted.length
             ji == i \div k
             ri == i % k
             jm == m \div k
             rm == m % k
  <1>1. k \in Nat \ {0} /\ l \in Nat \ {0} /\ buffer_length \in Nat
    BY Accepted DEF Fits
  <1>2. /\ ji \in Nat /\ ri \in 0..(k - 1) /\ i = k * ji + ri
        /\ Base(ji) \in Nat /\ ri * l \in Nat /\ ri * l + l <= buffer_length
        /\ Place(i).buf = Base(ji) + ri * l
    BY PlaceFacts
  <1>3. /\ jm \in Nat /\ rm \in 0..(k - 1) /\ m = k * jm + rm
        /\ Base(jm) \in Nat /\ rm * l \in Nat
        /\ Place(m).buf = Base(jm) + rm * l
    BY PlaceFacts
  <1> HIDE DEF k, l, ji, ri, jm, rm
  <1>4. ~(jm < ji)
    <2> SUFFICES ASSUME jm < ji PROVE FALSE
      OBVIOUS
    <2>1. k * jm + k <= k * ji /\ k * jm \in Nat /\ k * ji \in Nat
      BY <1>1, <1>2, <1>3, TimesMonotone
    <2> QED
      BY <1>1, <1>2, <1>3, <2>1
  <1>5. CASE ji < jm
    <2>1. Base(ji) + buffer_length < Base(jm)
      BY <1>1, <1>2, <1>3, <1>5, BasesApart
    <2> QED
      BY <1>1, <1>2, <1>3, <2>1 DEF l
  <1>6. CASE ji = jm
    <2>1. ri < rm
      <3>1. k * ji \in Nat
        BY <1>1, <1>2
      <3> QED
        BY <1>2, <1>3, <1>6, <3>1
    <2>2. l * ri + l <= l * rm
      BY <1>1, <1>2, <1>3, <2>1, TimesMonotone
    <2>3. l * ri = ri * l /\ l * rm = rm * l
      BY <1>1, <1>2, <1>3
    <2> QED
      BY <1>1, <1>2, <1>3, <1>6, <2>2, <2>3 DEF l
  <1> QED
    BY <1>2, <1>3, <1>4, <1>5, <1>6

LEMMA ImpliesOwnBytes ==
  ASSUME IInv PROVE OwnBytes
  <1> SUFFICES ASSUME Fits, pc = "allocate", NEW i \in Allocated
               PROVE  /\ \E b \in heap : /\ b.base = requests[i].mr
                                         /\ Bytes(i) \subseteq b.base..(b.base + b.length - 1)
                      /\ \A j \in Allocated \ {i} : Bytes(i) \intersect Bytes(j) = {}
    BY DEF OwnBytes
  <1>1. ParamsInv /\ status = "accepted"
    BY DEF IInv, Fits
  <1>2. Allocating
    BY <1>1 DEF IInv, LayoutInv, Deallocating
  <1>3. accepted.length \in Nat \ {0} /\ count_per_mr \in Nat \ {0} /\ accepted.count \in Nat
        /\ buffer_length \in Nat
    BY <1>1, Accepted
  <1>4. n \in Nat /\ Allocated = 0..(n - 1) /\ \A m \in Allocated : requests[m] = Place(m)
    BY <1>2, <1>3 DEF Allocating, Placed, Allocated
  <1>5. \A m \in Allocated : m \in Nat /\ m < n
    BY <1>4
  <1>6. \A m \in Allocated : Bytes(m) = Place(m).buf..(Place(m).buf + accepted.length - 1)
    BY <1>4 DEF Bytes
  <1>7. \A m \in Allocated : Place(m).buf \in Nat
    <2> SUFFICES ASSUME NEW m \in Allocated PROVE Place(m).buf \in Nat
      OBVIOUS
    <2>1. /\ Base(m \div count_per_mr) \in Nat /\ (m % count_per_mr) * accepted.length \in Nat
          /\ Place(m).buf = Base(m \div count_per_mr) + (m % count_per_mr) * accepted.length
      BY <1>1, <1>5, PlaceFacts
    <2> QED
      BY <2>1
  <1>8. \E b \in heap : /\ b.base = requests[i].mr
                        /\ Bytes(i) \subseteq b.base..(b.base + b.length - 1)
    <2> DEFINE j == i \div count_per_mr
               o == (i % count_per_mr) * accepted.length
    <2>1. /\ j \in Nat /\ i % count_per_mr \in 0..(count_per_mr - 1)
          /\ i = count_per_mr * j + (i % count_per_mr)
          /\ Base(j) \in Nat /\ o \in Nat /\ o + accepted.length <= buffer_length
          /\ Place(i).buf = Base(j) + o /\ Place(i).mr = Base(j)
      BY <1>1, <1>5, PlaceFacts
    <2>2. j \in 0..(Blocks(n) - 1)
      <3>1. /\ n \div count_per_mr \in Nat /\ j <= n \div count_per_mr
            /\ n % count_per_mr = 0 => j < n \div count_per_mr
        BY <1>3, <1>4, <1>5, DivOrder, DivMod
      <3> QED
        BY <2>1, <3>1 DEF Blocks
    <2>3. Block(j) \in heap
      BY <1>2, <2>2 DEF Allocating
    <2>4. Block(j).base = Base(j) /\ Block(j).length = buffer_length
      BY DEF Block
    <2>5. Bytes(i) \subseteq Base(j)..(Base(j) + buffer_length - 1)
      <3> DEFINE x == Base(j)
      <3>1. Bytes(i) = (x + o)..(x + o + accepted.length - 1)
        BY <1>6, <2>1
      <3>2. x \in Nat /\ o \in Nat /\ o + accepted.length <= buffer_length
        BY <2>1
      <3> HIDE DEF x, o
      <3>3. (x + o)..(x + o + accepted.length - 1) \subseteq x..(x + buffer_length - 1)
        BY <1>3, <3>2
      <3> QED
        BY <3>1, <3>3 DEF x
    <2> QED
      BY <1>4, <2>1, <2>3, <2>4, <2>5
  <1>9. ASSUME NEW j \in Allocated \ {i} PROVE Bytes(i) \intersect Bytes(j) = {}
    <2>1. i \in Nat /\ j \in Nat /\ i # j
      BY <1>5
    <2>2. i < j => Place(i).buf + accepted.length <= Place(j).buf
      BY <1>1, <2>1, PlacesApart
    <2>3. j < i => Place(j).buf + accepted.length <= Place(i).buf
      BY <1>1, <2>1, PlacesApart
    <2>4. Place(i).buf \in Nat /\ Place(j).buf \in Nat
      BY <1>7
    <2> QED
      BY <1>3, <1>6, <2>1, <2>2, <2>3, <2>4
  <1> QED
    BY <1>8, <1>9

-----------------------------------------------------------------------------
LEMMA ImpliesRegionsAsAsked ==
  ASSUME IInv PROVE RegionsAsAsked
  <1> SUFFICES ASSUME status = "accepted"
               PROVE  /\ count_per_mr > 0
                      /\ pc = "allocate" /\ n = accepted.count
                         => Cardinality(heap) = accepted.mr_count
    BY DEF RegionsAsAsked
  <1>1. ParamsInv
    BY DEF IInv
  <1>2. /\ count_per_mr \in Nat \ {0} /\ accepted.mr_count \in Nat \ {0}
        /\ buffer_length \in Nat
    BY <1>1, Accepted
  <1>3. ASSUME pc = "allocate", n = accepted.count
        PROVE  Cardinality(heap) = accepted.mr_count
    <2> DEFINE S == 0..(accepted.mr_count - 1)
               f == [j \in S |-> Block(j)]
    <2>1. heap = {Block(j) : j \in S}
      BY <1>1, <1>3, AllBlocks DEF IInv, LayoutInv, Allocating, Deallocating
    <2>2. \A i, j \in S : Block(i) = Block(j) => i = j
      BY <1>2, BaseInjective DEF Block
    <2>3. f \in Bijection(S, heap)
      BY <2>1, <2>2 DEF Bijection, Injection, Surjection, IsInjective
    <2>4. IsFiniteSet(S) /\ Cardinality(S) = accepted.mr_count
      <3>1. 0 \in Int /\ accepted.mr_count - 1 \in Int /\ ~(0 > accepted.mr_count - 1)
            /\ (accepted.mr_count - 1) - 0 + 1 = accepted.mr_count
        BY <1>2
      <3> QED
        BY <3>1, FS_Interval
    <2> QED
      BY <2>3, <2>4, FS_Bijection DEF ExistsBijection
  <1> QED
    BY <1>2, <1>3

LEMMA ImpliesFreedOnce ==
  ASSUME IInv PROVE FreedOnce
  <1>1. pc \in {"deallocate", "done"} => status = "accepted"
    BY DEF IInv, LayoutInv, Waiting
  <1>2. pc = "done" => heap = {}
    BY <1>1 DEF IInv, LayoutInv, Allocating, Deallocating
  <1>3. ASSUME pc = "deallocate", ~DeallocateEnd, FirstOfBlock
        PROVE  \E b \in heap : b.base = requests[n].buf
    <2>1. ParamsInv /\ Deallocating
      BY <1>1, <1>3 DEF IInv, LayoutInv, Allocating
    <2>2. /\ accepted.count \in Nat \ {0} /\ accepted.length \in Nat
          /\ count_per_mr \in Nat \ {0} /\ accepted.mr_count \in Nat
      BY <1>1, <1>3, <2>1, Accepted
    <2>3. n \in Nat /\ n < accepted.count /\ n % count_per_mr = 0
      BY <1>3, <2>1, <2>2 DEF Deallocating, DeallocateEnd, FirstOfBlock
    <2>4. Blocks(n) = n \div count_per_mr /\ Blocks(n) \in Nat
      BY <2>2, <2>3, DivMod DEF Blocks
    <2>5. Blocks(n) < accepted.mr_count
      <3>1. /\ accepted.count % count_per_mr = 0
            /\ accepted.count \div count_per_mr = accepted.mr_count
        <4>1. /\ count_per_mr * accepted.mr_count + 0 = accepted.count
              /\ 0 \in 0..(count_per_mr - 1)
          BY <1>1, <1>3, <2>1, <2>2, Accepted
        <4> QED
          BY <2>2, <4>1, DivModUnique
      <3> QED
        BY <2>2, <2>3, <2>4, <3>1, DivOrder
    <2>6. Block(Blocks(n)) \in heap
      BY <2>1, <2>2, <2>4, <2>5 DEF Deallocating
    <2>7. requests[n] = Place(n)
      BY <2>1, <2>2, <2>3 DEF Deallocating, Placed
    <2>8. Place(n).buf = Base(n \div count_per_mr)
      <3>1. Base(n \div count_per_mr) \in Int
        <4>1. n \div count_per_mr \in Nat /\ buffer_length \in Nat
          BY <1>1, <1>3, <2>1, <2>4, Accepted
        <4>2. (n \div count_per_mr) * (buffer_length + 1) \in Nat
          BY <4>1
        <4> QED
          BY <4>2 DEF Base
      <3>2. (n % count_per_mr) * accepted.length = 0
        BY <2>2, <2>3
      <3> QED
        BY <3>1, <3>2 DEF Place, Request
    <2> QED
      BY <2>4, <2>6, <2>7, <2>8 DEF Block
  <1> QED
    BY <1>2, <1>3 DEF FreedOnce

-----------------------------------------------------------------------------
(* The steps.                                                               *)

\* The layout is a function of the accepted parameters.
LEMMA SameLayout ==
  ASSUME accepted' = accepted
  PROVE  /\ count_per_mr' = count_per_mr /\ buffer_length' = buffer_length
         /\ \A i : Base(i)' = Base(i) /\ Block(i)' = Block(i)
         /\ \A i : Place(i)' = Place(i) /\ Blocks(i)' = Blocks(i)
  BY DEF count_per_mr, buffer_length, Base, Block, Place, Blocks, Request

\* Options leave the parameters in their types.
LEMMA OptionStep ==
  ASSUME IInv, UNCHANGED <<pc, n, heap, brk, buf_base, requests>>,
         \/ \E field \in Counters : NumericOption(field)
         \/ VerbOption \/ ModeOption \/ InvalidOption
  PROVE  IInv'
  <1>1. status = "parsing" /\ status' # "accepted"
    BY DEF NumericOption, VerbOption, ModeOption, InvalidOption
  <1>2. LayoutInv'
    BY <1>1 DEF IInv, LayoutInv, Waiting
  <1>3. params' \in Parameters
    <2>1. params \in Parameters
      BY DEF IInv, ParamsInv
    <2>2. CASE \E field \in Counters : NumericOption(field)
      <3>1. PICK field \in Counters : NumericOption(field)
        BY <2>2
      <3>2. PICK v \in Sizes : params' = [params EXCEPT ![field] = v]
        BY <3>1, NumbersAssumption DEF NumericOption, Sizes
      <3>3. CASE field = "count"
        BY <2>1, <3>2, <3>3 DEF Parameters
      <3>4. CASE field = "length"
        BY <2>1, <3>2, <3>4 DEF Parameters
      <3>5. CASE field = "repeat"
        BY <2>1, <3>2, <3>5 DEF Parameters
      <3>6. CASE field = "warmup_count"
        BY <2>1, <3>2, <3>6 DEF Parameters
      <3>7. CASE field = "mr_count"
        BY <2>1, <3>2, <3>7 DEF Parameters
      <3> QED
        BY <3>3, <3>4, <3>5, <3>6, <3>7 DEF Counters
    <2>3. CASE VerbOption
      BY <2>1, <2>3 DEF VerbOption, Parameters
    <2>4. CASE ModeOption
      BY <2>1, <2>4 DEF ModeOption, Parameters
    <2>5. CASE InvalidOption
      BY <2>1, <2>5 DEF InvalidOption
    <2> QED
      BY <2>2, <2>3, <2>4, <2>5
  <1> QED
    BY <1>1, <1>2, <1>3 DEF IInv, ParamsInv

LEMMA FirstLayout ==
  ParamsInv /\ status = "accepted" /\ Waiting => Allocating
  <1> SUFFICES ASSUME ParamsInv, status = "accepted", Waiting
               PROVE  Allocating
    OBVIOUS
  <1>1. accepted.count \in Nat \ {0} /\ count_per_mr \in Nat \ {0} /\ buffer_length \in Nat
    BY Accepted
  <1>2. Blocks(0) = 0 /\ 0 % count_per_mr = 0
    BY <1>1 DEF Blocks
  <1>3. Base(0) = 1
    BY <1>1 DEF Base
  <1>4. 0..(0 - 1) = {}
    OBVIOUS
  <1>5. Placed(0)
    BY <1>4 DEF Waiting, Placed
  <1> QED
    BY <1>1, <1>2, <1>3, <1>4, <1>5 DEF Waiting, Allocating

\* Whatever is accepted, nothing has been allocated yet.
LEMMA ValidateStep ==
  ASSUME IInv, Validate, UNCHANGED <<pc, n, heap, brk, buf_base, requests>>
  PROVE  IInv'
  <1>1. status = "parsing" /\ params' = params
    BY DEF Validate
  <1>2. Waiting
    BY <1>1 DEF IInv, LayoutInv
  <1>3. \/ status' = "accepted" /\ accepted' = WarmedUp(params) /\ Valid(accepted')
        \/ status' = "exit" /\ accepted' = accepted
    BY DEF Validate
  <1>4. ParamsInv'
    BY <1>1, <1>3 DEF IInv, ParamsInv, WarmedUp, Valid
  <1>5. CASE status' = "accepted"
    <2>1. Waiting'
      BY <1>2 DEF Waiting
    <2>2. (ParamsInv /\ status = "accepted" /\ Waiting => Allocating)'
      BY FirstLayout, PTL
    <2> QED
      BY <1>4, <1>5, <2>1, <2>2 DEF IInv, LayoutInv
  <1>6. CASE status' = "exit"
    BY <1>2, <1>4, <1>6 DEF IInv, LayoutInv, Waiting
  <1> QED
    BY <1>3, <1>5, <1>6

\* The loop of allocate_buffer places buffer n in block n \div count_per_mr.
LEMMA AllocateStep ==
  ASSUME IInv, AllocateNext
  PROVE  IInv'
  <1> DEFINE k == count_per_mr
  <1>1. /\ ParamsInv /\ status = "accepted" /\ pc = "allocate" /\ n < accepted.count
        /\ UNCHANGED <<params, accepted, status, pc>> /\ n' = n + 1
    BY DEF IInv, AllocateNext, parseVars
  <1>2. Allocating
    BY <1>1 DEF IInv, LayoutInv, Deallocating
  <1>3. /\ accepted.count \in Nat /\ k \in Nat \ {0} /\ buffer_length \in Nat
        /\ accepted.length \in Nat
    BY <1>1, Accepted
  <1>4. n \in Nat /\ n + 1 \in 0..accepted.count
    BY <1>1, <1>2, <1>3 DEF Allocating
  <1>5. /\ Blocks(n) \in Nat
        /\ n % k = 0 => Blocks(n) = n \div k /\ Blocks(n + 1) = Blocks(n) + 1
        /\ n % k # 0 => Blocks(n + 1) = Blocks(n)
    BY <1>3, <1>4, NextBlocks
  <1>6. /\ count_per_mr' = count_per_mr /\ buffer_length' = buffer_length
        /\ \A i : Base(i)' = Base(i) /\ Block(i)' = Block(i)
        /\ \A i : Place(i)' = Place(i) /\ Blocks(i)' = Blocks(i)
    BY <1>1, SameLayout
  <1>7. buf_base' = Base(n \div k)
    BY <1>2, <1>5 DEF AllocateNext, Allocating
  <1>8. brk' = Base(Blocks(n + 1))
    <2>1. CASE n % k = 0
      <3>1. brk' = Base(Blocks(n)) + buffer_length + 1
        BY <1>2, <2>1 DEF AllocateNext, Allocating
      <3>2. \A j, L \in Nat : 1 + (j + 1) * (L + 1) = 1 + j * (L + 1) + L + 1
        OBVIOUS
      <3> QED
        BY <1>3, <1>5, <2>1, <3>1, <3>2 DEF Base
    <2>2. CASE n % k # 0
      BY <1>2, <1>5, <2>2 DEF AllocateNext, Allocating
    <2> QED
      BY <2>1, <2>2
  <1>9. heap' = {Block(j) : j \in 0..(Blocks(n + 1) - 1)}
    <2>1. CASE n % k = 0
      <3>1. heap' = heap \union {Block(Blocks(n))}
        BY <1>2, <2>1 DEF AllocateNext, Allocating, NewBlock, Block
      <3>2. 0..(Blocks(n + 1) - 1) = 0..(Blocks(n) - 1) \union {Blocks(n)}
        BY <1>5, <2>1
      <3>3. heap = {Block(j) : j \in 0..(Blocks(n) - 1)}
        BY <1>2 DEF Allocating
      <3> QED
        BY <3>1, <3>2, <3>3
    <2>2. CASE n % k # 0
      BY <1>2, <1>5, <2>2 DEF AllocateNext, Allocating
    <2> QED
      BY <2>1, <2>2
  <1>10. (n + 1) % k # 0 => buf_base' = Base((n + 1) \div k)
    BY <1>3, <1>4, <1>7, NextIndex
  <1>11. requests' = [m \in 0..((n + 1) - 1) |-> Place(m)]
    <2>1. requests' = [i \in 0..n |-> IF i < n THEN requests[i]
                         ELSE Request(buf_base' + offset * accepted.length, buf_base')]
      BY DEF AllocateNext
    <2>2. \A i \in 0..n : i < n => requests[i] = Place(i)
      BY <1>2, <1>4 DEF Allocating, Placed
    <2>3. Request(buf_base' + offset * accepted.length, buf_base') = Place(n)
      BY <1>7 DEF offset, Place
    <2>4. 0..((n + 1) - 1) = 0..n /\ \A i \in 0..n : i < n \/ i = n
      BY <1>4
    <2> QED
      BY <2>1, <2>2, <2>3, <2>4
  <1>12. Allocating'
    <2>1. Placed(n)'
      BY <1>1, <1>6, <1>11 DEF Placed
    <2>2. /\ brk' = Base(Blocks(n))' /\ heap' = {Block(j)' : j \in 0..(Blocks(n)' - 1)}
      <3>1. Blocks(n)' = Blocks(n + 1)
        BY <1>1, <1>6 DEF Blocks
      <3>2. Base(Blocks(n))' = Base(Blocks(n + 1))
        BY <1>6, <3>1 DEF Base
      <3> QED
        BY <1>6, <1>8, <1>9, <3>1, <3>2
    <2>3. n' % count_per_mr' # 0 => buf_base' = Base(n \div count_per_mr)'
      <3>1. Base(n \div count_per_mr)' = Base((n + 1) \div k)
        BY <1>1, <1>6 DEF Base
      <3> QED
        BY <1>1, <1>6, <1>10, <3>1
    <2> QED
      BY <1>1, <1>4, <2>1, <2>2, <2>3 DEF Allocating
  <1> QED
    BY <1>1, <1>12 DEF IInv, ParamsInv, LayoutInv, WarmedUp, Valid

-----------------------------------------------------------------------------
LEMMA AllocateDoneStep ==
  ASSUME IInv, AllocateDone
  PROVE  IInv'
  <1>1. /\ ParamsInv /\ status = "accepted" /\ pc = "allocate" /\ n = accepted.count
        /\ UNCHANGED <<params, accepted, status, heap, requests>>
        /\ pc' = "deallocate" /\ n' = 0
    BY DEF IInv, AllocateDone, parseVars
  <1>2. Allocating
    BY <1>1 DEF IInv, LayoutInv, Deallocating
  <1>3. accepted.count \in Nat /\ count_per_mr \in Nat \ {0}
    BY <1>1, Accepted
  <1>4. Blocks(accepted.count) = accepted.mr_count
    BY <1>1, AllBlocks
  <1>5. Blocks(0) = 0
    BY <1>3, NextBlocks
  <1>6. /\ \A i : Block(i)' = Block(i)
        /\ \A i : Place(i)' = Place(i) /\ Blocks(i)' = Blocks(i)
    BY <1>1, SameLayout
  <1>7. heap' = {Block(j)' : j \in Blocks(n)'..(accepted'.mr_count - 1)}
    <2>1. Blocks(n)' = 0
      BY <1>1, <1>5, <1>6 DEF Blocks
    <2> QED
      BY <1>1, <1>2, <1>4, <1>6, <2>1 DEF Allocating
  <1>8. Placed(accepted.count)'
    BY <1>1, <1>2, <1>6 DEF Allocating, Placed
  <1>9. Deallocating'
    BY <1>1, <1>3, <1>7, <1>8 DEF Deallocating
  <1> QED
    BY <1>1, <1>9 DEF IInv, ParamsInv, LayoutInv, WarmedUp, Valid

\* The loop of deallocate_buffer frees block n \div count_per_mr at its first
\* buffer.
LEMMA DeallocateStep ==
  ASSUME IInv, DeallocateNext
  PROVE  IInv'
  <1> DEFINE k == count_per_mr
  <1>1. /\ status = "accepted" /\ Deallocating /\ ParamsInv
    BY DEF IInv, LayoutInv, Waiting, Allocating, DeallocateNext
  <1>2. /\ UNCHANGED <<params, accepted, status, pc, requests>> /\ n' = n + 1
        /\ n # accepted.count
        /\ heap' = IF n % k = 0 THEN {b \in heap : b.base # requests[n].buf} ELSE heap
    BY DEF DeallocateNext, parseVars, DeallocateEnd, FirstOfBlock
  <1>3. /\ accepted.count \in Nat /\ k \in Nat \ {0} /\ buffer_length \in Nat
        /\ accepted.length \in Nat /\ accepted.mr_count \in Nat
    BY <1>1, Accepted
  <1>4. n \in Nat /\ n + 1 \in 0..accepted.count /\ n \in 0..(accepted.count - 1)
    BY <1>1, <1>2, <1>3 DEF Deallocating
  <1>5. /\ Blocks(n) \in Nat
        /\ n % k = 0 => Blocks(n) = n \div k /\ Blocks(n + 1) = Blocks(n) + 1
        /\ n % k # 0 => Blocks(n + 1) = Blocks(n)
    BY <1>3, <1>4, NextBlocks
  <1>6. /\ \A i : Block(i)' = Block(i)
        /\ \A i : Place(i)' = Place(i) /\ Blocks(i)' = Blocks(i)
    BY <1>2, SameLayout
  <1>7. heap = {Block(j) : j \in Blocks(n)..(accepted.mr_count - 1)}
    BY <1>1 DEF Deallocating
  <1>8. heap' = {Block(j) : j \in Blocks(n + 1)..(accepted.mr_count - 1)}
    <2>1. CASE n % k = 0
      <3>1. requests[n].buf = Base(Blocks(n))
        <4>1. requests[n] = Place(n)
          BY <1>1, <1>4 DEF Deallocating, Placed
        <4>2. Base(n \div k) \in Int
          <5>1. (n \div k) * (buffer_length + 1) \in Nat
            BY <1>3, <1>5, <2>1
          <5> QED
            BY <5>1 DEF Base
        <4>3. (n % k) * accepted.length = 0
          BY <1>3, <2>1
        <4> QED
          BY <1>5, <2>1, <4>1, <4>2, <4>3 DEF Place, Request
      <3>2. \A j \in Blocks(n)..(accepted.mr_count - 1) :
               Block(j).base # requests[n].buf <=> j # Blocks(n)
        BY <1>3, <1>5, <3>1, BaseInjective DEF Block
      <3>3. Blocks(n + 1)..(accepted.mr_count - 1)
            = {j \in Blocks(n)..(accepted.mr_count - 1) : j # Blocks(n)}
        BY <1>3, <1>5, <2>1
      <3> QED
        BY <1>2, <1>7, <2>1, <3>2, <3>3
    <2>2. CASE n % k # 0
      BY <1>2, <1>5, <1>7, <2>2
    <2> QED
      BY <2>1, <2>2
  <1>9. Deallocating'
    <2>1. heap' = {Block(j)' : j \in Blocks(n)'..(accepted'.mr_count - 1)}
      <3>1. Blocks(n)' = Blocks(n + 1)
        BY <1>2 DEF Blocks, count_per_mr
      <3> QED
        BY <1>2, <1>6, <1>8, <3>1
    <2>2. Placed(accepted.count)'
      BY <1>1, <1>2, <1>6 DEF Deallocating, Placed
    <2> QED
      BY <1>1, <1>2, <1>4, <2>1, <2>2 DEF Deallocating
  <1> QED
    BY <1>1, <1>2, <1>9 DEF IInv, ParamsInv, LayoutInv, WarmedUp, Valid

LEMMA DeallocateDoneStep ==
  ASSUME IInv, DeallocateDone
  PROVE  IInv'
  <1>1. /\ status = "accepted" /\ Deallocating /\ ParamsInv
    BY DEF IInv, LayoutInv, Waiting, Allocating, DeallocateDone
  <1>2. /\ UNCHANGED <<params, accepted, status, heap>> /\ pc' = "done"
        /\ n = accepted.count
    BY DEF DeallocateDone, parseVars, DeallocateEnd
  <1>3. Blocks(n) = accepted.mr_count /\ accepted.mr_count \in Nat
    BY <1>1, <1>2, AllBlocks, Accepted
  <1>4. heap = {}
    <2>1. Blocks(n)..(accepted.mr_count - 1) = {}
      BY <1>3
    <2> QED
      BY <1>1, <2>1 DEF Deallocating
  <1> QED
    BY <1>1, <1>2, <1>4 DEF IInv, ParamsInv, LayoutInv, WarmedUp, Valid

LEMMA NextInv ==
  ASSUME IInv, [Next]_vars
  PROVE  IInv'
  <1>1. CASE ParseNext /\ UNCHANGED <<pc, n, heap, brk, buf_base, requests>>
    BY <1>1, OptionStep, ValidateStep DEF ParseNext
  <1>2. CASE AllocateNext
    BY <1>2, AllocateStep
  <1>3. CASE AllocateDone
    BY <1>3, AllocateDoneStep
  <1>4. CASE DeallocateNext
    BY <1>4, DeallocateStep
  <1>5. CASE DeallocateDone
    BY <1>5, DeallocateDoneStep
  <1>6. CASE UNCHANGED vars
    <2>1. UNCHANGED <<params, accepted, status, pc, n, heap, brk, buf_base, requests>>
      BY <1>6 DEF vars, parseVars
    <2>2. ParamsInv'
      BY <2>1 DEF IInv, ParamsInv, WarmedUp, Valid
    <2>3. LayoutInv'
      BY <2>1 DEF IInv, LayoutInv, Waiting, Allocating, Deallocating, Placed, Blocks, Block,
                  Base, Place, Request, count_per_mr, buffer_length
    <2> QED
      BY <2>2, <2>3 DEF IInv
  <1> QED
    BY <1>1, <1>2, <1>3, <1>4, <1>5, <1>6 DEF Next

-----------------------------------------------------------------------------
(* The theorems.                                                            *)

LEMMA Invariance ==
  Spec => []IInv
  <1>1. Init => IInv
    BY InitInv
  <1>2. IInv /\ [Next]_vars => IInv'
    BY NextInv
  <1> QED
    BY <1>1, <1>2, PTL DEF Spec

\* For every count, length and number of regions that are accepted,
\* allocate_buffer gives each request bytes of its own in the region whose keys
\* it uses.
THEOREM BuffersAreApart == Spec => []OwnBytes
  <1>1. IInv => OwnBytes
    BY ImpliesOwnBytes
  <1> QED
    BY <1>1, Invariance, PTL

\* allocate_buffer registers as many regions as were asked for, and never takes
\* a modulus by zero.
THEOREM RegionCount == Spec => []RegionsAsAsked
  <1>1. IInv => RegionsAsAsked
    BY ImpliesRegionsAsAsked
  <1> QED
    BY <1>1, Invariance, PTL

\* deallocate_buffer frees every block that was allocated, each of them once,
\* even when the size of the blocks has wrapped around.
THEOREM BlocksFreedOnce == Spec => []FreedOnce
  <1>1. IInv => FreedOnce
    BY ImpliesFreedOnce
  <1> QED
    BY <1>1, Invariance, PTL

=============================================================================
