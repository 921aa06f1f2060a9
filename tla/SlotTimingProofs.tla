-------------------------- MODULE SlotTimingProofs --------------------------
(***************************************************************************)
(* The slot clock does not drift, and the latency report says what the      *)
(* stamps say: for every number of slots, every interval, every clock and   *)
(* whatever time the slots take.                                            *)
(*                                                                          *)
(* The report adds, sorts and counts one slot at a time, so the argument    *)
(* is an induction over the slots (Schedule for the clock, Accumulated for  *)
(* the loop of the report).  What these need of sums over intervals is      *)
(* proved here from the definition of MapThenSumSet, by induction on the    *)
(* size of the set: every set of naturals has a least member because < is   *)
(* well founded on them, and a set that has 0 and the successors of its     *)
(* members therefore has them all (AllNat).                                 *)
(***************************************************************************)
EXTENDS SlotTiming, FiniteSetTheorems, WellFoundedInduction, TLAPS

-----------------------------------------------------------------------------
(* Induction.                                                               *)

\* A set of naturals has a least member.
LEMMA LeastNat ==
    ASSUME NEW T \in SUBSET Nat, T # {}
    PROVE  \E m \in T : \A k \in T : m <= k
  <1> DEFINE R == OpToRel(<, Nat)
  <1>1. IsWellFoundedOn(R, Nat)
    BY NatLessThanWellFounded
  <1>2. \A x, y \in Nat : x < y => <<x, y>> \in R
    BY DEF OpToRel
  <1> HIDE DEF R
  <1>3. PICK x \in T : \A y \in T : ~ (<<y, x>> \in R)
    BY <1>1, WFMin
  <1>4. \A y \in T : ~(y < x)
    BY <1>2, <1>3, Zenon
  <1>5. \A y \in T : x <= y
    BY <1>4
  <1> QED
    BY <1>5

\* Induction: a set of numbers that has 0 and the successors of its members.
LEMMA AllNat ==
    ASSUME NEW S, 0 \in S, \A k \in Nat : k \in S => k + 1 \in S
    PROVE  \A k \in Nat : k \in S
  <1> SUFFICES ASSUME Nat \ S # {} PROVE FALSE
    OBVIOUS
  <1>1. PICK m \in Nat \ S : \A k \in Nat \ S : m <= k
    BY LeastNat
  <1>2. m # 0 /\ m - 1 \in Nat /\ (m - 1) + 1 = m /\ ~(m <= m - 1)
    OBVIOUS
  <1>3. m - 1 \in S
    BY <1>1, <1>2
  <1> QED
    BY <1>2, <1>3

-----------------------------------------------------------------------------
(* Sums over finite sets.                                                   *)

Pick(s) == CHOOSE x \in s : TRUE

Unfold(f, S, g) == g = [s \in SUBSET S |-> IF s = {} THEN 0 ELSE f[Pick(s)] + g[s \ {Pick(s)}]]

SumOver(f, S) == MapThenSumSet(LAMBDA x : f[x], S)

\* MapThenSumSet is the value at S of a function that satisfies the recursion.
LEMMA SumFixpoint == \A f, S : SumOver(f, S) = (CHOOSE g : Unfold(f, S, g))[S]
  BY Zenon DEF SumOver, Unfold, Pick, MapThenSumSet, MapThenFoldSet

\* Taking the chosen member away leaves a smaller set.
LEMMA Picked ==
    ASSUME NEW s, IsFiniteSet(s), s # {}
    PROVE  /\ Pick(s) \in s /\ s \ {Pick(s)} \in SUBSET s
           /\ IsFiniteSet(s \ {Pick(s)})
           /\ Cardinality(s \ {Pick(s)}) = Cardinality(s) - 1
           /\ Cardinality(s) \in Nat /\ Cardinality(s) > 0
  <1>1. Pick(s) \in s
    BY DEF Pick
  <1> QED
    BY <1>1, FS_RemoveElement, FS_CardinalityType, FS_EmptySet

\* What the recursion gives for a set depends on this set alone.
LEMMA UnfoldUnique ==
    ASSUME NEW f, NEW S, NEW T, NEW g, NEW h, Unfold(f, S, g), Unfold(f, T, h),
           NEW s \in SUBSET S, s \in SUBSET T, IsFiniteSet(s)
    PROVE  g[s] = h[s]
  <1> DEFINE Agree(u) == u \in SUBSET S /\ u \in SUBSET T /\ IsFiniteSet(u) => g[u] = h[u]
             N == {k \in Nat : \A u \in SUBSET S : IsFiniteSet(u) /\ Cardinality(u) = k => Agree(u)}
  <1>1. 0 \in N
    <2> SUFFICES ASSUME NEW u \in SUBSET S, IsFiniteSet(u), Cardinality(u) = 0, u \in SUBSET T
                 PROVE  g[u] = h[u]
      OBVIOUS
    <2>1. u = {}
      BY FS_EmptySet
    <2>2. g[{}] = 0 /\ h[{}] = 0
      BY Zenon DEF Unfold
    <2> QED
      BY <2>1, <2>2
  <1>2. ASSUME NEW k \in Nat, k \in N PROVE k + 1 \in N
    <2> SUFFICES ASSUME NEW u \in SUBSET S, IsFiniteSet(u), Cardinality(u) = k + 1,
                        u \in SUBSET T
                 PROVE  g[u] = h[u]
      OBVIOUS
    <2> DEFINE v == u \ {Pick(u)}
    <2>1. u # {}
      BY FS_EmptySet
    <2>2. v \in SUBSET S /\ v \in SUBSET T /\ IsFiniteSet(v) /\ Cardinality(v) = k
      BY <2>1, Picked
    <2>3. g[v] = h[v]
      BY <1>2, <2>2
    <2>4. g[u] = f[Pick(u)] + g[v] /\ h[u] = f[Pick(u)] + h[v]
      BY <2>1, Zenon DEF Unfold
    <2> QED
      BY <2>3, <2>4
  <1>3. \A k \in Nat : k \in N
    <2> HIDE DEF N
    <2> QED
      BY <1>1, <1>2, AllNat
  <1>4. Cardinality(s) \in N
    BY <1>3, FS_CardinalityType
  <1> QED
    BY <1>4

\* The recursion has a solution.
LEMMA UnfoldExists ==
    ASSUME NEW f, NEW S, IsFiniteSet(S)
    PROVE  \E g : Unfold(f, S, g)
  <1> DEFINE Solved(T) == \E g : Unfold(f, T, g)
             N == {k \in Nat : \A T : IsFiniteSet(T) /\ Cardinality(T) <= k => Solved(T)}
  <1>1. 0 \in N
    <2> SUFFICES ASSUME NEW T, IsFiniteSet(T), Cardinality(T) <= 0 PROVE Solved(T)
      OBVIOUS
    <2>1. T = {}
      BY FS_EmptySet, FS_CardinalityType
    <2>2. Unfold(f, {}, [s \in SUBSET {} |-> 0])
      <3>1. \A s \in SUBSET {} : s = {}
        OBVIOUS
      <3> QED
        BY <3>1, Zenon DEF Unfold
    <2> QED
      BY <2>1, <2>2
  <1>2. ASSUME NEW k \in Nat, k \in N PROVE k + 1 \in N
    <2> SUFFICES ASSUME NEW T, IsFiniteSet(T), Cardinality(T) <= k + 1 PROVE Solved(T)
      OBVIOUS
    <2> DEFINE Part(u) == CHOOSE g : Unfold(f, u, g)
               rest(s) == s \ {Pick(s)}
               h == [s \in SUBSET T |-> IF s = {} THEN 0
                                        ELSE f[Pick(s)] + Part(rest(s))[rest(s)]]
    <2>1. ASSUME NEW s \in SUBSET T, s # {}
          PROVE  rest(s) \in SUBSET T /\ Unfold(f, rest(s), Part(rest(s)))
                 /\ IsFiniteSet(rest(s))
      <3>1. IsFiniteSet(s) /\ Cardinality(s) <= Cardinality(T) /\ Cardinality(T) \in Nat
        BY FS_Subset, FS_CardinalityType
      <3>2. /\ IsFiniteSet(rest(s)) /\ rest(s) \in SUBSET T
            /\ Cardinality(rest(s)) = Cardinality(s) - 1 /\ Cardinality(s) \in Nat
        BY <2>1, <3>1, Picked
      <3>4. Cardinality(rest(s)) <= k
        <4> HIDE DEF rest
        <4> QED
          BY <3>1, <3>2
      <3>3. Solved(rest(s))
        BY <1>2, <3>2, <3>4
      <3> QED
        BY <3>2, <3>3
    <2>2. ASSUME NEW s \in SUBSET T, s # {}
          PROVE  h[rest(s)] = Part(rest(s))[rest(s)]
      <3> DEFINE u == rest(s)
      <3>1. u \in SUBSET T /\ Unfold(f, u, Part(u)) /\ IsFiniteSet(u)
        BY <2>1, <2>2
      <3>2. CASE u = {}
        <4>1. h[u] = 0
          BY <3>1, <3>2
        <4>2. Part(u)[u] = 0
          BY <3>1, <3>2, Zenon DEF Unfold
        <4> QED
          BY <4>1, <4>2
      <3>3. CASE u # {}
        <4>1. h[u] = f[Pick(u)] + Part(rest(u))[rest(u)]
          BY <3>1, <3>3
        <4>2. Part(u)[u] = f[Pick(u)] + Part(u)[rest(u)]
          BY <3>1, <3>3, Zenon DEF Unfold
        <4>3. Part(u)[rest(u)] = Part(rest(u))[rest(u)]
          <5>1. /\ Unfold(f, rest(u), Part(rest(u))) /\ IsFiniteSet(rest(u))
                /\ rest(u) \in SUBSET u /\ rest(u) \in SUBSET rest(u)
            BY <2>1, <3>1, <3>3
          <5> HIDE DEF Part, rest, u
          <5> QED
            BY <3>1, <5>1, UnfoldUnique
        <4> QED
          BY <4>1, <4>2, <4>3
      <3> QED
        BY <3>2, <3>3
    <2>3. Unfold(f, T, h)
      <3>1. \A s \in SUBSET T : h[s] = IF s = {} THEN 0 ELSE f[Pick(s)] + h[rest(s)]
        <4> SUFFICES ASSUME NEW s \in SUBSET T
                     PROVE  h[s] = IF s = {} THEN 0 ELSE f[Pick(s)] + h[rest(s)]
          OBVIOUS
        <4>1. h[s] = IF s = {} THEN 0 ELSE f[Pick(s)] + Part(rest(s))[rest(s)]
          OBVIOUS
        <4> HIDE DEF h
        <4> QED
          BY <2>2, <4>1
      <3>2. h = [s \in SUBSET T |-> h[s]]
        OBVIOUS
      <3> HIDE DEF h
      <3> QED
        BY <3>1, <3>2, Zenon DEF Unfold
    <2> QED
      BY <2>3
  <1>3. \A k \in Nat : k \in N
    <2> HIDE DEF N
    <2> QED
      BY <1>1, <1>2, AllNat
  <1>4. Cardinality(S) \in N /\ Cardinality(S) <= Cardinality(S)
    BY <1>3, FS_CardinalityType
  <1> QED
    BY <1>4

\* The recursion, for sums.
LEMMA SumPick ==
    ASSUME NEW f, NEW S, IsFiniteSet(S)
    PROVE  SumOver(f, S) = IF S = {} THEN 0 ELSE f[Pick(S)] + SumOver(f, S \ {Pick(S)})
  <1> DEFINE Part(u) == CHOOSE g : Unfold(f, u, g)
             v == S \ {Pick(S)}
  <1>1. Unfold(f, S, Part(S)) /\ SumOver(f, S) = Part(S)[S]
    BY UnfoldExists, SumFixpoint
  <1>2. Part(S)[S] = IF S = {} THEN 0 ELSE f[Pick(S)] + Part(S)[v]
    BY <1>1, Zenon DEF Unfold
  <1>3. ASSUME S # {} PROVE Part(S)[v] = SumOver(f, v)
    <2>1. IsFiniteSet(v) /\ v \in SUBSET S
      BY <1>3, Picked
    <2>2. Unfold(f, v, Part(v)) /\ SumOver(f, v) = Part(v)[v]
      BY <2>1, UnfoldExists, SumFixpoint
    <2> HIDE DEF Part, v
    <2> QED
      BY <1>1, <2>1, <2>2, UnfoldUnique
  <1> HIDE DEF Part
  <1> QED
    BY <1>1, <1>2, <1>3

\* A sum of integers is an integer.
LEMMA SumInt ==
    ASSUME NEW f, NEW S, IsFiniteSet(S), \A x \in S : f[x] \in Int
    PROVE  SumOver(f, S) \in Int
  <1> DEFINE N == {k \in Nat : \A T \in SUBSET S :
                      IsFiniteSet(T) /\ Cardinality(T) = k => SumOver(f, T) \in Int}
  <1>1. 0 \in N
    <2> SUFFICES ASSUME NEW T \in SUBSET S, IsFiniteSet(T), Cardinality(T) = 0
                 PROVE  SumOver(f, T) \in Int
      OBVIOUS
    <2>1. T = {}
      BY FS_EmptySet
    <2>2. SumOver(f, T) = 0
      BY <2>1, SumPick
    <2> QED
      BY <2>2
  <1>2. ASSUME NEW k \in Nat, k \in N PROVE k + 1 \in N
    <2> SUFFICES ASSUME NEW T \in SUBSET S, IsFiniteSet(T), Cardinality(T) = k + 1
                 PROVE  SumOver(f, T) \in Int
      OBVIOUS
    <2>1. T # {}
      BY FS_EmptySet
    <2>2. /\ Pick(T) \in S /\ T \ {Pick(T)} \in SUBSET S
          /\ IsFiniteSet(T \ {Pick(T)}) /\ Cardinality(T \ {Pick(T)}) = k
      BY <2>1, Picked
    <2>3. SumOver(f, T \ {Pick(T)}) \in Int /\ f[Pick(T)] \in Int
      BY <1>2, <2>2
    <2>4. SumOver(f, T) = f[Pick(T)] + SumOver(f, T \ {Pick(T)})
      BY <2>1, SumPick
    <2> QED
      BY <2>3, <2>4
  <1>3. \A k \in Nat : k \in N
    <2> HIDE DEF N
    <2> QED
      BY <1>1, <1>2, AllNat
  <1>4. Cardinality(S) \in N
    BY <1>3, FS_CardinalityType
  <1> QED
    BY <1>4

\* Any member may be taken first.
LEMMA SumRemove ==
    ASSUME NEW f, NEW S, IsFiniteSet(S), \A x \in S : f[x] \in Int, NEW x \in S
    PROVE  SumOver(f, S) = f[x] + SumOver(f, S \ {x})
  <1> DEFINE N == {k \in Nat : \A T \in SUBSET S : \A y \in T :
                      IsFiniteSet(T) /\ Cardinality(T) = k
                      => SumOver(f, T) = f[y] + SumOver(f, T \ {y})}
  <1>1. 0 \in N
    BY FS_EmptySet
  <1>2. ASSUME NEW k \in Nat, k \in N PROVE k + 1 \in N
    <2> SUFFICES ASSUME NEW T \in SUBSET S, NEW y \in T,
                        IsFiniteSet(T), Cardinality(T) = k + 1
                 PROVE  SumOver(f, T) = f[y] + SumOver(f, T \ {y})
      OBVIOUS
    <2> DEFINE p == Pick(T)
    <2>1. /\ p \in T /\ T \ {p} \in SUBSET S /\ IsFiniteSet(T \ {p})
          /\ Cardinality(T \ {p}) = k
      BY Picked
    <2>2. SumOver(f, T) = f[p] + SumOver(f, T \ {p})
      BY SumPick
    <2> HIDE DEF p
    <2>3. CASE p = y
      BY <2>2, <2>3
    <2>4. CASE p # y
      <3>1. /\ IsFiniteSet(T \ {y}) /\ Cardinality(T \ {y}) = k
            /\ T \ {y} \in SUBSET S /\ p \in T \ {y} /\ y \in T \ {p}
        BY <2>1, <2>4, FS_RemoveElement, FS_CardinalityType
      <3> DEFINE u == (T \ {p}) \ {y}
      <3>2. SumOver(f, T \ {p}) = f[y] + SumOver(f, u)
        BY <1>2, <2>1, <3>1
      <3>3. SumOver(f, T \ {y}) = f[p] + SumOver(f, u)
        <4>1. SumOver(f, T \ {y}) = f[p] + SumOver(f, (T \ {y}) \ {p})
          BY <1>2, <3>1
        <4>2. (T \ {y}) \ {p} = u
          OBVIOUS
        <4> QED
          BY <4>1, <4>2
      <3>4. SumOver(f, u) \in Int /\ f[p] \in Int /\ f[y] \in Int
        <4>1. IsFiniteSet(u) /\ \A z \in u : f[z] \in Int
          BY <2>1, FS_Subset
        <4> HIDE DEF u
        <4> QED
          BY <2>1, <4>1, SumInt
      <3> HIDE DEF u
      <3> QED
        BY <2>2, <3>2, <3>3, <3>4
    <2> QED
      BY <2>3, <2>4
  <1>3. \A k \in Nat : k \in N
    <2> HIDE DEF N
    <2> QED
      BY <1>1, <1>2, AllNat
  <1>4. Cardinality(S) \in N
    BY <1>3, FS_CardinalityType
  <1> QED
    BY <1>4

\* A sum depends on the values summed.
LEMMA SumSame ==
    ASSUME NEW f, NEW g, NEW S, IsFiniteSet(S), \A x \in S : f[x] = g[x]
    PROVE  SumOver(f, S) = SumOver(g, S)
  <1> DEFINE N == {k \in Nat : \A T \in SUBSET S :
                      IsFiniteSet(T) /\ Cardinality(T) = k
                      => SumOver(f, T) = SumOver(g, T)}
  <1>1. 0 \in N
    BY SumPick, FS_EmptySet
  <1>2. ASSUME NEW k \in Nat, k \in N PROVE k + 1 \in N
    <2> SUFFICES ASSUME NEW T \in SUBSET S, IsFiniteSet(T), Cardinality(T) = k + 1
                 PROVE  SumOver(f, T) = SumOver(g, T)
      OBVIOUS
    <2>1. T # {}
      BY FS_EmptySet
    <2>2. /\ Pick(T) \in S /\ T \ {Pick(T)} \in SUBSET S
          /\ IsFiniteSet(T \ {Pick(T)}) /\ Cardinality(T \ {Pick(T)}) = k
      BY <2>1, Picked
    <2>3. SumOver(f, T \ {Pick(T)}) = SumOver(g, T \ {Pick(T)}) /\ f[Pick(T)] = g[Pick(T)]
      BY <1>2, <2>2
    <2>4. /\ SumOver(f, T) = f[Pick(T)] + SumOver(f, T \ {Pick(T)})
          /\ SumOver(g, T) = g[Pick(T)] + SumOver(g, T \ {Pick(T)})
      BY <2>1, SumPick
    <2> QED
      BY <2>3, <2>4
  <1>3. \A k \in Nat : k \in N
    <2> HIDE DEF N
    <2> QED
      BY <1>1, <1>2, AllNat
  <1>4. Cardinality(S) \in N
    BY <1>3, FS_CardinalityType
  <1> QED
    BY <1>4

\* One term more.
LEMMA SumNext ==
    ASSUME NEW f, NEW j \in Int, NEW k \in Int, j <= k + 1,
           \A x \in j..(k + 1) : f[x] \in Int
    PROVE  /\ SumOver(f, j..(k + 1)) = SumOver(f, j..k) + f[k + 1]
           /\ SumOver(f, j..k) \in Int
  <1>1. k + 1 \in j..(k + 1) /\ (j..(k + 1)) \ {k + 1} = j..k
    OBVIOUS
  <1>2. IsFiniteSet(j..(k + 1)) /\ IsFiniteSet(j..k)
    BY FS_Interval
  <1>3. SumOver(f, j..(k + 1)) = f[k + 1] + SumOver(f, j..k)
    BY <1>1, <1>2, SumRemove
  <1>4. \A x \in j..k : f[x] \in Int
    OBVIOUS
  <1>5. SumOver(f, j..k) \in Int /\ f[k + 1] \in Int
    BY <1>1, <1>2, <1>4, SumInt
  <1> QED
    BY <1>3, <1>5

-----------------------------------------------------------------------------
(* Rounding.                                                                *)

\* Rounding to a multiple of g is off by at most half of it.
LEMMA Rounded ==
    ASSUME NEW g \in Nat \ {0}, NEW t \in Nat
    PROVE  /\ RoundTo(g, t) \in Nat
           /\ 2 * RoundTo(g, t) <= 2 * t + g /\ 2 * t <= 2 * RoundTo(g, t) + g
  <1> DEFINE h == g \div 2
             q == (t + h) \div g
  <1>1. h \in Nat /\ 2 * h <= g /\ g <= 2 * h + 1
    OBVIOUS
  <1>2. q \in Nat /\ q * g <= t + h /\ t + h < q * g + g /\ q * g \in Nat
    <2>1. t + h \in Nat
      BY <1>1
    <2> HIDE DEF h
    <2> DEFINE a == t + h
    <2>2. q \in Nat /\ g * q <= a /\ a < g * (q + 1)
      <3>1. a \in Nat
        BY <2>1
      <3> HIDE DEF a
      <3>2. a \div g \in Nat /\ g * (a \div g) <= a /\ a < g * (a \div g + 1)
        BY <3>1
      <3> QED
        BY <3>2 DEF a
    <2> HIDE DEF q
    <2>3. q * g = g * q /\ g * (q + 1) = g * q + g /\ g * q \in Nat
      BY <2>2
    <2> QED
      BY <2>1, <2>2, <2>3
  <1>3. RoundTo(g, t) = q * g
    BY DEF RoundTo
  <1> DEFINE r == q * g
  <1> HIDE DEF h, q, r
  <1>4. r \in Nat /\ r <= t + h /\ t + h < r + g
    BY <1>2 DEF r
  <1>5. 2 * r <= 2 * t + g /\ 2 * t <= 2 * r + g
    BY <1>1, <1>4
  <1> QED
    BY <1>3, <1>4, <1>5 DEF r

\* Rounding three times is off by at most half of the grids together: a stamp in
\* microseconds is as close to the clock as the doubles of the report allow.
LEMMA MicroNear ==
    ASSUME NEW t \in Nat
    PROVE  /\ Micro(t) \in Nat /\ Tolerance \in Nat
           /\ 2 * Micro(t) <= 2 * t + Tolerance /\ 2 * t <= 2 * Micro(t) + Tolerance
  <1> DEFINE a == Grids[1]
             b == Grids[2]
             c == Grids[3]
             t1 == RoundTo(a, t)
             t2 == RoundTo(b, t1)
             t3 == RoundTo(c, t2)
  <1>1. a \in Nat \ {0} /\ b \in Nat \ {0} /\ c \in Nat \ {0}
    BY ClockAssumption
  <1>2. Micro(t) = t3 /\ Tolerance = a + b + c
    BY DEF Micro, Tolerance
  <1> HIDE DEF a, b, c
  <1>3. t1 \in Nat /\ 2 * t1 <= 2 * t + a /\ 2 * t <= 2 * t1 + a
    BY <1>1, Rounded
  <1> HIDE DEF t1
  <1>4. t2 \in Nat /\ 2 * t2 <= 2 * t1 + b /\ 2 * t1 <= 2 * t2 + b
    BY <1>1, <1>3, Rounded
  <1> HIDE DEF t2
  <1>5. t3 \in Nat /\ 2 * t3 <= 2 * t2 + c /\ 2 * t2 <= 2 * t3 + c
    BY <1>1, <1>4, Rounded
  <1> HIDE DEF t3
  <1>6. 2 * t3 <= 2 * t + (a + b + c) /\ 2 * t <= 2 * t3 + (a + b + c)
    BY <1>1, <1>3, <1>4, <1>5
  <1> QED
    BY <1>1, <1>2, <1>5, <1>6

-----------------------------------------------------------------------------
(* Sorting.                                                                 *)

\* The entries of s that are at most v, or below v.
AtMost(s, v) == {i \in DOMAIN s : s[i] <= v}
Below(s, v) == {i \in DOMAIN s : s[i] < v}
NoLess(s, v) == {i \in DOMAIN s : s[i] >= v}

\* The places of a sequence.
LEMMA PlacesFinite ==
    ASSUME NEW m \in Nat
    PROVE  IsFiniteSet(1..m) /\ Cardinality(1..m) = m
  <1>1. IsFiniteSet(1..m) /\ Cardinality(1..m) = IF 1 > m THEN 0 ELSE m - 1 + 1
    BY FS_Interval
  <1>2. (IF 1 > m THEN 0 ELSE m - 1 + 1) = m
    OBVIOUS
  <1> QED
    BY <1>1, <1>2

\* The entries of s that are below v and the others are all of them.
LEMMA Places ==
    ASSUME NEW s \in Seq(Nat), NEW v \in Nat
    PROVE  /\ DOMAIN s = 1..Len(s) /\ Len(s) \in Nat
           /\ IsFiniteSet(AtMost(s, v)) /\ IsFiniteSet(Below(s, v)) /\ IsFiniteSet(NoLess(s, v))
           /\ Cardinality(AtMost(s, v)) \in Nat /\ Cardinality(Below(s, v)) \in Nat
           /\ Cardinality(Below(s, v)) + Cardinality(NoLess(s, v)) = Len(s)
           /\ Cardinality(NoLess(s, v)) \in Nat
  <1>1. DOMAIN s = 1..Len(s) /\ Len(s) \in Nat
    OBVIOUS
  <1>2. IsFiniteSet(DOMAIN s) /\ Cardinality(DOMAIN s) = Len(s)
    BY <1>1, PlacesFinite
  <1>3. /\ AtMost(s, v) \subseteq DOMAIN s /\ Below(s, v) \subseteq DOMAIN s
        /\ NoLess(s, v) \subseteq DOMAIN s
    BY DEF AtMost, Below, NoLess
  <1>4. IsFiniteSet(AtMost(s, v)) /\ IsFiniteSet(Below(s, v)) /\ IsFiniteSet(NoLess(s, v))
    BY <1>2, <1>3, FS_Subset
  <1>5. Below(s, v) \cup NoLess(s, v) = DOMAIN s /\ Below(s, v) \cap NoLess(s, v) = {}
    BY <1>1 DEF Below, NoLess
  <1>6. Cardinality(DOMAIN s) = Cardinality(Below(s, v)) + Cardinality(NoLess(s, v))
                                - Cardinality({})
    BY <1>4, <1>5, FS_Union
  <1>7. Cardinality({}) = 0
    BY FS_EmptySet
  <1>8. /\ Cardinality(AtMost(s, v)) \in Nat /\ Cardinality(Below(s, v)) \in Nat
        /\ Cardinality(NoLess(s, v)) \in Nat
    BY <1>4, FS_CardinalityType
  <1> QED
    BY <1>1, <1>2, <1>4, <1>6, <1>7, <1>8

\* The greatest member of a set of numbers with a bound.
LEMMA GreatestNat ==
    ASSUME NEW T \in SUBSET Nat, T # {}, NEW b \in Nat, \A x \in T : x <= b
    PROVE  \E m \in T : \A x \in T : x <= m
  <1> DEFINE U == {b - x : x \in T}
  <1>1. U \in SUBSET Nat /\ U # {}
    <2>1. \A x \in T : b - x \in Nat
      OBVIOUS
    <2> QED
      BY <2>1
  <1>2. PICK u \in U : \A y \in U : u <= y
    BY <1>1, LeastNat
  <1>3. PICK m \in T : u = b - m
    BY <1>2
  <1>4. \A x \in T : b - m <= b - x
    BY <1>2, <1>3
  <1>5. \A x \in T : x \in Nat /\ m \in Nat
    OBVIOUS
  <1>6. \A x \in T : x <= m
    <2> HIDE DEF U
    <2> QED
      BY <1>4, <1>5
  <1> QED
    BY <1>6

\* What qsort leaves at place k.
LEMMA Sorted ==
    ASSUME NEW s \in Seq(Nat), NEW k \in 1..Len(s)
    PROVE  LET v == SortLatencies(s)[k] IN
           /\ \E i \in DOMAIN s : v = s[i]
           /\ v \in Nat
           /\ Cardinality(AtMost(s, v)) >= k
           /\ Cardinality(Below(s, v)) < k
  <1> DEFINE Entries == {s[i] : i \in DOMAIN s}
             T == {v \in Entries : Cardinality(AtMost(s, v)) >= k}
             v == SortLatencies(s)[k]
  <1>1. DOMAIN s = 1..Len(s) /\ Len(s) \in Nat /\ Entries \in SUBSET Nat /\ Entries # {}
    <2>1. DOMAIN s = 1..Len(s) /\ Len(s) \in Nat /\ \A i \in 1..Len(s) : s[i] \in Nat
      OBVIOUS
    <2>2. s[k] \in Entries
      BY <2>1
    <2>3. \A x \in Entries : x \in Nat
      BY <2>1
    <2> HIDE DEF Entries
    <2> QED
      BY <2>1, <2>2, <2>3
  <1>2. PICK top \in Entries : \A x \in Entries : x <= top
    <2>2. \E b \in Nat : \A x \in Entries : x <= b
      <3> DEFINE N == {j \in Nat : j <= Len(s) =>
                        \E b \in Nat : \A i \in 1..j : s[i] <= b}
      <3>1. 0 \in N
        OBVIOUS
      <3>2. ASSUME NEW j \in Nat, j \in N PROVE j + 1 \in N
        <4> SUFFICES ASSUME j + 1 <= Len(s)
                     PROVE  \E b \in Nat : \A i \in 1..(j + 1) : s[i] <= b
          OBVIOUS
        <4>1. PICK b \in Nat : \A i \in 1..j : s[i] <= b
          BY <3>2
        <4>2. s[j + 1] \in Nat /\ \A i \in 1..j : s[i] \in Nat
          OBVIOUS
        <4>3. \A i \in 1..(j + 1) : i \in 1..j \/ i = j + 1
          OBVIOUS
        <4>4. \A i \in 1..(j + 1) : s[i] <= b + s[j + 1]
          <5> SUFFICES ASSUME NEW i \in 1..(j + 1) PROVE s[i] <= b + s[j + 1]
            OBVIOUS
          <5>1. CASE i \in 1..j
            <6>1. s[i] <= b /\ s[i] \in Nat
              BY <4>1, <4>2, <5>1
            <6> QED
              BY <4>2, <6>1
          <5>2. CASE i = j + 1
            BY <4>2, <5>2
          <5> QED
            BY <4>3, <5>1, <5>2
        <4>5. b + s[j + 1] \in Nat
          BY <4>2
        <4> QED
          BY <4>4, <4>5
      <3>3. \A j \in Nat : j \in N
        <4> HIDE DEF N
        <4> QED
          BY <3>1, <3>2, AllNat
      <3>4. Len(s) \in N
        BY <1>1, <3>3
      <3> QED
        BY <1>1, <3>4
    <2> HIDE DEF Entries
    <2> QED
      BY <1>1, <2>2, GreatestNat
  <1>3. top \in T
    <2>1. AtMost(s, top) = DOMAIN s
      BY <1>2 DEF AtMost
    <2>2. Cardinality(DOMAIN s) = Len(s)
      BY <1>1, PlacesFinite
    <2> QED
      BY <1>2, <2>1, <2>2
  <1>4. v = Min(T)
    BY <1>1 DEF SortLatencies, AtMost
  <1>5. \E m \in T : \A x \in T : m <= x
    <2>1. T \in SUBSET Nat /\ T # {}
      BY <1>1, <1>3
    <2> HIDE DEF T
    <2> QED
      BY <2>1, LeastNat
  <1>6. v \in T /\ \A x \in T : v <= x
    <2> HIDE DEF T, v
    <2> QED
      BY <1>4, <1>5 DEF Min
  <1>7. v \in Nat /\ (\E i \in DOMAIN s : v = s[i]) /\ Cardinality(AtMost(s, v)) >= k
    <2> HIDE DEF v
    <2> QED
      BY <1>1, <1>6
  <1>8. Cardinality(Below(s, v)) < k
    <2> SUFFICES ASSUME ~(Cardinality(Below(s, v)) < k) PROVE FALSE
      OBVIOUS
    <2> DEFINE L == {x \in Entries : x < v}
    <2> HIDE DEF v
    <2>1. Below(s, v) # {} /\ Cardinality(Below(s, v)) >= k
      <3>1. Cardinality(Below(s, v)) \in Nat
        BY <1>7, Places
      <3>2. Cardinality(Below(s, v)) >= k /\ Cardinality(Below(s, v)) # 0
        BY <3>1
      <3>3. Below(s, v) = {} => Cardinality(Below(s, v)) = 0
        BY FS_EmptySet
      <3> QED
        BY <3>2, <3>3
    <2>2. L \in SUBSET Nat /\ L # {} /\ \A x \in L : x <= v
      <3>1. PICK i \in DOMAIN s : s[i] < v
        BY <2>1 DEF Below
      <3>2. s[i] \in L
        BY <3>1
      <3>3. L \subseteq Entries /\ \A x \in L : x < v
        OBVIOUS
      <3> HIDE DEF L, Entries
      <3>4. \A x \in L : x \in Nat /\ x <= v
        BY <1>1, <1>7, <3>3
      <3> QED
        BY <3>2, <3>4
    <2>3. PICK u \in L : \A x \in L : x <= u
      <3> HIDE DEF L
      <3> QED
        BY <1>7, <2>2, GreatestNat
    <2>4. AtMost(s, u) = Below(s, v)
      <3>1. u < v /\ u \in Nat /\ \A i \in DOMAIN s : s[i] \in Nat /\ s[i] \in Entries
        BY <1>1, <2>3
      <3>2. \A i \in DOMAIN s : s[i] < v => s[i] <= u
        BY <2>3
      <3>3. \A i \in DOMAIN s : s[i] <= u => s[i] < v
        BY <1>7, <3>1
      <3> HIDE DEF Entries, L
      <3> QED
        BY <3>2, <3>3 DEF AtMost, Below
    <2>5. u \in T /\ u < v /\ u \in Nat
      BY <1>1, <2>1, <2>3, <2>4
    <2> HIDE DEF T, L
    <2> QED
      BY <1>6, <1>7, <2>5
  <1> HIDE DEF v
  <1> QED
    BY <1>7, <1>8 DEF v

-----------------------------------------------------------------------------
(* The state.                                                               *)

Total == params.repeat

\* The slots that have their stamps, and those the report has read.
Stamped == IF pc = "slots" THEN n - 1 ELSE Total
Read == IF pc = "slots" THEN 0 ELSE IF pc = "report" THEN n - 1 ELSE Total

TypeOK ==
    /\ params \in ParamSet /\ Timed(params)
    /\ pc \in {"slots", "report", "done"}
    /\ n \in 1..(Total + 1)
    /\ now \in Nat /\ target \in Nat
    /\ start \in Seq(Nat) /\ Len(start) = Stamped
    /\ end \in Seq(Nat) /\ Len(end) = Stamped
    /\ busy \in Seq(Nat) /\ Len(busy) = Stamped

\* No slot ends before it starts, or takes longer than the initial minimum.
Stamps == \A k \in 1..Stamped : start[k] <= end[k] /\ end[k] - start[k] < DBL_MAX

\* The clock is at the end of the latest slot, the target in step with n.
Clock ==
    /\ now = IF Stamped = 0 THEN params.begin ELSE end[Stamped]
    /\ pc = "slots" => target = params.begin + (n - 1) * params.interval

\* When slot k would end, on the time lost in each slot so far.
ChainOf(p, lost, j, k) == p.begin + j * p.interval + SumOver(lost, j..k)

Schedule ==
    pc = "slots" /\ Stamped # 0 =>
        /\ \A j \in 1..Stamped : ChainOf(params, busy, j, Stamped) <= end[Stamped]
        /\ \E j \in 1..Stamped : ChainOf(params, busy, j, Stamped) = end[Stamped]

SlotInv == TypeOK /\ Stamps /\ Clock /\ Schedule

\* One slot more pushes the end of every chain back by the time it lost.
LEMMA Lost ==
    ASSUME NEW lost \in Seq(Nat), NEW x \in Nat, params \in ParamSet
    PROVE  LET longer == Append(lost, x)
               m == Len(lost)
           IN /\ \A j \in 1..m : /\ ChainOf(params, longer, j, m + 1) = ChainOf(params, lost, j, m) + x
                                 /\ ChainOf(params, lost, j, m) \in Int
              /\ ChainOf(params, longer, m + 1, m + 1)
                 = params.begin + (m + 1) * params.interval + x
  <1> DEFINE longer == Append(lost, x)
             m == Len(lost)
  <1>1. m \in Nat /\ longer[m + 1] = x /\ \A k \in 1..m : longer[k] = lost[k] /\ lost[k] \in Nat
    OBVIOUS
  <1>2. params.begin \in Nat /\ params.interval \in Nat
    BY ParamAssumption DEF Timed
  <1> HIDE DEF longer, m
  <1>3. ASSUME NEW j \in 1..(m + 1)
        PROVE  /\ SumOver(longer, j..(m + 1)) = SumOver(longer, j..m) + x
               /\ SumOver(longer, j..m) \in Int
               /\ SumOver(longer, j..m) = SumOver(lost, j..m)
    <2>1. j \in Int /\ m \in Int /\ j <= m + 1
      BY <1>1
    <2>2. \A k \in j..(m + 1) : longer[k] \in Int
      <3>1. \A k \in j..(m + 1) : k \in 1..m \/ k = m + 1
        BY <1>1
      <3> QED
        BY <1>1, <3>1
    <2>3. /\ SumOver(longer, j..(m + 1)) = SumOver(longer, j..m) + longer[m + 1]
          /\ SumOver(longer, j..m) \in Int
      BY <2>1, <2>2, SumNext
    <2>4. SumOver(longer, j..m) = SumOver(lost, j..m)
      <3>1. IsFiniteSet(j..m) /\ \A k \in j..m : longer[k] = lost[k]
        BY <1>1, <2>1, FS_Interval
      <3> QED
        BY <3>1, SumSame
    <2> QED
      BY <1>1, <2>3, <2>4
  <1>4. ASSUME NEW j \in 1..m
        PROVE  /\ ChainOf(params, longer, j, m + 1) = ChainOf(params, lost, j, m) + x
               /\ ChainOf(params, lost, j, m) \in Int
    <2>1. j * params.interval \in Nat /\ j \in 1..(m + 1)
      BY <1>1, <1>2
    <2> DEFINE a == j * params.interval
               u == SumOver(lost, j..m)
               w == SumOver(longer, j..(m + 1))
    <2>2. u \in Int /\ w = u + x
      BY <1>3, <2>1
    <2> HIDE DEF a, u, w
    <2>3. a \in Nat /\ params.begin \in Nat
      BY <1>2, <2>1 DEF a
    <2>4. \A b, c \in Nat : b + c + (u + x) = b + c + u + x /\ b + c + u \in Int
      BY <2>2
    <2>5. params.begin + a + w = params.begin + a + u + x /\ params.begin + a + u \in Int
      BY <2>2, <2>3, <2>4
    <2> QED
      BY <2>5 DEF ChainOf, a, u, w
  <1>5. ChainOf(params, longer, m + 1, m + 1) = params.begin + (m + 1) * params.interval + x
    <2>1. m + 1 \in 1..(m + 1)
      BY <1>1
    <2>2. SumOver(longer, (m + 1)..(m + 1)) = SumOver(longer, (m + 1)..m) + x
      BY <1>3, <2>1
    <2>3. (m + 1)..m = {}
      BY <1>1
    <2>4. SumOver(longer, {}) = 0
      BY SumPick, FS_EmptySet
    <2>5. SumOver(longer, (m + 1)..m) = 0
      BY <2>3, <2>4
    <2>6. SumOver(longer, (m + 1)..(m + 1)) = x
      BY <2>2, <2>5
    <2> QED
      BY <2>6 DEF ChainOf
  <1> QED
    BY <1>4, <1>5 DEF longer, m

\* The clock before the first slot.
LEMMA InitSlots == Init => SlotInv
  <1> SUFFICES ASSUME Init PROVE SlotInv
    OBVIOUS
  <1>1. Timed(params) /\ params \in ParamSet
    BY ParamAssumption DEF Init
  <1>2. n = 1 /\ pc = "slots" /\ Stamped = 0 /\ params.repeat \in Nat \ {0}
        /\ params.begin \in Nat /\ params.interval \in Nat
    BY <1>1 DEF Init, Stamped, Timed
  <1>3. TypeOK
    BY <1>1, <1>2 DEF TypeOK, Init, Total
  <1>4. Clock
    BY <1>2 DEF Clock, Init
  <1>5. Stamps /\ Schedule
    BY <1>2 DEF Stamps, Schedule
  <1> QED
    BY <1>3, <1>4, <1>5 DEF SlotInv

\* A slot starts at its target or behind the one before it, whichever is later:
\* the latest end is again that of the longest chain.
LEMMA SlotKeeps == SlotInv /\ Slot => SlotInv'
  <1> SUFFICES ASSUME SlotInv, Slot PROVE SlotInv'
    OBVIOUS
  <1> USE DEF SlotInv
  <1> DEFINE m == n - 1
  <1>1. PICK l \in params.late, w \in params.work[n] :
          LET s == Later(now, NextTarget) + l IN
          /\ start' = Append(start, s) /\ end' = Append(end, s + w)
          /\ busy' = Append(busy, l + w) /\ now' = s + w
    BY DEF Slot
  <1> DEFINE s == Later(now, NextTarget) + l
  <1>2. /\ pc = "slots" /\ n <= params.repeat /\ pc' = pc /\ n' = n + 1
        /\ target' = NextTarget /\ params' = params
    BY DEF Slot
  <1>3. /\ params.repeat \in Nat \ {0} /\ params.begin \in Nat /\ params.interval \in Nat
        /\ params.late \subseteq Nat /\ params.work \in [1..params.repeat -> SUBSET Nat]
        /\ \A i \in 1..params.repeat : \A x \in params.work[i] : x < DBL_MAX
        /\ DBL_MAX \in Nat
    BY ClockAssumption DEF TypeOK, Timed
  <1>4. n \in 1..(params.repeat + 1) /\ n \in 1..params.repeat
    BY <1>2, <1>3 DEF TypeOK, Total
  <1>5. l \in Nat /\ w \in Nat /\ w < DBL_MAX
    BY <1>3, <1>4
  <1>6. /\ NextTarget \in Nat /\ NextTarget = params.begin + n * params.interval
        /\ now \in Nat /\ target \in Nat
    <2>1. target = params.begin + (n - 1) * params.interval /\ target \in Nat /\ now \in Nat
      BY <1>2 DEF TypeOK, Clock
    <2>2. (n - 1) * params.interval + params.interval = n * params.interval
          /\ (n - 1) * params.interval \in Nat
      BY <1>3, <1>4
    <2> DEFINE a == (n - 1) * params.interval
               b == n * params.interval
    <2> HIDE DEF a, b
    <2>3. target + params.interval = params.begin + b
      BY <1>3, <2>1, <2>2 DEF a, b
    <2> QED
      BY <1>3, <2>1, <2>3 DEF NextTarget, b
  <1>7. s \in Nat /\ s + w \in Nat /\ l + w \in Nat /\ s <= s + w /\ (s + w) - s < DBL_MAX
    <2>1. s \in Nat
      BY <1>5, <1>6 DEF Later
    <2> HIDE DEF s
    <2> QED
      BY <1>3, <1>5, <2>1
  <1>8. Stamped = m /\ Stamped' = n /\ m \in Nat /\ n = m + 1
    BY <1>2, <1>4 DEF Stamped
  <1>9. /\ start \in Seq(Nat) /\ Len(start) = m /\ end \in Seq(Nat) /\ Len(end) = m
        /\ busy \in Seq(Nat) /\ Len(busy) = m
    BY <1>8 DEF TypeOK
  <1> HIDE DEF s
  <1>10. /\ start' = Append(start, s) /\ end' = Append(end, s + w)
         /\ busy' = Append(busy, l + w) /\ now' = s + w
    BY <1>1 DEF s
  <1>11. /\ end'[n] = s + w /\ start'[n] = s
         /\ \A k \in 1..m : end'[k] = end[k] /\ start'[k] = start[k]
         /\ start' \in Seq(Nat) /\ Len(start') = n /\ end' \in Seq(Nat) /\ Len(end') = n
         /\ busy' \in Seq(Nat) /\ Len(busy') = n
    BY <1>7, <1>8, <1>9, <1>10
  <1>12. TypeOK'
    <2>1. n' \in 1..(params'.repeat + 1)
      BY <1>2, <1>3, <1>4
    <2> QED
      BY <1>2, <1>6, <1>7, <1>8, <1>10, <1>11, <2>1 DEF TypeOK, Total
  <1>13. Stamps'
    <2> SUFFICES ASSUME NEW k \in 1..n
                 PROVE  start'[k] <= end'[k] /\ end'[k] - start'[k] < DBL_MAX
      BY <1>8 DEF Stamps
    <2>1. CASE k = n
      BY <1>7, <1>11, <2>1
    <2>2. CASE k # n
      <3>1. k \in 1..m
        BY <1>8, <2>2
      <3> QED
        BY <1>8, <1>11, <3>1 DEF Stamps
    <2> QED
      BY <2>1, <2>2
  <1>14. Clock'
    <2>1. now' = end'[n] /\ n # 0
      BY <1>4, <1>10, <1>11
    <2>2. target' = params'.begin + (n' - 1) * params'.interval
      <3>1. n' - 1 = n
        BY <1>2, <1>4
      <3> QED
        BY <1>2, <1>6, <3>1
    <2> QED
      BY <1>8, <2>1, <2>2 DEF Clock
  <1>15. Schedule'
    <2> DEFINE x == l + w
               end0 == IF m = 0 THEN params.begin ELSE end[m]
               own == params.begin + n * params.interval
    <2>1. s = Later(end0, own) + l /\ now = end0
      BY <1>2, <1>6, <1>8 DEF Clock, s
    <2>2. end0 \in Nat /\ own \in Nat
      BY <1>6, <2>1
    <2>3. /\ \A j \in 1..m : /\ ChainOf(params, busy', j, n) = ChainOf(params, busy, j, m) + x
                             /\ ChainOf(params, busy, j, m) \in Int
          /\ ChainOf(params, busy', n, n) = own + x
      <3>1. params \in ParamSet /\ x \in Nat /\ busy' = Append(busy, x) /\ busy \in Seq(Nat)
            /\ Len(busy) = m /\ n = m + 1
        BY <1>7, <1>8, <1>9, <1>10 DEF TypeOK
      <3> HIDE DEF m, x
      <3>2. /\ \A j \in 1..m : /\ ChainOf(params, Append(busy, x), j, m + 1) = ChainOf(params, busy, j, m) + x
                               /\ ChainOf(params, busy, j, m) \in Int
            /\ ChainOf(params, Append(busy, x), m + 1, m + 1) = params.begin + (m + 1) * params.interval + x
        BY <3>1, Lost
      <3> QED
        BY <3>1, <3>2
    <2>4. s + w = Later(end0, own) + x
      <3>1. Later(end0, own) \in Nat
        BY <2>2 DEF Later
      <3> HIDE DEF end0, own
      <3> QED
        BY <1>5, <2>1, <3>1
    <2> HIDE DEF end0, own, x
    <2>5. m # 0 => /\ \A j \in 1..m : ChainOf(params, busy, j, m) <= end0
                   /\ \E j \in 1..m : ChainOf(params, busy, j, m) = end0
      BY <1>2, <1>8 DEF Schedule, end0
    <2>6. m = 0 => end0 <= own
      BY <1>3, <1>4, <1>8 DEF end0, own
    <2>7. x \in Nat
      BY <1>7 DEF x
    <2>8. \A j \in 1..n : j \in 1..m \/ j = n
      BY <1>8
    <2>9. n \in 1..n /\ \A j \in 1..m : j \in 1..n
      BY <1>8
    <2>10. \A j \in 1..n : ChainOf(params, busy', j, n) <= s + w
      <3>1. ASSUME NEW j \in 1..m PROVE ChainOf(params, busy', j, n) <= s + w
        <4>1. m # 0
          BY <1>8
        <4> QED
          BY <2>2, <2>3, <2>4, <2>5, <2>7, <4>1 DEF Later
      <3>2. ChainOf(params, busy', n, n) <= s + w
        BY <2>2, <2>3, <2>4, <2>7 DEF Later
      <3> QED
        BY <2>8, <3>1, <3>2
    <2>11. \E j \in 1..n : ChainOf(params, busy', j, n) = s + w
      <3>1. CASE m # 0 /\ ~(end0 < own)
        <4>1. PICK j \in 1..m : ChainOf(params, busy, j, m) = end0
          BY <2>5, <3>1
        <4>2. ChainOf(params, busy', j, n) = s + w
          BY <2>2, <2>3, <2>4, <2>7, <3>1, <4>1 DEF Later
        <4> QED
          BY <2>9, <4>1, <4>2
      <3>2. CASE m = 0 \/ end0 < own
        <4>1. Later(end0, own) = own
          BY <2>2, <2>6, <3>2 DEF Later
        <4>2. ChainOf(params, busy', n, n) = s + w
          BY <2>3, <2>4, <4>1
        <4> QED
          BY <2>9, <4>2
      <3> QED
        BY <3>1, <3>2
    <2> QED
      BY <1>2, <1>8, <1>11, <2>10, <2>11 DEF Schedule
  <1> QED
    BY <1>12, <1>13, <1>14, <1>15

\* The report leaves the stamps alone.
LEMMA ReportKeepsSlots == SlotInv /\ (SlotsDone \/ ReportNext \/ ReportDone) => SlotInv'
  <1> SUFFICES ASSUME SlotInv, SlotsDone \/ ReportNext \/ ReportDone PROVE SlotInv'
    OBVIOUS
  <1> USE DEF SlotInv
  <1>1. /\ UNCHANGED <<params, now, target, start, end, busy>>
        /\ n' \in 1..(Total + 1) /\ pc' \in {"report", "done"}
        /\ Stamped = params.repeat /\ Stamped' = params.repeat /\ params.repeat \in Nat \ {0}
    <2>1. params.repeat \in Nat \ {0} /\ n \in 1..(params.repeat + 1)
      BY DEF TypeOK, Timed, Total
    <2>2. CASE SlotsDone
      BY <2>1, <2>2 DEF SlotsDone, stamps, Stamped, Total
    <2>3. CASE ReportNext
      BY <2>1, <2>3 DEF ReportNext, stamps, Stamped, Total
    <2>4. CASE ReportDone
      BY <2>1, <2>4 DEF ReportDone, stamps, Stamped, Total
    <2> QED
      BY <2>2, <2>3, <2>4
  <1>2. TypeOK'
    BY <1>1 DEF TypeOK, Total
  <1>3. Stamps' /\ Clock' /\ Schedule'
    BY <1>1 DEF Stamps, Clock, Schedule
  <1> QED
    BY <1>2, <1>3

\* The clock and the stamps, in every reachable state.
THEOREM SlotsInductive == Spec => []SlotInv
  <1>1. SlotInv /\ [Next]_vars => SlotInv'
    <2> SUFFICES ASSUME SlotInv, [Next]_vars PROVE SlotInv'
      OBVIOUS
    <2>1. CASE Next
      BY <2>1, SlotKeeps, ReportKeepsSlots DEF Next
    <2>2. CASE UNCHANGED vars
      BY <2>2 DEF vars, stamps, SlotInv, TypeOK, Stamps, Clock, Schedule, Stamped, Total
    <2> QED
      BY <2>1, <2>2
  <1> QED
    BY <1>1, InitSlots, PTL DEF Spec

\* The slots do not drift: target += SLOT_NS from the first target, and a wait
\* that returns at once when the target has passed, make OnSchedule an invariant
\* for every interval, number of slots and duration.
THEOREM SlotTimingOnSchedule == Spec => []OnSchedule
  <1>1. SlotInv => OnSchedule
    <2> SUFFICES ASSUME SlotInv, pc = "slots", end # << >>
                 PROVE  end[Len(end)] = Max({Chain(j, Len(end)) : j \in 1..Len(end)})
      BY DEF OnSchedule
    <2> DEFINE m == Len(end)
               S == {Chain(j, m) : j \in 1..m}
    <2>1. m \in Nat \ {0} /\ Stamped = m /\ end[m] \in Nat
      <3>1. end \in Seq(Nat) /\ Stamped = Len(end)
        BY DEF SlotInv, TypeOK
      <3> QED
        BY <3>1
    <2>2. \A j : Chain(j, m) = ChainOf(params, busy, j, m)
      BY DEF Chain, ChainOf, SumOver
    <2> HIDE DEF m
    <2>3. /\ \A j \in 1..m : Chain(j, m) <= end[m]
          /\ \E j \in 1..m : Chain(j, m) = end[m]
      BY <2>1, <2>2 DEF SlotInv, Schedule
    <2>4. end[m] \in S /\ \A x \in S : end[m] >= x
      BY <2>1, <2>3
    <2>5. \A x \in S : (\A y \in S : x >= y) => x = end[m]
      <3> SUFFICES ASSUME NEW j \in 1..m, Chain(j, m) >= end[m]
                   PROVE  Chain(j, m) = end[m]
        BY <2>4
      <3>1. Chain(j, m) \in Int
        <4>1. IsFiniteSet(j..m) /\ \A k \in j..m : busy[k] \in Int
          <5>1. j \in Int /\ m \in Int /\ busy \in Seq(Nat) /\ Len(busy) = m
            BY <2>1 DEF SlotInv, TypeOK
          <5>2. \A k \in j..m : k \in 1..m
            BY <5>1
          <5>3. \A k \in 1..m : busy[k] \in Nat
            BY <5>1
          <5>4. IsFiniteSet(j..m)
            BY <5>1, FS_Interval
          <5> QED
            BY <5>2, <5>3, <5>4
        <4>2. SumOver(busy, j..m) \in Int
          BY <4>1, SumInt
        <4>3. params.begin \in Nat /\ params.interval \in Nat
          BY DEF SlotInv, TypeOK, Timed
        <4>4. j * params.interval \in Int
          BY <4>3
        <4> QED
          BY <2>2, <4>2, <4>3, <4>4 DEF ChainOf
      <3> QED
        BY <2>1, <2>3, <3>1
    <2> HIDE DEF S
    <2>6. Max(S) \in S /\ \A y \in S : Max(S) >= y
      BY <2>4 DEF Max
    <2> QED
      BY <2>5, <2>6 DEF S, m
  <1> QED
    BY <1>1, SlotsInductive, PTL

-----------------------------------------------------------------------------
(* The report.                                                              *)

Counted(m) == {k \in 1..m : InUptime(k)}

\* What the report has accumulated from the first m slots.
Accumulated(m) ==
    /\ latencies \in Seq(Nat) /\ Len(latencies) = m
    /\ \A k \in 1..m : latencies[k] = Lengths[k]
    /\ sum = SumOver(Lengths, 1..m)
    /\ finished_count = Cardinality(Counted(m))
    /\ min \in Nat /\ max \in Nat
    /\ IF m = 0 THEN min = DBL_MAX /\ max = 0
       ELSE /\ \A k \in 1..m : min <= Lengths[k] /\ Lengths[k] <= max
            /\ \E k \in 1..m : min = Lengths[k]
            /\ \E k \in 1..m : max = Lengths[k]

\* The report is right, about a report r.
Right(r) ==
    /\ r.min = Min(Measured) /\ r.max = Max(Measured)
    /\ r.sum = SumOver(Lengths, 1..Total)
    /\ IsPercentile(r.median, 50)
    /\ IsPercentile(r.percent90, 90) /\ IsPercentile(r.percent99, 99)
    /\ Within(DCCS_CYCLE_UPTIME - Tolerance) <= r.finished
    /\ r.finished <= Within(DCCS_CYCLE_UPTIME + Tolerance)

Printed == [median    |-> Percent(SortLatencies(latencies), 50),
            percent90 |-> Percent(SortLatencies(latencies), 90),
            percent99 |-> Percent(SortLatencies(latencies), 99),
            min |-> min, max |-> max, sum |-> sum, finished |-> finished_count]

\* The measured latencies are naturals below the initial minimum.
LEMMA LengthsAre ==
    ASSUME SlotInv
    PROVE  /\ Total \in Nat \ {0} /\ DBL_MAX \in Nat
           /\ \A k \in 1..Total : Lengths[k] = Latency(k)
           /\ \A k \in 1..Stamped : /\ k \in 1..Total /\ Lengths[k] \in Nat
                                    /\ Lengths[k] < DBL_MAX
                                    /\ start[k] \in Nat /\ end[k] \in Nat
  <1>1. Total \in Nat \ {0} /\ DBL_MAX \in Nat
    BY ClockAssumption DEF SlotInv, TypeOK, Timed, Total
  <1>2. \A k \in 1..Total : Lengths[k] = Latency(k)
    BY DEF Lengths, Total
  <1>3. ASSUME NEW k \in 1..Stamped
        PROVE  /\ k \in 1..Total /\ Lengths[k] \in Nat /\ Lengths[k] < DBL_MAX
               /\ start[k] \in Nat /\ end[k] \in Nat
    <2>1. k \in 1..Total
      BY <1>1 DEF SlotInv, TypeOK, Stamped
    <2>2. start[k] \in Nat /\ end[k] \in Nat
      BY DEF SlotInv, TypeOK
    <2>3. start[k] <= end[k] /\ end[k] - start[k] < DBL_MAX
      BY DEF SlotInv, Stamps
    <2> QED
      BY <1>1, <1>2, <2>1, <2>2, <2>3 DEF Latency
  <1> QED
    BY <1>1, <1>2, <1>3

\* What the loop kept is the least and the greatest latency.
LEMMA ExtremesRight ==
    ASSUME SlotInv, pc = "report", Accumulated(Total)
    PROVE  min = Min(Measured) /\ max = Max(Measured)
  <1>1. Total \in Nat \ {0} /\ Measured = {Lengths[k] : k \in 1..Total}
        /\ \A k \in 1..Total : Lengths[k] \in Nat
    BY LengthsAre DEF Measured, Total, Stamped
  <1>2. /\ min \in Measured /\ max \in Measured
        /\ \A x \in Measured : x \in Nat /\ min <= x /\ x <= max
    BY <1>1 DEF Accumulated
  <1> HIDE DEF Measured
  <1>3. /\ Min(Measured) \in Measured /\ \A x \in Measured : Min(Measured) <= x
        /\ Max(Measured) \in Measured /\ \A x \in Measured : Max(Measured) >= x
    <2>1. Min(Measured) \in Measured /\ \A x \in Measured : Min(Measured) <= x
      BY <1>2 DEF Min
    <2>2. \E y \in Measured : \A x \in Measured : y >= x
      BY <1>2
    <2>3. Max(Measured) \in Measured /\ \A x \in Measured : Max(Measured) >= x
      BY <2>2 DEF Max
    <2> QED
      BY <2>1, <2>3
  <1>4. Min(Measured) \in Nat /\ Max(Measured) \in Nat /\ min \in Nat /\ max \in Nat
    BY <1>2, <1>3
  <1>5. min <= Min(Measured) /\ Min(Measured) <= min /\ max <= Max(Measured) /\ Max(Measured) <= max
    BY <1>2, <1>3, <1>4
  <1> QED
    BY <1>4, <1>5

\* The place of a percentile.
LEMMA PlaceOf ==
    ASSUME NEW m \in Nat \ {0}, NEW percent \in 0..99
    PROVE  LET k == (m * percent) \div 100 + 1
           IN  /\ k \in 1..m /\ 100 * k > percent * m
               /\ 100 * (m - k + 1) >= (100 - percent) * m
  <1> DEFINE a == m * percent
             q == a \div 100
  <1>1. a \in Nat /\ a = percent * m /\ (100 - percent) * m = 100 * m - a /\ a < 100 * m
    <2>1. (100 - percent) * m = 100 * m - percent * m /\ a = percent * m /\ a \in Nat
      OBVIOUS
    <2>2. (100 - percent) * m > 0
      OBVIOUS
    <2> HIDE DEF a
    <2> QED
      BY <2>1, <2>2
  <1> HIDE DEF a
  <1>2. q \in Nat /\ 100 * q <= a /\ a < 100 * (q + 1)
    BY <1>1
  <1> HIDE DEF q
  <1>3. q + 1 \in 1..m /\ 100 * (q + 1) > a /\ 100 * (m - (q + 1) + 1) >= 100 * m - a
    BY <1>1, <1>2
  <1> QED
    BY <1>1, <1>3 DEF q, a

\* The entry of the sorted latencies at the place of a percentile is one.
LEMMA PercentileRight ==
    ASSUME SlotInv, pc = "report", Accumulated(Total), NEW percent \in 0..99
    PROVE  IsPercentile(Percent(SortLatencies(latencies), percent), percent)
  <1> DEFINE s == latencies
             t == SortLatencies(s)
             k == (Total * percent) \div 100 + 1
             v == t[k]
  <1>1. Total \in Nat \ {0} /\ s \in Seq(Nat) /\ Len(s) = Total /\ DOMAIN s = 1..Total
        /\ (\A i \in 1..Total : s[i] = Lengths[i] /\ Lengths[i] = Latency(i))
    BY LengthsAre DEF Accumulated
  <1>2. /\ k \in 1..Total /\ 100 * k > percent * Total
        /\ 100 * (Total - k + 1) >= (100 - percent) * Total
    BY <1>1, PlaceOf
  <1> HIDE DEF s, t, k
  <1>3. Percent(t, percent) = v
    <2>1. Len(t) = Total
      <3>1. t = [i \in 1..Total |-> Min({x \in {s[j] : j \in 1..Total} :
                                         Cardinality({j \in 1..Total : s[j] <= x}) >= i})]
        BY <1>1 DEF SortLatencies, t
      <3> QED
        BY <1>1, <3>1
    <2> QED
      BY <2>1 DEF Percent, k
  <1>4. /\ \E i \in DOMAIN s : v = s[i]
        /\ v \in Nat
        /\ Cardinality(AtMost(s, v)) >= k
        /\ Cardinality(Below(s, v)) < k
    BY <1>1, <1>2, Sorted DEF t
  <1> HIDE DEF v
  <1>5. v \in Measured
    BY <1>1, <1>4 DEF Measured, Total
  <1>6. Count(LAMBDA i : Latency(i) <= v) = Cardinality(AtMost(s, v))
    <2>1. AtMost(s, v) = {i \in 1..Total : Latency(i) <= v}
      BY <1>1 DEF AtMost
    <2> QED
      BY <2>1 DEF Count, Total
  <1>7. Count(LAMBDA i : Latency(i) >= v) = Cardinality(NoLess(s, v))
    <2>1. NoLess(s, v) = {i \in 1..Total : Latency(i) >= v}
      BY <1>1 DEF NoLess
    <2> QED
      BY <2>1 DEF Count, Total
  <1>8. /\ Cardinality(AtMost(s, v)) \in Nat /\ Cardinality(Below(s, v)) \in Nat
        /\ Cardinality(Below(s, v)) + Cardinality(NoLess(s, v)) = Total
        /\ Cardinality(NoLess(s, v)) \in Nat
    BY <1>1, <1>4, Places
  <1>9. 100 * Cardinality(AtMost(s, v)) >= percent * Total
    <2>1. percent * Total \in Nat
      BY <1>1
    <2> QED
      BY <1>2, <1>4, <1>8, <2>1
  <1>10. 100 * Cardinality(NoLess(s, v)) >= (100 - percent) * Total
    <2>1. (100 - percent) * Total \in Nat
      BY <1>1
    <2>2. Cardinality(NoLess(s, v)) >= Total - k + 1
      BY <1>1, <1>2, <1>4, <1>8
    <2> QED
      BY <1>1, <1>2, <1>8, <2>1, <2>2
  <1> QED
    BY <1>3, <1>5, <1>6, <1>7, <1>9, <1>10 DEF IsPercentile, Total, t, s

\* A slot within the limit by rounded times is within it up to the rounding.
LEMMA FinishedRight ==
    ASSUME SlotInv, pc = "report", Accumulated(Total)
    PROVE  /\ Within(DCCS_CYCLE_UPTIME - Tolerance) <= finished_count
           /\ finished_count <= Within(DCCS_CYCLE_UPTIME + Tolerance)
  <1> DEFINE Ontime(d) == {k \in 1..Total : end[k] - start[1] <= d}
  <1>1. Total \in Nat \ {0} /\ DCCS_CYCLE_UPTIME \in Nat
        /\ start[1] \in Nat /\ \A k \in 1..Total : end[k] \in Nat
    BY LengthsAre, ClockAssumption DEF Stamped
  <1>2. \A d : Within(d) = Cardinality(Ontime(d))
    BY DEF Within, Count, Total
  <1>3. finished_count = Cardinality(Counted(Total))
    BY DEF Accumulated
  <1>4. ASSUME NEW k \in 1..Total
        PROVE  /\ end[k] - start[1] <= DCCS_CYCLE_UPTIME - Tolerance => InUptime(k)
               /\ InUptime(k) => end[k] - start[1] <= DCCS_CYCLE_UPTIME + Tolerance
    <2> DEFINE e == Micro(end[k])
               f == Micro(start[1])
    <2>1. /\ e \in Nat /\ Tolerance \in Nat /\ end[k] \in Nat
          /\ 2 * e <= 2 * end[k] + Tolerance /\ 2 * end[k] <= 2 * e + Tolerance
      BY <1>1, MicroNear
    <2>2. /\ f \in Nat /\ start[1] \in Nat
          /\ 2 * f <= 2 * start[1] + Tolerance /\ 2 * start[1] <= 2 * f + Tolerance
      BY <1>1, MicroNear
    <2>3. InUptime(k) <=> e - f <= DCCS_CYCLE_UPTIME
      BY DEF InUptime
    <2> HIDE DEF e, f
    <2> QED
      BY <1>1, <2>1, <2>2, <2>3
  <1>5. /\ Ontime(DCCS_CYCLE_UPTIME - Tolerance) \subseteq Counted(Total)
        /\ Counted(Total) \subseteq Ontime(DCCS_CYCLE_UPTIME + Tolerance)
        /\ Counted(Total) \subseteq 1..Total
        /\ Ontime(DCCS_CYCLE_UPTIME + Tolerance) \subseteq 1..Total
    BY <1>4 DEF Counted
  <1>6. /\ IsFiniteSet(Counted(Total)) /\ IsFiniteSet(Ontime(DCCS_CYCLE_UPTIME + Tolerance))
    <2>1. IsFiniteSet(1..Total)
      BY <1>1, PlacesFinite
    <2> HIDE DEF Ontime
    <2> QED
      BY <1>5, <2>1, FS_Subset
  <1> HIDE DEF Ontime
  <1>7. /\ Cardinality(Ontime(DCCS_CYCLE_UPTIME - Tolerance)) <= Cardinality(Counted(Total))
        /\ Cardinality(Counted(Total)) <= Cardinality(Ontime(DCCS_CYCLE_UPTIME + Tolerance))
    BY <1>5, <1>6, FS_Subset
  <1> QED
    BY <1>2, <1>3, <1>7

\* The line printed is right, for what the loop has accumulated.
LEMMA PrintedRight ==
    ASSUME SlotInv, pc = "report", Accumulated(Total)
    PROVE  Right(Printed)
  <1>1. /\ Printed.min = min /\ Printed.max = max /\ Printed.sum = sum
        /\ Printed.finished = finished_count
        /\ Printed.median = Percent(SortLatencies(latencies), 50)
        /\ Printed.percent90 = Percent(SortLatencies(latencies), 90)
        /\ Printed.percent99 = Percent(SortLatencies(latencies), 99)
    BY DEF Printed
  <1> HIDE DEF Printed
  <1>2. sum = SumOver(Lengths, 1..Total)
    BY DEF Accumulated
  <1>3. /\ IsPercentile(Printed.median, 50) /\ IsPercentile(Printed.percent90, 90)
        /\ IsPercentile(Printed.percent99, 99)
    <2>1. 50 \in 0..99 /\ 90 \in 0..99 /\ 99 \in 0..99
      OBVIOUS
    <2> QED
      BY <1>1, <2>1, PercentileRight
  <1> QED
    BY <1>1, <1>2, <1>3, ExtremesRight, FinishedRight DEF Right

ReportInv ==
    /\ SlotInv
    /\ pc # "done" => Accumulated(Read)
    /\ pc = "done" => Right(report[1])

NoneRead ==
    /\ latencies = << >> /\ sum = 0 /\ min = DBL_MAX /\ max = 0
    /\ finished_count = 0

\* Before the loop nothing is accumulated, and nothing else is accumulated from
\* no slots.
LEMMA NothingRead == NoneRead <=> Accumulated(0)
  <1> USE DEF NoneRead
  <1>1. 1..0 = {}
    OBVIOUS
  <1>2. SumOver(Lengths, 1..0) = 0
    BY <1>1, SumPick, FS_EmptySet
  <1>3. Counted(0) = {}
    BY <1>1 DEF Counted
  <1>4. Cardinality(Counted(0)) = 0
    BY <1>3, FS_EmptySet
  <1>5. latencies = << >> => /\ latencies \in Seq(Nat) /\ Len(latencies) = 0
                             /\ \A k \in 1..0 : latencies[k] = Lengths[k]
    BY <1>1
  <1>6. Accumulated(0) => latencies = << >>
    BY DEF Accumulated
  <1>7. Accumulated(0) => NoneRead
    BY <1>2, <1>4, <1>6 DEF Accumulated
  <1> QED
    BY <1>2, <1>4, <1>5, <1>7, ClockAssumption DEF Accumulated

\* The report before the first slot.
LEMMA InitReport == Init => ReportInv
  <1> SUFFICES ASSUME Init PROVE ReportInv
    OBVIOUS
  <1>1. Accumulated(0)
    BY NothingRead DEF Init, NoneRead
  <1>2. pc = "slots" /\ Read = 0
    BY DEF Init, Read
  <1> QED
    BY <1>1, <1>2, InitSlots DEF ReportInv

\* A slot changes the latencies, of which none has been read.
LEMMA SlotKeepsReport == ReportInv /\ Slot => ReportInv'
  <1> SUFFICES ASSUME ReportInv, Slot PROVE ReportInv'
    OBVIOUS
  <1>1. pc = "slots" /\ pc' = "slots" /\ UNCHANGED totals /\ Read = 0 /\ Read' = 0
    BY DEF Slot, Read
  <1>2. Accumulated(0)
    BY <1>1 DEF ReportInv
  <1>3. NoneRead'
    BY <1>1, <1>2, NothingRead DEF totals, NoneRead
  <1>4. Accumulated(0)'
    BY <1>3, NothingRead, PTL
  <1> QED
    BY <1>1, <1>4, SlotKeeps DEF ReportInv

\* The report starts with nothing read.
LEMMA SlotsDoneKeepsReport == ReportInv /\ SlotsDone => ReportInv'
  <1> SUFFICES ASSUME ReportInv, SlotsDone PROVE ReportInv'
    OBVIOUS
  <1>1. pc = "slots" /\ pc' = "report" /\ n' = 1 /\ UNCHANGED totals /\ Read = 0 /\ Read' = 0
    BY DEF SlotsDone, Read
  <1>2. Accumulated(0)
    BY <1>1 DEF ReportInv
  <1>3. NoneRead'
    BY <1>1, <1>2, NothingRead DEF totals, NoneRead
  <1>4. Accumulated(0)'
    BY <1>3, NothingRead, PTL
  <1> QED
    BY <1>1, <1>4, ReportKeepsSlots DEF ReportInv

\* One turn of the loop reads one latency more.
LEMMA ReportNextKeeps == ReportInv /\ ReportNext => ReportInv'
  <1> SUFFICES ASSUME ReportInv, ReportNext PROVE ReportInv'
    OBVIOUS
  <1> DEFINE m == n - 1
             len == Latency(n)
  <1>1. /\ pc = "report" /\ pc' = "report" /\ n <= params.repeat /\ n' = n + 1
        /\ latencies' = Append(latencies, len) /\ sum' = sum + len
        /\ max' = IF len > max THEN len ELSE max
        /\ min' = IF len < min THEN len ELSE min
        /\ finished_count' = finished_count + IF InUptime(n) THEN 1 ELSE 0
        /\ params' = params /\ start' = start /\ end' = end
    BY DEF ReportNext, stamps
  <1>2. SlotInv /\ Accumulated(m) /\ Read' = n' - 1
    BY <1>1 DEF ReportInv, Read
  <1>3. /\ n \in 1..Total /\ m \in Nat /\ n = m + 1 /\ Read' = n /\ Total \in Nat \ {0}
        /\ Stamped = Total
    <2>1. n \in 1..(Total + 1) /\ Total \in Nat \ {0}
      BY <1>2, LengthsAre DEF SlotInv, TypeOK
    <2> QED
      BY <1>1, <1>2, <2>1 DEF Total, Stamped
  <1>4. /\ \A k \in 1..n : Lengths[k] \in Nat
        /\ Lengths[n] = len /\ len \in Nat /\ len < DBL_MAX /\ DBL_MAX \in Nat
    BY <1>2, <1>3, LengthsAre
  <1> HIDE DEF len, m
  <1>5. Lengths' = Lengths /\ \A k : InUptime(k)' <=> InUptime(k)
    BY <1>1 DEF Lengths, Latency, InUptime
  <1>6. /\ latencies' \in Seq(Nat) /\ Len(latencies') = n
        /\ \A k \in 1..n : latencies'[k] = Lengths[k]
    <2>1. /\ latencies \in Seq(Nat) /\ Len(latencies) = m
          /\ \A k \in 1..m : latencies[k] = Lengths[k]
      BY <1>2 DEF Accumulated
    <2>2. latencies' \in Seq(Nat) /\ Len(latencies') = n /\ latencies'[n] = len
          /\ \A k \in 1..m : latencies'[k] = latencies[k]
      BY <1>1, <1>3, <1>4, <2>1
    <2>3. \A k \in 1..n : k \in 1..m \/ k = n
      BY <1>3
    <2> QED
      BY <1>4, <2>1, <2>2, <2>3
  <1>7. sum' = SumOver(Lengths, 1..n)
    <2>1. 1 \in Int /\ m \in Int /\ 1 <= m + 1 /\ \A k \in 1..(m + 1) : Lengths[k] \in Int
      BY <1>3, <1>4
    <2>2. SumOver(Lengths, 1..(m + 1)) = SumOver(Lengths, 1..m) + Lengths[m + 1]
      BY <2>1, SumNext
    <2>3. sum = SumOver(Lengths, 1..m)
      BY <1>2 DEF Accumulated
    <2> QED
      BY <1>1, <1>3, <1>4, <2>2, <2>3
  <1>8. finished_count' = Cardinality(Counted(n))
    <2>1. finished_count = Cardinality(Counted(m)) /\ IsFiniteSet(Counted(m))
          /\ ~(n \in Counted(m)) /\ Cardinality(Counted(m)) \in Nat
      <3>1. IsFiniteSet(1..m) /\ Counted(m) \subseteq 1..m /\ ~(n \in 1..m)
        BY <1>3, PlacesFinite DEF Counted
      <3>2. IsFiniteSet(Counted(m))
        BY <3>1, FS_Subset
      <3> QED
        BY <1>2, <3>1, <3>2, FS_CardinalityType DEF Accumulated
    <2>2. CASE InUptime(n)
      <3>1. Counted(n) = Counted(m) \cup {n}
        BY <1>3, <2>2 DEF Counted
      <3>2. Cardinality(Counted(n)) = Cardinality(Counted(m)) + 1
        BY <2>1, <3>1, FS_AddElement
      <3> QED
        BY <1>1, <2>1, <2>2, <3>2
    <2>3. CASE ~InUptime(n)
      <3>1. Counted(n) = Counted(m)
        BY <1>3, <2>3 DEF Counted
      <3> QED
        BY <1>1, <2>1, <2>3, <3>1
    <2> QED
      BY <2>2, <2>3
  <1>9. /\ min' \in Nat /\ max' \in Nat /\ n # 0
        /\ \A k \in 1..n : min' <= Lengths[k] /\ Lengths[k] <= max'
        /\ \E k \in 1..n : min' = Lengths[k]
        /\ \E k \in 1..n : max' = Lengths[k]
    <2>1. /\ min \in Nat /\ max \in Nat
          /\ IF m = 0 THEN min = DBL_MAX /\ max = 0
             ELSE /\ \A k \in 1..m : min <= Lengths[k] /\ Lengths[k] <= max
                  /\ \E k \in 1..m : min = Lengths[k]
                  /\ \E k \in 1..m : max = Lengths[k]
      BY <1>2 DEF Accumulated
    <2>2. (\A k \in 1..n : k \in 1..m \/ k = n) /\ n \in 1..n /\ n # 0
          /\ (\A k \in 1..m : k \in 1..n /\ m # 0)
      BY <1>3
    <2>3. min' \in Nat /\ max' \in Nat
      BY <1>1, <1>4, <2>1
    <2>4. CASE m = 0
      <3>1. \A k \in 1..n : k = n
        BY <1>3, <2>4
      <3>2. min' = len /\ max' = len
        BY <1>1, <1>4, <2>1, <2>4
      <3> QED
        BY <1>4, <2>2, <2>3, <3>1, <3>2
    <2>5. CASE m # 0
      <3>1. ASSUME NEW k \in 1..n PROVE min' <= Lengths[k] /\ Lengths[k] <= max'
        <4>1. CASE k = n
          BY <1>1, <1>4, <2>1, <4>1
        <4>2. CASE k \in 1..m
          <5>1. min <= Lengths[k] /\ Lengths[k] <= max /\ Lengths[k] \in Nat
            BY <1>4, <2>1, <2>5, <4>2
          <5> QED
            BY <1>1, <1>4, <2>1, <5>1
        <4> QED
          BY <2>2, <4>1, <4>2
      <3>2. \E k \in 1..n : min' = Lengths[k]
        <4>1. PICK k \in 1..m : min = Lengths[k]
          BY <2>1, <2>5
        <4>2. k \in 1..n /\ (min' = Lengths[k] \/ min' = Lengths[n])
          BY <1>1, <1>4, <2>2, <4>1
        <4> QED
          BY <2>2, <4>2
      <3>3. \E k \in 1..n : max' = Lengths[k]
        <4>1. PICK k \in 1..m : max = Lengths[k]
          BY <2>1, <2>5
        <4>2. k \in 1..n /\ (max' = Lengths[k] \/ max' = Lengths[n])
          BY <1>1, <1>4, <2>2, <4>1
        <4> QED
          BY <2>2, <4>2
      <3> QED
        BY <2>2, <2>3, <3>1, <3>2, <3>3
    <2> QED
      BY <2>4, <2>5
  <1>10. Accumulated(Read)'
    <2>1. Counted(n) = {k \in 1..n : InUptime(k)}
      BY DEF Counted
    <2>2. (Counted(Read))' = Counted(n)
      BY <1>3, <1>5 DEF Counted
    <2> QED
      BY <1>3, <1>5, <1>6, <1>7, <1>8, <1>9, <2>2 DEF Accumulated
  <1>11. SlotInv'
    BY <1>2, ReportKeepsSlots
  <1> QED
    BY <1>1, <1>10, <1>11 DEF ReportInv

\* A report stays right while the stamps are what they are.
LEMMA RightStays ==
    ASSUME UNCHANGED <<params, start, end>>, NEW r, Right(r), report'[1] = r
    PROVE  Right(report[1])'
  <1>1. Lengths' = Lengths /\ Measured' = Measured /\ Total' = Total
    BY DEF Lengths, Measured, Latency, Total
  <1> QED
    BY <1>1 DEF Right, IsPercentile, Count, Latency, Within, Tolerance

\* Sorting and printing.
LEMMA ReportDoneKeeps == ReportInv /\ ReportDone => ReportInv'
  <1> SUFFICES ASSUME ReportInv, ReportDone PROVE ReportInv'
    OBVIOUS
  <1>1. /\ pc = "report" /\ pc' = "done" /\ n > params.repeat
        /\ latencies' = SortLatencies(latencies)
        /\ UNCHANGED <<params, start, end>>
        /\ report' = <<[median    |-> Percent(latencies', 50),
                        percent90 |-> Percent(latencies', 90),
                        percent99 |-> Percent(latencies', 99),
                        min |-> min, max |-> max, sum |-> sum,
                        finished |-> finished_count]>>
    BY DEF ReportDone, stamps
  <1>2. SlotInv /\ Accumulated(Read) /\ Read = Total
    <2>1. n \in 1..(Total + 1) /\ Total \in Nat \ {0}
      BY LengthsAre DEF ReportInv, SlotInv, TypeOK
    <2> QED
      BY <1>1, <2>1 DEF ReportInv, Read, Total
  <1>3. Right(Printed)
    BY <1>1, <1>2, PrintedRight
  <1>4. report'[1] = Printed
    BY <1>1 DEF Printed
  <1>5. Right(report[1])'
    BY <1>1, <1>3, <1>4, RightStays
  <1>6. SlotInv'
    BY <1>2, ReportKeepsSlots
  <1> QED
    BY <1>1, <1>5, <1>6 DEF ReportInv

\* The report and its loop, in every reachable state.
THEOREM ReportInductive == Spec => []ReportInv
  <1>1. ReportInv /\ [Next]_vars => ReportInv'
    <2> SUFFICES ASSUME ReportInv, [Next]_vars PROVE ReportInv'
      OBVIOUS
    <2>1. CASE Next
      BY <2>1, SlotKeepsReport, SlotsDoneKeepsReport, ReportNextKeeps, ReportDoneKeeps DEF Next
    <2>2. CASE UNCHANGED vars
      <3>1. SlotInv'
        BY <2>2 DEF ReportInv, vars, stamps, SlotInv, TypeOK, Stamps, Clock, Schedule, Stamped, Total
      <3>2. UNCHANGED <<params, pc, n, start, end, report>> /\ UNCHANGED totals
        BY <2>2 DEF vars, stamps
      <3>3. CASE pc = "done"
        BY <3>1, <3>2, <3>3, RightStays DEF ReportInv
      <3>4. CASE pc # "done"
        <4>1. Lengths' = Lengths /\ Read' = Read /\ Counted(Read)' = Counted(Read)
          BY <3>2 DEF Lengths, Latency, Read, Counted, InUptime, Total
        <4>2. Accumulated(Read)'
          BY <3>2, <3>4, <4>1 DEF Accumulated, ReportInv, totals
        <4> QED
          BY <3>1, <3>2, <3>4, <4>2 DEF ReportInv
      <3> QED
        BY <3>3, <3>4
    <2> QED
      BY <2>1, <2>2
  <1> QED
    BY <1>1, InitReport, PTL DEF Spec

\* The latency report is right: for every number of slots its extremes, sum,
\* median and percentiles are those of the measured latencies, and the count of
\* requests within the uptime is off only by the rounding of absolute times:
\* ReportRight is an invariant.
THEOREM SlotTimingReportRight == Spec => []ReportRight
  <1>1. ReportInv => ReportRight
    BY DEF ReportInv, ReportRight, Right, SumOver, Total
  <1> QED
    BY <1>1, ReportInductive, PTL

=============================================================================
