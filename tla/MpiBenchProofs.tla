--------------------------- MODULE MpiBenchProofs ---------------------------
(***************************************************************************)
(* MpiBench, for every number of ranks, every direction, count and number   *)
(* of rounds, and whatever the library copies.                              *)
(*                                                                          *)
(* Everything rests on one fact per pair of ranks (PairInv): the barrier    *)
(* keeps sender and receiver within one round of each other, so that what   *)
(* is sent and not matched and what is posted and not matched are the last  *)
(* parts of one and the same round, behind which only the digest may come.  *)
(***************************************************************************)
EXTENDS MpiBench, FiniteSetTheorems, TLAPS

Waiting == {"start", "barrier", "send"}
Finishing == {"digest", "digest_wait", "free", "finalize"}

\* The last round rank s has sent, and the last one rank d has posted
\* receives for.
SentRound(s) == IF pc[s] \in Waiting THEN round[s] - 1 ELSE round[s]
PostRound(d) == IF pc[d] \in Waiting \union {"recv"} THEN round[d] - 1 ELSE round[d]

\* Rank s has sent its digest, and rank 0 has it.
DigestOut(s) == s # 0 /\ pc[s] \in {"digest_wait", "free", "finalize"}
HasDigest(s) == \/ s \in 1..(src - 1)
                \/ s = src /\ pc[0] = "digest_wait" /\ posted[0][s] = << >>

-----------------------------------------------------------------------------
(* The queues of a pair.                                                    *)

\* A digest comes last.
Digests(q) == q # << >> /\ q[Len(q)].kind = "digest"

DataLen(q) == IF Digests(q) THEN Len(q) - 1 ELSE Len(q)

\* Before it, the last DataLen(q) of the c parts of round r.
Shape(q, r, c) ==
    /\ DataLen(q) <= c
    /\ \A i \in 1..DataLen(q) : /\ q[i].kind = "data" /\ q[i].round = r
                                /\ q[i].n = c - DataLen(q) + i
    /\ Digests(q) => q[Len(q)].n = 0 /\ q[Len(q)].round = 0

\* What is sent, a, and posted, b, when round x is sent and round y posted.
InStep(a, x, b, y, c) ==
    \/ x = y /\ DataLen(a) = DataLen(b)
    \/ x = y + 1 /\ DataLen(a) = c /\ DataLen(b) = 0
    \/ y = x + 1 /\ DataLen(a) = 0 /\ DataLen(b) = c

\* Rank 0 waits for the digest of s.
Due(s, d) == d = 0 /\ pc[0] = "digest_wait" /\ src = s

PairInv(s, d) ==
    /\ Shape(net[s][d], SentRound(s), Count)
    /\ Shape(posted[d][s], PostRound(d), Count)
    /\ d \in Destinations(s) =>
          InStep(net[s][d], SentRound(s), posted[d][s], PostRound(d), Count)
    /\ d \notin Destinations(s) =>
          DataLen(net[s][d]) = 0 /\ DataLen(posted[d][s]) = 0
    /\ pc[d] # "recv_wait" => DataLen(posted[d][s]) = 0
    /\ Digests(net[s][d]) => d = 0 /\ DigestOut(s)
    /\ Digests(posted[d][s]) => Due(s, d) /\ Len(posted[d][s]) = 1

PairsInv == \A s, d \in Ranks : PairInv(s, d)

-----------------------------------------------------------------------------
(* The ranks.                                                               *)

BarrierInv ==
    \A r, q \in Ranks :
        /\ pc[r] \notin {"start", "barrier"} => round[q] >= round[r]
        /\ round[q] >= round[r] - 1
        /\ pc[r] # "start" /\ (pc[r] # "barrier" \/ round[r] > 1) => pc[q] # "start"
        /\ pc[r] = "start" => round[r] = 1
        /\ pc[r] \in Finishing => round[r] = params.repeat

RootInv ==
    /\ pc[0] \notin Finishing => src = 1
    /\ pc[0] = "digest_wait" => src < Size
    /\ verdict # "none" <=> pc[0] \in {"free", "finalize"}
    /\ verdict = "ok" => src = Size
    /\ \A s \in Ranks : HasDigest(s) => DigestOut(s)

\* The requests array has one entry per posted receive.
RequestsInv ==
    \A r \in Ranks : pc[r] = "recv_wait"
                     => requests[r] = Cardinality(Sources(r)) * Count

-----------------------------------------------------------------------------
(* The contents.                                                            *)

\* A digest is that of the sender's buffer as it is now.
DigestInv ==
    /\ \A s, d \in Ranks : \A i \in 1..Len(net[s][d]) :
          net[s][d][i].kind = "digest" => net[s][d][i].data = buf[s]
    /\ pc[0] = "digest_wait" /\ posted[0][src] = << >> => got = buf[src]
    /\ ~params.nul => \A s \in 1..(src - 1) : buf[s] = buf[0]

\* From one to many: what has arrived at rank d.
Arrived(d, i) == \/ round[d] > 1 \/ pc[d] \in Finishing
                 \/ pc[d] = "recv_wait" /\ i <= Count - DataLen(posted[d][0])

OutInv ==
    params.direction = "out" =>
        /\ verdict # "incorrect"
        /\ \A s \in Ranks \ {0} : \A i \in Numbers : Arrived(s, i) => buf[s][i] = buf[0][i]
        /\ \A d \in Ranks : \A i \in 1..Len(net[0][d]) :
              LET m == net[0][d][i]
              IN  m.kind = "data" => m.data \in {<< >>, <<buf[0][m.n]>>}

IInv == /\ TypeOK /\ PairsInv /\ BarrierInv /\ RootInv /\ RequestsInv
        /\ DigestInv /\ OutInv

-----------------------------------------------------------------------------
(* Queues of messages.                                                      *)

LEMMA DataLenNat ==
  ASSUME NEW S, NEW q \in Seq(S)
  PROVE  /\ Len(q) \in Nat /\ DataLen(q) \in Nat /\ DataLen(q) <= Len(q)
         /\ Len(q) <= DataLen(q) + 1
         /\ ~Digests(q) => DataLen(q) = Len(q)
         /\ Digests(q) => DataLen(q) + 1 = Len(q)
         /\ DataLen(q) = 0 /\ ~Digests(q) => q = << >>
  <1>1. Len(q) \in Nat /\ (q # << >> => Len(q) >= 1) /\ (Len(q) = 0 => q = << >>)
    OBVIOUS
  <1>2. Digests(q) => q # << >>
    BY DEF Digests
  <1> QED
    BY <1>1, <1>2 DEF DataLen

LEMMA EmptyQueue ==
  ASSUME NEW r, NEW c \in Nat
  PROVE  /\ Shape(<< >>, r, c) /\ DataLen(<< >>) = 0
         /\ ~Digests(<< >>)
  <1>1. ~Digests(<< >>)
    BY DEF Digests
  <1>2. Len(<< >>) = 0
    OBVIOUS
  <1>3. DataLen(<< >>) = 0
    BY <1>1, <1>2 DEF DataLen
  <1>4. 1..0 = {}
    OBVIOUS
  <1> QED
    BY <1>1, <1>3, <1>4 DEF Shape

\* A whole round.
LEMMA WholeRound ==
  ASSUME NEW q, NEW r, NEW c \in Nat \ {0}, Len(q) = c,
         \A i \in 1..c : q[i].kind = "data" /\ q[i].round = r /\ q[i].n = i
  PROVE  Shape(q, r, c) /\ DataLen(q) = c /\ ~Digests(q)
  <1>1. c \in 1..c
    OBVIOUS
  <1>2. ~Digests(q)
    BY <1>1 DEF Digests
  <1>3. DataLen(q) = c
    BY <1>2 DEF DataLen
  <1>4. \A i \in 1..c : i = c - c + i
    OBVIOUS
  <1> QED
    BY <1>2, <1>3, <1>4 DEF Shape

\* A digest behind the data.
LEMMA DigestAppended ==
  ASSUME NEW S, NEW q \in Seq(S), NEW m \in S, NEW r, NEW c \in Nat,
         m.kind = "digest", m.n = 0, m.round = 0, ~Digests(q), Shape(q, r, c)
  PROVE  /\ Shape(Append(q, m), r, c) /\ DataLen(Append(q, m)) = DataLen(q)
         /\ Digests(Append(q, m)) /\ Len(Append(q, m)) = Len(q) + 1
  <1> DEFINE t == Append(q, m)
             k == Len(q)
  <1>1. k \in Nat /\ Len(t) = k + 1 /\ t # << >> /\ t[k + 1] = m
    OBVIOUS
  <1>2. \A i \in 1..k : t[i] = q[i]
    OBVIOUS
  <1>3. DataLen(q) = k
    BY DEF DataLen
  <1> HIDE DEF t, k
  <1>4. Digests(t) /\ t[Len(t)] = m
    BY <1>1 DEF Digests
  <1>5. DataLen(t) = k
    BY <1>1, <1>4 DEF DataLen
  <1>6. Shape(t, r, c)
    BY <1>2, <1>3, <1>4, <1>5 DEF Shape
  <1> QED
    BY <1>1, <1>3, <1>4, <1>5, <1>6 DEF t, k

\* The oldest part is matched.
LEMMA DataMatched ==
  ASSUME NEW S, NEW q \in Seq(S), NEW r, NEW c \in Nat, Shape(q, r, c),
         DataLen(q) > 0
  PROVE  /\ Shape(Tail(q), r, c) /\ DataLen(Tail(q)) = DataLen(q) - 1
         /\ Digests(Tail(q)) <=> Digests(q)
         /\ q # << >> /\ Head(q).kind = "data" /\ Head(q).round = r
         /\ Head(q).n = c - DataLen(q) + 1
  <1> DEFINE t == Tail(q)
             k == Len(q)
             n == DataLen(q)
  <1>1. k \in Nat /\ n \in Nat \ {0} /\ n <= k /\ k <= n + 1
    BY DataLenNat
  <1>2. q # << >> /\ Head(q) = q[1] /\ Len(t) = k - 1
    BY <1>1
  <1>3. \A i \in 1..(k - 1) : t[i] = q[i + 1]
    BY <1>2
  <1>4. /\ ~Digests(q) => n = k
        /\ Digests(q) => n + 1 = k
    BY DataLenNat
  <1>5. t = << >> <=> k - 1 = 0
    BY <1>2
  <1>6. Digests(q) <=> q[k].kind = "digest"
    BY <1>2 DEF Digests
  <1>7. /\ n <= c
        /\ \A i \in 1..n : q[i].kind = "data" /\ q[i].round = r /\ q[i].n = c - n + i
        /\ Digests(q) => q[k].n = 0 /\ q[k].round = 0
    BY DEF Shape
  <1>8. Digests(t) <=> t # << >> /\ t[k - 1].kind = "digest"
    BY <1>2 DEF Digests
  <1>9. DataLen(t) = IF Digests(t) THEN k - 2 ELSE k - 1
    BY <1>1, <1>2 DEF DataLen
  <1>10. Shape(t, r, c) <=>
           /\ DataLen(t) <= c
           /\ \A i \in 1..DataLen(t) : t[i].kind = "data" /\ t[i].round = r
                                       /\ t[i].n = c - DataLen(t) + i
           /\ Digests(t) => t[k - 1].n = 0 /\ t[k - 1].round = 0
    BY <1>2 DEF Shape
  <1> HIDE DEF t, k, n
  <1>11. Digests(t) <=> Digests(q)
    <2>1. CASE Digests(q)
      <3>1. k - 1 \in 1..(k - 1) /\ k - 1 # 0
        BY <1>1, <1>4, <2>1
      <3> QED
        BY <1>1, <1>3, <1>5, <1>6, <1>8, <2>1, <3>1
    <2>2. CASE ~Digests(q) /\ k - 1 # 0
      <3>1. k - 1 \in 1..(k - 1)
        BY <1>1, <2>2
      <3>2. t[k - 1] = q[k]
        BY <1>1, <1>3, <3>1
      <3> QED
        BY <1>6, <1>8, <2>2, <3>2
    <2> QED
      BY <1>5, <1>8, <2>1, <2>2
  <1>12. DataLen(t) = n - 1
    BY <1>1, <1>4, <1>9, <1>11
  <1>13. \A i \in 1..(n - 1) : t[i].kind = "data" /\ t[i].round = r
                               /\ t[i].n = c - (n - 1) + i
    <2> SUFFICES ASSUME NEW i \in 1..(n - 1)
                 PROVE  t[i].kind = "data" /\ t[i].round = r
                        /\ t[i].n = c - (n - 1) + i
      OBVIOUS
    <2>1. i \in 1..(k - 1) /\ i + 1 \in 1..n
      BY <1>1
    <2>2. c - n + (i + 1) = c - (n - 1) + i
      BY <1>1
    <2> QED
      BY <1>3, <1>7, <2>1, <2>2
  <1>14. Digests(t) => t[k - 1].n = 0 /\ t[k - 1].round = 0
    <2> SUFFICES ASSUME Digests(t) PROVE t[k - 1].n = 0 /\ t[k - 1].round = 0
      OBVIOUS
    <2>1. k - 1 \in 1..(k - 1)
      BY <1>1, <1>4, <1>11
    <2>2. t[k - 1] = q[k]
      BY <1>1, <1>3, <2>1
    <2> QED
      BY <1>7, <1>11, <2>2
  <1>15. Shape(t, r, c)
    BY <1>1, <1>7, <1>10, <1>12, <1>13, <1>14
  <1>16. 1 \in 1..n
    BY <1>1
  <1> QED
    BY <1>2, <1>7, <1>11, <1>12, <1>15, <1>16 DEF t, n

\* The digest is matched.
LEMMA DigestMatched ==
  ASSUME NEW S, NEW q \in Seq(S), Digests(q), DataLen(q) = 0
  PROVE  Len(q) = 1 /\ Tail(q) = << >> /\ Head(q).kind = "digest" /\ Head(q) = q[1]
  <1>1. Len(q) = 1 /\ q # << >>
    <2>1. Len(q) = DataLen(q) + 1
      BY DataLenNat
    <2> QED
      BY <2>1 DEF Digests
  <1>2. Head(q) = q[1] /\ Tail(q) \in Seq(S) /\ Len(Tail(q)) = 0
    BY <1>1
  <1>3. \A t \in Seq(S) : Len(t) = 0 => t = << >>
    OBVIOUS
  <1> QED
    BY <1>1, <1>2, <1>3, Zenon DEF Digests

\* Without a digest at its end a queue holds none.
LEMMA OnlyLastIsDigest ==
  ASSUME NEW S, NEW q \in Seq(S), NEW r, NEW c, Shape(q, r, c),
         NEW i \in 1..Len(q)
  PROVE  /\ q[i].kind = "digest" => Digests(q) /\ i = Len(q)
         /\ q[i].kind = "data" => i <= DataLen(q) /\ q[i].round = r
  <1>1. /\ Len(q) \in Nat /\ DataLen(q) \in Nat /\ DataLen(q) <= Len(q)
        /\ Len(q) <= DataLen(q) + 1
        /\ ~Digests(q) => DataLen(q) = Len(q)
    BY DataLenNat
  <1>2. i <= DataLen(q) => i \in 1..DataLen(q)
    BY <1>1
  <1>3. i <= DataLen(q) => q[i].kind = "data" /\ q[i].round = r
    BY <1>2 DEF Shape
  <1>4. ~(i <= DataLen(q)) => i = Len(q) /\ Digests(q)
    BY <1>1
  <1>5. Digests(q) => q[Len(q)].kind = "digest"
    BY DEF Digests
  <1> QED
    BY <1>3, <1>4, <1>5


-----------------------------------------------------------------------------
(* Parameters and links.                                                    *)

LEMMA ParamFacts ==
  ASSUME TypeOK
  PROVE  /\ params \in Params /\ params.repeat \in Nat \ {0}
         /\ Count \in Nat \ {0} /\ Numbers = 1..Count
         /\ 0 \in Ranks /\ Ranks \subseteq Nat
  <1>1. params \in Params
    BY ParamAssumption DEF TypeOK
  <1>2. Count \in Nat \ {0}
    BY <1>1 DEF Count, Params
  <1> QED
    BY <1>1, <1>2, SizeAssumption DEF Numbers, Params, Ranks

\* No parameter ever changes, nor does what is made of them.
LEMMA SameParams ==
  ASSUME params' = params
  PROVE  /\ Count' = Count /\ Numbers' = Numbers /\ Messages' = Messages
         /\ \A r : Destinations(r)' = Destinations(r) /\ Sources(r)' = Sources(r)
  BY DEF Count, Numbers, Messages, Bytes, Destinations, Sources, ShouldSend,
         ShouldRecv, Contents, Garbage, NoSelf, Ranks

\* Whom s sends to receives from it.
LEMMA Links ==
  ASSUME TypeOK, NEW s \in Ranks, NEW d \in Ranks
  PROVE  /\ d \in Destinations(s) <=> s \in Sources(d)
         /\ s \notin Destinations(s)
         /\ params.direction = "out" => (d \in Destinations(s) <=> s = 0 /\ d # 0)
  <1>1. params.direction \in {"out", "in", "both"}
    BY ParamFacts DEF Params, Directions
  <1>2. CASE params.direction = "out"
    BY <1>2 DEF Destinations, Sources, ShouldSend, ShouldRecv, NoSelf
  <1>3. CASE params.direction = "in"
    BY <1>3 DEF Destinations, Sources, ShouldSend, ShouldRecv, NoSelf
  <1>4. CASE params.direction = "both"
    BY <1>4 DEF Destinations, Sources, ShouldSend, ShouldRecv, NoSelf
  <1> QED
    BY <1>1, <1>2, <1>3, <1>4

LEMMA QueueTypes ==
  ASSUME TypeOK, NEW s \in Ranks, NEW d \in Ranks
  PROVE  net[s][d] \in Seq(Messages) /\ posted[d][s] \in Seq(Messages)
  BY DEF TypeOK

LEMMA RoundFacts ==
  ASSUME TypeOK, NEW r \in Ranks
  PROVE  /\ round[r] \in Nat \ {0} /\ round[r] <= params.repeat
         /\ SentRound(r) \in Nat /\ PostRound(r) \in Nat
         /\ SentRound(r) \in {round[r] - 1, round[r]}
         /\ PostRound(r) \in {round[r] - 1, round[r]}
         /\ pc[r] \in Waiting <=> SentRound(r) = round[r] - 1
         /\ pc[r] \in Waiting \union {"recv"} <=> PostRound(r) = round[r] - 1
         /\ pc[r] \in Labels
  <1>1. round[r] \in Nat \ {0} /\ round[r] <= params.repeat /\ pc[r] \in Labels
    BY ParamFacts DEF TypeOK
  <1> QED
    BY <1>1 DEF SentRound, PostRound

-----------------------------------------------------------------------------
(* What the invariant says of a pair.                                       *)

\* A part of the buffer meets its receive.
DataMeets(s, d) ==
    /\ DataLen(net[s][d]) > 0 /\ DataLen(posted[d][s]) = DataLen(net[s][d])
    /\ d \in Destinations(s) /\ SentRound(s) = PostRound(d)
    /\ ~Digests(posted[d][s]) /\ pc[d] = "recv_wait"

DigestMeets(s, d) ==
    /\ DataLen(net[s][d]) = 0 /\ DataLen(posted[d][s]) = 0
    /\ Digests(net[s][d]) /\ Digests(posted[d][s])

LEMMA Meeting ==
  ASSUME TypeOK, PairsInv, BarrierInv, NEW s \in Ranks, NEW d \in Ranks,
         net[s][d] # << >>, posted[d][s] # << >>
  PROVE  DataMeets(s, d) \/ DigestMeets(s, d)
  <1> DEFINE a == net[s][d]
             b == posted[d][s]
  <1>1. PairInv(s, d)
    BY DEF PairsInv
  <1>2. a \in Seq(Messages) /\ b \in Seq(Messages)
    BY QueueTypes
  <1>3. DataLen(a) \in Nat /\ (DataLen(a) = 0 => Digests(a))
    BY <1>2, DataLenNat
  <1>4. DataLen(b) \in Nat /\ (DataLen(b) = 0 => Digests(b))
    BY <1>2, DataLenNat
  <1>5. Digests(b) => DataLen(b) = 0
    <2>1. Digests(b) => Len(b) = 1
      BY <1>1 DEF PairInv
    <2>2. DataLen(b) \in Nat /\ (Digests(b) => DataLen(b) + 1 = Len(b))
      BY <1>2, DataLenNat
    <2> HIDE DEF b
    <2> QED
      BY <2>1, <2>2
  <1>6. Count \in Nat \ {0} /\ params.repeat \in Nat
    BY ParamFacts
  <1>7. /\ SentRound(s) \in Nat /\ PostRound(d) \in Nat
        /\ SentRound(s) <= params.repeat /\ PostRound(d) <= params.repeat
    BY <1>6, RoundFacts
  <1>8. Digests(a) => SentRound(s) = params.repeat
    <2> SUFFICES ASSUME Digests(a) PROVE SentRound(s) = params.repeat
      OBVIOUS
    <2>1. pc[s] \in Finishing
      BY <1>1 DEF PairInv, DigestOut, Finishing
    <2>2. round[s] = params.repeat
      BY <2>1 DEF BarrierInv
    <2> QED
      BY <2>1, <2>2 DEF SentRound, Waiting, Finishing
  <1>9. Digests(b) => PostRound(d) = params.repeat
    <2> SUFFICES ASSUME Digests(b) PROVE PostRound(d) = params.repeat
      OBVIOUS
    <2>1. pc[d] \in Finishing
      BY <1>1 DEF PairInv, Due, Finishing
    <2>2. round[d] = params.repeat
      BY <2>1 DEF BarrierInv
    <2> QED
      BY <2>1, <2>2 DEF PostRound, Waiting, Finishing
  <1>10. /\ d \in Destinations(s) => InStep(a, SentRound(s), b, PostRound(d), Count)
         /\ d \notin Destinations(s) => DataLen(a) = 0 /\ DataLen(b) = 0
         /\ pc[d] # "recv_wait" => DataLen(b) = 0
    BY <1>1 DEF PairInv
  <1> HIDE DEF a, b
  <1>11. CASE DataLen(b) = 0
    <2>1. DataLen(a) = 0
      BY <1>4, <1>6, <1>7, <1>9, <1>10, <1>11 DEF InStep
    <2> QED
      BY <1>3, <1>4, <1>11, <2>1 DEF DigestMeets, a, b
  <1>12. CASE DataLen(b) # 0
    <2>1. d \in Destinations(s) /\ pc[d] = "recv_wait" /\ ~Digests(b)
      BY <1>5, <1>10, <1>12
    <2>2. SentRound(s) = PostRound(d) /\ DataLen(a) = DataLen(b)
      BY <1>3, <1>6, <1>7, <1>8, <1>10, <1>12, <2>1 DEF InStep
    <2>3. DataLen(a) > 0
      BY <1>3, <1>12, <2>2
    <2> QED
      BY <2>1, <2>2, <2>3 DEF DataMeets, a, b
  <1> QED
    BY <1>11, <1>12

\* A rank that is about to send finds the network empty: this is what the
\* barrier is for.
LEMMA SendFindsEmpty ==
  ASSUME TypeOK, PairsInv, BarrierInv, NEW s \in Ranks, NEW d \in Ranks,
         pc[s] \in {"start", "send"}
  PROVE  net[s][d] = << >>
  <1> DEFINE a == net[s][d]
             b == posted[d][s]
             x == SentRound(s)
             y == PostRound(d)
  <1>1. PairInv(s, d)
    BY DEF PairsInv
  <1>2. a \in Seq(Messages) /\ b \in Seq(Messages)
    BY QueueTypes
  <1>3. ~Digests(a)
    BY <1>1 DEF PairInv, DigestOut
  <1>4. Count \in Nat \ {0}
    BY ParamFacts
  <1>5. /\ x = round[s] - 1 /\ x \in Nat /\ y \in {round[d] - 1, round[d]}
        /\ y \in Nat /\ round[s] \in Nat /\ round[d] \in Nat
        /\ y = round[d] - 1 => pc[d] # "recv_wait"
    BY RoundFacts DEF Waiting
  <1>6. /\ d \in Destinations(s) => InStep(a, x, b, y, Count)
        /\ d \notin Destinations(s) => DataLen(a) = 0
        /\ pc[d] # "recv_wait" => DataLen(b) = 0
    BY <1>1 DEF PairInv
  <1>7. CASE pc[s] = "send"
    <2>1. round[d] >= round[s]
      BY <1>7 DEF BarrierInv
    <2> HIDE DEF a, b, x, y
    <2>2. y = x \/ y > x
      BY <1>5, <2>1
    <2>3. y = x => DataLen(b) = 0
      BY <1>5, <1>6, <2>1
    <2> QED
      BY <1>2, <1>3, <1>4, <1>5, <1>6, <2>2, <2>3, DataLenNat DEF InStep, a
  <1>8. CASE pc[s] = "start"
    <2>1. round[s] = 1 /\ (pc[d] = "start" \/ pc[d] = "barrier")
      BY <1>8 DEF BarrierInv
    <2> HIDE DEF a, b, x, y
    <2>2. DataLen(b) = 0 /\ x = 0
      BY <1>5, <1>6, <2>1
    <2> QED
      BY <1>2, <1>3, <1>4, <1>5, <1>6, <2>2, DataLenNat DEF InStep, a
  <1> QED
    BY <1>7, <1>8

\* Outside the two waits no receive is posted.
LEMMA NothingPosted ==
  ASSUME TypeOK, PairsInv, NEW s \in Ranks, NEW d \in Ranks,
         pc[d] \notin {"recv_wait", "digest_wait"}
  PROVE  posted[d][s] = << >>
  <1>1. PairInv(s, d)
    BY DEF PairsInv
  <1>2. DataLen(posted[d][s]) = 0 /\ ~Digests(posted[d][s])
    BY <1>1 DEF PairInv, Due
  <1> QED
    BY <1>2, QueueTypes, DataLenNat


-----------------------------------------------------------------------------
(* What the invariant is for.                                               *)

LEMMA MatchFollows ==
  ASSUME TypeOK, PairsInv, BarrierInv
  PROVE  MessagesMatch
  <1> SUFFICES ASSUME NEW s \in Ranks, NEW d \in Ranks,
                      net[s][d] # << >>, posted[d][s] # << >>
               PROVE  LET m == Head(net[s][d])
                          b == Head(posted[d][s])
                      IN  <<m.kind, m.n, m.round>> = <<b.kind, b.n, b.round>>
    BY DEF MessagesMatch
  <1> DEFINE p == net[s][d]
             q == posted[d][s]
  <1>1. p \in Seq(Messages) /\ q \in Seq(Messages)
    BY QueueTypes
  <1>2. Count \in Nat
    BY ParamFacts
  <1>3. Shape(p, SentRound(s), Count) /\ Shape(q, PostRound(d), Count)
    BY DEF PairsInv, PairInv
  <1>4. CASE DataMeets(s, d)
    <2>1. /\ DataLen(p) > 0 /\ DataLen(q) = DataLen(p)
          /\ SentRound(s) = PostRound(d)
      BY <1>4 DEF DataMeets
    <2>2. /\ Head(p).kind = "data" /\ Head(p).round = SentRound(s)
          /\ Head(p).n = Count - DataLen(p) + 1
      BY <1>1, <1>2, <1>3, <2>1, DataMatched
    <2>3. DataLen(q) > 0
      BY <2>1
    <2>4. /\ Head(q).kind = "data" /\ Head(q).round = PostRound(d)
          /\ Head(q).n = Count - DataLen(q) + 1
      BY <1>1, <1>2, <1>3, <2>3, DataMatched
    <2> QED
      BY <2>1, <2>2, <2>4
  <1>5. CASE DigestMeets(s, d)
    <2>1. Len(p) = 1 /\ Head(p).kind = "digest" /\ Head(p) = p[1]
      BY <1>1, <1>5, DigestMatched DEF DigestMeets
    <2>2. Len(q) = 1 /\ Head(q).kind = "digest" /\ Head(q) = q[1]
      BY <1>1, <1>5, DigestMatched DEF DigestMeets
    <2>3. Digests(p) /\ Digests(q)
      BY <1>5 DEF DigestMeets
    <2>4. p[Len(p)].n = 0 /\ p[Len(p)].round = 0
      BY <1>3, <2>3 DEF Shape
    <2>5. q[Len(q)].n = 0 /\ q[Len(q)].round = 0
      BY <1>3, <2>3 DEF Shape
    <2> QED
      BY <2>1, <2>2, <2>4, <2>5
  <1> QED
    BY <1>4, <1>5, Meeting

LEMMA BacklogFollows ==
  ASSUME TypeOK, PairsInv, BarrierInv
  PROVE  BacklogBounded
  <1> SUFFICES ASSUME NEW s \in Ranks, NEW d \in Ranks
               PROVE  /\ Len(net[s][d]) <= Count + 1
                      /\ \A i \in 1..Len(net[s][d]) :
                            net[s][d][i].kind = "data" /\ pc[s] # "barrier"
                            => net[s][d][i].round = round[s]
    BY DEF BacklogBounded
  <1> DEFINE p == net[s][d]
  <1>1. p \in Seq(Messages)
    BY QueueTypes
  <1>2. Shape(p, SentRound(s), Count)
    BY DEF PairsInv, PairInv
  <1>3. Len(p) <= Count + 1
    <2>1. Len(p) \in Nat /\ DataLen(p) \in Nat /\ Len(p) <= DataLen(p) + 1
      BY <1>1, DataLenNat
    <2>2. DataLen(p) <= Count /\ Count \in Nat
      BY <1>2, ParamFacts DEF Shape
    <2> HIDE DEF p
    <2> QED
      BY <2>1, <2>2
  <1>4. ASSUME NEW i \in 1..Len(p), p[i].kind = "data", pc[s] # "barrier"
        PROVE  p[i].round = round[s]
    <2>1. p[i].round = SentRound(s)
      BY <1>1, <1>2, <1>4, OnlyLastIsDigest
    <2>2. pc[s] \notin {"start", "send"}
      <3> SUFFICES ASSUME pc[s] \in {"start", "send"} PROVE FALSE
        OBVIOUS
      <3>1. p = << >>
        BY SendFindsEmpty
      <3> HIDE DEF p
      <3>2. Len(p) = 0
        BY <3>1
      <3> QED
        BY <3>2
    <2> QED
      BY <1>4, <2>1, <2>2 DEF SentRound, Waiting
  <1> QED
    BY <1>3, <1>4

LEMMA SourceCount ==
  ASSUME TypeOK, NEW r \in Ranks
  PROVE  /\ Cardinality(Sources(r)) \in Nat
         /\ ShouldRecv(r) => Cardinality(Sources(r)) * Count = TotalCount(r)
  <1>1. IsFiniteSet(Ranks) /\ Cardinality(Ranks) = Size
    <2>1. 0 \in Int /\ Size - 1 \in Int /\ Size \in Nat \ {0}
      BY SizeAssumption
    <2>2. IsFiniteSet(0..(Size - 1))
          /\ Cardinality(0..(Size - 1)) =
                IF 0 > Size - 1 THEN 0 ELSE (Size - 1) - 0 + 1
      BY <2>1, FS_Interval
    <2> QED
      BY <2>1, <2>2 DEF Ranks
  <1>2. IsFiniteSet(NoSelf(r)) /\ Cardinality(NoSelf(r)) = Size - 1
    BY <1>1, FS_RemoveElement DEF NoSelf
  <1>3. IsFiniteSet({0}) /\ Cardinality({0}) = 1
    BY FS_Singleton
  <1>4. IsFiniteSet({}) /\ Cardinality({}) = 0
    BY FS_EmptySet
  <1>5. Size \in Nat \ {0}
    BY SizeAssumption
  <1> QED
    BY <1>2, <1>3, <1>4, <1>5 DEF Sources, TotalCount

LEMMA RequestsFollow ==
  ASSUME TypeOK, RequestsInv
  PROVE  RequestsSet
  BY SourceCount DEF RequestsInv, RequestsSet

LEMMA RootBufferFollows ==
  ASSUME TypeOK, PairsInv, BarrierInv, RootInv
  PROVE  RootBufferLive
  <1> SUFFICES ASSUME Freed(0), verdict = "ok", NEW d \in Ranks
               PROVE  net[0][d] = << >>
    BY DEF RootBufferLive, Unmatched
  <1>1. 0 \in Ranks
    BY ParamFacts
  <1>2. PairInv(0, d)
    BY <1>1 DEF PairsInv
  <1>3. net[0][d] \in Seq(Messages) /\ posted[d][0] \in Seq(Messages)
    BY <1>1, QueueTypes
  <1>4. ~Digests(net[0][d])
    BY <1>2 DEF PairInv, DigestOut
  <1>5. DataLen(net[0][d]) = 0
    <2>1. CASE d \notin Destinations(0)
      BY <1>2, <2>1 DEF PairInv
    <2>2. CASE d \in Destinations(0)
      <3>1. d # 0
        BY <1>1, <2>2, Links
      <3>2. d \in 1..(src - 1)
        BY <3>1, SizeAssumption DEF RootInv, Ranks
      <3>3. DigestOut(d)
        BY <3>2 DEF RootInv, HasDigest
      <3>4. pc[d] \in Finishing /\ pc[0] \in Finishing /\ pc[d] # "recv_wait"
        BY <3>3 DEF DigestOut, Finishing, Freed
      <3>5. SentRound(0) = params.repeat /\ PostRound(d) = params.repeat
        BY <1>1, <3>4 DEF BarrierInv, SentRound, PostRound, Waiting, Finishing
      <3>6. DataLen(posted[d][0]) = 0
        BY <1>2, <3>4 DEF PairInv
      <3>7. params.repeat \in Nat
        BY ParamFacts
      <3>8. InStep(net[0][d], params.repeat, posted[d][0], params.repeat, Count)
        BY <1>2, <2>2, <3>5 DEF PairInv
      <3> QED
        BY <3>6, <3>7, <3>8 DEF InStep
    <2> QED
      BY <2>1, <2>2
  <1> QED
    BY <1>3, <1>4, <1>5, DataLenNat

LEMMA VerdictFollows ==
  ASSUME TypeOK, RootInv, DigestInv
  PROVE  VerdictSound
  <1> SUFFICES ASSUME verdict = "ok", ~params.nul, NEW r \in Ranks
               PROVE  buf[r] = buf[0]
    BY DEF VerdictSound
  <1>1. r = 0 \/ r \in 1..(src - 1)
    BY SizeAssumption DEF RootInv, Ranks
  <1> QED
    BY <1>1 DEF DigestInv

\* A rank whose digest rank 0 has holds what rank 0 has sent.
LEMMA DeliveredRank ==
  ASSUME TypeOK, OutInv, params.direction = "out",
         NEW r \in Ranks, r # 0, DigestOut(r)
  PROVE  buf[r] = buf[0]
  <1>1. buf[r] \in [Numbers -> Contents] /\ buf[0] \in [Numbers -> Contents]
    BY ParamFacts DEF TypeOK
  <1>2. \A i \in Numbers : Arrived(r, i)
    BY DEF Arrived, DigestOut, Finishing
  <1>3. \A i \in Numbers : buf[r][i] = buf[0][i]
    BY <1>2 DEF OutInv
  <1> QED
    BY <1>1, <1>3

LEMMA DeliveryFollows ==
  ASSUME TypeOK, RootInv, OutInv
  PROVE  OneToManyDelivers
  <1> SUFFICES ASSUME params.direction = "out"
               PROVE  /\ verdict # "incorrect"
                      /\ verdict = "ok" => \A r \in Ranks : buf[r] = buf[0]
    BY DEF OneToManyDelivers
  <1>1. ASSUME verdict = "ok", NEW r \in Ranks, r # 0
        PROVE  buf[r] = buf[0]
    <2>1. r \in 1..(src - 1)
      BY <1>1, SizeAssumption DEF RootInv, Ranks
    <2>2. DigestOut(r)
      BY <2>1 DEF RootInv, HasDigest
    <2> QED
      BY <1>1, <2>2, DeliveredRank
  <1> QED
    BY <1>1 DEF OutInv


-----------------------------------------------------------------------------
(* The first state.                                                         *)

LEMMA InitIInv ==
  ASSUME Init
  PROVE  IInv
  <1>1. params \in Params
    BY ParamAssumption DEF Init
  <1>2. params.repeat \in Nat \ {0} /\ Count \in Nat \ {0}
    BY <1>1 DEF Params, Count
  <1>3. 0 \in Ranks /\ Ranks \subseteq Nat /\ Size \in Nat \ {0}
    BY SizeAssumption DEF Ranks
  <1>4. PICK fill \in [Ranks -> {0, 1}] :
          buf = [r \in Ranks |-> [n \in Numbers |-> fill[r]]]
    BY DEF Init
  <1>5. << >> \in Seq(Messages)
    OBVIOUS
  <1>6. TypeOK
    <2>1. buf \in [Ranks -> [Numbers -> Contents]]
      BY <1>4 DEF Contents
    <2>2. round \in [Ranks -> 1..params.repeat]
      BY <1>2 DEF Init
    <2> QED
      BY <1>2, <1>3, <1>5, <2>1, <2>2 DEF Init, TypeOK, Labels, Bytes
  <1>7. \A s, d \in Ranks : net[s][d] = << >> /\ posted[d][s] = << >>
    BY DEF Init
  <1>8. \A r \in Ranks : pc[r] = "start" /\ round[r] = 1
    BY DEF Init
  <1>9. \A r \in Ranks : SentRound(r) = 0 /\ PostRound(r) = 0
    BY <1>8 DEF SentRound, PostRound, Waiting
  <1>10. PairsInv
    <2> SUFFICES ASSUME NEW s \in Ranks, NEW d \in Ranks PROVE PairInv(s, d)
      BY DEF PairsInv
    <2>1. Shape(<< >>, 0, Count) /\ DataLen(<< >>) = 0 /\ ~Digests(<< >>)
      BY <1>2, EmptyQueue
    <2> QED
      BY <1>7, <1>9, <2>1 DEF PairInv, InStep
  <1>11. BarrierInv
    BY <1>8 DEF BarrierInv, Finishing
  <1>12. RootInv
    BY <1>3, <1>8 DEF Init, RootInv, HasDigest, Finishing
  <1>13. RequestsInv
    BY <1>8 DEF RequestsInv
  <1>14. Len(<< >>) = 0 /\ 1..0 = {}
    OBVIOUS
  <1>15. DigestInv
    <2>1. 1..(src - 1) = {}
      BY DEF Init
    <2> QED
      BY <1>3, <1>7, <1>8, <1>14, <2>1 DEF DigestInv
  <1>16. OutInv
    <2>1. \A s \in Ranks \ {0} : \A i \in Numbers : ~Arrived(s, i)
      BY <1>8 DEF Arrived, Finishing
    <2> QED
      BY <1>3, <1>7, <1>14, <2>1 DEF OutInv, Init
  <1> QED
    BY <1>6, <1>10, <1>11, <1>12, <1>13, <1>15, <1>16 DEF IInv

-----------------------------------------------------------------------------
(* Steps of a rank that leave the queues alone.                             *)

LEMMA GotoAt ==
  ASSUME TypeOK, NEW r \in Ranks, NEW l \in Labels, Goto(r, l)
  PROVE  /\ pc' \in [Ranks -> Labels]
         /\ \A q \in Ranks : pc'[q] = IF q = r THEN l ELSE pc[q]
  BY DEF TypeOK, Goto

Unread == {"start", "barrier", "send", "recv", "digest", "free", "finalize"}

LEMMA QuietStep ==
  ASSUME IInv, NEW r \in Ranks, NEW l \in Unread, Goto(r, l),
         params' = params, buf' = buf, net' = net, posted' = posted,
         requests' = requests, src' = src, got' = got, verdict' = verdict,
         round' \in [Ranks -> 1..params.repeat],
         \A q \in Ranks : /\ SentRound(q)' = SentRound(q)
                          /\ PostRound(q)' = PostRound(q)
                          /\ \A i \in Numbers : Arrived(q, i)' => Arrived(q, i),
         pc[r] = "recv_wait" => AllDone(r),
         pc[r] = "digest_wait" => r # 0,
         l \in {"free", "finalize"} <=> pc[r] \in {"digest_wait", "free", "finalize"},
         pc[r] \in Finishing => l \in Finishing,
         BarrierInv'
  PROVE  IInv'
  <1>1. TypeOK /\ PairsInv /\ RootInv /\ RequestsInv /\ DigestInv /\ OutInv
    BY DEF IInv
  <1>2. /\ pc' \in [Ranks -> Labels]
        /\ \A q \in Ranks : pc'[q] = IF q = r THEN l ELSE pc[q]
    BY <1>1, GotoAt DEF Unread, Labels
  <1>3. 0 \in Ranks
    BY <1>1, ParamFacts
  <1>4. /\ Count' = Count /\ Numbers' = Numbers /\ Messages' = Messages
        /\ \A q : Destinations(q)' = Destinations(q) /\ Sources(q)' = Sources(q)
    BY SameParams
  <1>5. TypeOK'
    BY <1>1, <1>2, <1>4 DEF TypeOK, Bytes, Contents, Garbage
  <1>6. \A q \in Ranks : DigestOut(q) => DigestOut(q)'
    BY <1>2 DEF DigestOut
  <1>7. PairsInv'
    <2> SUFFICES ASSUME NEW s \in Ranks, NEW d \in Ranks PROVE PairInv(s, d)'
      BY DEF PairsInv
    <2>1. PairInv(s, d)
      BY <1>1 DEF PairsInv
    <2>2. pc'[d] # "recv_wait" => DataLen(posted[d][s]) = 0
      <3>1. CASE d = r /\ pc[r] = "recv_wait"
        BY <3>1, EmptyQueue DEF AllDone
      <3> QED
        BY <1>2, <2>1, <3>1 DEF PairInv
    <2>3. Due(s, d) => Due(s, d)'
      BY <1>2, <1>3 DEF Due
    <2> QED
      BY <1>4, <1>6, <2>1, <2>2, <2>3 DEF PairInv
  <1>8. RootInv'
    <2>1. \A s \in Ranks : HasDigest(s)' => HasDigest(s)
      BY <1>2, <1>3 DEF HasDigest, Unread
    <2>2. /\ pc'[0] \notin Finishing => src = 1
          /\ pc'[0] = "digest_wait" => src < Size
          /\ verdict # "none" <=> pc'[0] \in {"free", "finalize"}
      BY <1>1, <1>2, <1>3 DEF RootInv, Unread, Finishing
    <2> QED
      BY <1>1, <1>6, <2>1, <2>2 DEF RootInv
  <1>9. RequestsInv'
    BY <1>1, <1>2, <1>4 DEF RequestsInv, Unread
  <1>10. DigestInv'
    BY <1>1, <1>2, <1>3 DEF DigestInv, Unread
  <1>11. OutInv'
    BY <1>1, <1>4 DEF OutInv
  <1> QED
    BY <1>5, <1>7, <1>8, <1>9, <1>10, <1>11 DEF IInv


LEMMA StartStep ==
  ASSUME IInv, NEW r \in Ranks, Start(r)
  PROVE  IInv'
  <1>1. TypeOK /\ BarrierInv
    BY DEF IInv
  <1>2. pc[r] = "start" /\ Goto(r, "barrier") /\ round' = round /\ params' = params
        /\ posted' = posted
    BY DEF Start
  <1>3. \A q \in Ranks : pc'[q] = IF q = r THEN "barrier" ELSE pc[q]
    BY <1>1, <1>2, GotoAt DEF Labels
  <1>4. \A q \in Ranks : /\ SentRound(q)' = SentRound(q)
                         /\ PostRound(q)' = PostRound(q)
                         /\ \A i \in Numbers : Arrived(q, i)' => Arrived(q, i)
    BY <1>2, <1>3, SameParams DEF SentRound, PostRound, Waiting, Arrived, Finishing
  <1>5. BarrierInv'
    <2>1. round[r] = 1 /\ \A q \in Ranks : round[q] \in Nat
      BY <1>1, <1>2, RoundFacts DEF BarrierInv
    <2> QED
      BY <1>1, <1>2, <1>3, <2>1 DEF BarrierInv, Finishing
  <1>6. round \in [Ranks -> 1..params.repeat]
    BY <1>1 DEF TypeOK
  <1> QED
    BY <1>2, <1>4, <1>5, <1>6, QuietStep DEF Start, Unread, Finishing

LEMMA EnterRoundStep ==
  ASSUME IInv, NEW r \in Ranks, EnterRound(r)
  PROVE  IInv'
  <1>1. TypeOK /\ BarrierInv
    BY DEF IInv
  <1>2. pc[r] = "barrier" /\ Goto(r, "send") /\ round' = round /\ params' = params
        /\ posted' = posted /\ Barrier(r)
    BY DEF EnterRound
  <1>3. \A q \in Ranks : pc'[q] = IF q = r THEN "send" ELSE pc[q]
    BY <1>1, <1>2, GotoAt DEF Labels
  <1>4. \A q \in Ranks : /\ SentRound(q)' = SentRound(q)
                         /\ PostRound(q)' = PostRound(q)
                         /\ \A i \in Numbers : Arrived(q, i)' => Arrived(q, i)
    BY <1>2, <1>3, SameParams DEF SentRound, PostRound, Waiting, Arrived, Finishing
  <1>5. BarrierInv'
    BY <1>1, <1>2, <1>3 DEF BarrierInv, Barrier, Finishing
  <1>6. round \in [Ranks -> 1..params.repeat]
    BY <1>1 DEF TypeOK
  <1> QED
    BY <1>2, <1>4, <1>5, <1>6, QuietStep DEF EnterRound, Unread, Finishing

LEMMA DigestSentStep ==
  ASSUME IInv, NEW r \in Ranks, DigestSent(r)
  PROVE  IInv'
  <1>1. TypeOK /\ BarrierInv
    BY DEF IInv
  <1>2. r # 0 /\ pc[r] = "digest_wait" /\ Goto(r, "free") /\ round' = round
        /\ params' = params /\ posted' = posted
    BY DEF DigestSent
  <1>3. \A q \in Ranks : pc'[q] = IF q = r THEN "free" ELSE pc[q]
    BY <1>1, <1>2, GotoAt DEF Labels
  <1>4. \A q \in Ranks : /\ SentRound(q)' = SentRound(q)
                         /\ PostRound(q)' = PostRound(q)
                         /\ \A i \in Numbers : Arrived(q, i)' => Arrived(q, i)
    BY <1>2, <1>3, SameParams DEF SentRound, PostRound, Waiting, Arrived, Finishing
  <1>5. BarrierInv'
    BY <1>1, <1>2, <1>3 DEF BarrierInv, Finishing
  <1>6. round \in [Ranks -> 1..params.repeat]
    BY <1>1 DEF TypeOK
  <1> QED
    BY <1>2, <1>4, <1>5, <1>6, QuietStep DEF DigestSent, Unread, Finishing

LEMMA FreeStep ==
  ASSUME IInv, NEW r \in Ranks, Free(r)
  PROVE  IInv'
  <1>1. TypeOK /\ BarrierInv
    BY DEF IInv
  <1>2. pc[r] = "free" /\ Goto(r, "finalize") /\ round' = round
        /\ params' = params /\ posted' = posted
    BY DEF Free
  <1>3. \A q \in Ranks : pc'[q] = IF q = r THEN "finalize" ELSE pc[q]
    BY <1>1, <1>2, GotoAt DEF Labels
  <1>4. \A q \in Ranks : /\ SentRound(q)' = SentRound(q)
                         /\ PostRound(q)' = PostRound(q)
                         /\ \A i \in Numbers : Arrived(q, i)' => Arrived(q, i)
    BY <1>2, <1>3, SameParams DEF SentRound, PostRound, Waiting, Arrived, Finishing
  <1>5. BarrierInv'
    BY <1>1, <1>2, <1>3 DEF BarrierInv, Finishing
  <1>6. round \in [Ranks -> 1..params.repeat]
    BY <1>1 DEF TypeOK
  <1> QED
    BY <1>2, <1>4, <1>5, <1>6, QuietStep DEF Free, Unread, Finishing

\* All receives of the round have been matched.
LEMMA WaitOver ==
  ASSUME TypeOK, NEW r \in Ranks, pc[r] = "recv_wait", AllDone(r), NEW i \in Numbers
  PROVE  Arrived(r, i)
  <1>1. posted[r][0] = << >> /\ Count \in Nat /\ i \in 1..Count
    BY ParamFacts DEF AllDone
  <1>2. DataLen(posted[r][0]) = 0
    BY <1>1, EmptyQueue
  <1> QED
    BY <1>1, <1>2 DEF Arrived

LEMMA RecvWaitStep ==
  ASSUME IInv, NEW r \in Ranks, RecvWait(r)
  PROVE  IInv'
  <1>1. TypeOK /\ BarrierInv
    BY DEF IInv
  <1>2. /\ pc[r] = "recv_wait" /\ AllDone(r) /\ params' = params /\ posted' = posted
        /\ buf' = buf /\ net' = net /\ requests' = requests /\ src' = src
        /\ got' = got /\ verdict' = verdict
    BY DEF RecvWait
  <1>3. /\ round \in [Ranks -> 1..params.repeat] /\ params.repeat \in Nat
        /\ \A q \in Ranks : round[q] \in Nat \ {0}
    <2>1. \A q \in Ranks : round[q] \in Nat \ {0}
      BY <1>1, RoundFacts
    <2> QED
      BY <1>1, <2>1, ParamFacts DEF TypeOK
  <1>4. Numbers' = Numbers
    BY <1>2, SameParams
  <1>5. CASE RoundsLeft(r) /\ round' = [round EXCEPT ![r] = @ + 1] /\ Goto(r, "barrier")
    <2>1. \A q \in Ranks : pc'[q] = IF q = r THEN "barrier" ELSE pc[q]
      BY <1>1, <1>5, GotoAt DEF Labels
    <2>2. /\ round' \in [Ranks -> 1..params.repeat]
          /\ \A q \in Ranks : round'[q] = IF q = r THEN round[q] + 1 ELSE round[q]
      BY <1>3, <1>5 DEF RoundsLeft
    <2>3. \A q \in Ranks : SentRound(q)' = SentRound(q) /\ PostRound(q)' = PostRound(q)
      BY <1>2, <1>3, <2>1, <2>2 DEF SentRound, PostRound, Waiting
    <2>4. \A q \in Ranks : \A i \in Numbers : Arrived(q, i)' => Arrived(q, i)
      <3>1. \A i \in Numbers : Arrived(r, i)
        BY <1>1, <1>2, WaitOver
      <3> QED
        BY <1>2, <1>4, <2>1, <2>2, <3>1, SameParams DEF Arrived
    <2>5. BarrierInv'
      BY <1>1, <1>2, <1>3, <2>1, <2>2 DEF BarrierInv, Finishing
    <2> QED
      BY <1>2, <1>5, <2>2, <2>3, <2>4, <2>5, QuietStep DEF Unread, Finishing
  <1>6. CASE ~RoundsLeft(r) /\ Goto(r, "digest") /\ round' = round
    <2>1. \A q \in Ranks : pc'[q] = IF q = r THEN "digest" ELSE pc[q]
      BY <1>1, <1>6, GotoAt DEF Labels
    <2>2. round[r] = params.repeat
      BY <1>3, <1>6 DEF RoundsLeft
    <2>3. \A q \in Ranks : SentRound(q)' = SentRound(q) /\ PostRound(q)' = PostRound(q)
      BY <1>2, <1>6, <2>1 DEF SentRound, PostRound, Waiting
    <2>4. \A q \in Ranks : \A i \in Numbers : Arrived(q, i)' => Arrived(q, i)
      <3>1. \A i \in Numbers : Arrived(r, i)
        BY <1>1, <1>2, WaitOver
      <3> QED
        BY <1>2, <1>4, <1>6, <2>1, <3>1, SameParams DEF Arrived
    <2>5. BarrierInv'
      BY <1>1, <1>2, <1>3, <1>6, <2>1, <2>2 DEF BarrierInv, Finishing
    <2> QED
      BY <1>2, <1>3, <1>6, <2>3, <2>4, <2>5, QuietStep DEF Unread, Finishing
  <1> QED
    BY <1>5, <1>6 DEF RecvWait


-----------------------------------------------------------------------------
(* send_messages and recv_messages.                                         *)

LEMMA SequenceOf ==
  ASSUME NEW S, NEW c \in Nat, NEW f \in [1..c -> S]
  PROVE  f \in Seq(S) /\ Len(f) = c /\ << >> \o f = f
  <1>1. f \in Seq(S) /\ Len(f) = c
    OBVIOUS
  <1> QED
    BY <1>1

LEMMA MessageFields ==
  ASSUME NEW kind, NEW n, NEW r, NEW data
  PROVE  /\ Message(kind, n, r, data).kind = kind
         /\ Message(kind, n, r, data).n = n
         /\ Message(kind, n, r, data).round = r
         /\ Message(kind, n, r, data).data = data
  BY DEF Message

LEMMA MessageType ==
  ASSUME NEW kind \in {"data", "digest"}, NEW n \in Nat, NEW r \in Nat, NEW data \in Bytes
  PROVE  Message(kind, n, r, data) \in Messages
  BY DEF Message, Messages

\* What the library has when send_messages returns.
Copied(r, n) == IF "data" \in params.eager THEN <<buf[r][n]>> ELSE << >>

RecvBatch(r) == [n \in Numbers |-> Message("data", n, round[r], << >>)]

LEMMA BatchFacts ==
  ASSUME TypeOK, NEW r \in Ranks
  PROVE  /\ Batch(r) \in Seq(Messages) /\ Len(Batch(r)) = Count
         /\ << >> \o Batch(r) = Batch(r)
         /\ \A i \in 1..Count : /\ Batch(r)[i].kind = "data" /\ Batch(r)[i].n = i
                                /\ Batch(r)[i].round = round[r]
                                /\ Batch(r)[i].data = Copied(r, i)
  <1>1. Count \in Nat /\ Numbers = 1..Count /\ round[r] \in Nat
    BY ParamFacts, RoundFacts
  <1>2. Batch(r) = [n \in 1..Count |-> Message("data", n, round[r], Copied(r, n))]
    BY <1>1 DEF Batch, Copied
  <1>3. \A n \in 1..Count : Copied(r, n) \in Bytes
    <2> TAKE n \in 1..Count
    <2>1. buf[r][n] \in Contents
      BY <1>1 DEF TypeOK
    <2> QED
      BY <2>1 DEF Copied, Bytes
  <1>4. \A n \in 1..Count : Message("data", n, round[r], Copied(r, n)) \in Messages
    BY <1>1, <1>3, MessageType
  <1>5. Batch(r) \in [1..Count -> Messages]
    BY <1>2, <1>4
  <1>6. \A n \in 1..Count : Batch(r)[n] = Message("data", n, round[r], Copied(r, n))
    BY <1>2
  <1>7. \A i \in 1..Count : /\ Batch(r)[i].kind = "data" /\ Batch(r)[i].n = i
                            /\ Batch(r)[i].round = round[r]
                            /\ Batch(r)[i].data = Copied(r, i)
    BY <1>6, MessageFields
  <1>8. /\ Batch(r) \in Seq(Messages) /\ Len(Batch(r)) = Count
        /\ << >> \o Batch(r) = Batch(r)
    BY <1>1, <1>5, SequenceOf
  <1> QED
    BY <1>7, <1>8

LEMMA RecvBatchFacts ==
  ASSUME TypeOK, NEW r \in Ranks
  PROVE  /\ RecvBatch(r) \in Seq(Messages) /\ Len(RecvBatch(r)) = Count
         /\ << >> \o RecvBatch(r) = RecvBatch(r)
         /\ \A i \in 1..Count : /\ RecvBatch(r)[i].kind = "data"
                                /\ RecvBatch(r)[i].n = i
                                /\ RecvBatch(r)[i].round = round[r]
  <1>1. Count \in Nat /\ Numbers = 1..Count /\ round[r] \in Nat
    BY ParamFacts, RoundFacts
  <1>2. RecvBatch(r) = [n \in 1..Count |-> Message("data", n, round[r], << >>)]
    BY <1>1 DEF RecvBatch
  <1>3. << >> \in Bytes
    BY DEF Bytes
  <1>4. \A n \in 1..Count : Message("data", n, round[r], << >>) \in Messages
    BY <1>1, <1>3, MessageType
  <1>5. RecvBatch(r) \in [1..Count -> Messages]
    BY <1>2, <1>4
  <1>6. \A n \in 1..Count : RecvBatch(r)[n] = Message("data", n, round[r], << >>)
    BY <1>2
  <1>7. \A i \in 1..Count : /\ RecvBatch(r)[i].kind = "data"
                            /\ RecvBatch(r)[i].n = i
                            /\ RecvBatch(r)[i].round = round[r]
    BY <1>6, MessageFields
  <1>8. /\ RecvBatch(r) \in Seq(Messages) /\ Len(RecvBatch(r)) = Count
        /\ << >> \o RecvBatch(r) = RecvBatch(r)
    BY <1>1, <1>5, SequenceOf
  <1> QED
    BY <1>7, <1>8

\* One row of a matrix of queues is replaced.
LEMMA RowUpdate ==
  ASSUME NEW S, NEW f \in [Ranks -> [Ranks -> S]], NEW r \in Ranks,
         NEW D, NEW e, D # {} => e \in S
  PROVE  LET g == [f EXCEPT ![r] = [d \in Ranks |-> IF d \in D THEN e ELSE f[r][d]]]
         IN  /\ g \in [Ranks -> [Ranks -> S]]
             /\ \A s, d \in Ranks :
                   g[s][d] = IF s = r /\ d \in D THEN e ELSE f[s][d]
  OBVIOUS

LEMMA SendStep ==
  ASSUME IInv, NEW r \in Ranks, SendMessages(r)
  PROVE  IInv'
  <1>1. /\ TypeOK /\ PairsInv /\ BarrierInv /\ RootInv /\ RequestsInv
        /\ DigestInv /\ OutInv
    BY DEF IInv
  <1>2. /\ pc[r] = "send" /\ Goto(r, "recv") /\ params' = params /\ round' = round
        /\ buf' = buf /\ posted' = posted /\ requests' = requests /\ src' = src
        /\ got' = got /\ verdict' = verdict
    BY DEF SendMessages
  <1>3. /\ pc' \in [Ranks -> Labels]
        /\ \A q \in Ranks : pc'[q] = IF q = r THEN "recv" ELSE pc[q]
    BY <1>1, <1>2, GotoAt DEF Labels
  <1>4. /\ Count' = Count /\ Numbers' = Numbers /\ Messages' = Messages
        /\ \A q : Destinations(q)' = Destinations(q) /\ Sources(q)' = Sources(q)
    BY <1>2, SameParams
  <1>5. /\ 0 \in Ranks /\ Count \in Nat \ {0}
    BY <1>1, ParamFacts
  <1>6. /\ Batch(r) \in Seq(Messages) /\ Len(Batch(r)) = Count
        /\ << >> \o Batch(r) = Batch(r)
        /\ \A i \in 1..Count : /\ Batch(r)[i].kind = "data" /\ Batch(r)[i].n = i
                               /\ Batch(r)[i].round = round[r]
                               /\ Batch(r)[i].data = Copied(r, i)
    BY <1>1, BatchFacts
  <1>7. \A d \in Ranks : net[r][d] = << >>
    BY <1>1, <1>2, SendFindsEmpty
  <1>8. net' = [net EXCEPT ![r] =
                  [d \in Ranks |-> IF d \in Destinations(r) THEN Batch(r) ELSE net[r][d]]]
    <2>1. net' = [net EXCEPT ![r] =
                    [d \in Ranks |-> IF d \in Destinations(r)
                                     THEN net[r][d] \o Batch(r) ELSE net[r][d]]]
      BY <1>1 DEF SendMessages, TypeOK
    <2>2. \A d \in Ranks : net[r][d] \o Batch(r) = Batch(r)
      BY <1>6, <1>7
    <2> HIDE DEF TypeOK
    <2>3. [d \in Ranks |-> IF d \in Destinations(r)
                           THEN net[r][d] \o Batch(r) ELSE net[r][d]]
          = [d \in Ranks |-> IF d \in Destinations(r) THEN Batch(r) ELSE net[r][d]]
      BY <2>2
    <2> QED
      BY <2>1, <2>3
  <1>9. net \in [Ranks -> [Ranks -> Seq(Messages)]]
    BY <1>1 DEF TypeOK
  <1>10. /\ net' \in [Ranks -> [Ranks -> Seq(Messages)]]
         /\ \A s, d \in Ranks :
               net'[s][d] = IF s = r /\ d \in Destinations(r)
                            THEN Batch(r) ELSE net[s][d]
    BY <1>6, <1>8, <1>9, RowUpdate
  <1>11. TypeOK'
    BY <1>1, <1>2, <1>3, <1>4, <1>10 DEF TypeOK, Bytes, Contents, Garbage
  <1>12. \A q \in Ranks : /\ PostRound(q)' = PostRound(q)
                          /\ q # r => SentRound(q)' = SentRound(q)
                          /\ DigestOut(q)' <=> DigestOut(q)
    BY <1>2, <1>3 DEF PostRound, SentRound, DigestOut, Waiting
  <1>13. SentRound(r) = round[r] - 1 /\ SentRound(r)' = round[r] /\ round[r] \in Nat \ {0}
    BY <1>1, <1>2, <1>3, RoundFacts DEF SentRound, Waiting
  <1>14. \A s, d \in Ranks : Due(s, d)' <=> Due(s, d)
    BY <1>2, <1>3, <1>5 DEF Due
  <1>15. PairsInv'
    <2> SUFFICES ASSUME NEW s \in Ranks, NEW d \in Ranks PROVE PairInv(s, d)'
      BY DEF PairsInv
    <2>1. PairInv(s, d)
      BY <1>1 DEF PairsInv
    <2>2. pc'[d] = "recv_wait" <=> pc[d] = "recv_wait"
      BY <1>2, <1>3
    <2>3. CASE s # r
      BY <1>2, <1>4, <1>10, <1>12, <1>14, <2>1, <2>2, <2>3 DEF PairInv
    <2>4. CASE s = r /\ d \notin Destinations(r)
      <3>1. net'[s][d] = << >>
        BY <1>7, <1>10, <2>4
      <3>2. Shape(<< >>, round[r], Count) /\ DataLen(<< >>) = 0 /\ ~Digests(<< >>)
        BY <1>5, EmptyQueue
      <3> QED
        BY <1>2, <1>4, <1>12, <1>13, <1>14, <2>1, <2>2, <2>4, <3>1, <3>2 DEF PairInv
    <2>5. CASE s = r /\ d \in Destinations(r)
      <3>1. net'[s][d] = Batch(r) /\ net[s][d] = << >>
        BY <1>7, <1>10, <2>5
      <3>2. /\ Shape(Batch(r), round[r], Count) /\ DataLen(Batch(r)) = Count
            /\ ~Digests(Batch(r))
        BY <1>5, <1>6, WholeRound, SMTT(30)
      <3>3. DataLen(<< >>) = 0
        BY EmptyQueue
      <3>4. InStep(<< >>, SentRound(r), posted[d][s], PostRound(d), Count)
        BY <2>1, <2>5, <3>1 DEF PairInv
      <3>5. PostRound(d) \in Nat
        BY <1>1, RoundFacts
      <3>6. InStep(Batch(r), round[r], posted[d][s], PostRound(d), Count)
        BY <1>5, <1>13, <3>2, <3>3, <3>4, <3>5 DEF InStep
      <3> QED
        BY <1>2, <1>4, <1>12, <1>13, <1>14, <2>1, <2>2, <2>5, <3>1, <3>2, <3>6
           DEF PairInv
    <2> QED
      BY <2>3, <2>4, <2>5
  <1>16. BarrierInv'
    BY <1>1, <1>2, <1>3 DEF BarrierInv, Finishing
  <1>17. RootInv'
    <2>1. \A s \in Ranks : HasDigest(s)' => HasDigest(s)
      BY <1>2, <1>3, <1>5 DEF HasDigest
    <2>2. /\ pc'[0] \in Finishing <=> pc[0] \in Finishing
          /\ pc'[0] = "digest_wait" <=> pc[0] = "digest_wait"
          /\ pc'[0] \in {"free", "finalize"} <=> pc[0] \in {"free", "finalize"}
      BY <1>2, <1>3, <1>5 DEF Finishing
    <2> QED
      BY <1>1, <1>2, <1>12, <2>1, <2>2 DEF RootInv
  <1>18. RequestsInv'
    BY <1>1, <1>2, <1>3, <1>4 DEF RequestsInv
  <1>19. DigestInv'
    <2>1. ASSUME NEW s \in Ranks, NEW d \in Ranks, NEW i \in 1..Len(net'[s][d]),
                 net'[s][d][i].kind = "digest"
          PROVE  net'[s][d][i].data = buf'[s]
      <3>1. net'[s][d] # Batch(r)
        BY <1>6, <2>1
      <3>2. net'[s][d] = net[s][d]
        BY <1>10, <3>1
      <3> QED
        BY <1>1, <1>2, <2>1, <3>2 DEF DigestInv
    <2> QED
      BY <1>1, <1>2, <1>3, <1>5, <2>1 DEF DigestInv
  <1>20. OutInv'
    <2> SUFFICES ASSUME params.direction = "out" PROVE OutInv'
      BY <1>2 DEF OutInv
    <2>1. \A s \in Ranks : \A i \in Numbers : Arrived(s, i)' => Arrived(s, i)
      BY <1>2, <1>3, <1>4 DEF Arrived, Finishing
    <2>2. ASSUME NEW d \in Ranks, NEW i \in 1..Len(net'[0][d]),
                 net'[0][d][i].kind = "data"
          PROVE  net'[0][d][i].data \in {<< >>, <<buf[0][net'[0][d][i].n]>>}
      <3>1. CASE net'[0][d] = net[0][d]
        BY <1>1, <2>2, <3>1 DEF OutInv
      <3>2. CASE r = 0 /\ net'[0][d] = Batch(0)
        <4>1. /\ i \in 1..Count /\ net'[0][d][i].n = i
              /\ net'[0][d][i].data = Copied(0, i)
          BY <1>6, <2>2, <3>2
        <4> QED
          BY <4>1 DEF Copied
      <3> QED
        BY <1>5, <1>10, <3>1, <3>2
    <2> QED
      BY <1>1, <1>2, <1>4, <2>1, <2>2 DEF OutInv
  <1> QED
    BY <1>11, <1>15, <1>16, <1>17, <1>18, <1>19, <1>20 DEF IInv


LEMMA RecvStep ==
  ASSUME IInv, NEW r \in Ranks, RecvMessages(r)
  PROVE  IInv'
  <1>1. /\ TypeOK /\ PairsInv /\ BarrierInv /\ RootInv /\ RequestsInv
        /\ DigestInv /\ OutInv
    BY DEF IInv
  <1>2. /\ pc[r] = "recv" /\ Goto(r, "recv_wait") /\ params' = params
        /\ round' = round /\ buf' = buf /\ net' = net /\ src' = src
        /\ got' = got /\ verdict' = verdict
        /\ requests' = [requests EXCEPT ![r] = Cardinality(Sources(r)) * Count]
    BY DEF RecvMessages
  <1>3. /\ pc' \in [Ranks -> Labels]
        /\ \A q \in Ranks : pc'[q] = IF q = r THEN "recv_wait" ELSE pc[q]
    BY <1>1, <1>2, GotoAt DEF Labels
  <1>4. /\ Count' = Count /\ Numbers' = Numbers /\ Messages' = Messages
        /\ \A q : Destinations(q)' = Destinations(q) /\ Sources(q)' = Sources(q)
    BY <1>2, SameParams
  <1>5. /\ 0 \in Ranks /\ Count \in Nat \ {0} /\ Numbers = 1..Count
    BY <1>1, ParamFacts
  <1>6. /\ RecvBatch(r) \in Seq(Messages) /\ Len(RecvBatch(r)) = Count
        /\ << >> \o RecvBatch(r) = RecvBatch(r)
        /\ \A i \in 1..Count : /\ RecvBatch(r)[i].kind = "data"
                               /\ RecvBatch(r)[i].n = i
                               /\ RecvBatch(r)[i].round = round[r]
    BY <1>1, RecvBatchFacts
  <1>7. \A s \in Ranks : posted[r][s] = << >>
    BY <1>1, <1>2, NothingPosted
  <1>8. posted' = [posted EXCEPT ![r] =
                     [s \in Ranks |-> IF s \in Sources(r) THEN RecvBatch(r)
                                      ELSE posted[r][s]]]
    <2>1. posted' = [posted EXCEPT ![r] =
                       [s \in Ranks |-> IF s \in Sources(r)
                                        THEN posted[r][s] \o RecvBatch(r)
                                        ELSE posted[r][s]]]
      BY <1>1 DEF RecvMessages, TypeOK, RecvBatch
    <2>2. \A s \in Ranks : posted[r][s] \o RecvBatch(r) = RecvBatch(r)
      BY <1>6, <1>7
    <2>3. [s \in Ranks |-> IF s \in Sources(r)
                           THEN posted[r][s] \o RecvBatch(r) ELSE posted[r][s]]
          = [s \in Ranks |-> IF s \in Sources(r) THEN RecvBatch(r) ELSE posted[r][s]]
      BY <2>2
    <2> QED
      BY <2>1, <2>3
  <1>9. posted \in [Ranks -> [Ranks -> Seq(Messages)]]
    BY <1>1 DEF TypeOK
  <1>10. /\ posted' \in [Ranks -> [Ranks -> Seq(Messages)]]
         /\ \A d, s \in Ranks :
               posted'[d][s] = IF d = r /\ s \in Sources(r)
                               THEN RecvBatch(r) ELSE posted[d][s]
    BY <1>6, <1>8, <1>9, RowUpdate
  <1>11. /\ requests' \in [Ranks -> Nat]
         /\ \A q \in Ranks :
               requests'[q] = IF q = r THEN Cardinality(Sources(r)) * Count
                              ELSE requests[q]
    <2>1. Cardinality(Sources(r)) \in Nat
      BY <1>1, SourceCount
    <2>2. Cardinality(Sources(r)) * Count \in Nat
      BY <1>5, <2>1
    <2>3. requests \in [Ranks -> Nat]
      BY <1>1 DEF TypeOK
    <2> QED
      BY <1>2, <2>2, <2>3
  <1>12. TypeOK'
    BY <1>1, <1>2, <1>3, <1>4, <1>10, <1>11 DEF TypeOK, Bytes, Contents, Garbage
  <1>13. \A q \in Ranks : /\ SentRound(q)' = SentRound(q)
                          /\ q # r => PostRound(q)' = PostRound(q)
                          /\ DigestOut(q)' <=> DigestOut(q)
    BY <1>2, <1>3 DEF PostRound, SentRound, DigestOut, Waiting
  <1>14. PostRound(r) = round[r] - 1 /\ PostRound(r)' = round[r] /\ round[r] \in Nat \ {0}
    BY <1>1, <1>2, <1>3, RoundFacts DEF PostRound, Waiting
  <1>15. \A s, d \in Ranks : Due(s, d)' <=> Due(s, d)
    BY <1>2, <1>3, <1>5 DEF Due
  <1>16. /\ Shape(RecvBatch(r), round[r], Count) /\ DataLen(RecvBatch(r)) = Count
         /\ ~Digests(RecvBatch(r))
    BY <1>5, <1>6, WholeRound, SMTT(30)
  <1>17. PairsInv'
    <2> SUFFICES ASSUME NEW s \in Ranks, NEW d \in Ranks PROVE PairInv(s, d)'
      BY DEF PairsInv
    <2>1. PairInv(s, d)
      BY <1>1 DEF PairsInv
    <2>2. d \in Destinations(s) <=> s \in Sources(d)
      BY <1>1, Links
    <2>3. CASE d # r
      <3>1. posted'[d][s] = posted[d][s] /\ pc'[d] = pc[d]
        BY <1>3, <1>10, <2>3
      <3> QED
        BY <1>2, <1>4, <1>13, <1>15, <2>1, <2>3, <3>1 DEF PairInv
    <2>4. CASE d = r /\ d \notin Destinations(s)
      <3>1. posted'[d][s] = << >>
        BY <1>7, <1>10, <2>2, <2>4
      <3>2. Shape(<< >>, round[r], Count) /\ DataLen(<< >>) = 0 /\ ~Digests(<< >>)
        BY <1>5, EmptyQueue
      <3> QED
        BY <1>2, <1>4, <1>13, <1>14, <1>15, <2>1, <2>4, <3>1, <3>2 DEF PairInv
    <2>5. CASE d = r /\ d \in Destinations(s)
      <3>1. posted'[d][s] = RecvBatch(r) /\ posted[d][s] = << >> /\ pc'[d] = "recv_wait"
        BY <1>3, <1>7, <1>10, <2>2, <2>5
      <3>2. DataLen(<< >>) = 0
        BY EmptyQueue
      <3>3. InStep(net[s][d], SentRound(s), << >>, PostRound(r), Count)
        BY <2>1, <2>5, <3>1 DEF PairInv
      <3>4. SentRound(s) \in Nat
        BY <1>1, RoundFacts
      <3>5. InStep(net[s][d], SentRound(s), RecvBatch(r), round[r], Count)
        BY <1>5, <1>14, <1>16, <3>2, <3>3, <3>4 DEF InStep
      <3> QED
        BY <1>2, <1>4, <1>13, <1>14, <1>15, <1>16, <2>1, <2>5, <3>1, <3>5
           DEF PairInv
    <2> QED
      BY <2>3, <2>4, <2>5
  <1>18. BarrierInv'
    BY <1>1, <1>2, <1>3 DEF BarrierInv, Finishing
  <1>19. pc'[0] = "digest_wait" => pc[0] = "digest_wait" /\ \A s \in Ranks : posted'[0][s] = posted[0][s]
    BY <1>3, <1>5, <1>10
  <1>20. RootInv'
    <2>1. \A s \in Ranks : HasDigest(s)' => HasDigest(s)
      BY <1>2, <1>19 DEF HasDigest
    <2>2. /\ pc'[0] \in Finishing <=> pc[0] \in Finishing
          /\ pc'[0] = "digest_wait" <=> pc[0] = "digest_wait"
          /\ pc'[0] \in {"free", "finalize"} <=> pc[0] \in {"free", "finalize"}
      BY <1>2, <1>3, <1>5 DEF Finishing
    <2> QED
      BY <1>1, <1>2, <1>13, <2>1, <2>2 DEF RootInv
  <1>21. RequestsInv'
    BY <1>1, <1>3, <1>4, <1>11 DEF RequestsInv
  <1>22. DigestInv'
    <2>1. pc'[0] = "digest_wait" /\ posted'[0][src] = << >> => got = buf[src]
      <3> SUFFICES ASSUME pc'[0] = "digest_wait", posted'[0][src] = << >>
                   PROVE  got = buf[src]
        OBVIOUS
      <3>1. src \in Ranks
        BY <1>1, <1>19, SizeAssumption DEF RootInv, TypeOK, Ranks
      <3> QED
        BY <1>1, <1>19, <3>1 DEF DigestInv
    <2> QED
      BY <1>1, <1>2, <2>1 DEF DigestInv
  <1>23. OutInv'
    <2> SUFFICES ASSUME params.direction = "out" PROVE OutInv'
      BY <1>2 DEF OutInv
    <2>1. ASSUME NEW s \in Ranks \ {0}, NEW i \in Numbers, Arrived(s, i)'
          PROVE  Arrived(s, i)
      <3>1. CASE s # r
        BY <1>2, <1>3, <1>4, <1>5, <1>10, <2>1, <3>1 DEF Arrived
      <3>2. CASE s = r
        <4>1. 0 \in Sources(r)
          BY <1>1, <1>5, <3>2, Links
        <4>2. posted'[r][0] = RecvBatch(r)
          BY <1>5, <1>10, <4>1
        <4>3. ~(i <= Count - Count)
          BY <1>5
        <4> QED
          BY <1>2, <1>3, <1>4, <1>16, <2>1, <3>2, <4>2, <4>3 DEF Arrived, Finishing
      <3> QED
        BY <3>1, <3>2
    <2> QED
      BY <1>1, <1>2, <1>4, <2>1 DEF OutInv
  <1> QED
    BY <1>12, <1>17, <1>18, <1>20, <1>21, <1>22, <1>23 DEF IInv


-----------------------------------------------------------------------------
(* verify_checksum.                                                         *)

LEMMA SendDigestStep ==
  ASSUME IInv, NEW r \in Ranks, SendDigest(r)
  PROVE  IInv'
  <1>1. /\ TypeOK /\ PairsInv /\ BarrierInv /\ RootInv /\ RequestsInv
        /\ DigestInv /\ OutInv
    BY DEF IInv
  <1> DEFINE l == IF "digest" \in params.eager THEN "free" ELSE "digest_wait"
             m == Message("digest", 0, 0, buf[r])
             e == Append(net[r][0], m)
  <1>2. /\ r # 0 /\ pc[r] = "digest" /\ Goto(r, l) /\ params' = params
        /\ round' = round /\ buf' = buf /\ posted' = posted
        /\ requests' = requests /\ src' = src /\ got' = got /\ verdict' = verdict
    BY DEF SendDigest
  <1>3. l \in {"free", "digest_wait"}
    OBVIOUS
  <1>4. 0 \in Ranks /\ Count \in Nat \ {0}
    BY <1>1, ParamFacts
  <1>5. net \in [Ranks -> [Ranks -> Seq(Messages)]] /\ net[r][0] \in Seq(Messages)
    BY <1>1, <1>4 DEF TypeOK
  <1>6. net' = [net EXCEPT ![r][0] = e]
    BY <1>4, <1>5 DEF SendDigest
  <1>7. /\ m \in Messages /\ m.kind = "digest" /\ m.n = 0 /\ m.round = 0
        /\ m.data = buf[r]
    <2>1. buf[r] \in Bytes
      BY <1>1 DEF TypeOK, Bytes
    <2> QED
      BY <2>1, MessageType, MessageFields
  <1> HIDE DEF l, m
  <1>8. e \in Seq(Messages)
    BY <1>5, <1>7
  <1>9. PairInv(r, 0) /\ ~Digests(net[r][0])
    BY <1>1, <1>2, <1>4 DEF PairsInv, PairInv, DigestOut
  <1>10. /\ Shape(e, SentRound(r), Count) /\ DataLen(e) = DataLen(net[r][0])
         /\ Digests(e) /\ Len(e) = Len(net[r][0]) + 1
    <2>1. Shape(net[r][0], SentRound(r), Count)
      BY <1>9 DEF PairInv
    <2> QED
      BY <1>4, <1>5, <1>7, <1>9, <2>1, DigestAppended
  <1>11. \A i \in 1..Len(net[r][0]) : e[i] = net[r][0][i]
    BY <1>5, <1>7
  <1>12. e[Len(net[r][0]) + 1] = m
    BY <1>5, <1>7
  <1> HIDE DEF e
  <1>13. /\ net' \in [Ranks -> [Ranks -> Seq(Messages)]]
         /\ \A s, d \in Ranks : net'[s][d] = IF s = r /\ d = 0 THEN e ELSE net[s][d]
    BY <1>4, <1>5, <1>6, <1>8
  <1>14. /\ pc' \in [Ranks -> Labels]
         /\ \A q \in Ranks : pc'[q] = IF q = r THEN l ELSE pc[q]
    BY <1>1, <1>2, <1>3, GotoAt DEF Labels
  <1>15. /\ Count' = Count /\ Numbers' = Numbers /\ Messages' = Messages
         /\ \A q : Destinations(q)' = Destinations(q) /\ Sources(q)' = Sources(q)
    BY <1>2, SameParams
  <1>16. TypeOK'
    BY <1>1, <1>2, <1>13, <1>14, <1>15 DEF TypeOK, Bytes, Contents, Garbage
  <1>17. \A q \in Ranks : /\ SentRound(q)' = SentRound(q)
                          /\ PostRound(q)' = PostRound(q)
                          /\ DigestOut(q) => DigestOut(q)'
                          /\ pc'[q] = "recv_wait" <=> pc[q] = "recv_wait"
    BY <1>2, <1>3, <1>14 DEF PostRound, SentRound, DigestOut, Waiting
  <1>18. DigestOut(r)'
    BY <1>2, <1>3, <1>14 DEF DigestOut
  <1>19. pc'[0] = pc[0]
    BY <1>2, <1>4, <1>14
  <1>20. \A s, d \in Ranks : Due(s, d)' <=> Due(s, d)
    BY <1>2, <1>19 DEF Due
  <1>21. PairsInv'
    <2> SUFFICES ASSUME NEW s \in Ranks, NEW d \in Ranks PROVE PairInv(s, d)'
      BY DEF PairsInv
    <2>1. PairInv(s, d)
      BY <1>1 DEF PairsInv
    <2>2. CASE ~(s = r /\ d = 0)
      <3>1. net'[s][d] = net[s][d]
        BY <1>13, <2>2
      <3> QED
        BY <1>2, <1>15, <1>17, <1>20, <2>1, <3>1 DEF PairInv
    <2>3. CASE s = r /\ d = 0
      <3>1. net'[s][d] = e
        BY <1>13, <2>3
      <3>2. InStep(net[s][d], SentRound(s), posted[d][s], PostRound(d), Count)
            => InStep(e, SentRound(s), posted[d][s], PostRound(d), Count)
        BY <1>10, <2>3 DEF InStep
      <3> QED
        BY <1>2, <1>10, <1>15, <1>17, <1>18, <1>20, <2>1, <2>3, <3>1, <3>2 DEF PairInv
    <2> QED
      BY <2>2, <2>3
  <1>22. BarrierInv'
    BY <1>1, <1>2, <1>3, <1>14 DEF BarrierInv, Finishing
  <1>23. RootInv'
    <2>1. \A s \in Ranks : HasDigest(s)' <=> HasDigest(s)
      BY <1>2, <1>19 DEF HasDigest
    <2> QED
      BY <1>1, <1>2, <1>17, <1>19, <2>1 DEF RootInv
  <1>24. RequestsInv'
    BY <1>1, <1>2, <1>15, <1>17 DEF RequestsInv
  <1>25. DigestInv'
    <2>1. ASSUME NEW s \in Ranks, NEW d \in Ranks, NEW i \in 1..Len(net'[s][d]),
                 net'[s][d][i].kind = "digest"
          PROVE  net'[s][d][i].data = buf[s]
      <3>1. CASE net'[s][d] = net[s][d]
        BY <1>1, <2>1, <3>1 DEF DigestInv
      <3>2. CASE s = r /\ d = 0 /\ net'[s][d] = e
        <4>1. i \in 1..Len(net[r][0]) \/ i = Len(net[r][0]) + 1
          BY <1>5, <1>10, <2>1, <3>2
        <4>2. CASE i \in 1..Len(net[r][0])
          BY <1>1, <1>4, <1>11, <2>1, <3>2, <4>2 DEF DigestInv
        <4>3. CASE i = Len(net[r][0]) + 1
          BY <1>7, <1>12, <3>2, <4>3
        <4> QED
          BY <4>1, <4>2, <4>3
      <3> QED
        BY <1>13, <3>1, <3>2
    <2> QED
      BY <1>1, <1>2, <1>19, <2>1 DEF DigestInv
  <1>26. OutInv'
    <2>1. \A s \in Ranks : \A i \in Numbers : Arrived(s, i)' => Arrived(s, i)
      BY <1>2, <1>3, <1>14, <1>15 DEF Arrived, Finishing
    <2>2. \A d \in Ranks : net'[0][d] = net[0][d]
      BY <1>2, <1>4, <1>13
    <2> QED
      BY <1>1, <1>2, <1>15, <2>1, <2>2 DEF OutInv
  <1> QED
    BY <1>16, <1>21, <1>22, <1>23, <1>24, <1>25, <1>26 DEF IInv


\* Rank 0 goes on in verify_checksum or leaves it.
LEMMA RootStep ==
  ASSUME IInv, NEW l \in {"digest", "free"}, Goto(0, l),
         params' = params, round' = round, buf' = buf, net' = net,
         posted' = posted, requests' = requests, got' = got,
         pc[0] \in {"digest", "digest_wait"},
         pc[0] = "digest_wait" => posted[0][src] = << >>,
         src' \in 1..Size, verdict' \in {"none", "ok", "incorrect"},
         \* what is to be shown of rank 0
         verdict' # "none" <=> l = "free",
         verdict' = "ok" => src' = Size,
         src' = src \/ (src' = src + 1 /\ pc[0] = "digest_wait"),
         ~params.nul /\ src' = src + 1 => buf[src] = buf[0],
         params.direction = "out" => verdict' # "incorrect"
  PROVE  IInv'
  <1>1. /\ TypeOK /\ PairsInv /\ BarrierInv /\ RootInv /\ RequestsInv
        /\ DigestInv /\ OutInv
    BY DEF IInv
  <1>2. 0 \in Ranks
    BY <1>1, ParamFacts
  <1>3. /\ pc' \in [Ranks -> Labels]
        /\ \A q \in Ranks : pc'[q] = IF q = 0 THEN l ELSE pc[q]
    BY <1>1, <1>2, GotoAt DEF Labels
  <1>4. /\ Count' = Count /\ Numbers' = Numbers /\ Messages' = Messages
        /\ \A q : Destinations(q)' = Destinations(q) /\ Sources(q)' = Sources(q)
    BY SameParams
  <1>5. src \in 1..Size /\ Size \in Nat \ {0} /\ (src < Size => src \in Ranks)
    BY <1>1, SizeAssumption DEF TypeOK, Ranks
  <1>6. TypeOK'
    BY <1>1, <1>3, <1>4 DEF TypeOK, Bytes, Contents, Garbage
  <1>7. \A q \in Ranks : /\ SentRound(q)' = SentRound(q)
                         /\ PostRound(q)' = PostRound(q)
                         /\ DigestOut(q)' <=> DigestOut(q)
                         /\ pc'[q] = "recv_wait" <=> pc[q] = "recv_wait"
                         /\ pc'[q] \in Finishing <=> pc[q] \in Finishing
                         /\ pc'[q] \in {"start", "barrier"} <=> pc[q] \in {"start", "barrier"}
                         /\ pc'[q] = "start" <=> pc[q] = "start"
                         /\ pc'[q] = "barrier" <=> pc[q] = "barrier"
    BY <1>2, <1>3 DEF PostRound, SentRound, DigestOut, Waiting, Finishing
  <1>8. PairsInv'
    <2> SUFFICES ASSUME NEW s \in Ranks, NEW d \in Ranks PROVE PairInv(s, d)'
      BY DEF PairsInv
    <2>1. PairInv(s, d)
      BY <1>1 DEF PairsInv
    <2>2. ~Digests(<< >>)
      BY EmptyQueue
    <2>3. ~Digests(posted[d][s])
      BY <2>1, <2>2 DEF PairInv, Due
    <2> QED
      BY <1>4, <1>7, <2>1, <2>3 DEF PairInv
  <1>9. BarrierInv'
    BY <1>1, <1>7 DEF BarrierInv
  <1>9a. \A s \in 1..(src' - 1) : s \in 1..(src - 1) \/ (s = src /\ src' = src + 1)
    <2>1. CASE src' = src
      BY <2>1
    <2>2. CASE src' = src + 1
      <3>1. src' - 1 = src
        BY <1>5, <2>2
      <3>2. \A s \in 1..src : s \in 1..(src - 1) \/ s = src
        BY <1>5
      <3> QED
        BY <2>2, <3>1, <3>2
    <2> QED
      BY <2>1, <2>2
  <1>10. RootInv'
    <2>1. pc'[0] = l
      BY <1>2, <1>3
    <2>2. \A s \in Ranks : HasDigest(s)' => HasDigest(s)
      <3> SUFFICES ASSUME NEW s \in Ranks, HasDigest(s)' PROVE HasDigest(s)
        OBVIOUS
      <3>1. s \in 1..(src' - 1)
        BY <2>1 DEF HasDigest
      <3>2. s \in 1..(src - 1) \/ (s = src /\ src' = src + 1)
        BY <1>9a, <3>1
      <3> QED
        <4>1. src' = src + 1 => src' # src
          BY <1>5
        <4> QED
          BY <3>2, <4>1 DEF HasDigest
    <2> QED
      BY <1>1, <1>7, <2>1, <2>2 DEF RootInv, Finishing
  <1>11. RequestsInv'
    BY <1>1, <1>4, <1>7 DEF RequestsInv
  <1>12. DigestInv'
    <2>1. pc'[0] # "digest_wait"
      BY <1>2, <1>3
    <2>2. ~params.nul => \A s \in 1..(src' - 1) : buf[s] = buf[0]
      <3> SUFFICES ASSUME ~params.nul, NEW s \in 1..(src' - 1) PROVE buf[s] = buf[0]
        OBVIOUS
      <3>1. s \in 1..(src - 1) \/ (s = src /\ src' = src + 1)
        BY <1>9a
      <3> QED
        BY <1>1, <3>1 DEF DigestInv
    <2> QED
      BY <1>1, <2>1, <2>2 DEF DigestInv
  <1>13. OutInv'
    <2>1. \A s \in Ranks \ {0} : \A i \in Numbers : Arrived(s, i)' => Arrived(s, i)
      BY <1>3, <1>4 DEF Arrived
    <2> QED
      BY <1>1, <1>4, <2>1 DEF OutInv
  <1> QED
    BY <1>6, <1>8, <1>9, <1>10, <1>11, <1>12, <1>13 DEF IInv

LEMMA CompareStep ==
  ASSUME IInv, CompareDigest
  PROVE  IInv'
  <1>1. TypeOK /\ RootInv /\ DigestInv /\ OutInv
    BY DEF IInv
  <1>2. /\ pc[0] = "digest_wait" /\ posted[0][src] = << >>
        /\ params' = params /\ round' = round /\ buf' = buf /\ net' = net
        /\ posted' = posted /\ requests' = requests /\ got' = got
    BY DEF CompareDigest
  <1>3. src \in 1..Size /\ src < Size /\ Size \in Nat \ {0} /\ verdict = "none"
    BY <1>1, <1>2, SizeAssumption DEF TypeOK, RootInv
  <1>4. got = buf[src]
    BY <1>1, <1>2 DEF DigestInv
  <1>5. CASE SameDigest(buf[0], got) /\ src' = src + 1 /\ Goto(0, "digest")
             /\ verdict' = verdict
    <2>1. src' \in 1..Size
      BY <1>3, <1>5
    <2>2. ~params.nul => buf[src] = buf[0]
      BY <1>4, <1>5 DEF SameDigest
    <2> QED
      BY <1>2, <1>3, <1>5, <2>1, <2>2, RootStep
  <1>6. CASE ~SameDigest(buf[0], got) /\ verdict' = "incorrect" /\ Goto(0, "free")
             /\ src' = src
    <2>1. params.direction # "out"
      <3> SUFFICES ASSUME params.direction = "out" PROVE FALSE
        OBVIOUS
      <3>1. src \in Ranks /\ src # 0
        BY <1>3 DEF Ranks
      <3>2. DigestOut(src)
        BY <1>1, <1>2, <3>1 DEF RootInv, HasDigest
      <3>3. buf[src] = buf[0]
        BY <1>1, <3>1, <3>2, DeliveredRank
      <3> QED
        BY <1>4, <1>6, <3>3 DEF SameDigest
    <2>2. src' # src + 1
      BY <1>3, <1>6
    <2> QED
      BY <1>2, <1>3, <1>6, <2>1, <2>2, RootStep
  <1> QED
    BY <1>5, <1>6 DEF CompareDigest

LEMMA RecvDigestStep ==
  ASSUME IInv, RecvDigest
  PROVE  IInv'
  <1>1. /\ TypeOK /\ PairsInv /\ BarrierInv /\ RootInv /\ RequestsInv
        /\ DigestInv /\ OutInv
    BY DEF IInv
  <1> DEFINE m == Message("digest", 0, 0, << >>)
             e == Append(<< >>, m)
  <1>2. /\ pc[0] = "digest" /\ params' = params /\ round' = round /\ buf' = buf
        /\ net' = net /\ requests' = requests /\ src' = src /\ got' = got
    BY DEF RecvDigest
  <1>3. 0 \in Ranks /\ Count \in Nat \ {0}
    BY <1>1, ParamFacts
  <1>4. src \in 1..Size /\ Size \in Nat \ {0} /\ verdict = "none"
    BY <1>1, <1>2, SizeAssumption DEF TypeOK, RootInv
  <1>5. CASE src = Size /\ verdict' = "ok" /\ Goto(0, "free") /\ posted' = posted
    <2>1. src' # src + 1 /\ src' \in 1..Size
      BY <1>2, <1>4
    <2> QED
      BY <1>2, <1>5, <2>1, RootStep
  <1>6. CASE /\ src < Size /\ Goto(0, "digest_wait") /\ verdict' = verdict
             /\ posted' = [posted EXCEPT ![0][src] = Append(@, m)]
    <2>1. src \in Ranks /\ src # 0
      BY <1>4, <1>6 DEF Ranks
    <2>2. \A s \in Ranks : posted[0][s] = << >>
      BY <1>1, <1>2, <1>3, NothingPosted
    <2>3. posted \in [Ranks -> [Ranks -> Seq(Messages)]]
      BY <1>1 DEF TypeOK
    <2>4. posted' = [posted EXCEPT ![0][src] = e]
      <3>1. posted' = [posted EXCEPT ![0][src] = Append(posted[0][src], m)]
        BY <1>3, <1>6, <2>1, <2>3
      <3> QED
        BY <2>1, <2>2, <3>1
    <2>5. m \in Messages /\ m.kind = "digest" /\ m.n = 0 /\ m.round = 0
      <3>1. << >> \in Bytes
        BY DEF Bytes
      <3> QED
        BY <3>1, MessageType, MessageFields
    <2> HIDE DEF m
    <2>6. e \in Seq(Messages) /\ Len(e) = 1 /\ e # << >>
      BY <2>5
    <2>7. Shape(e, PostRound(0), Count) /\ DataLen(e) = 0 /\ Digests(e)
      <3>1. /\ Shape(<< >>, PostRound(0), Count) /\ DataLen(<< >>) = 0
            /\ ~Digests(<< >>) /\ << >> \in Seq(Messages)
        BY <1>3, EmptyQueue
      <3> QED
        BY <1>3, <2>5, <3>1, DigestAppended
    <2> HIDE DEF e
    <2>8. /\ posted' \in [Ranks -> [Ranks -> Seq(Messages)]]
          /\ \A d, s \in Ranks :
                posted'[d][s] = IF d = 0 /\ s = src THEN e ELSE posted[d][s]
      BY <1>3, <2>1, <2>3, <2>4, <2>6
    <2>9. /\ pc' \in [Ranks -> Labels]
          /\ \A q \in Ranks : pc'[q] = IF q = 0 THEN "digest_wait" ELSE pc[q]
      BY <1>1, <1>3, <1>6, GotoAt DEF Labels
    <2>10. /\ Count' = Count /\ Numbers' = Numbers /\ Messages' = Messages
           /\ \A q : Destinations(q)' = Destinations(q) /\ Sources(q)' = Sources(q)
      BY <1>2, SameParams
    <2>11. TypeOK'
      BY <1>1, <1>2, <1>6, <2>8, <2>9, <2>10 DEF TypeOK, Bytes, Contents, Garbage
    <2>12. \A q \in Ranks : /\ SentRound(q)' = SentRound(q)
                            /\ PostRound(q)' = PostRound(q)
                            /\ DigestOut(q)' <=> DigestOut(q)
                            /\ pc'[q] = "recv_wait" <=> pc[q] = "recv_wait"
      BY <1>2, <1>3, <2>9 DEF PostRound, SentRound, DigestOut, Waiting
    <2>13. PairsInv'
      <3> SUFFICES ASSUME NEW s \in Ranks, NEW d \in Ranks PROVE PairInv(s, d)'
        BY DEF PairsInv
      <3>1. PairInv(s, d)
        BY <1>1 DEF PairsInv
      <3>2. CASE ~(d = 0 /\ s = src)
        <4>1. posted'[d][s] = posted[d][s]
          BY <2>8, <3>2
        <4>2. ~Digests(posted[d][s])
          BY <1>2, <3>1 DEF PairInv, Due
        <4> QED
          BY <1>2, <2>10, <2>12, <3>1, <4>1, <4>2 DEF PairInv
      <3>3. CASE d = 0 /\ s = src
        <4>1. posted'[d][s] = e /\ posted[d][s] = << >> /\ DataLen(<< >>) = 0
          BY <2>1, <2>2, <2>8, <3>3, EmptyQueue
        <4>2. InStep(net[s][d], SentRound(s), posted[d][s], PostRound(d), Count)
              => InStep(net[s][d], SentRound(s), e, PostRound(d), Count)
          BY <2>7, <4>1 DEF InStep
        <4>3. Due(s, d)'
          BY <1>2, <1>3, <2>9, <3>3 DEF Due
        <4> QED
          BY <1>2, <2>6, <2>7, <2>10, <2>12, <3>1, <3>3, <4>1, <4>2, <4>3 DEF PairInv
      <3> QED
        BY <3>2, <3>3
    <2>14. BarrierInv'
      BY <1>1, <1>2, <1>3, <2>9 DEF BarrierInv, Finishing
    <2>15. posted'[0][src] # << >> /\ pc'[0] = "digest_wait"
      BY <1>3, <2>1, <2>6, <2>8, <2>9
    <2>16. RootInv'
      <3>1. \A s \in Ranks : HasDigest(s)' => HasDigest(s)
        BY <1>2, <2>15 DEF HasDigest
      <3> QED
        BY <1>1, <1>2, <1>4, <1>6, <2>12, <2>15, <3>1 DEF RootInv, Finishing
    <2>17. RequestsInv'
      BY <1>1, <1>2, <2>10, <2>12 DEF RequestsInv
    <2>18. DigestInv'
      BY <1>1, <1>2, <2>15 DEF DigestInv
    <2>19. OutInv'
      <3>1. \A s \in Ranks \ {0} : posted'[s][0] = posted[s][0]
        BY <1>3, <2>8
      <3>2. \A s \in Ranks \ {0} : \A i \in Numbers : Arrived(s, i)' => Arrived(s, i)
        BY <1>2, <2>9, <2>10, <3>1 DEF Arrived
      <3> QED
        BY <1>1, <1>2, <1>6, <2>10, <3>2 DEF OutInv
    <2> QED
      BY <2>11, <2>13, <2>14, <2>16, <2>17, <2>18, <2>19 DEF IInv
  <1> QED
    BY <1>5, <1>6 DEF RecvDigest


-----------------------------------------------------------------------------
(* The library.                                                             *)

LEMMA TailEntries ==
  ASSUME NEW S, NEW q \in Seq(S), q # << >>
  PROVE  /\ Tail(q) \in Seq(S) /\ Head(q) \in S /\ Head(q) = q[1]
         /\ Len(q) \in Nat \ {0}
         /\ \A i \in 1..Len(Tail(q)) : i + 1 \in 1..Len(q) /\ Tail(q)[i] = q[i + 1]
  <1>1. Len(q) \in Nat \ {0} /\ Tail(q) \in Seq(S) /\ Len(Tail(q)) = Len(q) - 1
    OBVIOUS
  <1>2. Head(q) = q[1] /\ q[1] \in S
    BY <1>1
  <1> QED
    BY <1>1, <1>2

\* A match takes one message and one receive, and leaves the ranks alone.
Taken(s, d) ==
    /\ net' \in [Ranks -> [Ranks -> Seq(Messages)]]
    /\ posted' \in [Ranks -> [Ranks -> Seq(Messages)]]
    /\ \A x, y \in Ranks : /\ net'[x][y] = IF x = s /\ y = d THEN Tail(net[s][d])
                                           ELSE net[x][y]
                           /\ posted'[y][x] = IF x = s /\ y = d THEN Tail(posted[d][s])
                                              ELSE posted[y][x]
    /\ \A q \in Ranks : /\ SentRound(q)' = SentRound(q)
                        /\ PostRound(q)' = PostRound(q)
                        /\ DigestOut(q)' <=> DigestOut(q)
    /\ Count' = Count /\ Numbers' = Numbers /\ Messages' = Messages
    /\ \A q : Destinations(q)' = Destinations(q) /\ Sources(q)' = Sources(q)
    /\ params' = params /\ pc' = pc /\ round' = round /\ requests' = requests
    /\ src' = src /\ verdict' = verdict

LEMMA MatchTakes ==
  ASSUME TypeOK, NEW s \in Ranks, NEW d \in Ranks, Match(s, d)
  PROVE  Taken(s, d)
  <1>1. /\ net \in [Ranks -> [Ranks -> Seq(Messages)]]
        /\ posted \in [Ranks -> [Ranks -> Seq(Messages)]]
    BY DEF TypeOK
  <1>2. /\ params' = params /\ pc' = pc /\ round' = round /\ requests' = requests
        /\ src' = src /\ verdict' = verdict
        /\ net[s][d] # << >> /\ posted[d][s] # << >>
        /\ net' = [net EXCEPT ![s][d] = Tail(@)]
        /\ posted' = [posted EXCEPT ![d][s] = Tail(@)]
    BY DEF Match
  <1>3. net[s][d] \in Seq(Messages) /\ posted[d][s] \in Seq(Messages)
    BY <1>1
  <1> DEFINE a == Tail(net[s][d])
             b == Tail(posted[d][s])
  <1>4. a \in Seq(Messages) /\ b \in Seq(Messages)
    BY <1>2, <1>3, TailEntries
  <1>5. net' = [net EXCEPT ![s][d] = a] /\ posted' = [posted EXCEPT ![d][s] = b]
    BY <1>1, <1>2
  <1> HIDE DEF a, b
  <1>6. /\ net' \in [Ranks -> [Ranks -> Seq(Messages)]]
        /\ \A x, y \in Ranks : net'[x][y] = IF x = s /\ y = d THEN a ELSE net[x][y]
    BY <1>1, <1>4, <1>5
  <1>7. /\ posted' \in [Ranks -> [Ranks -> Seq(Messages)]]
        /\ \A x, y \in Ranks : posted'[y][x] = IF x = s /\ y = d THEN b ELSE posted[y][x]
    BY <1>1, <1>4, <1>5
  <1>8. \A q \in Ranks : /\ SentRound(q)' = SentRound(q)
                         /\ PostRound(q)' = PostRound(q)
                         /\ DigestOut(q)' <=> DigestOut(q)
    BY <1>2 DEF SentRound, PostRound, DigestOut
  <1>9. /\ Count' = Count /\ Numbers' = Numbers /\ Messages' = Messages
        /\ \A q : Destinations(q)' = Destinations(q) /\ Sources(q)' = Sources(q)
    BY <1>2, SameParams
  <1> QED
    BY <1>2, <1>6, <1>7, <1>8, <1>9 DEF Taken, a, b

\* The parts of the invariant that a match changes only in the matched pair.
LEMMA MatchOthers ==
  ASSUME IInv, NEW s \in Ranks, NEW d \in Ranks, Taken(s, d),
         net[s][d] # << >>
  PROVE  /\ BarrierInv' /\ RequestsInv'
         /\ PairInv(s, d)' => PairsInv'
         /\ \A x, y \in Ranks : \A i \in 1..Len(net'[x][y]) :
               \E j \in 1..Len(net[x][y]) : net'[x][y][i] = net[x][y][j]
  <1>1. TypeOK /\ PairsInv /\ BarrierInv /\ RequestsInv
    BY DEF IInv
  <1>2. BarrierInv'
    BY <1>1 DEF Taken, BarrierInv
  <1>3. RequestsInv'
    BY <1>1 DEF Taken, RequestsInv
  <1>4. ASSUME PairInv(s, d)', NEW x \in Ranks, NEW y \in Ranks
        PROVE  PairInv(x, y)'
    <2>1. CASE x = s /\ y = d
      BY <1>4, <2>1
    <2>2. CASE ~(x = s /\ y = d)
      <3>1. net'[x][y] = net[x][y] /\ posted'[y][x] = posted[y][x]
        BY <2>2 DEF Taken
      <3>2. PairInv(x, y)
        BY <1>1 DEF PairsInv
      <3>3. Due(x, y)' <=> Due(x, y)
        BY DEF Taken, Due
      <3> QED
        BY <3>1, <3>2, <3>3 DEF PairInv, Taken
    <2> QED
      BY <2>1, <2>2
  <1>5. ASSUME NEW x \in Ranks, NEW y \in Ranks, NEW i \in 1..Len(net'[x][y])
        PROVE  \E j \in 1..Len(net[x][y]) : net'[x][y][i] = net[x][y][j]
    <2>1. CASE x = s /\ y = d
      <3>1. net'[x][y] = Tail(net[s][d])
        BY <2>1 DEF Taken
      <3>2. net[s][d] \in Seq(Messages)
        BY <1>1, QueueTypes
      <3>3. i + 1 \in 1..Len(net[s][d]) /\ Tail(net[s][d])[i] = net[s][d][i + 1]
        BY <1>5, <3>1, <3>2, TailEntries
      <3> QED
        BY <2>1, <3>1, <3>3
    <2>2. CASE ~(x = s /\ y = d)
      <3>1. net'[x][y] = net[x][y]
        BY <2>2 DEF Taken
      <3> QED
        BY <1>5, <3>1
    <2> QED
      BY <2>1, <2>2
  <1> QED
    BY <1>2, <1>3, <1>4, <1>5 DEF PairsInv


\* A data message is copied into the buffer.
LEMMA MatchDataStep ==
  ASSUME IInv, NEW s \in Ranks, NEW d \in Ranks, Match(s, d), DataMeets(s, d)
  PROVE  IInv'
  <1>1. /\ TypeOK /\ PairsInv /\ BarrierInv /\ RootInv /\ RequestsInv
        /\ DigestInv /\ OutInv
    BY DEF IInv
  <1> DEFINE a == net[s][d]
             b == posted[d][s]
             m == Head(a)
             k == Head(b).n
             v == Carried(s, m)
  <1>2. Taken(s, d)
    BY <1>1, MatchTakes
  <1>3. a # << >> /\ b # << >>
    BY DEF Match
  <1>4. a \in Seq(Messages) /\ b \in Seq(Messages)
    BY <1>1, QueueTypes
  <1>5. 0 \in Ranks /\ Count \in Nat \ {0} /\ Numbers = 1..Count
    BY <1>1, ParamFacts
  <1>6. PairInv(s, d)
    BY <1>1 DEF PairsInv
  <1>7. /\ DataLen(a) > 0 /\ DataLen(b) = DataLen(a) /\ DataLen(b) > 0
        /\ d \in Destinations(s) /\ SentRound(s) = PostRound(d)
        /\ ~Digests(b) /\ pc[d] = "recv_wait"
    BY DEF DataMeets
  <1>8. /\ Shape(Tail(a), SentRound(s), Count) /\ DataLen(Tail(a)) = DataLen(a) - 1
        /\ Digests(Tail(a)) <=> Digests(a)
        /\ m.kind = "data" /\ m.n = Count - DataLen(a) + 1
    <2>1. Shape(a, SentRound(s), Count)
      BY <1>6 DEF PairInv
    <2> QED
      BY <1>4, <1>5, <1>7, <2>1, DataMatched
  <1>9. /\ Shape(Tail(b), PostRound(d), Count) /\ DataLen(Tail(b)) = DataLen(b) - 1
        /\ ~Digests(Tail(b))
        /\ Head(b).kind = "data" /\ k = Count - DataLen(b) + 1
        /\ DataLen(b) <= Count
    <2>1. Shape(b, PostRound(d), Count)
      BY <1>6 DEF PairInv
    <2>2. DataLen(b) <= Count
      BY <2>1 DEF Shape
    <2>3. /\ Shape(Tail(b), PostRound(d), Count) /\ DataLen(Tail(b)) = DataLen(b) - 1
          /\ Digests(Tail(b)) <=> Digests(b)
          /\ Head(b).kind = "data" /\ Head(b).n = Count - DataLen(b) + 1
      BY <1>4, <1>5, <1>7, <2>1, DataMatched
    <2> QED
      BY <1>7, <2>2, <2>3
  <1>10. DataLen(a) \in Nat /\ DataLen(b) \in Nat
    BY <1>4, DataLenNat
  <1>11. k \in Numbers /\ m.n = k
    <2> HIDE DEF a, b, m, k
    <2> QED
      BY <1>5, <1>7, <1>8, <1>9, <1>10
  <1>12. s # d
    BY <1>1, <1>7, Links
  <1>13. buf' = [buf EXCEPT ![d][k] = v] /\ got' = got
    BY <1>9 DEF Match
  <1>14. v \in Contents
    <2>1. m \in Messages
      BY <1>3, <1>4, TailEntries
    <2>2. m.data \in Bytes
      BY <2>1 DEF Messages
    <2>3. m.data # << >> => m.data[1] \in Contents
      <3>1. 1 \in Numbers
        BY <1>5
      <3> HIDE DEF m
      <3> QED
        BY <2>2, <3>1 DEF Bytes
    <2>4. buf[s][m.n] \in Contents
      BY <1>1, <1>11 DEF TypeOK
    <2> HIDE DEF m
    <2> QED
      BY <2>3, <2>4 DEF Carried, Contents
  <1>15. m = a[1] /\ 1 \in 1..Len(a)
    BY <1>3, <1>4, TailEntries
  <1> HIDE DEF a, b, m, k, v
  <1>16. buf \in [Ranks -> [Numbers -> Contents]]
    BY <1>1 DEF TypeOK
  <1>17. /\ buf' \in [Ranks -> [Numbers -> Contents]]
         /\ \A q \in Ranks : q # d => buf'[q] = buf[q]
         /\ \A i \in Numbers : buf'[d][i] = IF i = k THEN v ELSE buf[d][i]
    BY <1>11, <1>13, <1>14, <1>16
  <1>18. TypeOK'
    BY <1>1, <1>2, <1>13, <1>17 DEF TypeOK, Taken, Bytes, Contents, Garbage
  <1>19. PairInv(s, d)'
    <2>1. net'[s][d] = Tail(a) /\ posted'[d][s] = Tail(b)
      BY <1>2 DEF Taken, a, b
    <2>2. InStep(Tail(a), SentRound(s), Tail(b), PostRound(d), Count)
      BY <1>7, <1>8, <1>9 DEF InStep
    <2>3. Digests(a) => d = 0 /\ DigestOut(s)
      BY <1>6 DEF PairInv, a
    <2> QED
      BY <1>2, <1>7, <1>8, <1>9, <2>1, <2>2, <2>3 DEF PairInv, Taken
  <1>20. /\ BarrierInv' /\ RequestsInv' /\ PairsInv'
         /\ \A x, y \in Ranks : \A i \in 1..Len(net'[x][y]) :
               \E j \in 1..Len(net[x][y]) : net'[x][y][i] = net[x][y][j]
    BY <1>2, <1>3, <1>19, MatchOthers DEF a
  <1>21. pc[0] = "digest_wait" => d # 0 /\ \A q \in Ranks : posted'[0][q] = posted[0][q]
    BY <1>2, <1>5, <1>7 DEF Taken
  <1>22. src \in 1..Size /\ (pc[0] = "digest_wait" => src \in Ranks) /\ Size \in Nat
    BY <1>1, SizeAssumption DEF TypeOK, RootInv, Ranks
  <1>23. RootInv'
    <2>1. \A q \in Ranks : HasDigest(q)' => HasDigest(q)
      BY <1>2, <1>21 DEF HasDigest, Taken
    <2> QED
      BY <1>1, <1>2, <2>1 DEF RootInv, Taken
  <1>24. DigestInv'
    <2>1. ASSUME NEW x \in Ranks, NEW y \in Ranks, NEW i \in 1..Len(net'[x][y]),
                 net'[x][y][i].kind = "digest"
          PROVE  net'[x][y][i].data = buf'[x]
      <3>1. PICK j \in 1..Len(net[x][y]) : net'[x][y][i] = net[x][y][j]
        BY <1>20, <2>1
      <3>2. Digests(net[x][y])
        <4>1. net[x][y] \in Seq(Messages) /\ Shape(net[x][y], SentRound(x), Count)
          BY <1>1, QueueTypes DEF PairsInv, PairInv
        <4> QED
          BY <2>1, <3>1, <4>1, OnlyLastIsDigest
      <3>3. DigestOut(x)
        BY <1>1, <3>2 DEF PairsInv, PairInv
      <3>4. x # d
        BY <1>7, <3>3 DEF DigestOut
      <3>5. buf'[x] = buf[x]
        BY <1>17, <3>4
      <3>6. net[x][y][j].kind = "digest"
        BY <2>1, <3>1
      <3>7. net[x][y][j].data = buf[x]
        BY <1>1, <3>6 DEF DigestInv
      <3> QED
        BY <3>1, <3>5, <3>7
    <2>2. ASSUME pc[0] = "digest_wait", posted'[0][src] = << >>
          PROVE  got = buf'[src]
      <3>1. src \in Ranks /\ posted[0][src] = << >>
        BY <1>21, <1>22, <2>2
      <3>2. DigestOut(src)
        BY <1>1, <2>2, <3>1 DEF RootInv, HasDigest
      <3>3. src # d
        BY <1>7, <3>2 DEF DigestOut
      <3> QED
        BY <1>1, <1>17, <2>2, <3>1, <3>3 DEF DigestInv
    <2>3. ASSUME ~params.nul, NEW q \in 1..(src - 1)
          PROVE  buf'[q] = buf'[0]
      <3>1. q \in Ranks /\ src # 1
        BY <1>22, <2>3 DEF Ranks
      <3>2. DigestOut(q) /\ pc[0] \in Finishing
        BY <1>1, <2>3, <3>1 DEF RootInv, HasDigest
      <3>3. q # d /\ d # 0
        BY <1>7, <3>2 DEF DigestOut, Finishing
      <3> QED
        BY <1>1, <1>5, <1>17, <2>3, <3>1, <3>3 DEF DigestInv
    <2> QED
      BY <1>2, <1>13, <2>1, <2>2, <2>3 DEF DigestInv, Taken
  <1>25. OutInv'
    <2> SUFFICES ASSUME params.direction = "out" PROVE OutInv'
      BY <1>2 DEF OutInv, Taken
    <2>1. s = 0 /\ d # 0
      BY <1>1, <1>7, Links
    <2>2. buf'[0] = buf[0] /\ verdict # "incorrect"
      BY <1>1, <1>5, <1>17, <2>1 DEF OutInv
    <2>3. v = buf[0][k]
      <3>1. m.data \in {<< >>, <<buf[0][m.n]>>}
        BY <1>1, <1>8, <1>15, <2>1 DEF OutInv, a
      <3>2. ~Freed(0)
        <4> SUFFICES ASSUME Freed(0) PROVE FALSE
          OBVIOUS
        <4>1. verdict = "ok"
          BY <1>1, <2>2 DEF Freed, RootInv, TypeOK
        <4>2. RootBufferLive
          BY <1>1, RootBufferFollows
        <4> QED
          BY <1>3, <2>1, <4>1, <4>2 DEF RootBufferLive, Unmatched, a
      <3> QED
        BY <1>11, <2>1, <3>1, <3>2 DEF v, Carried
    <2>4. ASSUME NEW q \in Ranks \ {0}, NEW i \in Numbers, Arrived(q, i)'
          PROVE  buf'[q][i] = buf'[0][i]
      <3>1. CASE q # d
        <4>1. posted'[q][0] = posted[q][0]
          BY <1>2, <1>5, <3>1 DEF Taken
        <4>2. Arrived(q, i)
          BY <1>2, <2>4, <4>1 DEF Arrived, Taken
        <4> QED
          BY <1>1, <1>17, <2>2, <3>1, <4>2 DEF OutInv
      <3>2. CASE q = d /\ i = k
        BY <1>17, <2>2, <2>3, <3>2
      <3>3. CASE q = d /\ i # k
        <4>1. posted'[d][0] = Tail(b) /\ b = posted[d][0]
          BY <1>2, <1>5, <2>1 DEF Taken, b
        <4>2. i <= Count - DataLen(Tail(b)) => i <= Count - DataLen(b)
          BY <1>5, <1>9, <1>10, <3>3
        <4>3. Arrived(q, i)
          BY <1>2, <2>4, <3>3, <4>1, <4>2 DEF Arrived, Taken
        <4> QED
          BY <1>1, <1>17, <2>2, <3>3, <4>3 DEF OutInv
      <3> QED
        BY <3>1, <3>2, <3>3
    <2>5. ASSUME NEW y \in Ranks, NEW i \in 1..Len(net'[0][y]),
                 net'[0][y][i].kind = "data"
          PROVE  net'[0][y][i].data \in {<< >>, <<buf'[0][net'[0][y][i].n]>>}
      <3>1. PICK j \in 1..Len(net[0][y]) : net'[0][y][i] = net[0][y][j]
        BY <1>5, <1>20, <2>5
      <3> QED
        BY <1>1, <2>2, <2>5, <3>1 DEF OutInv
    <2> QED
      BY <1>2, <2>2, <2>4, <2>5 DEF OutInv, Taken
  <1> QED
    BY <1>18, <1>20, <1>23, <1>24, <1>25 DEF IInv


\* A digest reaches rank 0.
LEMMA MatchDigestStep ==
  ASSUME IInv, NEW s \in Ranks, NEW d \in Ranks, Match(s, d), DigestMeets(s, d)
  PROVE  IInv'
  <1>1. /\ TypeOK /\ PairsInv /\ BarrierInv /\ RootInv /\ RequestsInv
        /\ DigestInv /\ OutInv
    BY DEF IInv
  <1> DEFINE a == net[s][d]
             b == posted[d][s]
             m == Head(a)
  <1>2. Taken(s, d)
    BY <1>1, MatchTakes
  <1>3. a # << >> /\ b # << >>
    BY DEF Match
  <1>4. a \in Seq(Messages) /\ b \in Seq(Messages)
    BY <1>1, QueueTypes
  <1>5. 0 \in Ranks /\ Count \in Nat \ {0}
    BY <1>1, ParamFacts
  <1>6. PairInv(s, d)
    BY <1>1 DEF PairsInv
  <1>7. /\ DataLen(a) = 0 /\ DataLen(b) = 0 /\ Digests(a) /\ Digests(b)
    BY DEF DigestMeets
  <1>8. Len(a) = 1 /\ Tail(a) = << >> /\ m.kind = "digest" /\ m = a[1]
    BY <1>4, <1>7, DigestMatched
  <1>9. Tail(b) = << >> /\ Head(b).kind = "digest"
    BY <1>4, <1>7, DigestMatched
  <1>10. d = 0 /\ DigestOut(s) /\ pc[0] = "digest_wait" /\ src = s /\ s # 0
    BY <1>6, <1>7 DEF PairInv, Due, DigestOut
  <1>11. buf' = buf /\ got' = m.data
    BY <1>9 DEF Match
  <1>12. m.data \in Bytes
    <2>1. m \in Messages
      BY <1>3, <1>4, TailEntries
    <2> QED
      BY <2>1 DEF Messages
  <1>13. m.data = buf[s]
    <2>1. 1 \in 1..Len(a)
      BY <1>8
    <2> QED
      BY <1>1, <1>8, <2>1 DEF DigestInv
  <1> HIDE DEF a, b, m
  <1>14. net'[s][d] = << >> /\ posted'[d][s] = << >>
    BY <1>2, <1>8, <1>9 DEF Taken, a, b
  <1>15. TypeOK'
    BY <1>1, <1>2, <1>11, <1>12 DEF TypeOK, Taken, Bytes, Contents, Garbage
  <1>16. PairInv(s, d)'
    <2>1. /\ Shape(<< >>, SentRound(s), Count) /\ Shape(<< >>, PostRound(d), Count)
          /\ DataLen(<< >>) = 0 /\ ~Digests(<< >>)
      BY <1>5, EmptyQueue
    <2>2. InStep(a, SentRound(s), b, PostRound(d), Count)
          => InStep(<< >>, SentRound(s), << >>, PostRound(d), Count)
      BY <1>7, <2>1 DEF InStep
    <2>3. d \in Destinations(s) => InStep(a, SentRound(s), b, PostRound(d), Count)
      BY <1>6 DEF PairInv, a, b
    <2> QED
      BY <1>2, <1>14, <2>1, <2>2, <2>3 DEF PairInv, Taken
  <1>17. /\ BarrierInv' /\ RequestsInv' /\ PairsInv'
         /\ \A x, y \in Ranks : \A i \in 1..Len(net'[x][y]) :
               \E j \in 1..Len(net[x][y]) : net'[x][y][i] = net[x][y][j]
    BY <1>2, <1>3, <1>16, MatchOthers DEF a
  <1>18. RootInv'
    <2>1. \A q \in Ranks : HasDigest(q)' => HasDigest(q) \/ q = s
      BY <1>2, <1>10 DEF HasDigest, Taken
    <2> QED
      BY <1>1, <1>2, <1>10, <2>1 DEF RootInv, Taken
  <1>19. DigestInv'
    <2>1. ASSUME NEW x \in Ranks, NEW y \in Ranks, NEW i \in 1..Len(net'[x][y]),
                 net'[x][y][i].kind = "digest"
          PROVE  net'[x][y][i].data = buf[x]
      <3>1. PICK j \in 1..Len(net[x][y]) : net'[x][y][i] = net[x][y][j]
        BY <1>17, <2>1
      <3>2. net[x][y][j].kind = "digest"
        BY <2>1, <3>1
      <3>3. net[x][y][j].data = buf[x]
        BY <1>1, <3>2 DEF DigestInv
      <3> QED
        BY <3>1, <3>3
    <2> QED
      BY <1>1, <1>2, <1>10, <1>11, <1>13, <2>1 DEF DigestInv, Taken
  <1>20. OutInv'
    <2>1. \A y \in Ranks : net'[0][y] = net[0][y]
      BY <1>2, <1>5, <1>10 DEF Taken
    <2>2. \A q \in Ranks \ {0} : posted'[q][0] = posted[q][0]
      BY <1>2, <1>5, <1>10 DEF Taken
    <2>3. \A q \in Ranks \ {0} : \A i \in Numbers : Arrived(q, i)' => Arrived(q, i)
      BY <1>2, <2>2 DEF Arrived, Taken
    <2> QED
      BY <1>1, <1>2, <1>11, <2>1, <2>3, ZenonT(60) DEF OutInv, Taken
  <1> QED
    BY <1>15, <1>17, <1>18, <1>19, <1>20 DEF IInv

-----------------------------------------------------------------------------
(* The specification.                                                       *)

LEMMA StutterStep ==
  ASSUME IInv, UNCHANGED vars
  PROVE  IInv'
  <1>1. /\ params' = params /\ pc' = pc /\ round' = round /\ buf' = buf
        /\ net' = net /\ posted' = posted /\ requests' = requests /\ src' = src
        /\ got' = got /\ verdict' = verdict
    BY DEF vars
  <1>2. /\ Count' = Count /\ Numbers' = Numbers /\ Messages' = Messages
        /\ \A q : Destinations(q)' = Destinations(q) /\ Sources(q)' = Sources(q)
    BY <1>1, SameParams
  <1>3. TypeOK'
    BY <1>1, <1>2 DEF IInv, TypeOK, Bytes, Contents, Garbage
  <1>4. PairsInv'
    BY <1>1, <1>2 DEF IInv, PairsInv, PairInv, Due, SentRound, PostRound, DigestOut
  <1>5. BarrierInv' /\ RequestsInv' /\ DigestInv'
    BY <1>1, <1>2 DEF IInv, BarrierInv, RequestsInv, DigestInv
  <1>6. RootInv'
    BY <1>1 DEF IInv, RootInv, HasDigest, DigestOut
  <1>7. OutInv'
    BY <1>1, <1>2 DEF IInv, OutInv, Arrived
  <1> QED
    BY <1>3, <1>4, <1>5, <1>6, <1>7 DEF IInv

LEMMA NextIInv ==
  ASSUME IInv, [Next]_vars
  PROVE  IInv'
  <1>1. ASSUME NEW r \in Ranks, RankStep(r) PROVE IInv'
    <2>1. CASE Start(r)
      BY <2>1, StartStep
    <2>2. CASE EnterRound(r)
      BY <2>2, EnterRoundStep
    <2>3. CASE SendMessages(r)
      BY <2>3, SendStep
    <2>4. CASE RecvMessages(r)
      BY <2>4, RecvStep
    <2>5. CASE RecvWait(r)
      BY <2>5, RecvWaitStep
    <2>6. CASE SendDigest(r)
      BY <2>6, SendDigestStep
    <2>7. CASE DigestSent(r)
      BY <2>7, DigestSentStep
    <2>8. CASE Free(r)
      BY <2>8, FreeStep
    <2> QED
      BY <1>1, <2>1, <2>2, <2>3, <2>4, <2>5, <2>6, <2>7, <2>8 DEF RankStep
  <1>2. CASE Root
    <2>1. CASE RecvDigest
      BY <2>1, RecvDigestStep
    <2>2. CASE CompareDigest
      BY <2>2, CompareStep
    <2> QED
      BY <1>2, <2>1, <2>2 DEF Root
  <1>3. ASSUME NEW s \in Ranks, NEW d \in Ranks, Match(s, d) PROVE IInv'
    <2>1. DataMeets(s, d) \/ DigestMeets(s, d)
      BY <1>3, Meeting DEF IInv, Match
    <2>2. CASE DataMeets(s, d)
      BY <1>3, <2>2, MatchDataStep
    <2>3. CASE DigestMeets(s, d)
      BY <1>3, <2>3, MatchDigestStep
    <2> QED
      BY <2>1, <2>2, <2>3
  <1>4. CASE UNCHANGED vars
    BY <1>4, StutterStep
  <1> QED
    BY <1>1, <1>2, <1>3, <1>4 DEF Next, Terminated

\* The invariant holds throughout, for every number of ranks.
THEOREM Invariance == Spec => []IInv
  <1>1. Init => IInv
    BY InitIInv
  <1>2. IInv /\ [Next]_vars => IInv'
    BY NextIInv
  <1> QED
    BY <1>1, <1>2, PTL DEF Spec

\* Every variable of the MPI benchmark keeps its type: ranks, parts of the
\* buffer and rounds stay in range, for every number of ranks.
THEOREM TypeCorrect == Spec => []TypeOK
  <1>1. IInv => TypeOK
    BY DEF IInv
  <1> QED
    BY <1>1, Invariance, PTL

\* Although the data of all rounds and the digests share one tag, and nobody
\* waits for a send, every message meets the receive posted for it, for every
\* number of ranks, messages and rounds and in all three directions.
THEOREM MessagesMeetReceives == Spec => []MessagesMatch
  <1>1. IInv => MessagesMatch
    BY MatchFollows DEF IInv
  <1> QED
    BY <1>1, Invariance, PTL

\* The barrier of run() is enough to bound the fire-and-forget sends: never
\* more than one round of a rank, and its digest, wait unmatched.
THEOREM BarrierBoundsBacklog == Spec => []BacklogBounded
  <1>1. IInv => BacklogBounded
    BY BacklogFollows DEF IInv
  <1> QED
    BY <1>1, Invariance, PTL

\* MPI_Testall is told of exactly the requests that recv_messages has set, for
\* every number of ranks and in all three directions.
THEOREM TestallSeesSetRequests == Spec => []RequestsSet
  <1>1. IInv => RequestsSet
    BY RequestsFollow DEF IInv
  <1> QED
    BY <1>1, Invariance, PTL

\* When verify_checksum has found every digest correct, rank 0 frees its buffer
\* behind the receipt of everything it has sent.
THEOREM RootOutlivesSends == Spec => []RootBufferLive
  <1>1. IInv => RootBufferLive
    BY RootBufferFollows DEF IInv
  <1> QED
    BY <1>1, Invariance, PTL

\* verify_checksum can be trusted: every digest it compares is that of the
\* final contents of a rank, so that all buffers are equal when it says so.
THEOREM VerdictIsSound == Spec => []VerdictSound
  <1>1. IInv => VerdictSound
    BY VerdictFollows DEF IInv
  <1> QED
    BY <1>1, Invariance, PTL

\* From one rank to many the data always arrives, whatever the buffers held,
\* whatever the library copies and however often the round is repeated.
THEOREM OneToManyArrives == Spec => []OneToManyDelivers
  <1>1. IInv => OneToManyDelivers
    BY DeliveryFollows DEF IInv
  <1> QED
    BY <1>1, Invariance, PTL

=============================================================================
