----------------------------- MODULE VerbsProofs -----------------------------
(***************************************************************************)
(* What every operator of Verbs does to a queue pair: it stays a queue      *)
(* pair, and its send side stays accounted for; and what a queue pair owes  *)
(* a process between two of its calls, the phases.  The proofs of           *)
(* RdmaSession and ControlSession cite these lemmas for the steps of the    *)
(* two processes and of the NICs.                                           *)
(***************************************************************************)
EXTENDS Verbs, TLAPS

\* Requests in posting order, the first one following number base.
Consecutive(sq, base) == \A i \in 1..Len(sq) : sq[i].idx = base + i

\* Completions of distinct requests after number lo, up to hi, in order.
Ordered(scq, lo, hi) ==
    /\ \A i \in 1..Len(scq) : lo + i <= scq[i].idx /\ scq[i].idx <= hi
    /\ \A i, j \in 1..Len(scq) : i < j => scq[j].idx - scq[i].idx >= j - i

(***************************************************************************)
(* The accounting of the send side.  Requests still on the send queue are   *)
(* the last ones posted, in order; the completions waiting to be polled     *)
(* belong to distinct older requests, in order, none of them retired; and   *)
(* never more than MAX_WR requests are unretired.  In the error state       *)
(* nothing is left to execute.                                              *)
(***************************************************************************)
SendAccounting(q) ==
    /\ q.state = "err" => q.sq = << >>
    /\ q.posted - q.retired <= MAX_WR
    /\ q.sent <= Len(q.sq)
    /\ q.retired <= q.posted - Len(q.sq)
    /\ Consecutive(q.sq, q.posted - Len(q.sq))
    /\ Ordered(q.scq, q.retired, q.posted - Len(q.sq))

\* A queue pair whose send side is accounted for.
Accounted(q) == q \in QueuePairs /\ SendAccounting(q)

-----------------------------------------------------------------------------
(* Sequences of completions.                                                *)

\* Completions carry numbers.
LEMMA CompletionIdx ==
    ASSUME NEW s \in Seq(SendCompletions), NEW i \in 1..Len(s)
    PROVE  s[i].idx \in Nat
  <1>1. s[i] \in SendCompletions
    OBVIOUS
  <1> QED
    BY <1>1 DEF SendCompletions

\* The numbers of the completions leave room for all of them.
LEMMA OrderedLen ==
    ASSUME NEW s \in Seq(SendCompletions), NEW lo \in Nat, NEW hi \in Int,
           lo <= hi, Ordered(s, lo, hi)
    PROVE  lo + Len(s) <= hi
  <1>1. CASE s = << >>
    BY <1>1
  <1>2. CASE s # << >>
    <2>1. Len(s) \in 1..Len(s) /\ Len(s) \in Nat
      BY <1>2
    <2>2. s[Len(s)].idx \in Nat
      BY <2>1, CompletionIdx
    <2> QED
      BY <2>1, <2>2, SMTT(30) DEF Ordered
  <1> QED
    BY <1>1, <1>2

\* The completion of the next request goes to the end.
LEMMA OrderedAppend ==
    ASSUME NEW s \in Seq(SendCompletions), NEW lo \in Nat, NEW hi \in Int,
           lo <= hi, Ordered(s, lo, hi),
           NEW c \in SendCompletions, c.idx = hi + 1
    PROVE  Ordered(Append(s, c), lo, hi + 1)
  <1> DEFINE t == Append(s, c)
  <1>1. /\ Len(s) \in Nat /\ Len(t) = Len(s) + 1 /\ t[Len(s) + 1] = c
        /\ \A i \in 1..Len(s) : t[i] = s[i]
        /\ \A i \in 1..Len(s) : s[i].idx \in Nat
    BY CompletionIdx
  <1>2. lo + Len(s) <= hi
    BY OrderedLen
  <1> HIDE DEF t
  <1>3. \A i \in 1..Len(t) : lo + i <= t[i].idx /\ t[i].idx <= hi + 1
    <2> TAKE i \in 1..Len(t)
    <2>1. CASE i \in 1..Len(s)
      BY <1>1, <2>1 DEF Ordered
    <2>2. CASE i = Len(s) + 1
      BY <1>1, <1>2, <2>2
    <2> QED
      BY <1>1, <2>1, <2>2
  <1>4. \A i, j \in 1..Len(t) : i < j => t[j].idx - t[i].idx >= j - i
    <2> SUFFICES ASSUME NEW i \in 1..Len(t), NEW j \in 1..Len(t), i < j
                 PROVE  t[j].idx - t[i].idx >= j - i
      OBVIOUS
    <2>1. CASE j \in 1..Len(s)
      <3>1. i \in 1..Len(s)
        BY <1>1, <2>1
      <3>2. s[j].idx - s[i].idx >= j - i
        BY <2>1, <3>1 DEF Ordered
      <3> QED
        BY <1>1, <2>1, <3>1, <3>2
    <2>2. CASE j = Len(s) + 1
      <3>1. i \in 1..Len(s)
        BY <1>1, <2>2
      <3>2. s[i].idx + (Len(s) - i) <= hi
        <4>1. Len(s) \in 1..Len(s) /\ s[Len(s)].idx \in Nat
          BY <1>1, <3>1
        <4>2. s[Len(s)].idx <= hi /\ s[i].idx <= hi
          BY <3>1, <4>1 DEF Ordered
        <4>3. i < Len(s) => s[Len(s)].idx - s[i].idx >= Len(s) - i
          BY <3>1, <4>1 DEF Ordered
        <4> QED
          BY <1>1, <3>1, <4>1, <4>2, <4>3, SMTT(30)
      <3>3. t[j].idx = hi + 1 /\ t[i].idx = s[i].idx /\ s[i].idx \in Nat
        BY <1>1, <2>2, <3>1
      <3> QED
        BY <1>1, <2>2, <3>1, <3>2, <3>3
    <2>3. j \in 1..Len(s) \/ j = Len(s) + 1
      BY <1>1
    <2> QED
      BY <2>1, <2>2, <2>3
  <1> QED
    BY <1>3, <1>4 DEF Ordered, t

\* Taking the first completion: it is newer than lo, the others newer still.
LEMMA OrderedTail ==
    ASSUME NEW s \in Seq(SendCompletions), NEW lo \in Nat, NEW hi \in Int,
           s # << >>, Ordered(s, lo, hi)
    PROVE  /\ Head(s).idx \in Nat
           /\ lo < Head(s).idx /\ Head(s).idx <= hi
           /\ Ordered(Tail(s), Head(s).idx, hi)
  <1> DEFINE t == Tail(s)
  <1>1. /\ Len(s) \in Nat /\ Len(s) > 0 /\ Len(t) = Len(s) - 1
        /\ \A i \in 1..Len(t) : t[i] = s[i + 1]
        /\ Head(s) = s[1] /\ 1 \in 1..Len(s)
        /\ \A i \in 1..Len(s) : s[i].idx \in Nat
    BY CompletionIdx
  <1>2. Head(s).idx \in Nat /\ lo < Head(s).idx /\ Head(s).idx <= hi
    BY <1>1 DEF Ordered
  <1> HIDE DEF t
  <1>3. \A i \in 1..Len(t) : Head(s).idx + i <= t[i].idx /\ t[i].idx <= hi
    <2> TAKE i \in 1..Len(t)
    <2>1. i + 1 \in 1..Len(s) /\ t[i] = s[i + 1]
      BY <1>1
    <2>2. s[i + 1].idx - s[1].idx >= (i + 1) - 1 /\ s[i + 1].idx <= hi
      BY <1>1, <2>1 DEF Ordered
    <2> QED
      BY <1>1, <2>1, <2>2
  <1>4. \A i, j \in 1..Len(t) : i < j => t[j].idx - t[i].idx >= j - i
    <2> SUFFICES ASSUME NEW i \in 1..Len(t), NEW j \in 1..Len(t), i < j
                 PROVE  t[j].idx - t[i].idx >= j - i
      OBVIOUS
    <2>1. /\ i + 1 \in 1..Len(s) /\ j + 1 \in 1..Len(s)
          /\ t[i] = s[i + 1] /\ t[j] = s[j + 1]
      BY <1>1
    <2>2. s[j + 1].idx - s[i + 1].idx >= (j + 1) - (i + 1)
      BY <1>1, <2>1 DEF Ordered
    <2> QED
      BY <1>1, <2>1, <2>2
  <1> QED
    BY <1>2, <1>3, <1>4 DEF Ordered, t

\* The elements of a concatenation.
LEMMA ConcatProperties ==
    ASSUME NEW S, NEW s \in Seq(S), NEW t \in Seq(S)
    PROVE  /\ Len(s \o t) = Len(s) + Len(t)
           /\ \A i \in 1..Len(s) : (s \o t)[i] = s[i]
           /\ \A i \in 1..Len(t) : (s \o t)[Len(s) + i] = t[i]
  OBVIOUS

\* The completions of a flush follow those already queued.
LEMMA OrderedFlush ==
    ASSUME NEW s \in Seq(SendCompletions), NEW lo \in Nat, NEW hi \in Nat,
           lo <= hi, Ordered(s, lo, hi),
           NEW sq \in Seq(WorkRequests), Consecutive(sq, hi),
           NEW f \in Seq(SendCompletions), Len(f) = Len(sq),
           \A i \in 1..Len(sq) : f[i].idx = sq[i].idx
    PROVE  Ordered(s \o f, lo, hi + Len(sq))
  <1> DEFINE t == s \o f
  <1>1. /\ Len(s) \in Nat /\ Len(sq) \in Nat /\ Len(t) = Len(s) + Len(sq)
        /\ \A i \in 1..Len(s) : t[i] = s[i]
        /\ \A i \in 1..Len(sq) : t[Len(s) + i] = f[i]
    <2>1. Len(s) \in Nat /\ Len(sq) \in Nat /\ Len(t) = Len(s) + Len(f)
      OBVIOUS
    <2>2. \A i \in 1..Len(s) : t[i] = s[i]
      OBVIOUS
    <2>3. \A i \in 1..Len(f) : t[Len(s) + i] = f[i]
      OBVIOUS
    <2> QED
      BY <2>1, <2>2, <2>3
  <1>2. \A i \in 1..Len(s) : s[i].idx \in Nat
    BY CompletionIdx
  <1>3. \A i \in 1..Len(sq) : t[Len(s) + i].idx = hi + i
    BY <1>1 DEF Consecutive
  <1>4. lo + Len(s) <= hi
    BY OrderedLen
  <1> HIDE DEF t
  <1>5. ASSUME NEW i \in 1..Len(t)
        PROVE  \/ i \in 1..Len(s) /\ t[i].idx = s[i].idx
               \/ /\ i - Len(s) \in 1..Len(sq) /\ i > Len(s)
                  /\ t[i].idx = hi + (i - Len(s))
    <2>1. CASE i \in 1..Len(s)
      BY <1>1, <2>1
    <2>2. CASE i \notin 1..Len(s)
      <3>1. i - Len(s) \in 1..Len(sq) /\ i = Len(s) + (i - Len(s)) /\ i > Len(s)
        BY <1>1, <2>2
      <3>2. t[Len(s) + (i - Len(s))].idx = hi + (i - Len(s))
        BY <1>3, <3>1
      <3> QED
        BY <3>1, <3>2
    <2> QED
      BY <2>1, <2>2
  <1>6. ASSUME NEW i \in 1..Len(s)
        PROVE  s[i].idx + (Len(s) - i) <= hi
    <2>1. Len(s) \in 1..Len(s)
      BY <1>1
    <2>2. s[Len(s)].idx <= hi /\ s[i].idx <= hi
      BY <2>1 DEF Ordered
    <2>3. i < Len(s) => s[Len(s)].idx - s[i].idx >= Len(s) - i
      BY <2>1 DEF Ordered
    <2> QED
      BY <1>1, <1>2, <2>1, <2>2, <2>3
  <1>7. \A i \in 1..Len(t) : lo + i <= t[i].idx /\ t[i].idx <= hi + Len(sq)
    <2> TAKE i \in 1..Len(t)
    <2>1. CASE i \in 1..Len(s) /\ t[i].idx = s[i].idx
      <3>1. lo + i <= s[i].idx /\ s[i].idx <= hi
        BY <2>1 DEF Ordered
      <3> QED
        BY <1>1, <1>2, <2>1, <3>1
    <2>2. CASE /\ i - Len(s) \in 1..Len(sq) /\ i > Len(s)
               /\ t[i].idx = hi + (i - Len(s))
      BY <1>1, <1>4, <2>2
    <2> QED
      BY <1>5, <2>1, <2>2
  <1>8. \A i, j \in 1..Len(t) : i < j => t[j].idx - t[i].idx >= j - i
    <2> SUFFICES ASSUME NEW i \in 1..Len(t), NEW j \in 1..Len(t), i < j
                 PROVE  t[j].idx - t[i].idx >= j - i
      OBVIOUS
    <2>1. CASE j \in 1..Len(s) /\ t[j].idx = s[j].idx
      <3>1. i \in 1..Len(s) /\ t[i].idx = s[i].idx
        BY <1>1, <1>5, <2>1
      <3>2. s[j].idx - s[i].idx >= j - i
        BY <2>1, <3>1 DEF Ordered
      <3> QED
        BY <2>1, <3>1, <3>2
    <2>2. CASE /\ j - Len(s) \in 1..Len(sq) /\ j > Len(s)
               /\ t[j].idx = hi + (j - Len(s))
      <3>1. CASE i \in 1..Len(s) /\ t[i].idx = s[i].idx
        <4>1. s[i].idx + (Len(s) - i) <= hi /\ s[i].idx \in Nat
          BY <1>2, <1>6, <3>1
        <4>2. i \in Int /\ j \in Int /\ Len(s) \in Int
          BY <1>1
        <4>3. \A a, b, l, x \in Int : x + (l - a) <= hi
                                      => (hi + (b - l)) - x >= b - a
          OBVIOUS
        <4> QED
          BY <2>2, <3>1, <4>1, <4>2, <4>3, SMTT(30)
      <3>2. CASE /\ i - Len(s) \in 1..Len(sq) /\ i > Len(s)
                 /\ t[i].idx = hi + (i - Len(s))
        BY <1>1, <2>2, <3>2
      <3> QED
        BY <1>5, <3>1, <3>2
    <2> QED
      BY <1>5, <2>1, <2>2
  <1> QED
    BY <1>7, <1>8 DEF Ordered, t

-----------------------------------------------------------------------------
(* Queue pairs.                                                             *)

\* What being accounted for says of each field.
LEMMA QpFields ==
    ASSUME NEW q, Accounted(q)
    PROVE  /\ q \in QueuePairs /\ SendAccounting(q)
           /\ q.posted \in Nat /\ q.retired \in Nat /\ q.sent \in Nat
           /\ q.sq \in Seq(WorkRequests) /\ q.scq \in Seq(SendCompletions)
           /\ q.rq \in Seq(Buffers) /\ q.rcq \in Seq(RecvCompletions)
           /\ Len(q.sq) \in Nat /\ q.posted - Len(q.sq) \in Nat
           /\ q.retired <= q.posted - Len(q.sq)
  <1>1. q \in QueuePairs /\ SendAccounting(q)
    BY DEF Accounted
  <1>2. /\ q.posted \in Nat /\ q.retired \in Nat /\ q.sent \in Nat
        /\ q.sq \in SendQueues /\ q.scq \in SendCqs
        /\ q.rq \in RecvQueues /\ q.rcq \in RecvCqs
    BY <1>1 DEF QueuePairs
  <1>3. Len(q.sq) \in Nat
    BY <1>2 DEF SendQueues
  <1>4. q.retired <= q.posted - Len(q.sq)
    BY <1>1 DEF SendAccounting
  <1>5. q.posted - Len(q.sq) \in Nat
    BY <1>2, <1>3, <1>4
  <1> QED
    BY <1>1, <1>2, <1>3, <1>4, <1>5 DEF SendQueues, SendCqs, RecvQueues, RecvCqs

\* What the receive side does leaves the send side accounted for.
LEMMA SameSendSide ==
    ASSUME NEW q, Accounted(q), NEW r \in QueuePairs,
           r.state = q.state, r.sq = q.sq, r.sent = q.sent,
           r.posted = q.posted, r.retired = q.retired, r.scq = q.scq
    PROVE  Accounted(r)
  BY DEF Accounted, SendAccounting

\* A new endpoint has nothing outstanding.
LEMMA NewQpAccounted ==
    ASSUME NEW s \in QpStates
    PROVE  Accounted(NewQp(s))
  <1>1. NewQp(s) \in QueuePairs
    BY DEF NewQp, QueuePairs, SendQueues, SendCqs, RecvQueues, RecvCqs
  <1>2. SendAccounting(NewQp(s))
    BY MaxWrAssumption DEF NewQp, SendAccounting, Consecutive, Ordered
  <1> QED
    BY <1>1, <1>2 DEF Accounted

\* rdma_destroy_ep leaves nothing outstanding.
LEMMA DestroyedAccounted ==
    ASSUME NEW q, Accounted(q)
    PROVE  Accounted(Destroyed(q))
  <1>1. q.posted \in Nat
    BY QpFields
  <1>2. Destroyed(q) \in QueuePairs
    BY <1>1 DEF Destroyed, QueuePairs, QpStates, SendQueues, SendCqs,
                RecvQueues, RecvCqs
  <1>3. SendAccounting(Destroyed(q))
    BY <1>1, MaxWrAssumption DEF Destroyed, SendAccounting, Consecutive, Ordered
  <1> QED
    BY <1>2, <1>3 DEF Accounted

\* Posting a receive does not touch the send side.
LEMMA PostRecvAccounted ==
    ASSUME NEW q, Accounted(q), NEW kind \in Kinds, NEW n \in Nat
    PROVE  Accounted(PostRecv(q, kind, n))
  <1> DEFINE b == [kind |-> kind, n |-> n]
             c == [ok |-> FALSE, buf |-> b, msg |-> b]
  <1>1. b \in Buffers /\ c \in RecvCompletions
    BY DEF Buffers, RecvCompletions
  <1>2. Append(q.rq, b) \in RecvQueues /\ Append(q.rcq, c) \in RecvCqs
    <2> HIDE DEF b, c
    <2> QED
      BY <1>1, QpFields DEF RecvQueues, RecvCqs
  <1>3. q \in QueuePairs
    BY QpFields
  <1>4. CASE CanRecv(q) /\ q.state = "err"
    <2>1. PostRecv(q, kind, n) = [q EXCEPT !.rcq = Append(q.rcq, c)]
      BY <1>4 DEF PostRecv
    <2> HIDE DEF c
    <2>2. PostRecv(q, kind, n) \in QueuePairs
      BY <1>2, <1>3, <2>1, Zenon DEF QueuePairs
    <2> QED
      BY <1>3, <2>1, <2>2, SameSendSide DEF QueuePairs
  <1>5. CASE CanRecv(q) /\ q.state # "err"
    <2>1. PostRecv(q, kind, n) = [q EXCEPT !.rq = Append(q.rq, b)]
      BY <1>5 DEF PostRecv
    <2> HIDE DEF b
    <2>2. PostRecv(q, kind, n) \in QueuePairs
      BY <1>2, <1>3, <2>1, Zenon DEF QueuePairs
    <2> QED
      BY <1>3, <2>1, <2>2, SameSendSide DEF QueuePairs
  <1>6. ~CanRecv(q) => PostRecv(q, kind, n) = q
    BY DEF PostRecv
  <1> QED
    BY <1>4, <1>5, <1>6

\* Nor does polling a receive completion.
LEMMA PollRecvAccounted ==
    ASSUME NEW q, Accounted(q), q.rcq # << >>
    PROVE  Accounted(PollRecv(q))
  <1>1. q \in QueuePairs /\ Tail(q.rcq) \in RecvCqs
    BY QpFields DEF RecvCqs
  <1>2. PollRecv(q) = [q EXCEPT !.rcq = Tail(q.rcq)]
    BY DEF PollRecv
  <1>3. PollRecv(q) \in QueuePairs
    BY <1>1, <1>2, Zenon DEF QueuePairs
  <1> QED
    BY <1>1, <1>2, <1>3, SameSendSide DEF QueuePairs

\* Nor does the arrival of a message.
LEMMA ReceivedAccounted ==
    ASSUME NEW q, Accounted(q), q.rq # << >>, NEW m \in Buffers
    PROVE  Accounted(Received(q, m))
  <1> DEFINE c == [ok |-> TRUE, buf |-> Head(q.rq), msg |-> m]
  <1>1. q \in QueuePairs /\ Head(q.rq) \in Buffers
    BY QpFields
  <1>2. c \in RecvCompletions
    BY <1>1 DEF RecvCompletions
  <1>3. Received(q, m) = [q EXCEPT !.rq = Tail(q.rq), !.rcq = Append(q.rcq, c)]
    BY DEF Received
  <1> HIDE DEF c
  <1>4. Tail(q.rq) \in RecvQueues /\ Append(q.rcq, c) \in RecvCqs
    BY <1>2, QpFields DEF RecvQueues, RecvCqs
  <1>5. Received(q, m) \in QueuePairs
    BY <1>1, <1>3, <1>4, Zenon DEF QueuePairs
  <1> QED
    BY <1>1, <1>3, <1>5, SameSendSide DEF QueuePairs

\* The peer executes a request that is outstanding.
LEMMA ExecutedAccounted ==
    ASSUME NEW q, Accounted(q), q.sent < Len(q.sq)
    PROVE  Accounted(Executed(q))
  <1>1. q \in QueuePairs /\ q.sent + 1 \in Nat /\ q.sent + 1 <= Len(q.sq)
    BY QpFields
  <1>2. Executed(q) = [q EXCEPT !.sent = q.sent + 1]
    BY DEF Executed
  <1>3. Executed(q) \in QueuePairs
    BY <1>1, <1>2, Zenon DEF QueuePairs
  <1>4. /\ Executed(q).sent = q.sent + 1 /\ Executed(q).state = q.state
        /\ Executed(q).sq = q.sq /\ Executed(q).posted = q.posted
        /\ Executed(q).retired = q.retired /\ Executed(q).scq = q.scq
    BY <1>1, <1>2 DEF QueuePairs
  <1> QED
    BY <1>1, <1>3, <1>4 DEF Accounted, SendAccounting

\* A request is posted: refused by a full queue, flushed by one in error,
\* queued otherwise.
LEMMA PostSendAccounted ==
    ASSUME NEW q, Accounted(q), NEW op \in {"send", "read", "write"},
           NEW kind \in Kinds, NEW n \in Nat, NEW sig \in BOOLEAN
    PROVE  Accounted(PostSend(q, op, kind, n, sig))
  <1> DEFINE wr == [op |-> op, kind |-> kind, n |-> n, sig |-> sig,
                    idx |-> q.posted + 1]
             c  == [ok |-> FALSE, idx |-> wr.idx]
             r  == PostSend(q, op, kind, n, sig)
  <1>1. q \in QueuePairs /\ q.posted + 1 \in Nat
    BY QpFields
  <1>2. /\ wr \in WorkRequests /\ c \in SendCompletions
        /\ wr.idx = q.posted + 1 /\ c.idx = q.posted + 1
    BY <1>1 DEF WorkRequests, SendCompletions
  <1>3. CASE ~CanPost(q)
    BY <1>3 DEF PostSend
  <1>4. CASE CanPost(q) /\ q.state = "err"
    <2>1. r = [q EXCEPT !.posted = q.posted + 1, !.scq = Append(q.scq, c)]
      BY <1>4 DEF PostSend
    <2> HIDE DEF c, wr, r
    <2>2. Append(q.scq, c) \in SendCqs
      BY <1>2, QpFields DEF SendCqs
    <2>3. r \in QueuePairs
      BY <1>1, <2>1, <2>2, Zenon DEF QueuePairs
    <2>4. /\ r.posted = q.posted + 1 /\ r.retired = q.retired /\ r.sq = q.sq
          /\ r.sent = q.sent /\ r.state = q.state /\ r.scq = Append(q.scq, c)
      BY <1>1, <2>1 DEF QueuePairs
    <2>5. q.sq = << >> /\ Len(q.sq) = 0
      BY <1>4, QpFields DEF SendAccounting
    <2>6. q.retired <= q.posted /\ Ordered(q.scq, q.retired, q.posted)
      <3>1. q.posted - Len(q.sq) = q.posted
        BY <2>5, QpFields
      <3> QED
        BY <3>1, QpFields DEF SendAccounting
    <2>7. Ordered(r.scq, q.retired, q.posted + 1)
      BY <1>2, <2>4, <2>6, QpFields, OrderedAppend
    <2>8. Consecutive(r.sq, r.posted - Len(r.sq))
      BY <2>4, <2>5 DEF Consecutive
    <2>9. r.posted - Len(r.sq) = q.posted + 1
      BY <1>1, <2>4, <2>5
    <2>10. q.posted - q.retired < MAX_WR /\ q.sent <= Len(q.sq)
      BY <1>4, QpFields DEF CanPost, SendAccounting
    <2>11. SendAccounting(r)
      BY <2>4, <2>5, <2>6, <2>7, <2>8, <2>9, <2>10, QpFields, MaxWrAssumption
         DEF SendAccounting
    <2> QED
      BY <2>3, <2>11 DEF Accounted, r
  <1>5. CASE CanPost(q) /\ q.state # "err"
    <2>1. r = [q EXCEPT !.posted = q.posted + 1, !.sq = Append(q.sq, wr)]
      BY <1>5 DEF PostSend
    <2> HIDE DEF c, wr, r
    <2>2. /\ Append(q.sq, wr) \in SendQueues
          /\ Len(Append(q.sq, wr)) = Len(q.sq) + 1
          /\ \A i \in 1..Len(q.sq) : Append(q.sq, wr)[i] = q.sq[i]
          /\ Append(q.sq, wr)[Len(q.sq) + 1] = wr
      BY <1>2, QpFields DEF SendQueues
    <2>3. r \in QueuePairs
      BY <1>1, <2>1, <2>2, Zenon DEF QueuePairs
    <2>4. /\ r.posted = q.posted + 1 /\ r.retired = q.retired
          /\ r.sq = Append(q.sq, wr)
          /\ r.sent = q.sent /\ r.state = q.state /\ r.scq = q.scq
      BY <1>1, <2>1 DEF QueuePairs
    <2>5. r.posted - Len(r.sq) = q.posted - Len(q.sq)
      BY <2>2, <2>4, QpFields, SMTT(30)
    <2>6. Consecutive(r.sq, q.posted - Len(q.sq))
      <3>1. Consecutive(q.sq, q.posted - Len(q.sq))
        BY QpFields DEF SendAccounting
      <3>2. wr.idx = (q.posted - Len(q.sq)) + (Len(q.sq) + 1)
        BY <1>2, QpFields
      <3>3. 1..Len(r.sq) = 1..Len(q.sq) \union {Len(q.sq) + 1}
        BY <2>2, <2>4, QpFields
      <3> QED
        BY <2>2, <2>4, <3>1, <3>2, <3>3 DEF Consecutive
    <2>7. q.posted - q.retired < MAX_WR /\ q.sent <= Len(q.sq)
      BY <1>5, QpFields DEF CanPost, SendAccounting
    <2>8. Ordered(q.scq, q.retired, q.posted - Len(q.sq))
      BY QpFields DEF SendAccounting
    <2>9. r.posted - r.retired <= MAX_WR /\ r.sent <= Len(r.sq)
      BY <2>2, <2>4, <2>7, QpFields, MaxWrAssumption, SMTT(30)
    <2>10. SendAccounting(r)
      BY <1>5, <2>4, <2>5, <2>6, <2>8, <2>9, QpFields DEF SendAccounting
    <2> QED
      BY <2>3, <2>10 DEF Accounted, r
  <1> QED
    BY <1>3, <1>4, <1>5

\* Polling a completion retires its request and all before it.
LEMMA PollSendAccounted ==
    ASSUME NEW q, Accounted(q), q.scq # << >>
    PROVE  Accounted(PollSend(q))
  <1> DEFINE r == PollSend(q)
             hi == q.posted - Len(q.sq)
  <1>1. Ordered(q.scq, q.retired, hi)
    BY QpFields DEF SendAccounting
  <1>2. /\ Head(q.scq).idx \in Nat
        /\ q.retired < Head(q.scq).idx /\ Head(q.scq).idx <= hi
        /\ Ordered(Tail(q.scq), Head(q.scq).idx, hi)
    BY <1>1, QpFields, OrderedTail
  <1>3. Tail(q.scq) \in SendCqs /\ q \in QueuePairs
    BY QpFields DEF SendCqs
  <1>4. r = [q EXCEPT !.scq = Tail(q.scq), !.retired = Head(q.scq).idx]
    BY DEF PollSend
  <1> HIDE DEF r
  <1>5. r \in QueuePairs
    BY <1>2, <1>3, <1>4, Zenon DEF QueuePairs
  <1>6. /\ r.posted = q.posted /\ r.retired = Head(q.scq).idx /\ r.sq = q.sq
        /\ r.sent = q.sent /\ r.state = q.state /\ r.scq = Tail(q.scq)
    BY <1>3, <1>4 DEF QueuePairs
  <1>7. r.posted - r.retired <= MAX_WR
    <2>1. q.posted - q.retired <= MAX_WR
      BY QpFields DEF SendAccounting
    <2> QED
      BY <1>2, <1>6, <2>1, QpFields, MaxWrAssumption
  <1>8. SendAccounting(r)
    BY <1>2, <1>6, <1>7, QpFields DEF SendAccounting
  <1> QED
    BY <1>5, <1>8 DEF Accounted, r

\* The oldest request is acknowledged; if it was signaled its completion is
\* newer than every one already queued.
LEMMA AcknowledgedAccounted ==
    ASSUME NEW q, Accounted(q), q.sent > 0
    PROVE  Accounted(Acknowledged(q))
  <1> DEFINE wr == Head(q.sq)
             c  == [ok |-> TRUE, idx |-> wr.idx]
             s  == IF wr.sig THEN Append(q.scq, c) ELSE q.scq
             hi == q.posted - Len(q.sq)
             r  == Acknowledged(q)
  <1>1. /\ q.sq # << >> /\ Len(q.sq) > 0 /\ q.sent <= Len(q.sq)
        /\ Consecutive(q.sq, hi) /\ Ordered(q.scq, q.retired, hi)
        /\ q.posted - q.retired <= MAX_WR /\ q.state # "err"
    <2>1. q.sent <= Len(q.sq)
      BY QpFields DEF SendAccounting
    <2>2. Len(q.sq) > 0
      BY <2>1, QpFields
    <2> QED
      BY <2>1, <2>2, QpFields DEF SendAccounting
  <1>2. /\ wr \in WorkRequests /\ wr = q.sq[1] /\ Tail(q.sq) \in SendQueues
        /\ Len(Tail(q.sq)) = Len(q.sq) - 1
        /\ \A i \in 1..(Len(q.sq) - 1) : Tail(q.sq)[i] = q.sq[i + 1]
    BY <1>1, QpFields DEF SendQueues
  <1>3. wr.idx = hi + 1
    BY <1>1, <1>2, QpFields DEF Consecutive
  <1>4. c \in SendCompletions /\ c.idx = hi + 1
    BY <1>2, <1>3 DEF WorkRequests, SendCompletions
  <1>5. s \in SendCqs /\ Ordered(s, q.retired, hi + 1)
    <2> HIDE DEF c, hi, wr
    <2>1. CASE wr.sig
      BY <1>1, <1>4, <2>1, QpFields, OrderedAppend DEF SendCqs, hi
    <2>2. CASE ~wr.sig
      <3>1. \A i \in 1..Len(q.scq) : q.scq[i].idx \in Nat
        BY QpFields, CompletionIdx
      <3> QED
        BY <1>1, <2>2, <3>1, QpFields, SMTT(30) DEF Ordered, SendCqs, hi
    <2> QED
      BY <2>1, <2>2
  <1>6. r = [q EXCEPT !.sq = Tail(q.sq), !.sent = q.sent - 1, !.scq = s]
    BY DEF Acknowledged
  <1>7. q \in QueuePairs /\ q.sent - 1 \in Nat
    BY QpFields
  <1> HIDE DEF r, s, c
  <1>8. r \in QueuePairs
    BY <1>2, <1>5, <1>6, <1>7, Zenon DEF QueuePairs
  <1>9. /\ r.posted = q.posted /\ r.retired = q.retired /\ r.sq = Tail(q.sq)
        /\ r.sent = q.sent - 1 /\ r.state = q.state /\ r.scq = s
    BY <1>6, <1>7 DEF QueuePairs
  <1>10. r.posted - Len(r.sq) = hi + 1
    BY <1>2, <1>9, QpFields
  <1>11. Consecutive(r.sq, hi + 1)
    <2> SUFFICES ASSUME NEW i \in 1..Len(Tail(q.sq))
                 PROVE  Tail(q.sq)[i].idx = (hi + 1) + i
      BY <1>9 DEF Consecutive
    <2>1. i + 1 \in 1..Len(q.sq) /\ Tail(q.sq)[i] = q.sq[i + 1]
      BY <1>2, QpFields
    <2>2. q.sq[i + 1].idx = hi + (i + 1)
      BY <1>1, <2>1 DEF Consecutive
    <2> QED
      BY <2>1, <2>2, QpFields
  <1>12. r.sent <= Len(r.sq) /\ r.retired <= hi + 1
    BY <1>1, <1>2, <1>9, QpFields
  <1>13. SendAccounting(r)
    BY <1>1, <1>5, <1>9, <1>10, <1>11, <1>12 DEF SendAccounting
  <1> QED
    BY <1>8, <1>13 DEF Accounted, r

\* A failure turns everything outstanding into completions, which still fit
\* behind those already queued.
LEMMA FlushedAccounted ==
    ASSUME NEW q, Accounted(q)
    PROVE  Accounted(Flushed(q))
  <1> DEFINE f == [i \in 1..Len(q.sq) |-> [ok |-> FALSE, idx |-> q.sq[i].idx]]
             g == [i \in 1..Len(q.rq) |->
                      [ok |-> FALSE, buf |-> q.rq[i], msg |-> q.rq[i]]]
             hi == q.posted - Len(q.sq)
             r  == Flushed(q)
  <1>1. /\ Consecutive(q.sq, hi) /\ Ordered(q.scq, q.retired, hi)
        /\ q.posted - q.retired <= MAX_WR
    BY QpFields DEF SendAccounting
  <1>2. /\ f \in Seq(SendCompletions) /\ Len(f) = Len(q.sq)
        /\ \A i \in 1..Len(q.sq) : f[i].idx = q.sq[i].idx
    <2>1. \A i \in 1..Len(q.sq) :
             [ok |-> FALSE, idx |-> q.sq[i].idx] \in SendCompletions
      <3> TAKE i \in 1..Len(q.sq)
      <3>1. q.sq[i] \in WorkRequests
        BY QpFields
      <3> QED
        BY <3>1 DEF WorkRequests, SendCompletions
    <2> QED
      BY <2>1, QpFields
  <1>3. g \in Seq(RecvCompletions)
    <2>1. \A i \in 1..Len(q.rq) :
             [ok |-> FALSE, buf |-> q.rq[i], msg |-> q.rq[i]] \in RecvCompletions
      <3> TAKE i \in 1..Len(q.rq)
      <3>1. q.rq[i] \in Buffers
        BY QpFields
      <3> QED
        BY <3>1 DEF RecvCompletions
    <2>2. Len(q.rq) \in Nat
      BY QpFields
    <2> QED
      BY <2>1, <2>2
  <1>4. r = [q EXCEPT !.state = "err", !.sq = << >>, !.sent = 0, !.rq = << >>,
                      !.scq = q.scq \o f, !.rcq = q.rcq \o g]
    BY DEF Flushed
  <1> HIDE DEF f, g, r
  <1>5. q.scq \o f \in SendCqs /\ q.rcq \o g \in RecvCqs
    BY <1>2, <1>3, QpFields DEF SendCqs, RecvCqs
  <1>6. /\ q \in QueuePairs /\ "err" \in QpStates /\ 0 \in Nat
        /\ << >> \in SendQueues /\ << >> \in RecvQueues
    BY QpFields DEF QpStates, SendQueues, RecvQueues
  <1>7. r \in QueuePairs
    BY <1>4, <1>5, <1>6, Zenon DEF QueuePairs
  <1>8. /\ r.posted = q.posted /\ r.retired = q.retired /\ r.sq = << >>
        /\ r.sent = 0 /\ r.scq = q.scq \o f
    BY <1>4, <1>6 DEF QueuePairs
  <1>9. Ordered(q.scq \o f, q.retired, hi + Len(q.sq))
    BY <1>1, <1>2, QpFields, OrderedFlush
  <1>10. hi + Len(q.sq) = q.posted /\ r.posted - Len(r.sq) = q.posted
    BY <1>8, QpFields
  <1>11. q.retired <= q.posted
    BY QpFields
  <1>12. SendAccounting(r)
    BY <1>1, <1>8, <1>9, <1>10, <1>11 DEF SendAccounting, Consecutive
  <1> QED
    BY <1>7, <1>12 DEF Accounted, r

-----------------------------------------------------------------------------
(* What the requests on the send queue have in common is kept.              *)

Holds(q, W) == \A i \in 1..Len(q.sq) : q.sq[i] \in W

\* A posted request joins the others.
LEMMA PostSendHolds ==
    ASSUME NEW q, Accounted(q), NEW W, Holds(q, W), NEW op, NEW kind, NEW n,
           NEW sig,
           [op |-> op, kind |-> kind, n |-> n, sig |-> sig,
            idx |-> q.posted + 1] \in W
    PROVE  Holds(PostSend(q, op, kind, n, sig), W)
  <1> DEFINE wr == [op |-> op, kind |-> kind, n |-> n, sig |-> sig,
                    idx |-> q.posted + 1]
             r  == PostSend(q, op, kind, n, sig)
  <1>1. wr \in W /\ q \in QueuePairs /\ q.sq \in Seq(WorkRequests)
    BY QpFields
  <1>2. r.sq = q.sq \/ r.sq = Append(q.sq, wr)
    BY <1>1 DEF PostSend, QueuePairs
  <1> HIDE DEF wr, r
  <1>3. CASE r.sq = q.sq
    BY <1>3 DEF Holds, r
  <1>4. CASE r.sq = Append(q.sq, wr)
    <2>1. \A i \in 1..Len(r.sq) : i \in 1..Len(q.sq) \/ i = Len(q.sq) + 1
      BY <1>1, <1>4
    <2>2. /\ \A i \in 1..Len(q.sq) : r.sq[i] = q.sq[i]
          /\ r.sq[Len(q.sq) + 1] = wr
      BY <1>1, <1>4
    <2> QED
      BY <1>1, <2>1, <2>2 DEF Holds, r
  <1> QED
    BY <1>2, <1>3, <1>4

\* An acknowledged one leaves them.
LEMMA AcknowledgedHolds ==
    ASSUME NEW q, Accounted(q), q.sent > 0, NEW W, Holds(q, W)
    PROVE  Holds(Acknowledged(q), W)
  <1>1. /\ q \in QueuePairs /\ q.sq \in Seq(WorkRequests) /\ Len(q.sq) > 0
        /\ Len(q.sq) \in Nat
    BY QpFields DEF SendAccounting
  <1>2. Acknowledged(q).sq = Tail(q.sq)
    BY <1>1 DEF Acknowledged, QueuePairs
  <1>3. /\ Len(Tail(q.sq)) = Len(q.sq) - 1
        /\ \A i \in 1..Len(Tail(q.sq)) : Tail(q.sq)[i] = q.sq[i + 1]
    BY <1>1
  <1>4. \A i \in 1..Len(Tail(q.sq)) : i + 1 \in 1..Len(q.sq)
    BY <1>1, <1>3
  <1> QED
    BY <1>2, <1>3, <1>4 DEF Holds

\* The other operators leave the send queue alone or empty it.
LEMMA OthersHold ==
    ASSUME NEW q, Accounted(q), NEW W, Holds(q, W), NEW kind, NEW n, NEW m
    PROVE  /\ Holds(PostRecv(q, kind, n), W)
           /\ Holds(PollSend(q), W)
           /\ Holds(PollRecv(q), W)
           /\ Holds(Received(q, m), W)
           /\ Holds(Executed(q), W)
           /\ Holds(Flushed(q), W)
           /\ Holds(Destroyed(q), W)
  <1>1. q \in QueuePairs
    BY QpFields
  <1>2. PostRecv(q, kind, n).sq = q.sq
    BY <1>1 DEF PostRecv, QueuePairs
  <1>3. PollSend(q).sq = q.sq /\ PollRecv(q).sq = q.sq
    BY <1>1 DEF PollSend, PollRecv, QueuePairs
  <1>4. Received(q, m).sq = q.sq /\ Executed(q).sq = q.sq
    BY <1>1 DEF Received, Executed, QueuePairs
  <1>5. Flushed(q).sq = << >>
    BY <1>1 DEF Flushed, QueuePairs
  <1>6. Destroyed(q).sq = << >>
    BY DEF Destroyed
  <1> QED
    BY <1>2, <1>3, <1>4, <1>5, <1>6 DEF Holds

\* So does a new endpoint.
LEMMA NewQpHolds ==
    ASSUME NEW s, NEW W
    PROVE  Holds(NewQp(s), W)
  BY DEF NewQp, Holds

-----------------------------------------------------------------------------
(* How many requests are unretired, and what the completions say of them.   *)

Unretired(q) == q.posted - q.retired

\* The completions queued are those of unretired requests.
LEMMA CompletionsUnretired ==
    ASSUME NEW q, Accounted(q)
    PROVE  /\ Unretired(q) \in Nat /\ Len(q.scq) \in Nat
           /\ Len(q.scq) <= Unretired(q)
  <1>1. Ordered(q.scq, q.retired, q.posted - Len(q.sq))
    BY QpFields DEF SendAccounting
  <1>2. q.retired + Len(q.scq) <= q.posted - Len(q.sq)
    BY <1>1, QpFields, OrderedLen
  <1>3. /\ Len(q.scq) \in Nat /\ Len(q.sq) \in Nat
        /\ q.posted \in Nat /\ q.retired \in Nat
    BY QpFields
  <1> QED
    BY <1>2, <1>3 DEF Unretired

\* The oldest completion is of an unretired request, and of the last one
\* posted if only one is unretired.
LEMMA HeadCompletion ==
    ASSUME NEW q, Accounted(q), q.scq # << >>
    PROVE  /\ Head(q.scq).idx \in Nat
           /\ q.retired < Head(q.scq).idx /\ Head(q.scq).idx <= q.posted
           /\ Unretired(q) <= 1 => Head(q.scq).idx = q.posted
  <1>1. Ordered(q.scq, q.retired, q.posted - Len(q.sq))
    BY QpFields DEF SendAccounting
  <1>2. /\ Head(q.scq).idx \in Nat /\ q.retired < Head(q.scq).idx
        /\ Head(q.scq).idx <= q.posted - Len(q.sq)
    BY <1>1, QpFields, OrderedTail
  <1>3. q.posted \in Nat /\ q.retired \in Nat /\ Len(q.sq) \in Nat
    BY QpFields
  <1> QED
    BY <1>2, <1>3 DEF Unretired

\* A post adds at most one to them.
LEMMA PostSendUnretired ==
    ASSUME NEW q, Accounted(q), NEW op, NEW kind, NEW n, NEW sig
    PROVE  Unretired(PostSend(q, op, kind, n, sig)) <= Unretired(q) + 1
  <1>1. q \in QueuePairs /\ q.posted \in Nat /\ q.retired \in Nat
    BY QpFields
  <1>2. \/ PostSend(q, op, kind, n, sig) = q
        \/ /\ PostSend(q, op, kind, n, sig).posted = q.posted + 1
           /\ PostSend(q, op, kind, n, sig).retired = q.retired
    BY <1>1 DEF PostSend, QueuePairs
  <1> QED
    BY <1>1, <1>2 DEF Unretired

\* A poll takes at least one from them.
LEMMA PollSendUnretired ==
    ASSUME NEW q, Accounted(q), q.scq # << >>
    PROVE  Unretired(PollSend(q)) < Unretired(q)
  <1>1. q \in QueuePairs /\ q.posted \in Nat /\ q.retired \in Nat
    BY QpFields
  <1>2. PollSend(q).posted = q.posted /\ PollSend(q).retired = Head(q.scq).idx
    BY <1>1 DEF PollSend, QueuePairs
  <1> QED
    BY <1>1, <1>2, HeadCompletion DEF Unretired

\* The receive side does not change how many there are, nor do the NICs.
LEMMA RecvUnretired ==
    ASSUME NEW q, Accounted(q)
    PROVE  /\ \A kind, n : Unretired(PostRecv(q, kind, n)) = Unretired(q)
           /\ Unretired(PollRecv(q)) = Unretired(q)
           /\ \A m : Unretired(Received(q, m)) = Unretired(q)
  <1>1. q \in QueuePairs
    BY QpFields
  <1>2. \A kind, n : /\ PostRecv(q, kind, n).posted = q.posted
                     /\ PostRecv(q, kind, n).retired = q.retired
    BY <1>1 DEF PostRecv, QueuePairs
  <1>3. /\ PollRecv(q).posted = q.posted /\ PollRecv(q).retired = q.retired
        /\ \A m : /\ Received(q, m).posted = q.posted
                  /\ Received(q, m).retired = q.retired
    BY <1>1 DEF PollRecv, Received, QueuePairs
  <1> QED
    BY <1>2, <1>3 DEF Unretired

LEMMA NicUnretired ==
    ASSUME NEW q, Accounted(q)
    PROVE  /\ Unretired(Executed(q)) = Unretired(q)
           /\ Unretired(Acknowledged(q)) = Unretired(q)
           /\ Unretired(Flushed(q)) = Unretired(q)
           /\ Unretired(Destroyed(q)) = 0
  <1>1. q \in QueuePairs /\ q.posted \in Nat
    BY QpFields
  <1>2. Executed(q).posted = q.posted /\ Executed(q).retired = q.retired
    BY <1>1 DEF Executed, QueuePairs
  <1>3. Acknowledged(q).posted = q.posted /\ Acknowledged(q).retired = q.retired
    BY <1>1 DEF Acknowledged, QueuePairs
  <1>4. Flushed(q).posted = q.posted /\ Flushed(q).retired = q.retired
    BY <1>1 DEF Flushed, QueuePairs
  <1>5. Unretired(Destroyed(q)) = 0
    BY <1>1 DEF Destroyed, Unretired
  <1> QED
    BY <1>2, <1>3, <1>4, <1>5 DEF Unretired

\* Taking the first k completions.
LEMMA OrderedRest ==
    ASSUME NEW s \in Seq(SendCompletions), NEW lo \in Nat, NEW hi \in Int,
           Ordered(s, lo, hi), NEW k \in 1..Len(s)
    PROVE  /\ s[k].idx \in Nat /\ lo + k <= s[k].idx /\ s[k].idx <= hi
           /\ SubSeq(s, k + 1, Len(s)) \in Seq(SendCompletions)
           /\ Ordered(SubSeq(s, k + 1, Len(s)), s[k].idx, hi)
  <1> DEFINE t == SubSeq(s, k + 1, Len(s))
  <1>1. /\ Len(s) \in Nat /\ t \in Seq(SendCompletions) /\ Len(t) = Len(s) - k
        /\ \A i \in 1..(Len(s) - k) : t[i] = s[k + i]
    OBVIOUS
  <1>2. \A i \in 1..Len(s) : s[i].idx \in Nat
    BY CompletionIdx
  <1>3. lo + k <= s[k].idx /\ s[k].idx <= hi
    BY DEF Ordered
  <1> HIDE DEF t
  <1>4. \A i \in 1..Len(t) : s[k].idx + i <= t[i].idx /\ t[i].idx <= hi
    <2> TAKE i \in 1..Len(t)
    <2>1. k + i \in 1..Len(s) /\ t[i] = s[k + i] /\ k < k + i
      BY <1>1
    <2>2. s[k + i].idx - s[k].idx >= (k + i) - k /\ s[k + i].idx <= hi
      BY <2>1 DEF Ordered
    <2>3. s[k].idx \in Nat /\ s[k + i].idx \in Nat /\ i \in Nat /\ k \in Nat
      BY <1>1, <1>2, <2>1, SMTT(30)
    <2> QED
      BY <2>1, <2>2, <2>3, SMTT(30)
  <1>5. \A i, j \in 1..Len(t) : i < j => t[j].idx - t[i].idx >= j - i
    <2> SUFFICES ASSUME NEW i \in 1..Len(t), NEW j \in 1..Len(t), i < j
                 PROVE  t[j].idx - t[i].idx >= j - i
      OBVIOUS
    <2>1. /\ k + i \in 1..Len(s) /\ k + j \in 1..Len(s) /\ k + i < k + j
          /\ t[i] = s[k + i] /\ t[j] = s[k + j]
      BY <1>1
    <2>2. s[k + j].idx - s[k + i].idx >= (k + j) - (k + i)
      BY <2>1 DEF Ordered
    <2> QED
      BY <1>2, <2>1, <2>2
  <1> QED
    BY <1>1, <1>2, <1>3, <1>4, <1>5 DEF Ordered, t

\* Polling k completions at once retires at least k requests.
LEMMA PollBatchAccounted ==
    ASSUME NEW q, Accounted(q), NEW k \in 1..Len(q.scq)
    PROVE  /\ Accounted(PollBatch(q, k))
           /\ Unretired(PollBatch(q, k)) <= Unretired(q) - k
           /\ PollBatch(q, k).sq = q.sq /\ PollBatch(q, k).state = q.state
           /\ PollBatch(q, k).scq = SubSeq(q.scq, k + 1, Len(q.scq))
  <1> DEFINE r == PollBatch(q, k)
             t == SubSeq(q.scq, k + 1, Len(q.scq))
             hi == q.posted - Len(q.sq)
  <1>1. Ordered(q.scq, q.retired, hi) /\ q.posted - q.retired <= MAX_WR
    BY QpFields DEF SendAccounting
  <1>2. /\ q.scq[k].idx \in Nat /\ q.retired + k <= q.scq[k].idx
        /\ q.scq[k].idx <= hi /\ t \in SendCqs /\ Ordered(t, q.scq[k].idx, hi)
    BY <1>1, QpFields, OrderedRest, SMTT(30) DEF SendCqs
  <1>3. r = [q EXCEPT !.scq = t, !.retired = q.scq[k].idx] /\ q \in QueuePairs
    BY QpFields DEF PollBatch
  <1>4. k \in Nat /\ k > 0 /\ Len(q.sq) \in Nat /\ q.posted \in Nat /\ q.retired \in Nat
    BY QpFields
  <1> HIDE DEF r, t
  <1>5. r \in QueuePairs
    BY <1>2, <1>3, Zenon DEF QueuePairs
  <1>6. /\ r.posted = q.posted /\ r.retired = q.scq[k].idx /\ r.sq = q.sq
        /\ r.sent = q.sent /\ r.state = q.state /\ r.scq = t
    BY <1>3 DEF QueuePairs
  <1>7. r.posted - r.retired <= MAX_WR /\ Unretired(r) <= Unretired(q) - k
    BY <1>1, <1>2, <1>4, <1>6, MaxWrAssumption, SMTT(30) DEF Unretired
  <1>8. SendAccounting(r)
    BY <1>2, <1>6, <1>7, QpFields DEF SendAccounting
  <1> QED
    BY <1>5, <1>6, <1>7, <1>8 DEF Accounted, r, t

-----------------------------------------------------------------------------
(* A request that fails takes the queue pair with it: what completes behind *)
(* it has failed as well.                                                   *)

FailuresLast(q) ==
    /\ \A j \in 1..Len(q.scq) : ~q.scq[j].ok => q.state = "err"
    /\ \A j, k \in 1..Len(q.scq) : j < k /\ q.scq[k].ok => q.scq[j].ok

\* Nothing that is posted or polled from now on succeeds.
Broken(q) == q.state = "err" /\ \A j \in 1..Len(q.scq) : ~q.scq[j].ok

\* A completion that arrives behind the others.
LEMMA FailuresLastAppend ==
    ASSUME NEW q, Accounted(q), FailuresLast(q), NEW r,
           NEW c \in SendCompletions, r.scq = Append(q.scq, c),
           r.state = q.state, c.ok <=> q.state # "err"
    PROVE  FailuresLast(r) /\ (Broken(q) => Broken(r))
  <1>1. /\ q.scq \in Seq(SendCompletions) /\ Len(q.scq) \in Nat
        /\ Len(r.scq) = Len(q.scq) + 1
    BY QpFields
  <1>2. /\ \A j \in 1..Len(q.scq) : r.scq[j] = q.scq[j]
        /\ r.scq[Len(q.scq) + 1] = c
    BY <1>1
  <1>3. \A j \in 1..Len(r.scq) : j \in 1..Len(q.scq) \/ j = Len(q.scq) + 1
    BY <1>1
  <1>4. \A j \in 1..Len(r.scq) : ~r.scq[j].ok => r.state = "err"
    BY <1>2, <1>3 DEF FailuresLast
  <1>5. ASSUME NEW j \in 1..Len(r.scq), NEW k \in 1..Len(r.scq), j < k,
               r.scq[k].ok
        PROVE  r.scq[j].ok
    <2>1. CASE k \in 1..Len(q.scq)
      <3>1. j \in 1..Len(q.scq)
        BY <1>1, <1>5, <2>1
      <3>2. q.scq[k].ok
        BY <1>2, <1>5, <2>1
      <3>3. q.scq[j].ok
        BY <1>5, <2>1, <3>1, <3>2 DEF FailuresLast
      <3> QED
        BY <1>2, <3>1, <3>3
    <2>2. CASE k = Len(q.scq) + 1
      <3>1. r.state # "err"
        BY <1>2, <1>5, <2>2
      <3> QED
        BY <1>4, <3>1
    <2> QED
      BY <1>3, <2>1, <2>2
  <1>6. ASSUME Broken(q) PROVE Broken(r)
    BY <1>2, <1>3, <1>6 DEF Broken
  <1> QED
    BY <1>4, <1>5, <1>6 DEF FailuresLast

\* Polling: the completions behind the k-th, all failures if one of the first
\* k was one.
LEMMA FailuresLastRest ==
    ASSUME NEW q, Accounted(q), FailuresLast(q), NEW k \in 1..Len(q.scq),
           NEW r, r.scq = SubSeq(q.scq, k + 1, Len(q.scq)), r.state = q.state
    PROVE  /\ FailuresLast(r)
           /\ (\E j \in 1..k : ~q.scq[j].ok) => Broken(r)
  <1>1. /\ q.scq \in Seq(SendCompletions) /\ Len(q.scq) \in Nat
        /\ Len(r.scq) = Len(q.scq) - k
    BY QpFields
  <1>2. \A j \in 1..Len(r.scq) : k + j \in 1..Len(q.scq) /\ r.scq[j] = q.scq[k + j]
    BY <1>1, SMTT(30)
  <1>3. \A j \in 1..Len(r.scq) : ~r.scq[j].ok => r.state = "err"
    BY <1>2 DEF FailuresLast
  <1>4. ASSUME NEW i \in 1..Len(r.scq), NEW j \in 1..Len(r.scq), i < j,
               r.scq[j].ok
        PROVE  r.scq[i].ok
    <2>1. /\ k + i \in 1..Len(q.scq) /\ k + j \in 1..Len(q.scq) /\ k + i < k + j
          /\ r.scq[i] = q.scq[k + i] /\ r.scq[j] = q.scq[k + j]
      BY <1>1, <1>2, <1>4
    <2> QED
      BY <1>4, <2>1 DEF FailuresLast
  <1>5. ASSUME NEW j \in 1..k, ~q.scq[j].ok PROVE Broken(r)
    <2>1. j \in 1..Len(q.scq)
      BY <1>1
    <2>2. r.state = "err"
      BY <1>5, <2>1 DEF FailuresLast
    <2>3. ASSUME NEW i \in 1..Len(r.scq) PROVE ~r.scq[i].ok
      <3>1. k + i \in 1..Len(q.scq) /\ r.scq[i] = q.scq[k + i] /\ j < k + i
        BY <1>1, <1>2
      <3> QED
        BY <1>5, <2>1, <3>1 DEF FailuresLast
    <2> QED
      BY <2>2, <2>3 DEF Broken
  <1> QED
    BY <1>3, <1>4, <1>5 DEF FailuresLast

\* The completions are not touched.
LEMMA FailuresLastSame ==
    ASSUME NEW q, FailuresLast(q), NEW r, r.scq = q.scq, r.state = q.state
    PROVE  FailuresLast(r) /\ (Broken(q) => Broken(r))
  BY DEF FailuresLast, Broken

\* Posting, whatever becomes of the request.
LEMMA PostSendFailuresLast ==
    ASSUME NEW q, Accounted(q), FailuresLast(q), NEW op, NEW kind, NEW n, NEW sig
    PROVE  /\ FailuresLast(PostSend(q, op, kind, n, sig))
           /\ Broken(q) => Broken(PostSend(q, op, kind, n, sig))
  <1> DEFINE r == PostSend(q, op, kind, n, sig)
             c == [ok |-> FALSE, idx |-> q.posted + 1]
  <1>1. q \in QueuePairs /\ c \in SendCompletions /\ c.ok = FALSE
    BY QpFields DEF SendCompletions
  <1>2. \/ r.scq = q.scq /\ r.state = q.state
        \/ q.state = "err" /\ r.scq = Append(q.scq, c) /\ r.state = q.state
    BY <1>1 DEF PostSend, QueuePairs
  <1> HIDE DEF r, c
  <1>3. CASE r.scq = q.scq /\ r.state = q.state
    BY <1>3, FailuresLastSame DEF r
  <1>4. CASE q.state = "err" /\ r.scq = Append(q.scq, c) /\ r.state = q.state
    BY <1>1, <1>4, FailuresLastAppend DEF r
  <1> QED
    BY <1>2, <1>3, <1>4

\* Polling one completion.
LEMMA PollSendFailuresLast ==
    ASSUME NEW q, Accounted(q), FailuresLast(q), q.scq # << >>
    PROVE  /\ FailuresLast(PollSend(q))
           /\ ~Head(q.scq).ok => Broken(PollSend(q))
           /\ Broken(q) => ~Head(q.scq).ok
  <1>1. /\ q \in QueuePairs /\ q.scq \in Seq(SendCompletions)
        /\ 1 \in 1..Len(q.scq) /\ Head(q.scq) = q.scq[1]
    BY QpFields
  <1>2. Tail(q.scq) = SubSeq(q.scq, 1 + 1, Len(q.scq))
    BY <1>1
  <1>3. PollSend(q).scq = Tail(q.scq) /\ PollSend(q).state = q.state
    BY <1>1 DEF PollSend, QueuePairs
  <1>4. PollSend(q).scq = SubSeq(q.scq, 1 + 1, Len(q.scq))
    BY <1>2, <1>3
  <1>5. FailuresLast(PollSend(q))
    BY <1>1, <1>3, <1>4, FailuresLastRest
  <1>6. (\E j \in 1..1 : ~q.scq[j].ok) => Broken(PollSend(q))
    BY <1>1, <1>3, <1>4, FailuresLastRest
  <1>7. Broken(q) => ~Head(q.scq).ok
    BY <1>1 DEF Broken
  <1> QED
    BY <1>1, <1>5, <1>6, <1>7

\* The acknowledgement of a request shows that none before it has failed.
LEMMA AcknowledgedFailuresLast ==
    ASSUME NEW q, Accounted(q), FailuresLast(q), q.sent > 0
    PROVE  FailuresLast(Acknowledged(q)) /\ ~Broken(q)
  <1> DEFINE wr == Head(q.sq)
             c  == [ok |-> TRUE, idx |-> wr.idx]
             r  == Acknowledged(q)
  <1>1. /\ q \in QueuePairs /\ q.sq \in Seq(WorkRequests) /\ Len(q.sq) > 0
        /\ q.state # "err"
    BY QpFields DEF SendAccounting
  <1>2. wr \in WorkRequests
    BY <1>1
  <1>3. c \in SendCompletions /\ c.ok
    BY <1>2 DEF WorkRequests, SendCompletions
  <1>4. /\ r.state = q.state
        /\ r.scq = q.scq \/ r.scq = Append(q.scq, c)
    BY <1>1 DEF Acknowledged, QueuePairs
  <1> HIDE DEF r, c
  <1>5. CASE r.scq = q.scq
    BY <1>1, <1>4, <1>5, FailuresLastSame DEF r, Broken
  <1>6. CASE r.scq = Append(q.scq, c)
    BY <1>1, <1>3, <1>4, <1>6, FailuresLastAppend DEF r, Broken
  <1> QED
    BY <1>4, <1>5, <1>6

\* A flush adds failures only.
LEMMA FlushedFailuresLast ==
    ASSUME NEW q, Accounted(q), FailuresLast(q)
    PROVE  FailuresLast(Flushed(q)) /\ (Broken(q) => Broken(Flushed(q)))
  <1> DEFINE f == [i \in 1..Len(q.sq) |-> [ok |-> FALSE, idx |-> q.sq[i].idx]]
             r == Flushed(q)
  <1>1. /\ q \in QueuePairs /\ q.scq \in Seq(SendCompletions)
        /\ Len(q.scq) \in Nat /\ Len(q.sq) \in Nat
    BY QpFields
  <1>2. r.state = "err" /\ r.scq = q.scq \o f
    BY <1>1 DEF Flushed, QueuePairs
  <1>3. /\ Len(f) = Len(q.sq) /\ \A i \in 1..Len(q.sq) : f[i].ok = FALSE
    BY <1>1
  <1>4. /\ f \in Seq(SendCompletions)
    <2>1. \A i \in 1..Len(q.sq) :
             [ok |-> FALSE, idx |-> q.sq[i].idx] \in SendCompletions
      <3> TAKE i \in 1..Len(q.sq)
      <3>1. q.sq[i] \in WorkRequests
        BY QpFields
      <3> QED
        BY <3>1 DEF WorkRequests, SendCompletions
    <2> QED
      BY <1>1, <2>1
  <1> HIDE DEF f, r
  <1>5. ASSUME NEW j \in 1..Len(r.scq)
        PROVE  \/ j \in 1..Len(q.scq) /\ r.scq[j] = q.scq[j]
               \/ j > Len(q.scq) /\ ~r.scq[j].ok
    <2>1. /\ Len(q.scq \o f) = Len(q.scq) + Len(f)
          /\ \A i \in 1..Len(q.scq) : (q.scq \o f)[i] = q.scq[i]
          /\ \A i \in 1..Len(f) : (q.scq \o f)[Len(q.scq) + i] = f[i]
      BY <1>1, <1>4, ConcatProperties
    <2>2. CASE j \in 1..Len(q.scq)
      BY <1>2, <2>1, <2>2
    <2>3. CASE j \notin 1..Len(q.scq)
      <3>1. Len(r.scq) = Len(q.scq) + Len(q.sq)
        BY <1>2, <1>3, <2>1
      <3>2. j \in Nat /\ j > Len(q.scq) /\ j - Len(q.scq) \in 1..Len(q.sq)
        <4>1. j \in 1..(Len(q.scq) + Len(q.sq))
          BY <3>1
        <4>2. \A a, b \in Nat : \A c \in 1..(a + b) :
                 c \notin 1..a => c \in Nat /\ c > a /\ c - a \in 1..b
          OBVIOUS
        <4> QED
          BY <1>1, <2>3, <4>1, <4>2
      <3>3. j = Len(q.scq) + (j - Len(q.scq))
        BY <1>1, <3>2
      <3>4. r.scq[j] = f[j - Len(q.scq)]
        BY <1>2, <1>3, <2>1, <3>2, <3>3
      <3> QED
        BY <1>3, <3>2, <3>4
    <2> QED
      BY <2>2, <2>3
  <1>6. ASSUME NEW j \in 1..Len(r.scq), NEW k \in 1..Len(r.scq), j < k,
               r.scq[k].ok
        PROVE  r.scq[j].ok
    <2>1. k \in 1..Len(q.scq) /\ r.scq[k] = q.scq[k]
      BY <1>5, <1>6
    <2>2. j \in 1..Len(q.scq) /\ r.scq[j] = q.scq[j]
      BY <1>1, <1>5, <1>6, <2>1
    <2> QED
      BY <1>6, <2>1, <2>2 DEF FailuresLast
  <1>7. ASSUME Broken(q) PROVE Broken(r)
    BY <1>2, <1>5, <1>7 DEF Broken
  <1> QED
    BY <1>2, <1>6, <1>7 DEF FailuresLast, r

\* The receive side, the execution of a request and the end of an endpoint
\* leave the completions alone or drop them.
LEMMA OthersFailuresLast ==
    ASSUME NEW q, Accounted(q), FailuresLast(q), NEW kind, NEW n, NEW m
    PROVE  /\ FailuresLast(PostRecv(q, kind, n))
           /\ FailuresLast(PollRecv(q))
           /\ FailuresLast(Received(q, m))
           /\ FailuresLast(Executed(q))
           /\ FailuresLast(Destroyed(q))
           /\ Broken(q) => /\ Broken(PostRecv(q, kind, n)) /\ Broken(PollRecv(q))
                           /\ Broken(Received(q, m)) /\ Broken(Executed(q))
  <1>1. q \in QueuePairs
    BY QpFields
  <1>2. /\ PostRecv(q, kind, n).scq = q.scq
        /\ PostRecv(q, kind, n).state = q.state
    BY <1>1 DEF PostRecv, QueuePairs
  <1>3. /\ PollRecv(q).scq = q.scq /\ PollRecv(q).state = q.state
        /\ Received(q, m).scq = q.scq /\ Received(q, m).state = q.state
        /\ Executed(q).scq = q.scq /\ Executed(q).state = q.state
    BY <1>1 DEF PollRecv, Received, Executed, QueuePairs
  <1>4. FailuresLast(Destroyed(q))
    BY DEF FailuresLast, Destroyed
  <1> QED
    BY <1>2, <1>3, <1>4, FailuresLastSame

\* A new endpoint has no completions.
LEMMA NewQpFailuresLast ==
    ASSUME NEW s
    PROVE  FailuresLast(NewQp(s))
  BY DEF FailuresLast, NewQp

-----------------------------------------------------------------------------
(* The phases.                                                              *)

\* Nothing is on the send queue, and no success is left to poll.
Idle(q) ==
    /\ q.sq = << >> /\ \A j \in 1..Len(q.scq) : ~q.scq[j].ok
    /\ q.state = "rts" => Unretired(q) = 0

\* At most k requests of one kind are outstanding, none of them signaled.
Posting(q, kind, k) ==
    /\ \A j \in 1..Len(q.sq) : q.sq[j].kind = kind /\ ~q.sq[j].sig
    /\ \A j \in 1..Len(q.scq) : ~q.scq[j].ok
    /\ q.state = "rts" => Unretired(q) <= k

\* Only the last request posted is signaled, or has succeeded.
Awaiting(q, kind) ==
    /\ \A j \in 1..Len(q.sq) : /\ q.sq[j].kind = kind
                               /\ q.sq[j].sig => q.sq[j].idx = q.posted
    /\ \A j \in 1..Len(q.scq) : q.scq[j].ok => q.scq[j].idx = q.posted

\* Something is there to be polled, or will be.
Signals(q) == q.scq # << >> \/ \E j \in 1..Len(q.sq) : q.sq[j].sig

\* No receive is posted or left to poll.
RecvIdle(q) == q.rq = << >> /\ q.rcq = << >>

\* One receive, into buffer b, is posted or has completed.
RecvOne(q, b) ==
    \/ q.rq = <<b>> /\ q.rcq = << >>
    \/ q.rq = << >> /\ \E c \in RecvCompletions : q.rcq = <<c>> /\ c.buf = b

\* What a NIC step does to one of the queue pairs.
NicMove(q, r) ==
    \/ r = q
    \/ q.state = "rts" /\ r = Flushed(q)
    \/ q.sent < Len(q.sq) /\ r = Executed(q)
    \/ q.sent > 0 /\ r = Acknowledged(q)
    \/ q.rq # << >> /\ \E m \in Buffers : r = Received(q, m)

-----------------------------------------------------------------------------
(* The fields of what the operators of Verbs return.                        *)

\* The send side is the same.
SendSame(q, r) == /\ r.state = q.state /\ r.sq = q.sq /\ r.scq = q.scq
                  /\ r.posted = q.posted /\ r.retired = q.retired

RecvSame(q, r) == r.rq = q.rq /\ r.rcq = q.rcq

LEMMA SidesKept ==
    ASSUME NEW q, Accounted(q)
    PROVE  /\ SendSame(q, Executed(q)) /\ RecvSame(q, Executed(q))
           /\ Executed(q).sent = q.sent + 1
           /\ \A m : SendSame(q, Received(q, m)) /\ Received(q, m).sent = q.sent
           /\ SendSame(q, PollRecv(q)) /\ PollRecv(q).sent = q.sent
           /\ \A kind, n : /\ SendSame(q, PostRecv(q, kind, n))
                           /\ PostRecv(q, kind, n).sent = q.sent
           /\ RecvSame(q, Acknowledged(q))
           /\ RecvSame(q, PollSend(q))
           /\ \A op, kind, n, sig : RecvSame(q, PostSend(q, op, kind, n, sig))
  <1>1. q \in QueuePairs
    BY QpFields
  <1>2. /\ SendSame(q, Executed(q)) /\ RecvSame(q, Executed(q))
        /\ Executed(q).sent = q.sent + 1
    BY <1>1 DEF SendSame, RecvSame, Executed, QueuePairs
  <1>3. \A m : SendSame(q, Received(q, m)) /\ Received(q, m).sent = q.sent
    BY <1>1 DEF SendSame, Received, QueuePairs
  <1>4. SendSame(q, PollRecv(q)) /\ PollRecv(q).sent = q.sent
    BY <1>1 DEF SendSame, PollRecv, QueuePairs
  <1>5. \A kind, n : /\ SendSame(q, PostRecv(q, kind, n))
                     /\ PostRecv(q, kind, n).sent = q.sent
    BY <1>1 DEF SendSame, PostRecv, QueuePairs
  <1>6. RecvSame(q, Acknowledged(q)) /\ RecvSame(q, PollSend(q))
    BY <1>1 DEF RecvSame, Acknowledged, PollSend, QueuePairs
  <1>7. \A op, kind, n, sig : RecvSame(q, PostSend(q, op, kind, n, sig))
    BY <1>1 DEF RecvSame, PostSend, QueuePairs
  <1> QED
    BY <1>2, <1>3, <1>4, <1>5, <1>6, <1>7

\* The oldest request leaves the send queue.
AckedTo(q, r) ==
    /\ r.state = q.state /\ r.posted = q.posted /\ r.retired = q.retired
    /\ r.sent = q.sent - 1
    /\ Len(q.sq) > 0 /\ Len(r.sq) = Len(q.sq) - 1
    /\ \A j \in 1..Len(r.sq) : j + 1 \in 1..Len(q.sq) /\ r.sq[j] = q.sq[j + 1]
    /\ q.sq[1].sig => r.scq = Append(q.scq, [ok |-> TRUE, idx |-> q.sq[1].idx])
    /\ ~q.sq[1].sig => r.scq = q.scq

LEMMA AcknowledgedFields ==
    ASSUME NEW q, Accounted(q), q.sent > 0
    PROVE  AckedTo(q, Acknowledged(q))
  <1> DEFINE r == Acknowledged(q)
  <1>1. /\ q \in QueuePairs /\ q.sq \in Seq(WorkRequests) /\ Len(q.sq) \in Nat
        /\ q.sent \in Nat /\ q.sent <= Len(q.sq)
    BY QpFields DEF SendAccounting
  <1>2. Len(q.sq) > 0 /\ q.sq # << >> /\ Head(q.sq) = q.sq[1]
    BY <1>1
  <1>3. /\ r.state = q.state /\ r.posted = q.posted /\ r.retired = q.retired
        /\ r.sent = q.sent - 1 /\ r.sq = Tail(q.sq)
        /\ r.scq = IF Head(q.sq).sig
                   THEN Append(q.scq, [ok |-> TRUE, idx |-> Head(q.sq).idx])
                   ELSE q.scq
    BY <1>1 DEF Acknowledged, QueuePairs
  <1> HIDE DEF r
  <1>4. /\ Len(r.sq) = Len(q.sq) - 1
        /\ \A j \in 1..Len(r.sq) : j + 1 \in 1..Len(q.sq) /\ r.sq[j] = q.sq[j + 1]
    BY <1>1, <1>2, <1>3
  <1> QED
    BY <1>2, <1>3, <1>4 DEF r, AckedTo

\* What a completion queue holds once one more has arrived.
LEMMA AppendEntries ==
    ASSUME NEW S, NEW s \in Seq(S), NEW x \in S
    PROVE  /\ Len(Append(s, x)) = Len(s) + 1 /\ Append(s, x) # << >>
           /\ \A j \in 1..Len(Append(s, x)) :
                 \/ j \in 1..Len(s) /\ Append(s, x)[j] = s[j]
                 \/ j = Len(s) + 1 /\ Append(s, x)[j] = x
  OBVIOUS

\* A flush turns what is posted into failures.
FlushedTo(q, r) ==
    /\ r.state = "err" /\ r.sq = << >> /\ r.rq = << >> /\ r.sent = 0
    /\ r.posted = q.posted /\ r.retired = q.retired
    /\ \A j \in 1..Len(r.scq) :
          r.scq[j].ok => j \in 1..Len(q.scq) /\ r.scq[j] = q.scq[j]
    /\ Len(r.rcq) = Len(q.rcq) + Len(q.rq)
    /\ \A j \in 1..Len(r.rcq) :
          \/ j \in 1..Len(q.rcq) /\ r.rcq[j] = q.rcq[j]
          \/ /\ ~r.rcq[j].ok
             /\ \E k \in 1..Len(q.rq) : r.rcq[j].buf = q.rq[k]

LEMMA FlushedFields ==
    ASSUME NEW q, Accounted(q)
    PROVE  FlushedTo(q, Flushed(q))
  <1> DEFINE f == [i \in 1..Len(q.sq) |-> [ok |-> FALSE, idx |-> q.sq[i].idx]]
             g == [i \in 1..Len(q.rq) |->
                      [ok |-> FALSE, buf |-> q.rq[i], msg |-> q.rq[i]]]
             r == Flushed(q)
  <1>1. /\ q \in QueuePairs /\ q.scq \in Seq(SendCompletions)
        /\ q.rcq \in Seq(RecvCompletions) /\ q.rq \in Seq(Buffers)
        /\ Len(q.scq) \in Nat /\ Len(q.sq) \in Nat
        /\ Len(q.rcq) \in Nat /\ Len(q.rq) \in Nat
    BY QpFields
  <1>2. /\ r.state = "err" /\ r.sq = << >> /\ r.rq = << >> /\ r.sent = 0
        /\ r.posted = q.posted /\ r.retired = q.retired
        /\ r.scq = q.scq \o f /\ r.rcq = q.rcq \o g
    BY <1>1 DEF Flushed, QueuePairs
  <1>3. /\ Len(f) = Len(q.sq) /\ \A i \in 1..Len(q.sq) : f[i].ok = FALSE
        /\ Len(g) = Len(q.rq)
        /\ \A i \in 1..Len(q.rq) : g[i].ok = FALSE /\ g[i].buf = q.rq[i]
    BY <1>1
  <1>4. f \in Seq(SendCompletions)
    <2>1. \A i \in 1..Len(q.sq) :
             [ok |-> FALSE, idx |-> q.sq[i].idx] \in SendCompletions
      <3> TAKE i \in 1..Len(q.sq)
      <3>1. q.sq[i] \in WorkRequests
        BY QpFields
      <3> QED
        BY <3>1 DEF WorkRequests, SendCompletions
    <2> QED
      BY <1>1, <2>1
  <1>5. g \in Seq(RecvCompletions)
    <2>1. \A i \in 1..Len(q.rq) :
             [ok |-> FALSE, buf |-> q.rq[i], msg |-> q.rq[i]] \in RecvCompletions
      <3> TAKE i \in 1..Len(q.rq)
      <3>1. q.rq[i] \in Buffers
        BY <1>1
      <3> QED
        BY <3>1 DEF RecvCompletions
    <2> QED
      BY <1>1, <2>1
  <1>6. \A a, b \in Nat : \A j \in 1..(a + b) :
           j \in 1..a \/ (j - a \in 1..b /\ j = a + (j - a))
    OBVIOUS
  <1> HIDE DEF f, g, r
  <1>7. /\ Len(r.scq) = Len(q.scq) + Len(q.sq)
        /\ \A i \in 1..Len(q.scq) : r.scq[i] = q.scq[i]
        /\ \A i \in 1..Len(q.sq) : r.scq[Len(q.scq) + i] = f[i]
    <2>1. /\ Len(q.scq \o f) = Len(q.scq) + Len(f)
          /\ \A i \in 1..Len(q.scq) : (q.scq \o f)[i] = q.scq[i]
          /\ \A i \in 1..Len(f) : (q.scq \o f)[Len(q.scq) + i] = f[i]
      BY <1>1, <1>4, ConcatProperties
    <2> QED
      BY <1>2, <1>3, <2>1
  <1>8. /\ Len(r.rcq) = Len(q.rcq) + Len(q.rq)
        /\ \A i \in 1..Len(q.rcq) : r.rcq[i] = q.rcq[i]
        /\ \A i \in 1..Len(q.rq) : r.rcq[Len(q.rcq) + i] = g[i]
    <2>1. /\ Len(q.rcq \o g) = Len(q.rcq) + Len(g)
          /\ \A i \in 1..Len(q.rcq) : (q.rcq \o g)[i] = q.rcq[i]
          /\ \A i \in 1..Len(g) : (q.rcq \o g)[Len(q.rcq) + i] = g[i]
      BY <1>1, <1>5, ConcatProperties
    <2> QED
      BY <1>2, <1>3, <2>1
  <1>9. ASSUME NEW j \in 1..Len(r.scq), r.scq[j].ok
        PROVE  j \in 1..Len(q.scq) /\ r.scq[j] = q.scq[j]
    <2>1. CASE j \in 1..Len(q.scq)
      BY <1>7, <2>1
    <2>2. CASE j - Len(q.scq) \in 1..Len(q.sq) /\ j = Len(q.scq) + (j - Len(q.scq))
      <3>1. r.scq[j] = f[j - Len(q.scq)]
        BY <1>7, <2>2
      <3> QED
        BY <1>3, <1>9, <2>2, <3>1
    <2> QED
      BY <1>1, <1>6, <1>7, <2>1, <2>2
  <1>10. ASSUME NEW j \in 1..Len(r.rcq)
         PROVE  \/ j \in 1..Len(q.rcq) /\ r.rcq[j] = q.rcq[j]
                \/ /\ ~r.rcq[j].ok
                   /\ \E k \in 1..Len(q.rq) : r.rcq[j].buf = q.rq[k]
    <2>1. CASE j \in 1..Len(q.rcq)
      BY <1>8, <2>1
    <2>2. CASE j - Len(q.rcq) \in 1..Len(q.rq) /\ j = Len(q.rcq) + (j - Len(q.rcq))
      <3>1. r.rcq[j] = g[j - Len(q.rcq)]
        BY <1>8, <2>2
      <3>2. /\ r.rcq[j].ok = FALSE /\ r.rcq[j].buf = q.rq[j - Len(q.rcq)]
            /\ j - Len(q.rcq) \in 1..Len(q.rq)
        BY <1>3, <2>2, <3>1
      <3> QED
        BY <3>2
    <2> QED
      BY <1>1, <1>6, <1>8, <2>1, <2>2
  <1> QED
    BY <1>2, <1>8, <1>9, <1>10 DEF r, FlushedTo

\* Posting a request: it is refused, flushed at once, or put on the queue.
Posted(q, r, wr) ==
    /\ r.state = q.state /\ r.retired = q.retired /\ r.sent = q.sent
    /\ \/ ~CanPost(q) /\ r = q
       \/ /\ CanPost(q) /\ q.state = "err" /\ r.sq = q.sq
          /\ r.posted = q.posted + 1
          /\ Len(r.scq) = Len(q.scq) + 1
          /\ \A j \in 1..Len(r.scq) :
                r.scq[j].ok => j \in 1..Len(q.scq) /\ r.scq[j] = q.scq[j]
       \/ /\ CanPost(q) /\ q.state # "err" /\ r.scq = q.scq
          /\ r.posted = q.posted + 1
          /\ Len(r.sq) = Len(q.sq) + 1 /\ r.sq[Len(r.sq)] = wr
          /\ \A j \in 1..Len(r.sq) : \/ j \in 1..Len(q.sq) /\ r.sq[j] = q.sq[j]
                                     \/ j = Len(q.sq) + 1 /\ r.sq[j] = wr

LEMMA PostSendFields ==
    ASSUME NEW q, Accounted(q), NEW op \in {"send", "read", "write"},
           NEW kind \in Kinds, NEW n \in Nat, NEW sig \in BOOLEAN
    PROVE  Posted(q, PostSend(q, op, kind, n, sig),
                  [op |-> op, kind |-> kind, n |-> n, sig |-> sig,
                   idx |-> q.posted + 1])
  <1> DEFINE r  == PostSend(q, op, kind, n, sig)
             wr == [op |-> op, kind |-> kind, n |-> n, sig |-> sig,
                    idx |-> q.posted + 1]
             c  == [ok |-> FALSE, idx |-> wr.idx]
  <1>1. /\ q \in QueuePairs /\ q.posted + 1 \in Nat /\ q.sq \in Seq(WorkRequests)
        /\ q.scq \in Seq(SendCompletions) /\ Len(q.sq) \in Nat /\ Len(q.scq) \in Nat
    BY QpFields
  <1>2. wr \in WorkRequests /\ c \in SendCompletions /\ c.ok = FALSE
    BY <1>1 DEF WorkRequests, SendCompletions
  <1>3. CASE ~CanPost(q)
    BY <1>3 DEF PostSend, Posted
  <1>4. CASE CanPost(q) /\ q.state = "err"
    <2>1. /\ r.state = q.state /\ r.retired = q.retired /\ r.sent = q.sent
          /\ r.sq = q.sq /\ r.posted = q.posted + 1 /\ r.scq = Append(q.scq, c)
      BY <1>1, <1>4 DEF PostSend, QueuePairs
    <2> HIDE DEF r, c
    <2>2. /\ Len(r.scq) = Len(q.scq) + 1
          /\ \A j \in 1..Len(r.scq) : \/ j \in 1..Len(q.scq) /\ r.scq[j] = q.scq[j]
                                      \/ j = Len(q.scq) + 1 /\ r.scq[j] = c
      BY <1>1, <1>2, <2>1, AppendEntries
    <2> QED
      BY <1>2, <1>4, <2>1, <2>2 DEF r, Posted
  <1>5. CASE CanPost(q) /\ q.state # "err"
    <2>1. /\ r.state = q.state /\ r.retired = q.retired /\ r.sent = q.sent
          /\ r.scq = q.scq /\ r.posted = q.posted + 1 /\ r.sq = Append(q.sq, wr)
      BY <1>1, <1>5 DEF PostSend, QueuePairs
    <2> HIDE DEF r, wr
    <2>2. /\ Len(r.sq) = Len(q.sq) + 1
          /\ \A j \in 1..Len(r.sq) : \/ j \in 1..Len(q.sq) /\ r.sq[j] = q.sq[j]
                                     \/ j = Len(q.sq) + 1 /\ r.sq[j] = wr
      BY <1>1, <1>2, <2>1, AppendEntries
    <2>3. r.sq[Len(r.sq)] = wr
      BY <1>1, <2>2
    <2> QED
      BY <1>5, <2>1, <2>2, <2>3 DEF r, wr, Posted
  <1> QED
    BY <1>3, <1>4, <1>5

-----------------------------------------------------------------------------
(* The send side.                                                           *)

\* An idle queue pair may start a burst.
LEMMA IdlePosts ==
    ASSUME NEW q, Accounted(q), Idle(q), NEW kind, NEW k \in Nat
    PROVE  Posting(q, kind, k)
  <1>1. Len(q.sq) = 0
    BY DEF Idle
  <1> QED
    BY <1>1 DEF Idle, Posting

\* So are a new endpoint and a destroyed one.
LEMMA EndpointsIdle ==
    ASSUME NEW q, Accounted(q), NEW s
    PROVE  /\ Idle(NewQp(s)) /\ RecvIdle(NewQp(s))
           /\ Idle(Destroyed(q)) /\ RecvIdle(Destroyed(q))
  BY DEF Idle, RecvIdle, NewQp, Destroyed, Unretired

\* A phase depends on its side of the queue pair only.
LEMMA SendPhasesSame ==
    ASSUME NEW q, NEW r, SendSame(q, r)
    PROVE  /\ Idle(q) => Idle(r)
           /\ \A kind, k : Posting(q, kind, k) => Posting(r, kind, k)
           /\ \A kind : Awaiting(q, kind) => Awaiting(r, kind)
           /\ Signals(q) => Signals(r)
  BY DEF SendSame, Idle, Posting, Awaiting, Signals, Unretired

\* One more unsignaled request.
LEMMA PostUnsignaled ==
    ASSUME NEW q, Accounted(q), NEW op \in {"send", "read", "write"},
           NEW kind \in Kinds, NEW n \in Nat, NEW k \in Nat, Posting(q, kind, k)
    PROVE  Posting(PostSend(q, op, kind, n, FALSE), kind, k + 1)
  <1> DEFINE r  == PostSend(q, op, kind, n, FALSE)
             wr == [op |-> op, kind |-> kind, n |-> n, sig |-> FALSE,
                    idx |-> q.posted + 1]
  <1>1. /\ FALSE \in BOOLEAN /\ q.posted \in Nat /\ q.retired \in Nat
        /\ wr.kind = kind /\ wr.sig = FALSE
    BY QpFields
  <1>2. Posted(q, r, wr)
    BY PostSendFields
  <1> HIDE DEF r, wr
  <1>3. r.state = "rts" => Unretired(r) <= k + 1
    BY <1>1, <1>2, CompletionsUnretired DEF Posted, Posting, Unretired
  <1>4. /\ \A j \in 1..Len(r.sq) : r.sq[j].kind = kind /\ ~r.sq[j].sig
        /\ \A j \in 1..Len(r.scq) : ~r.scq[j].ok
    BY <1>1, <1>2 DEF Posted, Posting
  <1> QED
    BY <1>3, <1>4 DEF Posting, r

\* A signaled request is the one to wait for.
LEMMA PostSignaled ==
    ASSUME NEW q, Accounted(q), NEW op \in {"send", "read", "write"},
           NEW kind \in Kinds, NEW n \in Nat, NEW k \in Nat, Posting(q, kind, k)
    PROVE  /\ Awaiting(PostSend(q, op, kind, n, TRUE), kind)
           /\ q.state = "rts" /\ k < MAX_WR
              => Signals(PostSend(q, op, kind, n, TRUE))
  <1> DEFINE r  == PostSend(q, op, kind, n, TRUE)
             wr == [op |-> op, kind |-> kind, n |-> n, sig |-> TRUE,
                    idx |-> q.posted + 1]
  <1>1. /\ TRUE \in BOOLEAN /\ q.posted \in Nat /\ q.retired \in Nat
        /\ wr.kind = kind /\ wr.sig = TRUE /\ wr.idx = q.posted + 1
    BY QpFields
  <1>2. Posted(q, r, wr)
    BY PostSendFields
  <1> HIDE DEF r, wr
  <1>3. Awaiting(r, kind)
    BY <1>1, <1>2 DEF Posted, Posting, Awaiting
  <1>4. ASSUME q.state = "rts", k < MAX_WR PROVE Signals(r)
    <2>1. Unretired(q) <= k /\ Unretired(q) \in Nat
      BY <1>4, CompletionsUnretired DEF Posting
    <2>2. CanPost(q) /\ q.state # "err"
      BY <1>4, <2>1, MaxWrAssumption DEF CanPost, Unretired
    <2>3. /\ Len(r.sq) = Len(q.sq) + 1 /\ r.sq[Len(r.sq)].sig
      BY <1>1, <1>2, <2>2 DEF Posted
    <2>4. Len(r.sq) \in 1..Len(r.sq)
      BY <2>3, QpFields
    <2> QED
      BY <2>3, <2>4 DEF Signals
  <1> QED
    BY <1>3, <1>4 DEF r

\* Polling the completion waited for leaves nothing to poll but failures.
LEMMA PollAwaited ==
    ASSUME NEW q, Accounted(q), FailuresLast(q), q.scq # << >>, NEW kind,
           Awaiting(q, kind)
    PROVE  /\ Idle(PollSend(q))
           /\ Head(q.scq).ok => Unretired(PollSend(q)) = 0
  <1> DEFINE r == PollSend(q)
  <1>1. /\ q \in QueuePairs /\ q.scq \in Seq(SendCompletions)
        /\ Len(q.scq) \in Nat /\ Len(q.sq) \in Nat /\ q.sq \in Seq(WorkRequests)
        /\ 1 \in 1..Len(q.scq) /\ Head(q.scq) = q.scq[1]
        /\ q.posted \in Nat /\ q.retired \in Nat
    BY QpFields
  <1>2. /\ r.state = q.state /\ r.sq = q.sq /\ r.scq = Tail(q.scq)
        /\ r.posted = q.posted /\ r.retired = Head(q.scq).idx
    BY <1>1 DEF PollSend, QueuePairs
  <1>3. Accounted(r)
    BY PollSendAccounted
  <1> HIDE DEF r
  <1>4. CASE Head(q.scq).ok
    <2>1. q.scq[1].idx = q.posted
      BY <1>1, <1>4 DEF Awaiting
    <2>2. r.retired = r.posted
      BY <1>1, <1>2, <2>1
    <2>3. Unretired(r) = 0
      BY <1>1, <1>2, <2>2 DEF Unretired
    <2>4. Len(r.scq) = 0 /\ Len(r.sq) = 0
      <3>1. Len(r.scq) \in Nat /\ Len(r.sq) \in Nat /\ Len(r.scq) <= Unretired(r)
        BY <1>3, CompletionsUnretired, QpFields
      <3>2. r.retired <= r.posted - Len(r.sq) /\ r.posted \in Nat
        BY <1>3, QpFields
      <3> QED
        BY <2>2, <2>3, <3>1, <3>2
    <2>5. r.sq = << >>
      BY <1>1, <1>2, <2>4
    <2> QED
      BY <2>3, <2>4, <2>5 DEF Idle, r
  <1>5. CASE ~Head(q.scq).ok
    <2>1. Broken(r)
      BY <1>5, PollSendFailuresLast DEF r
    <2>2. r.sq = << >>
      BY <1>3, <2>1, QpFields DEF SendAccounting, Broken
    <2> QED
      BY <1>5, <2>1, <2>2 DEF Idle, Broken, r
  <1> QED
    BY <1>4, <1>5

-----------------------------------------------------------------------------
(* The NICs.                                                                *)

\* A NIC step keeps a queue pair accounted for.
LEMMA NicMoveAccounted ==
    ASSUME NEW q, Accounted(q), NEW r, NicMove(q, r)
    PROVE  Accounted(r)
  BY FlushedAccounted, ExecutedAccounted, AcknowledgedAccounted, ReceivedAccounted
     DEF NicMove

\* A NIC step that changes the send side acknowledges a request or flushes all.
LEMMA NicMoveSend ==
    ASSUME NEW q, Accounted(q), NEW r, NicMove(q, r)
    PROVE  \/ SendSame(q, r)
           \/ q.state = "rts" /\ r = Flushed(q)
           \/ q.sent > 0 /\ r = Acknowledged(q)
  <1>1. r = q => SendSame(q, r)
    BY DEF SendSame
  <1> QED
    BY <1>1, SidesKept DEF NicMove

\* An idle send queue stays so.
LEMMA NicKeepsIdle ==
    ASSUME NEW q, Accounted(q), NEW r, NicMove(q, r), Idle(q)
    PROVE  Idle(r)
  <1>1. CASE SendSame(q, r)
    BY <1>1, SendPhasesSame
  <1>2. CASE r = Flushed(q)
    <2>1. /\ r.state = "err" /\ r.sq = << >>
          /\ \A j \in 1..Len(r.scq) :
                r.scq[j].ok => j \in 1..Len(q.scq) /\ r.scq[j] = q.scq[j]
      <3>1. FlushedTo(q, r)
        BY <1>2, FlushedFields
      <3> QED
        BY <3>1 DEF FlushedTo
    <2> QED
      BY <2>1 DEF Idle
  <1>3. ~(q.sent > 0)
    <2>1. Len(q.sq) = 0 /\ q.sent <= Len(q.sq) /\ q.sent \in Nat
      BY QpFields DEF Idle, SendAccounting
    <2> QED
      BY <2>1
  <1> QED
    BY <1>1, <1>2, <1>3, NicMoveSend

\* A burst leaves no completion while nothing fails.
LEMMA NicKeepsPosting ==
    ASSUME NEW q, Accounted(q), NEW r, NicMove(q, r), NEW kind, NEW k,
           Posting(q, kind, k)
    PROVE  Posting(r, kind, k)
  <1>1. CASE SendSame(q, r)
    BY <1>1, SendPhasesSame
  <1>2. CASE r = Flushed(q)
    <2>1. /\ r.state = "err" /\ Len(r.sq) = 0
          /\ \A j \in 1..Len(r.scq) :
                r.scq[j].ok => j \in 1..Len(q.scq) /\ r.scq[j] = q.scq[j]
      <3>1. FlushedTo(q, r)
        BY <1>2, FlushedFields
      <3> QED
        BY <3>1 DEF FlushedTo
    <2> QED
      BY <2>1 DEF Posting
  <1>3. CASE q.sent > 0 /\ r = Acknowledged(q)
    <2>1. /\ r.state = q.state /\ r.posted = q.posted /\ r.retired = q.retired
          /\ \A j \in 1..Len(r.sq) : /\ j + 1 \in 1..Len(q.sq)
                                     /\ r.sq[j] = q.sq[j + 1]
          /\ ~q.sq[1].sig => r.scq = q.scq
      BY <1>3, AcknowledgedFields DEF AckedTo
    <2>2. Len(q.sq) > 0 /\ Len(q.sq) \in Nat
      BY <1>3, AcknowledgedFields, QpFields DEF AckedTo
    <2>3. ~q.sq[1].sig
      BY <2>2 DEF Posting
    <2>4. r.scq = q.scq
      BY <2>1, <2>2, <2>3
    <2> QED
      BY <2>1, <2>4 DEF Posting, Unretired
  <1> QED
    BY <1>1, <1>2, <1>3, NicMoveSend

\* The completion of the last request is the only success.
LEMMA NicKeepsAwaiting ==
    ASSUME NEW q, Accounted(q), NEW r, NicMove(q, r), NEW kind, Awaiting(q, kind)
    PROVE  /\ Awaiting(r, kind)
           /\ Signals(q) /\ r.state = "rts" => Signals(r)
  <1>1. CASE SendSame(q, r)
    BY <1>1, SendPhasesSame
  <1>2. CASE r = Flushed(q)
    <2>1. /\ r.state = "err" /\ Len(r.sq) = 0 /\ r.posted = q.posted
          /\ \A j \in 1..Len(r.scq) :
                r.scq[j].ok => j \in 1..Len(q.scq) /\ r.scq[j] = q.scq[j]
      <3>1. FlushedTo(q, r)
        BY <1>2, FlushedFields
      <3> QED
        BY <3>1 DEF FlushedTo
    <2> QED
      BY <2>1 DEF Awaiting
  <1>3. CASE q.sent > 0 /\ r = Acknowledged(q)
    <2> DEFINE c == [ok |-> TRUE, idx |-> q.sq[1].idx]
    <2>1. /\ r.posted = q.posted /\ Len(q.sq) > 0 /\ Len(r.sq) = Len(q.sq) - 1
          /\ \A j \in 1..Len(r.sq) : /\ j + 1 \in 1..Len(q.sq)
                                     /\ r.sq[j] = q.sq[j + 1]
          /\ q.sq[1].sig => r.scq = Append(q.scq, c)
          /\ ~q.sq[1].sig => r.scq = q.scq
      BY <1>3, AcknowledgedFields DEF AckedTo
    <2>2. /\ Len(q.sq) \in Nat /\ 1 \in 1..Len(q.sq) /\ q.sq[1] \in WorkRequests
          /\ q.scq \in Seq(SendCompletions)
      BY <2>1, QpFields
    <2>3. /\ c \in SendCompletions /\ c.idx = q.sq[1].idx
      BY <2>2 DEF WorkRequests, SendCompletions
    <2> HIDE DEF c
    <2>4. \A j \in 1..Len(r.sq) : /\ r.sq[j].kind = kind
                                  /\ r.sq[j].sig => r.sq[j].idx = r.posted
      BY <2>1, SMTT(30) DEF Awaiting
    <2>5. CASE q.sq[1].sig
      <3>1. /\ r.scq # << >>
            /\ \A j \in 1..Len(r.scq) : \/ j \in 1..Len(q.scq) /\ r.scq[j] = q.scq[j]
                                        \/ r.scq[j] = c
        BY <2>1, <2>2, <2>3, <2>5, AppendEntries
      <3>2. c.idx = q.posted
        BY <2>2, <2>3, <2>5 DEF Awaiting
      <3>3. \A j \in 1..Len(r.scq) : r.scq[j].ok => r.scq[j].idx = r.posted
        BY <2>1, <3>1, <3>2 DEF Awaiting
      <3> QED
        BY <2>4, <3>1, <3>3 DEF Awaiting, Signals
    <2>6. CASE ~q.sq[1].sig
      <3>1. r.scq = q.scq
        BY <2>1, <2>6
      <3>2. ASSUME NEW j \in 1..Len(q.sq), q.sq[j].sig
            PROVE  \E i \in 1..Len(r.sq) : r.sq[i].sig
        <4>1. j # 1
          BY <2>6, <3>2
        <4>2. j - 1 \in 1..Len(r.sq) /\ (j - 1) + 1 = j
          BY <2>1, <2>2, <4>1
        <4>3. r.sq[j - 1] = q.sq[j]
          BY <2>1, <4>2
        <4> QED
          BY <3>2, <4>2, <4>3
      <3> QED
        BY <2>1, <2>4, <3>1, <3>2 DEF Awaiting, Signals
    <2> QED
      BY <2>5, <2>6
  <1> QED
    BY <1>1, <1>2, <1>3, NicMoveSend

-----------------------------------------------------------------------------
(* The receive side.                                                        *)

LEMMA UnitSeq ==
    ASSUME NEW x
    PROVE  /\ Append(<< >>, x) = <<x>> /\ <<x>> # << >>
           /\ Len(<<x>>) = 1 /\ <<x>>[1] = x
           /\ Head(<<x>>) = x /\ Tail(<<x>>) = << >>
  OBVIOUS

LEMMA RecvPhasesSame ==
    ASSUME NEW q, NEW r, RecvSame(q, r)
    PROVE  /\ RecvIdle(q) => RecvIdle(r)
           /\ \A b : RecvOne(q, b) => RecvOne(r, b)
  BY DEF RecvSame, RecvIdle, RecvOne

\* There is room for a receive where there is none.
LEMMA IdleReceives ==
    ASSUME NEW q, RecvIdle(q)
    PROVE  CanRecv(q)
  <1>1. Len(q.rq) = 0 /\ Len(q.rcq) = 0
    BY DEF RecvIdle
  <1> QED
    BY <1>1, MaxWrAssumption DEF CanRecv

\* A receive is posted where there was none.
LEMMA PostRecvOne ==
    ASSUME NEW q, Accounted(q), RecvIdle(q), NEW kind \in Kinds, NEW n \in Nat
    PROVE  RecvOne(PostRecv(q, kind, n), [kind |-> kind, n |-> n])
  <1> DEFINE b == [kind |-> kind, n |-> n]
             c == [ok |-> FALSE, buf |-> b, msg |-> b]
             r == PostRecv(q, kind, n)
  <1>1. q \in QueuePairs /\ q.rq = << >> /\ q.rcq = << >>
    BY QpFields DEF RecvIdle
  <1>2. c \in RecvCompletions /\ c.buf = b
    BY DEF RecvCompletions, Buffers
  <1>3. \/ r.rq = Append(q.rq, b) /\ r.rcq = q.rcq
        \/ r.rq = q.rq /\ r.rcq = Append(q.rcq, c)
    BY <1>1, IdleReceives DEF PostRecv, QueuePairs
  <1> HIDE DEF r, b, c
  <1>4. \/ r.rq = <<b>> /\ r.rcq = << >>
        \/ r.rq = << >> /\ r.rcq = <<c>>
    BY <1>1, <1>3, UnitSeq
  <1>5. RecvOne(r, b)
    BY <1>2, <1>4 DEF RecvOne
  <1> QED
    BY <1>5 DEF r, b

\* The receive is polled.
LEMMA PollRecvOne ==
    ASSUME NEW q, Accounted(q), NEW b, RecvOne(q, b), q.rcq # << >>
    PROVE  RecvIdle(PollRecv(q)) /\ q.rcq = <<Head(q.rcq)>>
  <1>1. q \in QueuePairs
    BY QpFields
  <1>2. PICK c : q.rq = << >> /\ q.rcq = <<c>>
    BY DEF RecvOne
  <1>3. Tail(q.rcq) = << >> /\ q.rcq = <<Head(q.rcq)>>
    BY <1>2, UnitSeq
  <1>4. PollRecv(q).rq = q.rq /\ PollRecv(q).rcq = Tail(q.rcq)
    BY <1>1 DEF PollRecv, QueuePairs
  <1> QED
    BY <1>2, <1>3, <1>4 DEF RecvIdle

\* A message takes the receive that is posted.
LEMMA ReceivedOne ==
    ASSUME NEW q, Accounted(q), NEW b, RecvOne(q, b), q.rq # << >>,
           NEW m \in Buffers
    PROVE  /\ Head(q.rq) = b /\ Received(q, m).rq = << >>
           /\ Received(q, m).rcq = <<[ok |-> TRUE, buf |-> b, msg |-> m]>>
           /\ RecvOne(Received(q, m), b)
  <1> DEFINE c == [ok |-> TRUE, buf |-> b, msg |-> m]
             r == Received(q, m)
  <1>1. /\ q \in QueuePairs /\ q.rq \in Seq(Buffers)
    BY QpFields
  <1>2. q.rq = <<b>> /\ q.rcq = << >>
    BY DEF RecvOne
  <1>3. Head(q.rq) = b /\ Tail(q.rq) = << >> /\ q.rq[1] = b /\ Len(q.rq) = 1
    BY <1>2, UnitSeq
  <1>4. b \in Buffers
    BY <1>1, <1>3
  <1>5. r.rq = Tail(q.rq) /\ r.rcq = Append(q.rcq, c)
    BY <1>1, <1>3 DEF Received, QueuePairs
  <1>6. c.buf = b /\ c \in RecvCompletions
    BY <1>4 DEF RecvCompletions
  <1> HIDE DEF c, r
  <1>7. r.rq = << >> /\ r.rcq = <<c>>
    BY <1>2, <1>3, <1>5, UnitSeq
  <1>8. RecvOne(r, b)
    BY <1>6, <1>7 DEF RecvOne
  <1> QED
    BY <1>3, <1>7, <1>8 DEF r, c

\* Nothing is posted: a flush leaves the completions; one receive is: it fails.
LEMMA FlushedRecv ==
    ASSUME NEW q, Accounted(q)
    PROVE  /\ RecvIdle(q) => RecvIdle(Flushed(q))
           /\ \A b : RecvOne(q, b) => RecvOne(Flushed(q), b)
           /\ q.rq = << >> => Flushed(q).rcq = q.rcq
           /\ \A b : q.rq = <<b>> /\ q.rcq = << >>
                     => Flushed(q).rcq = <<[ok |-> FALSE, buf |-> b, msg |-> b]>>
  <1> DEFINE g == [i \in 1..Len(q.rq) |->
                      [ok |-> FALSE, buf |-> q.rq[i], msg |-> q.rq[i]]]
             r == Flushed(q)
  <1>1. /\ q \in QueuePairs /\ q.rcq \in Seq(RecvCompletions)
        /\ q.rq \in Seq(Buffers)
    BY QpFields
  <1>2. r.rq = << >> /\ r.rcq = q.rcq \o g
    BY <1>1 DEF Flushed, QueuePairs
  <1>3. ASSUME q.rq = << >> PROVE r.rcq = q.rcq
    <2>1. g = << >>
      BY <1>3
    <2>2. \A s \in Seq(RecvCompletions) : s \o << >> = s
      OBVIOUS
    <2> HIDE DEF g, r
    <2> QED
      BY <1>1, <1>2, <2>1, <2>2
  <1>4. ASSUME NEW b, q.rq = <<b>>, q.rcq = << >>
        PROVE  /\ r.rcq = <<[ok |-> FALSE, buf |-> b, msg |-> b]>>
               /\ RecvOne(r, b)
    <2> DEFINE c == [ok |-> FALSE, buf |-> b, msg |-> b]
    <2>1. Len(q.rq) = 1 /\ q.rq[1] = b
      BY <1>4, UnitSeq
    <2>2. b \in Buffers
      BY <1>1, <2>1
    <2>3. c \in RecvCompletions /\ c.buf = b
      BY <2>2 DEF RecvCompletions
    <2>4. g = [i \in 1..1 |-> c]
      <3>1. \A i \in 1..1 : q.rq[i] = b
        BY <2>1
      <3>2. 1..Len(q.rq) = 1..1
        BY <2>1
      <3> QED
        BY <3>1, <3>2, Zenon
    <2> HIDE DEF c
    <2>5. [i \in 1..1 |-> c] = <<c>>
      OBVIOUS
    <2>6. << >> \o <<c>> = <<c>>
      OBVIOUS
    <2> HIDE DEF g, r
    <2>7. r.rcq = <<c>>
      BY <1>2, <1>4, <2>4, <2>5, <2>6
    <2> QED
      BY <1>2, <2>3, <2>7 DEF RecvOne, c
  <1>5. RecvIdle(q) => RecvIdle(r)
    BY <1>2, <1>3 DEF RecvIdle
  <1>6. ASSUME NEW b, RecvOne(q, b) PROVE RecvOne(r, b)
    <2>1. CASE q.rq = <<b>> /\ q.rcq = << >>
      BY <1>4, <2>1
    <2>2. CASE q.rq = << >>
      <3>1. r.rq = << >> /\ r.rcq = q.rcq
        BY <1>2, <1>3, <2>2
      <3>2. \E c \in RecvCompletions : q.rcq = <<c>> /\ c.buf = b
        BY <1>6, <2>2, UnitSeq DEF RecvOne
      <3> HIDE DEF r
      <3> QED
        BY <3>1, <3>2 DEF RecvOne
    <2> QED
      BY <1>6, <2>1, <2>2 DEF RecvOne
  <1> QED
    BY <1>3, <1>4, <1>5, <1>6

\* The NICs leave an idle receive side alone, and one receive one.
LEMMA NicKeepsRecv ==
    ASSUME NEW q, Accounted(q), NEW r, NicMove(q, r)
    PROVE  /\ RecvIdle(q) => RecvIdle(r)
           /\ \A b : RecvOne(q, b) => RecvOne(r, b)
  <1>1. CASE RecvSame(q, r)
    BY <1>1, RecvPhasesSame
  <1>2. CASE r = Flushed(q)
    BY <1>2, FlushedRecv
  <1>3. ASSUME NEW m \in Buffers, q.rq # << >>, r = Received(q, m)
        PROVE  /\ ~RecvIdle(q)
               /\ \A b : RecvOne(q, b) => RecvOne(r, b)
    BY <1>3, ReceivedOne DEF RecvIdle
  <1>4. r = q => RecvSame(q, r)
    BY DEF RecvSame
  <1> QED
    BY <1>1, <1>2, <1>3, <1>4, SidesKept DEF NicMove

=============================================================================
