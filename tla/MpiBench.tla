------------------------------ MODULE MpiBench ------------------------------
(***************************************************************************)
(* The MPI benchmark: run() of mpi_main.c in every rank, with               *)
(* send_messages, recv_messages and verify_checksum.  Sends are fire and    *)
(* forget (MPI_Isend, MPI_Request_free), receives are MPI_Irecv completed   *)
(* by MPI_Testall, and everything, digests included, travels with tag 0.    *)
(*                                                                          *)
(* The MPI library is external: messages of one pair of ranks match the     *)
(* receives in order, and the library either copies a message when it is    *)
(* sent (eager) or reads the sender's buffer when it is matched.            *)
(***************************************************************************)
EXTENDS Integers, Sequences, FiniteSets

CONSTANTS Size,         \* MPI_Comm_size
          ParamSet      \* what a job may be started with

ASSUME SizeAssumption == Size \in Nat \ {0}

Ranks == 0..(Size - 1)

Directions == {"out", "in", "both"}     \* 1-N, N-1, N-N

(***************************************************************************)
(* sync is TEST_SYNC_PACKET: one packet with the same contents in every     *)
(* rank.  eager and nul belong to the environment: which messages the       *)
(* library copies, and whether digests happen to start with a zero byte.    *)
(***************************************************************************)
Params == [direction : Directions, count : Nat \ {0}, repeat : Nat \ {0},
           sync : BOOLEAN, eager : SUBSET {"data", "digest"}, nul : BOOLEAN]

ASSUME ParamAssumption == ParamSet \subseteq Params

VARIABLES
    params,     \* the command line and the build
    pc,         \* where each rank is
    round,      \* its repeat loop's index, from 1
    buf,        \* its buffer, one value per message
    net,        \* net[s][d]: sent by s to d and not matched yet
    posted,     \* posted[d][s]: receives of d from s not matched yet
    requests,   \* how many of the requests array recv_messages has set
    src,        \* rank 0: whose digest is awaited
    got,        \* rank 0: remote_digest
    verdict     \* rank 0: what verify_checksum has returned

vars == <<params, pc, round, buf, net, posted, requests, src, got, verdict>>

Count == IF params.sync THEN 1 ELSE params.count

Numbers == 1..Count

Garbage == -1       \* what is read from a freed buffer

Contents == {Garbage, 0, 1}

Labels == {"start", "barrier", "send", "recv", "recv_wait",
           "digest", "digest_wait", "free", "finalize"}

Goto(r, l) == pc' = [pc EXCEPT ![r] = l]

\* A data message or receive has the number of its part of the buffer and
\* its round; data holds what the library has copied.
Message(kind, n, r, data) == [kind |-> kind, n |-> n, round |-> r, data |-> data]

-----------------------------------------------------------------------------
(* run(): who sends and who receives.                                       *)

ShouldSend(r) == CASE params.direction = "out"  -> r = 0
                   [] params.direction = "in"   -> r # 0
                   [] params.direction = "both" -> TRUE

ShouldRecv(r) == CASE params.direction = "out"  -> r # 0
                   [] params.direction = "in"   -> r = 0
                   [] params.direction = "both" -> TRUE

NoSelf(r) == Ranks \ {r}        \* HOST_NOSELF

Destinations(r) == IF ~ShouldSend(r) THEN {}
                   ELSE IF params.direction = "in" THEN {0} ELSE NoSelf(r)

Sources(r) == IF ~ShouldRecv(r) THEN {}
              ELSE IF params.direction = "out" THEN {0} ELSE NoSelf(r)

\* Mutant: the array has room for a request to the rank itself.
TotalCountAll(r) ==
    (IF params.direction = "out" THEN 1 ELSE Size) * Count

\* How many requests MPI_Testall is told to complete.
TotalCount(r) ==
    (IF params.direction = "out" THEN 1 ELSE Size - 1) * Count

-----------------------------------------------------------------------------
Start(r) ==
    /\ pc[r] = "start" /\ Goto(r, "barrier")
    /\ UNCHANGED <<params, round, buf, net, posted, requests, src, got, verdict>>

\* Mutant: no barrier at the start of a round.
BarrierPassed(r) == TRUE

\* Every rank has entered the barrier of r's round.
Barrier(r) == \A q \in Ranks : pc[q] # "start" /\ round[q] >= round[r]

EnterRound(r) ==
    /\ pc[r] = "barrier" /\ Barrier(r) /\ Goto(r, "send")
    /\ UNCHANGED <<params, round, buf, net, posted, requests, src, got, verdict>>

\* Mutant: the parts of the buffer are sent from the last to the first.
BatchReversed(r) ==
    [n \in Numbers |->
        Message("data", Count + 1 - n, round[r],
                IF "data" \in params.eager THEN <<buf[r][n]>> ELSE << >>)]

\* Mutant: the loop stops before the last part of the buffer.
BatchOneShort(r) ==
    [n \in 1..(Count - 1) |->
        Message("data", n, round[r],
                IF "data" \in params.eager THEN <<buf[r][n]>> ELSE << >>)]

\* The messages of one call of send_messages to one destination, in order.
Batch(r) ==
    [n \in Numbers |->
        Message("data", n, round[r],
                IF "data" \in params.eager THEN <<buf[r][n]>> ELSE << >>)]

SendMessages(r) ==
    /\ pc[r] = "send"
    /\ net' = [net EXCEPT ![r] = [d \in Ranks |->
                  IF d \in Destinations(r) THEN @[d] \o Batch(r) ELSE @[d]]]
    /\ Goto(r, "recv")
    /\ UNCHANGED <<params, round, buf, posted, requests, src, got, verdict>>

RecvMessages(r) ==
    /\ pc[r] = "recv"
    /\ posted' = [posted EXCEPT ![r] = [s \in Ranks |->
                     IF s \in Sources(r)
                     THEN @[s] \o [n \in Numbers |->
                                      Message("data", n, round[r], << >>)]
                     ELSE @[s]]]
    /\ requests' = [requests EXCEPT ![r] = Cardinality(Sources(r)) * Count]
    /\ Goto(r, "recv_wait")
    /\ UNCHANGED <<params, round, buf, net, src, got, verdict>>

\* Mutant: only the first request of every source is waited for.
AllDoneFirst(r) == \A s \in Sources(r) : Len(posted[r][s]) < Count

\* MPI_Testall says done.
AllDone(r) == \A s \in Ranks : posted[r][s] = << >>

\* Mutant: the repeat loop runs once too often.
RoundsLeftOneMore(r) == round[r] <= params.repeat

RoundsLeft(r) == round[r] < params.repeat

RecvWait(r) ==
    /\ pc[r] = "recv_wait" /\ AllDone(r)
    /\ \/ /\ RoundsLeft(r)
          /\ round' = [round EXCEPT ![r] = @ + 1] /\ Goto(r, "barrier")
       \/ ~RoundsLeft(r) /\ Goto(r, "digest") /\ UNCHANGED round
    /\ UNCHANGED <<params, buf, net, posted, requests, src, got, verdict>>

-----------------------------------------------------------------------------
(* verify_checksum: rank 0 receives the digests in the order of the ranks.  *)

\* MPI_Send returns when the digest is copied or received.
SendDigest(r) ==
    /\ r # 0 /\ pc[r] = "digest"
    /\ net' = [net EXCEPT ![r][0] = Append(@, Message("digest", 0, 0, buf[r]))]
    /\ Goto(r, IF "digest" \in params.eager THEN "free" ELSE "digest_wait")
    /\ UNCHANGED <<params, round, buf, posted, requests, src, got, verdict>>

DigestSent(r) ==
    /\ r # 0 /\ pc[r] = "digest_wait" /\ net[r][0] = << >>
    /\ Goto(r, "free")
    /\ UNCHANGED <<params, round, buf, net, posted, requests, src, got, verdict>>

RecvDigest ==
    /\ pc[0] = "digest"
    /\ \/ /\ src < Size
          /\ posted' = [posted EXCEPT ![0][src] =
                           Append(@, Message("digest", 0, 0, << >>))]
          /\ Goto(0, "digest_wait") /\ UNCHANGED verdict
       \/ /\ src = Size
          /\ verdict' = "ok" /\ Goto(0, "free") /\ UNCHANGED posted
    /\ UNCHANGED <<params, round, buf, net, requests, src, got>>

\* Mutant: any two digests compare equal.
SameDigestAlways(a, b) == TRUE

\* strncmp stops at the first zero byte that both digests have.
SameDigest(a, b) == a = b \/ params.nul

\* Mutant: the function returns after the first correct digest.
CompareDigestOnce ==
    /\ pc[0] = "digest_wait" /\ posted[0][src] = << >>
    /\ verdict' = IF SameDigest(buf[0], got) THEN "ok" ELSE "incorrect"
    /\ Goto(0, "free")
    /\ UNCHANGED <<params, round, buf, net, posted, requests, src, got>>

\* The first digest that differs ends the function.
CompareDigest ==
    /\ pc[0] = "digest_wait" /\ posted[0][src] = << >>
    /\ \/ /\ SameDigest(buf[0], got)
          /\ src' = src + 1 /\ Goto(0, "digest") /\ UNCHANGED verdict
       \/ /\ ~SameDigest(buf[0], got)
          /\ verdict' = "incorrect" /\ Goto(0, "free") /\ UNCHANGED src
    /\ UNCHANGED <<params, round, buf, net, posted, requests, got>>

Free(r) ==
    /\ pc[r] = "free" /\ Goto(r, "finalize")
    /\ UNCHANGED <<params, round, buf, net, posted, requests, src, got, verdict>>

-----------------------------------------------------------------------------
(* The library: the oldest message from s to d meets the oldest receive.    *)

Freed(r) == pc[r] = "finalize"

Carried(s, m) == IF m.data # << >> THEN m.data[1]
                 ELSE IF Freed(s) THEN Garbage ELSE buf[s][m.n]

Match(s, d) ==
    /\ net[s][d] # << >> /\ posted[d][s] # << >>
    /\ net' = [net EXCEPT ![s][d] = Tail(@)]
    /\ posted' = [posted EXCEPT ![d][s] = Tail(@)]
    /\ LET m == Head(net[s][d])
           b == Head(posted[d][s])
       IN  \/ /\ b.kind = "data"
              /\ buf' = [buf EXCEPT ![d][b.n] = Carried(s, m)] /\ UNCHANGED got
           \/ /\ b.kind = "digest"
              /\ got' = m.data /\ UNCHANGED buf
    /\ UNCHANGED <<params, pc, round, requests, src, verdict>>

-----------------------------------------------------------------------------
Init ==
    /\ params \in ParamSet
    /\ pc = [r \in Ranks |-> "start"]
    /\ round = [r \in Ranks |-> 1]
    /\ \E fill \in [Ranks -> {0, 1}] :
          /\ params.sync => \A r \in Ranks : fill[r] = 0
          /\ buf = [r \in Ranks |-> [n \in Numbers |-> fill[r]]]
    /\ net = [s \in Ranks |-> [d \in Ranks |-> << >>]]
    /\ posted = [d \in Ranks |-> [s \in Ranks |-> << >>]]
    /\ requests = [r \in Ranks |-> 0]
    /\ src = 1
    /\ got = << >>
    /\ verdict = "none"

RankStep(r) == \/ Start(r) \/ EnterRound(r) \/ SendMessages(r)
               \/ RecvMessages(r) \/ RecvWait(r)
               \/ SendDigest(r) \/ DigestSent(r) \/ Free(r)

Root == RecvDigest \/ CompareDigest

\* Every rank is in MPI_Finalize.
Terminated == (\A r \in Ranks : pc[r] = "finalize") /\ UNCHANGED vars

Next == \/ \E r \in Ranks : RankStep(r)
        \/ Root
        \/ \E s, d \in Ranks : Match(s, d)
        \/ Terminated

Spec == Init /\ [][Next]_vars

\* The ranks are scheduled and the library makes progress.
FairSpec == /\ Spec
            /\ WF_vars(Root) /\ \A r \in Ranks : WF_vars(RankStep(r))
            /\ \A s, d \in Ranks : WF_vars(Match(s, d))

-----------------------------------------------------------------------------
(* Properties.                                                              *)

Bytes == {<< >>} \union [Numbers -> Contents] \union {<<c>> : c \in Contents}

Messages == [kind : {"data", "digest"}, n : Nat, round : Nat, data : Bytes]

\* Every variable has its type.
TypeOK ==
    /\ params \in ParamSet
    /\ pc \in [Ranks -> Labels]
    /\ round \in [Ranks -> 1..params.repeat]
    /\ buf \in [Ranks -> [Numbers -> Contents]]
    /\ net \in [Ranks -> [Ranks -> Seq(Messages)]]
    /\ posted \in [Ranks -> [Ranks -> Seq(Messages)]]
    /\ requests \in [Ranks -> Nat]
    /\ src \in 1..Size
    /\ got \in Bytes
    /\ verdict \in {"none", "ok", "incorrect"}

\* One tag serves the data of every round and the digests.  A message meets
\* the receive that was posted for it: same kind, same part of the buffer,
\* same round.
MessagesMatch ==
    \A s, d \in Ranks :
        net[s][d] # << >> /\ posted[d][s] # << >> =>
            LET m == Head(net[s][d])
                b == Head(posted[d][s])
            IN  <<m.kind, m.n, m.round>> = <<b.kind, b.n, b.round>>

\* Nobody waits for the fire-and-forget sends, but the barrier does: never
\* more than one round of messages, and a digest, wait unmatched at a rank,
\* and none is left of an earlier round when its sender leaves the barrier.
BacklogBounded ==
    \A s, d \in Ranks :
        /\ Len(net[s][d]) <= Count + 1
        /\ \A i \in 1..Len(net[s][d]) :
              net[s][d][i].kind = "data" /\ pc[s] # "barrier"
              => net[s][d][i].round = round[s]

\* MPI_Testall looks at TotalCount entries of the requests array: all of them
\* have been set by MPI_Irecv.
RequestsSet ==
    \A r \in Ranks : pc[r] = "recv_wait" /\ ShouldRecv(r)
                     => requests[r] = TotalCount(r)

Unmatched(r) == \E d \in Ranks : net[r][d] # << >>

\* Rank 0 never frees its buffer under a send: in both directions in which it
\* sends, the digests it has verified were sent behind the receipt of all its
\* messages, so that verify_checksum stands in for the missing wait.
RootBufferLive == Freed(0) /\ verdict = "ok" => ~Unmatched(0)

\* The digests are of final contents: when rank 0 has found every checksum
\* correct, all buffers are equal (up to the zero byte that ends strncmp).
VerdictSound ==
    verdict = "ok" /\ ~params.nul => \A r \in Ranks : buf[r] = buf[0]

\* From one to many the data always arrives: rank 0 finds no incorrect
\* checksum, whatever the buffers held before and however often the round is
\* repeated.
OneToManyDelivers ==
    params.direction = "out" =>
        /\ verdict # "incorrect"
        /\ verdict = "ok" => \A r \in Ranks : buf[r] = buf[0]

\* A job in which every buffer has the same contents and data is copied when it
\* is sent (TEST_SYNC_PACKET with the build's small packet), or data flows only
\* from rank 0, ends in every rank: no order of nonblocking sends, receives
\* and blocking digests makes the ranks wait for each other.  (Otherwise digests
\* may differ, and a rank whose digest is not read any more may block.)
Termination ==
    (params.sync /\ "data" \in params.eager) \/ params.direction = "out"
    ~> \A r \in Ranks : pc[r] = "finalize"

=============================================================================
