-------------------------------- MODULE Verbs --------------------------------
(***************************************************************************)
(* One endpoint of a reliable-connected (RC) queue pair, as the wrappers    *)
(* of dccs_rdma.h use it: the send queue with its completion queue and the  *)
(* receive queue with its completion queue.                                 *)
(*                                                                          *)
(* libibverbs, librdmacm and the NIC are not part of the repository; their  *)
(* behaviour is modelled from how dccs_rdma.h relies on it.  A queue pair   *)
(* is one record, and every operator below maps a queue pair to the next    *)
(* one, so that the programs built on it (RdmaSession) compose them.        *)
(***************************************************************************)
EXTENDS Integers, Sequences

CONSTANT MAX_WR     \* depth of both work queues and of their completion queues

ASSUME MaxWrAssumption == MAX_WR \in Nat \ {0}

(***************************************************************************)
(* "none": no endpoint; "idle": rdma_create_ep done, not connected; "rts":  *)
(* connected; "err": a request failed, every other one is flushed; "gone":  *)
(* rdma_destroy_ep done, or the process died.                               *)
(***************************************************************************)
QpStates == {"none", "idle", "rts", "err", "gone"}

(***************************************************************************)
(* What a message carries or a buffer is meant for: an application buffer   *)
(* (number n), the count and the array of the memory-region exchange, or    *)
(* the terminating message.                                                 *)
(***************************************************************************)
Kinds == {"data", "count", "array", "end"}

Buffers == [kind : Kinds, n : Nat]

\* A work request on the send queue.  idx counts the requests ever posted:
\* it is the driver's work-queue counter, and names the request in its
\* completion.
WorkRequests == [op : {"send", "read", "write"}, kind : Kinds, n : Nat,
                 sig : BOOLEAN, idx : Nat]

SendCompletions == [ok : BOOLEAN, idx : Nat]

\* A receive completion names the posted buffer and the message it holds.
RecvCompletions == [ok : BOOLEAN, buf : Buffers, msg : Buffers]

SendQueues == Seq(WorkRequests)
SendCqs    == Seq(SendCompletions)
RecvQueues == Seq(Buffers)
RecvCqs    == Seq(RecvCompletions)

QueuePairs ==
    [state   : QpStates,
     sq      : SendQueues,            \* posted, not acknowledged
     sent    : Nat,                   \* how many of sq the peer has executed
     posted  : Nat,                   \* requests ever accepted by the queue
     retired : Nat,                   \* idx of the last completion polled
     scq     : SendCqs,
     rq      : RecvQueues,
     rcq     : RecvCqs]

NewQp(s) == [state |-> s, sq |-> << >>, sent |-> 0, posted |-> 0,
             retired |-> 0, scq |-> << >>, rq |-> << >>, rcq |-> << >>]

-----------------------------------------------------------------------------
(* Posting (dccs_rdma_send_with_flags, _read_with_flags, _write_with_flags, *)
(* dccs_rdma_recv).                                                         *)

(***************************************************************************)
(* A slot of the send queue is free again only when a completion at or      *)
(* after its request is polled: an unsignaled request holds its slot until  *)
(* a later signaled one is polled.                                          *)
(***************************************************************************)
CanPost(q) == q.posted - q.retired < MAX_WR

(***************************************************************************)
(* A full queue refuses the request (the wrapper returns -1).  A queue pair *)
(* in the error state accepts it and flushes it at once.                    *)
(***************************************************************************)
PostSend(q, op, kind, n, sig) ==
    LET wr == [op |-> op, kind |-> kind, n |-> n, sig |-> sig,
               idx |-> q.posted + 1]
    IN  IF ~CanPost(q)
        THEN q
        ELSE IF q.state = "err"
        THEN [q EXCEPT !.posted = @ + 1,
                       !.scq = Append(@, [ok |-> FALSE, idx |-> wr.idx])]
        ELSE [q EXCEPT !.posted = @ + 1, !.sq = Append(@, wr)]

\* A slot of the receive queue is free again when its completion is polled.
CanRecv(q) == Len(q.rq) + Len(q.rcq) < MAX_WR

PostRecv(q, kind, n) ==
    LET b == [kind |-> kind, n |-> n]
    IN  IF ~CanRecv(q)
        THEN q
        ELSE IF q.state = "err"
        THEN [q EXCEPT !.rcq = Append(@, [ok |-> FALSE, buf |-> b, msg |-> b])]
        ELSE [q EXCEPT !.rq = Append(@, b)]

-----------------------------------------------------------------------------
(* Polling completions (dccs_rdma_send_comp, dccs_rdma_recv_comp).          *)

PollSend(q) == [q EXCEPT !.scq = Tail(@), !.retired = Head(q.scq).idx]

\* Polling several completions at once: dccs_rdma_send_comp asks ibv_poll_cq
\* for num of them and takes those there are.
PollBatch(q, k) == [q EXCEPT !.scq = SubSeq(@, k + 1, Len(@)),
                             !.retired = q.scq[k].idx]

PollRecv(q) == [q EXCEPT !.rcq = Tail(@)]

-----------------------------------------------------------------------------
(* The NIC.                                                                 *)

\* The peer has executed the first request it had not executed yet.
Executed(q) == [q EXCEPT !.sent = @ + 1]

\* The peer's acknowledgement of the oldest request: only a signaled request
\* leaves a completion.
Acknowledged(q) ==
    LET wr == Head(q.sq)
    IN  [q EXCEPT !.sq = Tail(@), !.sent = @ - 1,
                  !.scq = IF wr.sig
                          THEN Append(@, [ok |-> TRUE, idx |-> wr.idx])
                          ELSE @]

\* A message of the peer lands in the oldest posted receive buffer.
Received(q, msg) ==
    [q EXCEPT !.rq = Tail(@),
              !.rcq = Append(@, [ok |-> TRUE, buf |-> Head(q.rq), msg |-> msg])]

\* A request fails: the queue pair enters the error state and everything
\* posted, signaled or not, completes with an error.
Flushed(q) ==
    [q EXCEPT !.state = "err", !.sq = << >>, !.sent = 0, !.rq = << >>,
              !.scq = @ \o [i \in 1..Len(q.sq) |->
                               [ok |-> FALSE, idx |-> q.sq[i].idx]],
              !.rcq = @ \o [i \in 1..Len(q.rq) |->
                               [ok |-> FALSE, buf |-> q.rq[i], msg |-> q.rq[i]]]]

\* rdma_disconnect and rdma_destroy_ep, or the end of the process.
Destroyed(q) == [state |-> "gone", sq |-> << >>, sent |-> 0,
                 posted |-> q.posted, retired |-> q.posted,
                 scq |-> << >>, rq |-> << >>, rcq |-> << >>]
==============================================================================
