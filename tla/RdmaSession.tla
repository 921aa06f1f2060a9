----------------------------- MODULE RdmaSession -----------------------------
(***************************************************************************)
(* A session of the RDMA benchmark: run() of rdma_main.c in the client and  *)
(* in the server process, with the functions of dccs_rdma.h it calls, over  *)
(* one reliable connection (module Verbs) and the NICs that execute it.     *)
(*                                                                          *)
(* A step of a process runs from one blocking call to the next; the busy    *)
(* loops on ibv_poll_cq are guards.  The NIC steps interleave with them.    *)
(***************************************************************************)
EXTENDS Verbs, FiniteSets

CONSTANT ParamSet       \* what the two processes may be started with

(***************************************************************************)
(* What may go wrong.  "setup": creating or listening on an endpoint;       *)
(* "tos": rdma_set_option; "refused": the client may start before the       *)
(* server listens; "accept": rdma_get_request or rdma_accept; "reg":        *)
(* registering memory; "fabric": the transport gives up on a request;       *)
(* "poll": ibv_poll_cq itself fails.                                        *)
(***************************************************************************)
AllFaults == {"setup", "tos", "refused", "accept", "reg", "fabric", "poll"}

\* params of both processes; only the request count is given per side.
\* faults is the environment's part: what may fail in this session.
Params == [verb : {"send", "read", "write"}, mode : {"latency", "throughput"},
           count : Nat \ {0}, scount : Nat \ {0}, repeat : Nat \ {0},
           warmup : Nat, faults : SUBSET AllFaults]

ASSUME ParamAssumption == ParamSet \subseteq Params

Peers == {"client", "server"}

Peer(e) == IF e = "client" THEN "server" ELSE "client"

VARIABLES
    params,     \* the command line, fixed for the session
    pc,         \* where each process is
    rv,         \* run()'s rv
    n,          \* the request loop's index, from 1
    round,      \* the repeat loop's index, from 1
    failed,     \* failed_count of the current round
    bad,        \* `failed` of the current request, client only
    bufs,       \* the application buffers: none, registered, some mr = NULL, freed
    nullmr,     \* the requests whose mr is NULL
    mem,        \* what they hold
    remote,     \* request->remote_addr of the client's requests
    rcount,     \* the count received by get_remote_mr_info
    qp,         \* the queue pairs
    listenEp,   \* the server's listening endpoint
    start, end, \* the round in which a request was last time-stamped
    sha,        \* contents at print_sha1sum
    lost,       \* history: some round of this process counted a failure
    blind       \* history: an ibv_poll_cq of this process has failed

procVars == <<params, rv, n, round, failed, bad>>
memVars  == <<bufs, nullmr, mem, remote, rcount>>
noteVars == <<start, end, sha, lost>>
logVars  == <<start, end, sha, lost, blind>>
vars == <<params, pc, rv, n, round, failed, bad, bufs, nullmr, mem, remote,
          rcount, qp, listenEp, start, end, sha, lost, blind>>

Count(e) == IF e = "client" THEN params.count ELSE params.scount

Indices(e) == 1..Count(e)

MayFail(f) == f \in params.faults

-----------------------------------------------------------------------------
(* Addresses on the wire: bswap_64 on a two-byte address.                   *)

Addr(i) == <<0, i>>         \* the address of the server's buffer i

NullAddr == <<0, 0>>        \* what memset leaves in remote_addr

htonll(a) == <<a[2], a[1]>>

ntohll(a) == <<a[2], a[1]>>

-----------------------------------------------------------------------------
(* Control flow of run().                                                   *)

\* The first step of the repeat loop: the server is passive unless the verb
\* is Send.
\* Mutant: a passive server does not wait for the terminating message.
RoundStartNoEndSync(e) ==
    IF e = "client" THEN "post"
    ELSE IF params.verb = "send" THEN "recv_post" ELSE "sha"

RoundStart(e) ==
    IF e = "client" THEN "post"
    ELSE IF params.verb = "send" THEN "recv_post" ELSE "end_post"

AfterAllocate(e) ==
    IF params.verb = "send" THEN RoundStart(e)
    ELSE IF e = "client" THEN "get_mr" ELSE "send_mr"

\* Mutant: the client leaves without the terminating message.
AfterRoundNoEnd(e) ==
    IF round[e] < params.repeat THEN RoundStart(e)
    ELSE IF e = "client" THEN "sha" ELSE "end_post"

AfterRound(e) == IF round[e] < params.repeat THEN RoundStart(e) ELSE "end_post"

Labels == {"start", "tos", "connect", "connecting", "get_request", "allocate",
           "get_mr", "get_mr_count", "get_mr_array",
           "send_mr", "send_mr_count", "send_mr_array",
           "post", "wait", "report", "recv_post", "recv_wait",
           "end_post", "end_wait", "sha", "deallocate", "disconnect",
           "done", "crashed"}

Goto(e, l) == pc' = [pc EXCEPT ![e] = l]

Return(e, v) == rv' = [rv EXCEPT ![e] = v]

SetQp(e, q) == qp' = [qp EXCEPT ![e] = q]

(***************************************************************************)
(* The value dccs_rdma_send_comp (for one completion) and                   *)
(* dccs_rdma_recv_comp return, the queue pair they leave, and whether       *)
(* ibv_poll_cq itself has worked.  Neither returns while the completion     *)
(* queue is empty.                                                          *)
(***************************************************************************)
\* Mutant: the completion is looked at and left in its queue.
SendCompPeeks(e) ==
    {[rv |-> IF Head(qp[e].scq).ok THEN 1 ELSE -1, q |-> qp[e], polled |-> TRUE] :
        x \in IF qp[e].scq = << >> THEN {} ELSE {0}}

\* Mutant: the status of the completion is not looked at.
SendCompIgnoresStatus(e) ==
    {[rv |-> 1, q |-> PollSend(qp[e]), polled |-> TRUE] :
        x \in IF qp[e].scq = << >> THEN {} ELSE {0}}

PollFails(e) == {[rv |-> -1, q |-> qp[e], polled |-> FALSE] :
                    x \in params.faults \intersect {"poll"}}

SendComp(e) ==
    {[rv |-> IF Head(qp[e].scq).ok THEN 1 ELSE -1, q |-> PollSend(qp[e]),
      polled |-> TRUE] : x \in IF qp[e].scq = << >> THEN {} ELSE {0}}
    \union PollFails(e)

RecvComp(e) ==
    {[rv |-> IF Head(qp[e].rcq).ok THEN 1 ELSE -1, q |-> PollRecv(qp[e]),
      polled |-> TRUE] : x \in IF qp[e].rcq = << >> THEN {} ELSE {0}}
    \union PollFails(e)

Polled(e, c) == blind' = [blind EXCEPT ![e] = @ \/ ~c.polled]

-----------------------------------------------------------------------------
(* dccs_connect and dccs_listen.                                            *)

ClientCreateEp ==
    /\ pc["client"] = "start"
    /\ \/ SetQp("client", NewQp("idle")) /\ Goto("client", "tos")
          /\ UNCHANGED rv
       \/ /\ MayFail("setup")
          /\ Return("client", -1) /\ Goto("client", "done") /\ UNCHANGED qp
    /\ UNCHANGED <<params, n, round, failed, bad, memVars, listenEp, logVars>>

\* When the option cannot be set the endpoint is not destroyed.
SetTos ==
    /\ pc["client"] = "tos"
    /\ \/ Goto("client", "connect") /\ UNCHANGED rv
       \/ MayFail("tos") /\ Return("client", -1) /\ Goto("client", "done")
    /\ UNCHANGED <<params, n, round, failed, bad, memVars, qp, listenEp, logVars>>

\* A failed rdma_connect destroys the endpoint.
ConnectFails ==
    /\ Return("client", -1) /\ Goto("client", "done")
    /\ SetQp("client", Destroyed(qp["client"]))

RdmaConnect ==
    /\ \/ /\ pc["client"] = "connect" /\ pc["server"] = "get_request"
          /\ Goto("client", "connecting") /\ UNCHANGED <<rv, qp>>
       \/ /\ pc["client"] = "connect"
          /\ pc["server"] = "done" \/ (pc["server"] = "start" /\ MayFail("refused"))
          /\ ConnectFails
       \/ /\ pc["client"] = "connecting" /\ pc["server"] = "done"
          /\ ConnectFails
    /\ UNCHANGED <<params, n, round, failed, bad, memVars, listenEp, logVars>>

Listen ==
    /\ pc["server"] = "start"
    /\ \/ listenEp' = "open" /\ Goto("server", "get_request") /\ UNCHANGED rv
       \/ /\ MayFail("setup")
          /\ listenEp' \in {"none", "gone"}
          /\ Return("server", -1) /\ Goto("server", "done")
    /\ UNCHANGED <<params, n, round, failed, bad, memVars, qp, logVars>>

\* rdma_get_request and rdma_accept: both sides are connected.
Accept ==
    /\ pc["server"] = "get_request" /\ pc["client"] = "connecting"
    /\ pc' = [e \in Peers |-> "allocate"]
    /\ qp' = [e \in Peers |-> NewQp("rts")]
    /\ UNCHANGED <<procVars, memVars, listenEp, logVars>>

AcceptFails ==
    /\ pc["server"] = "get_request" /\ pc["client"] = "connecting"
    /\ MayFail("accept")
    /\ \E s \in {"none", "gone"} : SetQp("server", NewQp(s))
    /\ listenEp' = "gone"
    /\ Return("server", -1) /\ Goto("server", "done")
    /\ UNCHANGED <<params, n, round, failed, bad, memVars, logVars>>

-----------------------------------------------------------------------------
(* allocate_buffer returns 0 whether or not the registrations succeeded.    *)

\* Each of the mr_count regions is registered by itself; with a region per
\* request any set of requests may be left without one.
AllocateBuffer(e) ==
    /\ pc[e] = "allocate"
    /\ \E nulls \in SUBSET IF MayFail("reg") THEN Indices(e) ELSE {} :
          /\ bufs' = [bufs EXCEPT ![e] = IF nulls = {} THEN "reg" ELSE "null"]
          /\ nullmr' = [nullmr EXCEPT ![e] = nulls]
    /\ mem' = [mem EXCEPT ![e] = [i \in Indices(e) |-> <<e, i>>]]
    /\ Return(e, 0) /\ Goto(e, AfterAllocate(e))
    /\ UNCHANGED <<params, n, round, failed, bad, remote, rcount, qp, listenEp,
                   logVars>>

\* dccs_dereg_mr and the dereference of a NULL mr kill the process; its queue
\* pair goes with it.
Crash(e) ==
    /\ Goto(e, "crashed")
    /\ SetQp(e, Destroyed(qp[e]))
    /\ bufs' = [bufs EXCEPT ![e] = "freed"]
    /\ listenEp' = IF e = "server" THEN "gone" ELSE listenEp

\* Register a control buffer, post a send of it and wait for its completion.
SendControl(e, kind, next) ==
    \/ /\ CanPost(qp[e])
       /\ SetQp(e, PostSend(qp[e], "send", kind, 0, TRUE))
       /\ Goto(e, next) /\ UNCHANGED rv
    \/ /\ ~CanPost(qp[e])
       /\ Return(e, -1) /\ Goto(e, "deallocate") /\ UNCHANGED qp

RegisterFails(e) ==
    /\ MayFail("reg")
    /\ Return(e, -1) /\ Goto(e, "deallocate") /\ UNCHANGED qp

RecvControl(e, kind, next) ==
    \/ /\ CanRecv(qp[e])
       /\ SetQp(e, PostRecv(qp[e], kind, 0))
       /\ Goto(e, next) /\ UNCHANGED rv
    \/ /\ ~CanRecv(qp[e])
       /\ Return(e, -1) /\ Goto(e, "deallocate") /\ UNCHANGED qp

-----------------------------------------------------------------------------
(* get_remote_mr_info, in the client.                                       *)

GetMrInfo ==
    /\ pc["client"] = "get_mr"
    /\ RecvControl("client", "count", "get_mr_count") \/ RegisterFails("client")
    /\ UNCHANGED <<params, n, round, failed, bad, memVars, listenEp, logVars>>

(***************************************************************************)
(* An inconsistent count jumps to the cleanup with rv still 1, so run()     *)
(* goes on to its rounds with every remote_addr zero.                       *)
(***************************************************************************)
GetMrCount ==
    /\ pc["client"] = "get_mr_count"
    /\ \E c \in RecvComp("client") :
          /\ Polled("client", c)
          /\ \/ /\ c.rv < 0 \/ (rcount = params.count /\ ~CanRecv(c.q))
                /\ SetQp("client", c.q)
                /\ Return("client", -1) /\ Goto("client", "deallocate")
             \/ /\ c.rv > 0 /\ rcount # params.count
                /\ SetQp("client", c.q)
                /\ Return("client", c.rv) /\ Goto("client", RoundStart("client"))
             \/ /\ c.rv > 0 /\ rcount = params.count /\ CanRecv(c.q)
                /\ SetQp("client", PostRecv(c.q, "array", 0))
                /\ Goto("client", "get_mr_array") /\ UNCHANGED rv
    /\ UNCHANGED <<params, n, round, failed, bad, memVars, listenEp, noteVars>>

\* Mutant: the server announces the region's base for every request.
MrInfoBase(i) == htonll(Addr(1))

\* mr_infos[n].addr as send_local_mr_info fills it in.
MrInfo(i) == htonll(Addr(i))

GetMrArray ==
    /\ pc["client"] = "get_mr_array"
    /\ \E c \in RecvComp("client") :
          /\ Polled("client", c)
          /\ SetQp("client", c.q) /\ Return("client", c.rv)
          /\ \/ c.rv < 0 /\ Goto("client", "deallocate") /\ UNCHANGED remote
             \/ /\ c.rv > 0 /\ Goto("client", RoundStart("client"))
                /\ remote' = [i \in Indices("client") |-> ntohll(MrInfo(i))]
    /\ UNCHANGED <<params, n, round, failed, bad, bufs, nullmr, mem, rcount,
                   listenEp, noteVars>>

-----------------------------------------------------------------------------
(* send_local_mr_info, in the server.                                       *)

SendMrInfo ==
    /\ pc["server"] = "send_mr"
    /\ \/ bufs["server"] = "null" /\ Crash("server") /\ UNCHANGED rv
       \/ /\ bufs["server"] # "null"
          /\ \/ SendControl("server", "count", "send_mr_count")
             \/ RegisterFails("server")
          /\ UNCHANGED <<bufs, listenEp>>
    /\ UNCHANGED <<params, n, round, failed, bad, nullmr, mem, remote, rcount,
                   logVars>>

\* The array always fits: the count was the only request before it.
SendMrCount ==
    /\ pc["server"] = "send_mr_count"
    /\ \E c \in SendComp("server") :
          /\ Polled("server", c)
          /\ \/ /\ c.rv < 0
                /\ SetQp("server", c.q)
                /\ Return("server", -1) /\ Goto("server", "deallocate")
             \/ /\ c.rv > 0
                /\ SetQp("server", PostSend(c.q, "send", "array", 0, TRUE))
                /\ Goto("server", "send_mr_array") /\ UNCHANGED rv
    /\ UNCHANGED <<params, n, round, failed, bad, memVars, listenEp, noteVars>>

SendMrArray ==
    /\ pc["server"] = "send_mr_array"
    /\ \E c \in SendComp("server") :
          /\ Polled("server", c)
          /\ SetQp("server", c.q) /\ Return("server", c.rv)
          /\ Goto("server", IF c.rv < 0 THEN "deallocate" ELSE RoundStart("server"))
    /\ UNCHANGED <<params, n, round, failed, bad, memVars, listenEp, noteVars>>

-----------------------------------------------------------------------------
(* send_and_wait_requests, in the client.                                   *)

\* Mutant: the last request is not signaled.
SignaledNotLast(i) == params.mode = "latency"

\* Every request in latency mode, the last one in throughput mode.
Signaled(i) == params.mode = "latency" \/ i = params.count

FailureCount(e, isFailure) == failed[e] + (IF isFailure THEN 1 ELSE 0)

\* Mutant: the loop runs one request too far.
NextRequestOneMore(e, isFailure, again, finished) ==
    /\ n[e] <= Count(e)
    /\ n' = [n EXCEPT ![e] = @ + 1]
    /\ Goto(e, again) /\ UNCHANGED <<rv, failed, lost>>

\* The end of a request: the next one, or the end of the function's loop.
NextRequest(e, isFailure, again, finished) ==
    LET f == FailureCount(e, isFailure)
    IN  IF n[e] < Count(e)
        THEN /\ n' = [n EXCEPT ![e] = @ + 1]
             /\ failed' = [failed EXCEPT ![e] = f]
             /\ Goto(e, again) /\ UNCHANGED <<rv, lost>>
        ELSE /\ n' = [n EXCEPT ![e] = 1]
             /\ failed' = [failed EXCEPT ![e] = 0]
             /\ Return(e, -f) /\ lost' = [lost EXCEPT ![e] = @ \/ f > 0]
             /\ Goto(e, finished)

\* Mutant: the last request is flagged after it has been posted.
PostRequestLateFlag ==
    LET e == "client" IN
    /\ pc[e] = "post"
    /\ ~(params.verb = "read" /\ n[e] \in nullmr[e])
    /\ SetQp(e, PostSend(qp[e], params.verb, "data", n[e], params.mode = "latency"))
    /\ start' = [start EXCEPT ![n[e]] = round[e]]
    /\ bad' = ~CanPost(qp[e])
    /\ IF Signaled(n[e])
       THEN Goto(e, "wait") /\ UNCHANGED <<rv, n, failed, lost>>
       ELSE NextRequest(e, ~CanPost(qp[e]), "post", "report")
    /\ UNCHANGED <<params, round, memVars, listenEp, end, sha, blind>>

\* rdma_post_read and rdma_post_recv dereference the mr, rdma_post_send and
\* rdma_post_write accept NULL.
PostRequest ==
    LET e == "client" IN
    /\ pc[e] = "post"
    /\ ~(params.verb = "read" /\ n[e] \in nullmr[e])
    /\ SetQp(e, PostSend(qp[e], params.verb, "data", n[e], Signaled(n[e])))
    /\ start' = [start EXCEPT ![n[e]] = round[e]]
    /\ \/ /\ Signaled(n[e])
          /\ bad' = ~CanPost(qp[e])
          /\ Goto(e, "wait") /\ UNCHANGED <<rv, n, failed, lost>>
       \/ /\ ~Signaled(n[e])
          /\ NextRequest(e, ~CanPost(qp[e]), "post", "report") /\ UNCHANGED bad
    /\ UNCHANGED <<params, round, memVars, listenEp, end, sha, blind>>

NullMrCrash(e) ==
    /\ n[e] \in nullmr[e]
    /\ (pc[e] = "post" /\ params.verb = "read") \/ pc[e] = "recv_post"
    /\ Crash(e)
    /\ UNCHANGED <<procVars, nullmr, mem, remote, rcount, logVars>>

\* Mutant: the completion time is not recorded.
EndStampForgotten(i) == UNCHANGED end

EndStamp(i) == end' = [end EXCEPT ![i] = round["client"]]

WaitRequest ==
    LET e == "client" IN
    /\ pc[e] = "wait"
    /\ \E c \in SendComp(e) :
          /\ Polled(e, c)
          /\ SetQp(e, c.q) /\ NextRequest(e, bad \/ c.rv < 0, "post", "report")
    /\ EndStamp(n[e])
    /\ UNCHANGED <<params, round, bad, memVars, listenEp, start, sha>>

\* A failed round is reported like any other, and the next one starts.  (With
\* a warm-up of all requests the throughput report also reads behind the last.)
Report ==
    /\ pc["client"] = "report"
    /\ Goto("client", AfterRound("client"))
    /\ round' = [round EXCEPT !["client"] = @ + 1]
    /\ UNCHANGED <<params, rv, n, failed, bad, memVars, qp, listenEp, logVars>>

-----------------------------------------------------------------------------
(* recv_requests, in the server: one receive is posted at a time.           *)

\* Mutant: every receive is posted on the first buffer.
RecvPostFirst ==
    /\ pc["server"] = "recv_post" /\ n["server"] \notin nullmr["server"]
    /\ SetQp("server", PostRecv(qp["server"], "data", 1))
    /\ Goto("server", "recv_wait")
    /\ UNCHANGED <<procVars, memVars, listenEp, logVars>>

\* A refused receive is counted, and its completion waited for all the same.
RecvPost ==
    /\ pc["server"] = "recv_post" /\ n["server"] \notin nullmr["server"]
    /\ SetQp("server", PostRecv(qp["server"], "data", n["server"]))
    /\ failed' = [failed EXCEPT !["server"] =
                     FailureCount("server", ~CanRecv(qp["server"]))]
    /\ Goto("server", "recv_wait")
    /\ UNCHANGED <<params, rv, n, round, bad, memVars, listenEp, logVars>>

RecvWait ==
    LET e == "server" IN
    /\ pc[e] = "recv_wait"
    /\ \E c \in RecvComp(e) :
          /\ Polled(e, c)
          /\ SetQp(e, c.q) /\ NextRequest(e, c.rv < 0, "recv_post", AfterRound(e))
    /\ round' = [round EXCEPT ![e] = @ + IF n[e] = Count(e) THEN 1 ELSE 0]
    /\ UNCHANGED <<params, bad, memVars, listenEp, start, end, sha>>

-----------------------------------------------------------------------------
(* The terminating message (send_message, recv_message), print_sha1sum,     *)
(* deallocate_buffer and the disconnect.                                    *)

EndPost(e) ==
    /\ pc[e] = "end_post"
    /\ \/ e = "client" /\ SendControl(e, "end", "end_wait")
       \/ e = "server" /\ RecvControl(e, "end", "end_wait")
       \/ RegisterFails(e)
    /\ UNCHANGED <<params, n, round, failed, bad, memVars, listenEp, logVars>>

\* Mutant: send_message and recv_message return without a completion.
EndWaitNot(e) ==
    /\ pc[e] = "end_wait" /\ Goto(e, "sha")
    /\ UNCHANGED <<procVars, memVars, qp, listenEp, logVars>>

EndWait(e) ==
    /\ pc[e] = "end_wait"
    /\ \E c \in IF e = "client" THEN SendComp(e) ELSE RecvComp(e) :
          /\ Polled(e, c)
          /\ SetQp(e, c.q) /\ Return(e, c.rv)
          /\ Goto(e, IF c.rv < 0 THEN "deallocate" ELSE "sha")
    /\ UNCHANGED <<params, n, round, failed, bad, memVars, listenEp, noteVars>>

PrintSha1sum(e) ==
    /\ pc[e] = "sha"
    /\ sha' = [sha EXCEPT ![e] = mem[e]]
    /\ Goto(e, "deallocate")
    /\ UNCHANGED <<procVars, memVars, qp, listenEp, start, end, lost, blind>>

DeallocateBuffer(e) ==
    /\ pc[e] = "deallocate"
    /\ \/ bufs[e] = "null" /\ Crash(e)
       \/ /\ bufs[e] # "null"
          /\ bufs' = [bufs EXCEPT ![e] = "freed"]
          /\ Goto(e, "disconnect") /\ UNCHANGED <<qp, listenEp>>
    /\ UNCHANGED <<procVars, nullmr, mem, remote, rcount, logVars>>

\* dccs_client_disconnect, dccs_server_disconnect.
\* Mutant: the server keeps its listening endpoint.
DisconnectKeepsListen(e) ==
    /\ pc[e] = "disconnect"
    /\ SetQp(e, Destroyed(qp[e]))
    /\ Goto(e, "done")
    /\ UNCHANGED <<procVars, memVars, listenEp, logVars>>

Disconnect(e) ==
    /\ pc[e] = "disconnect"
    /\ SetQp(e, Destroyed(qp[e]))
    /\ listenEp' = IF e = "server" THEN "gone" ELSE listenEp
    /\ Goto(e, "done")
    /\ UNCHANGED <<procVars, memVars, logVars>>

Teardown(e) == EndPost(e) \/ EndWait(e) \/ PrintSha1sum(e)
               \/ DeallocateBuffer(e) \/ Disconnect(e)

-----------------------------------------------------------------------------
(* The NICs.  A request fails locally, at the peer, or not at all.          *)

\* An address the peer can serve: one of its registered buffers.
RemoteOk(e, wr) == /\ bufs[Peer(e)] = "reg"
                   /\ remote[wr.n] \in {Addr(i) : i \in Indices(Peer(e))}

Target(wr) == remote[wr.n][2]

\* A request without a local key, or on freed memory, fails.
LocalOk(e, wr) == wr.kind = "data" => bufs[e] # "freed" /\ wr.n \notin nullmr[e]

\* What a message brings: the contents of a buffer, or bytes of its own.
Content(e, wr) == IF wr.kind = "data" THEN mem[e][wr.n] ELSE <<e, 0>>

FlushedBoth == qp' = [e \in Peers |-> Flushed(qp[e])]

(***************************************************************************)
(* A send goes to the peer's oldest receive buffer, and waits while there   *)
(* is none (rnr_retry_count is infinite under rdma_connect(id, NULL)).  A   *)
(* message of another kind than the buffer was posted for may not fit.      *)
(***************************************************************************)
DeliverSend(e, wr) ==
    LET p == Peer(e)
        b == Head(qp[p].rq)
        m == [kind |-> wr.kind, n |-> wr.n]
    IN  /\ qp[p].rq # << >>
        /\ \/ /\ b.kind # wr.kind /\ FlushedBoth
              /\ UNCHANGED <<mem, rcount>>
           \/ /\ qp' = [qp EXCEPT ![e] = Executed(@), ![p] = Received(@, m)]
              /\ mem' = IF b.kind = "data"
                        THEN [mem EXCEPT ![p][b.n] = Content(e, wr)] ELSE mem
              /\ rcount' = IF wr.kind = "count" THEN Count(e) ELSE rcount

\* A read or a write is served by the peer's NIC alone.
ServeOneSided(e, wr) ==
    /\ SetQp(e, Executed(qp[e]))
    /\ mem' = IF wr.op = "write"
              THEN [mem EXCEPT ![Peer(e)][Target(wr)] = mem[e][wr.n]]
              ELSE [mem EXCEPT ![e][wr.n] = mem[Peer(e)][Target(wr)]]

NicExecute(e) ==
    /\ qp[e].state = "rts" /\ qp[e].sent < Len(qp[e].sq)
    /\ LET wr == qp[e].sq[qp[e].sent + 1] IN
          \/ /\ ~LocalOk(e, wr)
             /\ SetQp(e, Flushed(qp[e])) /\ UNCHANGED <<mem, rcount>>
          \/ /\ LocalOk(e, wr) /\ qp[Peer(e)].state = "rts"
             /\ \/ wr.op = "send" /\ DeliverSend(e, wr)
                \/ /\ wr.op # "send" /\ RemoteOk(e, wr)
                   /\ ServeOneSided(e, wr) /\ UNCHANGED rcount
                \/ /\ wr.op # "send" /\ ~RemoteOk(e, wr)
                   /\ FlushedBoth /\ UNCHANGED <<mem, rcount>>
    /\ UNCHANGED <<pc, procVars, bufs, nullmr, remote, listenEp, logVars>>

NicAck(e) ==
    /\ qp[e].sent > 0
    /\ SetQp(e, Acknowledged(qp[e]))
    /\ UNCHANGED <<pc, procVars, memVars, listenEp, logVars>>

\* The retries run out: nobody answers any more, or the fabric is at fault.
NicTimeout(e) ==
    /\ qp[e].state = "rts" /\ qp[e].sq # << >>
    /\ qp[e].sent = 0 /\ qp[Peer(e)].state # "rts"
    /\ SetQp(e, Flushed(qp[e]))
    /\ UNCHANGED <<pc, procVars, memVars, listenEp, logVars>>

FabricFails(e) ==
    /\ MayFail("fabric")
    /\ qp[e].state = "rts" /\ qp[e].sq # << >>
    /\ SetQp(e, Flushed(qp[e]))
    /\ UNCHANGED <<pc, procVars, memVars, listenEp, logVars>>

Nic(e) == NicExecute(e) \/ NicAck(e) \/ NicTimeout(e)

-----------------------------------------------------------------------------
(* The end of a session.                                                    *)

\* The process has left run().
Ended(e) == pc[e] \in {"done", "crashed"}

\* Polling is reliable in this session.
Polls == ~MayFail("poll")

\* Where a process polls for the completion of a request, and where for a
\* message.
SendWaits(e) == {"send_mr_count", "send_mr_array", "wait"}
                \union IF e = "client" THEN {"end_wait"} ELSE {}

RecvWaits(e) == {"get_mr_count", "get_mr_array", "recv_wait"}
                \union IF e = "server" THEN {"end_wait"} ELSE {}

\* A process polls a completion queue that is empty.
Waiting(e) == /\ Polls
              /\ \/ pc[e] \in SendWaits(e) /\ qp[e].scq = << >>
                 \/ pc[e] \in RecvWaits(e) /\ qp[e].rcq = << >>

\* A process is in rdma_connect or rdma_get_request, and its peer is not.
Unmet(e) ==
    \/ /\ e = "client" /\ pc[e] \in {"connect", "connecting"}
       /\ pc["server"] \notin {"start", "get_request", "done"}
    \/ e = "server" /\ pc[e] = "get_request"
       /\ pc["client"] \notin {"start", "tos", "connect", "connecting"}

\* A NIC has nothing to acknowledge, to execute or to give up on: at most a
\* message for which the connected peer has posted no receive.
AtRest(e) ==
    /\ qp[e].sent = 0
    /\ qp[e].state = "rts" /\ qp[e].sq # << >> =>
          /\ Head(qp[e].sq).op = "send" /\ LocalOk(e, Head(qp[e].sq))
          /\ qp[Peer(e)].state = "rts" /\ qp[Peer(e)].rq = << >>
          /\ ~MayFail("fabric")

\* No step is possible any more: no call but rdma_connect, rdma_get_request and
\* a poll of an empty queue stops a process that has not ended.
Standstill == \A e \in Peers : (Ended(e) \/ Waiting(e) \/ Unmet(e)) /\ AtRest(e)

Stopped == Standstill /\ UNCHANGED vars

-----------------------------------------------------------------------------
Init ==
    /\ params \in ParamSet
    /\ pc = [e \in Peers |-> "start"]
    /\ rv = [e \in Peers |-> 0]
    /\ n = [e \in Peers |-> 1]
    /\ round = [e \in Peers |-> 1]
    /\ failed = [e \in Peers |-> 0]
    /\ bad = FALSE
    /\ bufs = [e \in Peers |-> "none"]
    /\ nullmr = [e \in Peers |-> {}]
    /\ mem = [e \in Peers |-> [i \in Indices(e) |-> <<e, 0>>]]
    /\ remote = [i \in Indices("client") |-> NullAddr]
    /\ rcount = 0
    /\ qp = [e \in Peers |-> NewQp("none")]
    /\ listenEp = "none"
    /\ start = [i \in Indices("client") |-> 0]
    /\ end = [i \in Indices("client") |-> 0]
    /\ sha = [e \in Peers |-> << >>]
    /\ lost = [e \in Peers |-> FALSE]
    /\ blind = [e \in Peers |-> FALSE]

ClientStep ==
    \/ ClientCreateEp \/ SetTos \/ RdmaConnect
    \/ AllocateBuffer("client")
    \/ GetMrInfo \/ GetMrCount \/ GetMrArray
    \/ PostRequest \/ WaitRequest \/ Report \/ NullMrCrash("client")
    \/ Teardown("client")

ServerStep ==
    \/ Listen \/ Accept \/ AcceptFails
    \/ AllocateBuffer("server")
    \/ SendMrInfo \/ SendMrCount \/ SendMrArray
    \/ RecvPost \/ RecvWait \/ NullMrCrash("server")
    \/ Teardown("server")

Step == ClientStep \/ ServerStep \/ \E e \in Peers : Nic(e) \/ FabricFails(e)

Next == Step \/ Stopped

(***************************************************************************)
(* The processes are scheduled and busy-poll, and the NICs make progress.   *)
(* Nothing says that the fabric must fail.                                  *)
(***************************************************************************)
Fairness == /\ WF_vars(ClientStep) /\ WF_vars(ServerStep)
            /\ \A e \in Peers : WF_vars(Nic(e))

Spec == Init /\ [][Next]_vars

FairSpec == Spec /\ Fairness

-----------------------------------------------------------------------------
(* Properties.                                                              *)

BufStates == {"none", "reg", "null", "freed"}

Values == Peers \X Nat

ProcTypeOK ==
    /\ params \in ParamSet
    /\ pc \in [Peers -> Labels]
    /\ rv \in [Peers -> Int]
    /\ n \in [Peers -> Nat]
    /\ \A e \in Peers : n[e] \in Indices(e)
    /\ round \in [Peers -> Nat]
    /\ failed \in [Peers -> Nat]
    /\ bad \in BOOLEAN

MemTypeOK ==
    /\ bufs \in [Peers -> BufStates]
    /\ nullmr \in [Peers -> SUBSET Nat]
    /\ DOMAIN mem = Peers
    /\ \A e \in Peers : mem[e] \in [Indices(e) -> Values]
    /\ remote \in [Indices("client") -> Nat \X Nat]
    /\ rcount \in Nat

LogTypeOK ==
    /\ listenEp \in {"none", "open", "gone"}
    /\ start \in [Indices("client") -> Nat]
    /\ end \in [Indices("client") -> Nat]
    /\ DOMAIN sha = Peers
    /\ \A e \in Peers : sha[e] \in {<< >>} \union [Indices(e) -> Values]
    /\ lost \in [Peers -> BOOLEAN]
    /\ blind \in [Peers -> BOOLEAN]

\* Every variable has its type, for whatever parameters the processes start
\* with.
TypeOK == ProcTypeOK /\ MemTypeOK /\ LogTypeOK /\ qp \in [Peers -> QueuePairs]

\* The send-queue slots of the connected client are held by requests of the
\* current round only: what the exchange and earlier rounds have posted, most of
\* it unsignaled in throughput mode, was retired with the completion polled
\* last.  So no request is refused as long as a round fits the queue.
RoundHoldsSlots ==
    /\ pc["client"] = "post" /\ qp["client"].state = "rts" /\ ~blind["client"]
    => qp["client"].posted - qp["client"].retired <= n["client"] - 1

\* The two sides were started with the same count, and none of faults may
\* happen.
Regular(faults) == /\ params.count = params.scount
                   /\ params.faults \intersect faults = {}

\* A successful completion taken by dccs_rdma_send_comp is always that of the
\* request posted just before the call: completions of earlier rounds, of the
\* memory-region exchange or of unsignaled requests never stand in for it, so
\* the time stamps belong to the request they are written to (unless a poll of
\* this process has failed: then the completion it gave up on is still to come).
CompletionIsMine ==
    \A e \in Peers :
        /\ ~blind[e] /\ pc[e] \in SendWaits(e)
        /\ qp[e].scq # << >> /\ Head(qp[e].scq).ok
        => Head(qp[e].scq).idx = qp[e].posted

\* The call whose stack frame or heap block holds a control buffer.
OwnerWaits(e, kind) ==
    CASE kind = "count" -> pc[e] \in {"get_mr_count", "send_mr_count"}
      [] kind = "array" -> pc[e] \in {"get_mr_array", "send_mr_array"}
      [] kind = "end"   -> pc[e] = "end_wait"
      [] kind = "data"  -> bufs[e] # "freed"

\* "Always signal the last request": whenever the connected client polls for
\* the completion of its last request, a signaled request is outstanding or
\* has completed, so that the polling can end.  (It takes a round that fits the
\* send queue: count <= MAX_WR.)
WaitHasSignaled ==
    /\ pc["client"] = "wait" /\ qp["client"].state = "rts" /\ ~blind["client"]
    => \/ qp["client"].scq # << >>
       \/ \E i \in 1..Len(qp["client"].sq) : qp["client"].sq[i].sig

\* The client's rounds start only with remote addresses of the server's
\* buffers in its requests: "Failed to get remote MR info" ends run().
MrInfoChecked ==
    pc["client"] = "post" /\ params.verb # "send"
    => \A i \in Indices("client") : remote[i] = Addr(i)

\* No buffer is deregistered or freed under the NIC: while a request or a
\* receive is outstanding, deallocate_buffer has not run, and the function
\* whose local buffer it uses has not returned, whatever fails at either side
\* and whatever the peer is doing.  The one exception are the exits behind an
\* ibv_poll_cq of the process itself that has failed: they give up on requests
\* that are still posted, and free their buffers.
DmaSafe ==
    \A e \in Peers : ~blind[e] =>
        /\ \A i \in 1..Len(qp[e].sq) : OwnerWaits(e, qp[e].sq[i].kind)
        /\ \A i \in 1..Len(qp[e].rq) : OwnerWaits(e, qp[e].rq[i].kind)

\* As long as both ends are connected, every read or write the client still
\* has to execute finds the passive server's memory region registered: the
\* terminating message keeps deallocate_buffer behind the last request.
RemoteMrLive ==
    /\ Regular({"poll", "reg"}) /\ \A e \in Peers : qp[e].state = "rts"
    /\ \E i \in (qp["client"].sent + 1)..Len(qp["client"].sq) :
          qp["client"].sq[i].op # "send"
    => bufs["server"] = "reg"

\* Messages meet the receive they are meant for: the i-th request of a round
\* the i-th buffer, and the count, the array and the terminating message the
\* call that waits for them, across rounds and without credits.
RecvMatches ==
    Regular({"poll"}) =>
        \A e \in Peers : \A i \in 1..Len(qp[e].rcq) :
            qp[e].rcq[i].ok => qp[e].rcq[i].msg = qp[e].rcq[i].buf

\* run() overwrites the result of its rounds with that of the terminating
\* message.  A side that nevertheless ends with a result that is not negative
\* has lost no request in any round, nor has its peer, and the contents agree.
SuccessMeansDelivered ==
    \A e \in Peers :
        pc[e] = "done" /\ rv[e] >= 0 /\ Regular({"poll"})
        => ~lost["client"] /\ ~lost["server"] /\ mem["client"] = mem["server"]

\* The time stamps a report reads were all taken in the round it reports.  The
\* throughput report starts behind the warm-up, which parse_args does not keep
\* below the count (a count of 0 with any warm-up is accepted).
ReportFresh ==
    pc["client"] = "report" =>
        IF params.mode = "latency"
        THEN \A i \in Indices("client") :
                 start[i] = round["client"] /\ end[i] = round["client"]
        ELSE /\ end[params.count] = round["client"]
             /\ params.warmup < params.count
                => start[params.warmup + 1] = round["client"]

\* Every path out of run() destroys the endpoints it created (except when the
\* type of service cannot be set, where dccs_connect keeps its endpoint).
NoEndpointLeak ==
    Regular({"tos"}) =>
        /\ \A e \in Peers : Ended(e) => qp[e].state \in {"none", "gone"}
        /\ Ended("server") => listenEp # "open"

\* Where a process may wait for ever: in rdma_get_request, or polling for a
\* message, when its peer is not connected any more.
ForeverWaits(e) ==
    IF e = "client" THEN {"get_mr_count", "get_mr_array"}
    ELSE {"get_request", "recv_wait", "end_wait"}

\* The session stops only when both processes have left run(), or when one
\* polls for a message of a peer whose queue pair is no longer connected (no
\* connection event is ever read): no deadlock between live processes whose
\* rounds fit the send queue (count <= MAX_WR).
StuckOnlyOnDeadPeer ==
    Standstill => \A e \in Peers :
        \/ Ended(e)
        \/ pc[e] \in ForeverWaits(e) /\ qp[Peer(e)].state # "rts"

\* With equal counts and nothing failing both processes leave run(), and
\* neither reports a failure.
Termination ==
    Regular(AllFaults) ~> \A e \in Peers : pc[e] = "done" /\ rv[e] >= 0

\* Whatever fails, a process never waits for ever for the completion of a
\* request it sent: dccs_rdma_send_comp returns, for rounds that fit the send
\* queue (count <= MAX_WR).
SendWaitEnds ==
    \A e \in Peers : "poll" \notin params.faults /\ pc[e] \in SendWaits(e)
                     ~> pc[e] \notin SendWaits(e)

=============================================================================
