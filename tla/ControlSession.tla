--------------------------- MODULE ControlSession ---------------------------
(***************************************************************************)
(* The control-signal program: run() of control_main.c in the control host  *)
(* (the server) and in an end host (the client).  In every slot the server  *)
(* writes its packets into the client's memory; the client waits for the    *)
(* terminating message.                                                     *)
(*                                                                          *)
(* The program asserts one packet per slot, but build.sh makes a Release    *)
(* build, without assertions, and run_control.sh asks for eight.  The       *)
(* connection is set up by the same calls as that of RdmaSession, which     *)
(* models them: a session starts here with both ends connected.             *)
(***************************************************************************)
EXTENDS Verbs

CONSTANT ParamSet       \* what a session may be started with

\* "reg": registering memory; "alloc": calloc of the time stamps; "fabric":
\* the transport gives up on a request; "poll": ibv_poll_cq itself fails.
AllFaults == {"reg", "alloc", "fabric", "poll"}

\* count is the server's count of packets, ccount the client's.
Params == [repeat : Nat \ {0}, count : Nat \ {0}, ccount : Nat \ {0},
           faults : SUBSET AllFaults]

ASSUME ParamAssumption == ParamSet \subseteq Params

Peers == {"client", "server"}

Peer(e) == IF e = "client" THEN "server" ELSE "client"

VARIABLES
    params,     \* repeat, the counts, and what may fail
    pc,         \* where each process is
    rv,         \* run()'s rv
    slot,       \* the server's slot, from 1
    i,          \* its packet within the slot, from 1
    sum,        \* completions of the slot polled so far
    mr,         \* registration of requests_in and requests_out
    mem,        \* what the buffers of both hold
    remote,     \* request_out->remote_addr: NULL or the peer's requests_in
    qp,         \* the queue pairs
    start,      \* the packet before which a slot was last stamped, or 0
    end,        \* the slots that have been stamped at their end
    shown       \* contents at print_sha1sum

sessionVars == <<params, slot, i, sum, start, end>>
vars == <<params, pc, rv, slot, i, sum, mr, mem, remote, qp, start, end, shown>>

\* The packets of a slot, and the buffers of each side.
Packets == 1..params.count

Count(e) == IF e = "server" THEN params.count ELSE params.ccount

Indices(e) == 1..Count(e)

MayFail(f) == f \in params.faults

Goto(e, l) == pc' = [pc EXCEPT ![e] = l]

Return(e, v) == rv' = [rv EXCEPT ![e] = v]

SetQp(e, q) == qp' = [qp EXCEPT ![e] = q]

Labels == {"allocate", "get_mr", "get_mr_count", "get_mr_array",
           "send_mr", "send_mr_count", "send_mr_array", "calloc",
           "slot", "slot_wait", "end_post", "end_wait", "stats",
           "deallocate", "disconnect", "done", "crashed"}

\* What dccs_rdma_send_comp (for one completion) and dccs_rdma_recv_comp
\* return, and the queue pair they leave; neither returns while there is no
\* completion.
\* Mutant: the completion is looked at and left in its queue.
SendCompPeeks(e) ==
    {[rv |-> IF Head(qp[e].scq).ok THEN 1 ELSE -1, q |-> qp[e]] :
        x \in IF qp[e].scq = << >> THEN {} ELSE {0}}

SendComp(e) ==
    {[rv |-> IF Head(qp[e].scq).ok THEN 1 ELSE -1, q |-> PollSend(qp[e])] :
        x \in IF qp[e].scq = << >> THEN {} ELSE {0}}
    \union {[rv |-> -1, q |-> qp[e]] : x \in params.faults \intersect {"poll"}}

RecvComp(e) ==
    {[rv |-> IF Head(qp[e].rcq).ok THEN 1 ELSE -1, q |-> PollRecv(qp[e])] :
        x \in IF qp[e].rcq = << >> THEN {} ELSE {0}}
    \union {[rv |-> -1, q |-> qp[e]] : x \in params.faults \intersect {"poll"}}

-----------------------------------------------------------------------------
(* Buffers.                                                                 *)

\* Mutant: the client, too, gets the memory-region information first.
AfterAllocateGet(e) == "get_mr"

AfterAllocate(e) == IF e = "server" THEN "get_mr" ELSE "send_mr"

MrStates == {"none", "reg", "null", "freed"}

\* A packet (MAGIC and the index) and the random filling of a buffer.  Packets
\* are told apart by their buffers, so that a mix-up would show.
Values == [by : Peers, packet : Nat]

Filling(e) == [j \in Indices(e) |-> [by |-> e, packet |-> 0]]

\* allocate_buffer, twice, and the packets written to requests_out.  A failed
\* registration leaves mr = NULL and is not reported.
Allocate(e) ==
    /\ pc[e] = "allocate"
    /\ \E r, o \in {"reg"} \union IF MayFail("reg") THEN {"null"} ELSE {} :
          mr' = [mr EXCEPT ![e] = [in |-> r, out |-> o]]
    /\ mem' = [mem EXCEPT ![e] = [in  |-> Filling(e),
                                  out |-> [j \in Indices(e) |-> [by |-> e, packet |-> j]]]]
    /\ Return(e, 0)
    /\ Goto(e, AfterAllocate(e))
    /\ UNCHANGED <<sessionVars, remote, qp, shown>>

\* The process dies; its queue pair and its memory go with it.
Crash(e) ==
    /\ Goto(e, "crashed")
    /\ SetQp(e, Destroyed(qp[e]))
    /\ mr' = [mr EXCEPT ![e] = [in |-> "freed", out |-> "freed"]]

\* A control buffer is registered and posted, unless the queue is full; the
\* wait for it is next.
PostControl(e, q, fits, next) ==
    \/ fits /\ SetQp(e, q) /\ Goto(e, next) /\ UNCHANGED rv
    \/ /\ MayFail("reg") \/ ~fits
       /\ Return(e, -1) /\ Goto(e, "deallocate") /\ UNCHANGED qp

SendControl(e, kind, next) ==
    PostControl(e, PostSend(qp[e], "send", kind, 0, TRUE), CanPost(qp[e]), next)

RecvControl(e, kind, next) ==
    PostControl(e, PostRecv(qp[e], kind, 0), CanRecv(qp[e]), next)

\* The wait is over: go on, or clean up when the completion is an error.
Waited(e, c, next) ==
    /\ SetQp(e, c.q) /\ Return(e, c.rv)
    /\ Goto(e, IF c.rv < 0 THEN "deallocate" ELSE next)

-----------------------------------------------------------------------------
(* get_remote_mr_info for requests_out and send_local_mr_info for           *)
(* requests_in: the server gets first, the client sends first.              *)

AfterGet(e)  == IF e = "server" THEN "send_mr" ELSE "slot"

AfterSend(e) == IF e = "server" THEN "calloc" ELSE "get_mr"

GetMrInfo(e) ==
    /\ pc[e] = "get_mr"
    /\ RecvControl(e, "count", "get_mr_count")
    /\ UNCHANGED <<sessionVars, mr, mem, remote, shown>>

\* Inconsistent counts end get_remote_mr_info with rv still 1, so that run()
\* goes on without the peer's addresses.
GetMrCount(e) ==
    /\ pc[e] = "get_mr_count"
    /\ \E c \in RecvComp(e) :
          \/ (c.rv < 0 \/ Count(e) # Count(Peer(e))) /\ Waited(e, c, AfterGet(e))
          \/ /\ c.rv > 0 /\ Count(e) = Count(Peer(e))
             /\ Waited(e, [rv |-> IF CanRecv(c.q) THEN 1 ELSE -1,
                           q |-> PostRecv(c.q, "array", 0)], "get_mr_array")
    /\ UNCHANGED <<sessionVars, mr, mem, remote, shown>>

GetMrArray(e) ==
    /\ pc[e] = "get_mr_array"
    /\ \E c \in RecvComp(e) :
          /\ Waited(e, c, AfterGet(e))
          /\ remote' = IF c.rv < 0 THEN remote ELSE [remote EXCEPT ![e] = "in"]
    /\ UNCHANGED <<sessionVars, mr, mem, shown>>

\* Filling in the array dereferences the mr.
SendMrInfo(e) ==
    /\ pc[e] = "send_mr"
    /\ \/ mr[e].in = "null" /\ Crash(e) /\ UNCHANGED rv
       \/ /\ mr[e].in # "null"
          /\ SendControl(e, "count", "send_mr_count")
          /\ UNCHANGED mr
    /\ UNCHANGED <<sessionVars, mem, remote, shown>>

SendMrCount(e) ==
    /\ pc[e] = "send_mr_count"
    /\ \E c \in SendComp(e) :
          Waited(e, IF c.rv < 0 THEN c
                    ELSE [c EXCEPT !.q = PostSend(@, "send", "array", 0, TRUE)],
                 "send_mr_array")
    /\ UNCHANGED <<sessionVars, mr, mem, remote, shown>>

SendMrArray(e) ==
    /\ pc[e] = "send_mr_array"
    /\ \E c \in SendComp(e) : Waited(e, c, AfterSend(e))
    /\ UNCHANGED <<sessionVars, mr, mem, remote, shown>>

-----------------------------------------------------------------------------
(* The slots.                                                               *)

\* start and end are allocated; a failure leaves rv as it is.
Calloc ==
    /\ pc["server"] = "calloc"
    /\ \/ Goto("server", "slot")
       \/ MayFail("alloc") /\ Goto("server", "deallocate")
    /\ UNCHANGED <<sessionVars, rv, mr, mem, remote, qp, shown>>

\* Mutant: the loop ends one slot early.
SlotsLeftOneShort == slot + 1 < params.repeat

\* Mutant: the loop runs one slot too far.
SlotsLeftOneMore == slot <= params.repeat

SlotsLeft == slot < params.repeat

\* Mutant: only unsignaled writes.
SignalNever == FALSE

\* Every write is signaled; signaling only some of them is commented out.
Signal == TRUE

\* The progress message divides by repeat / 100, in both processes.
Progress == params.repeat \div 100

DivideByZero(e) ==
    /\ pc[e] = "slot" /\ Progress = 0
    /\ Crash(e)
    /\ UNCHANGED <<sessionVars, rv, mem, remote, shown>>

\* The client only lets the slots pass.
ClientSlots ==
    /\ pc["client"] = "slot" /\ Progress > 0
    /\ Goto("client", "end_post")
    /\ UNCHANGED <<sessionVars, rv, mr, mem, remote, qp, shown>>

\* Mutant: the next packet is not the next buffer's.
NextPacketSame == i

NextPacket == i + 1

\* The server stamps the slot and writes a packet.  The last one is followed by
\* the wait for the completions, and so is one the queue refuses.
SlotWrite ==
    /\ pc["server"] = "slot" /\ Progress > 0
    /\ start' = [start EXCEPT ![slot] = i]
    /\ SetQp("server", PostSend(qp["server"], "write", "data", i, Signal))
    /\ \/ /\ i < params.count /\ CanPost(qp["server"])
          /\ i' = NextPacket /\ UNCHANGED pc
       \/ /\ i = params.count \/ ~CanPost(qp["server"])
          /\ i' = 1 /\ Goto("server", "slot_wait")
    /\ UNCHANGED <<params, rv, slot, sum, mr, mem, remote, end, shown>>

\* How many completions ibv_poll_cq returns when it is asked for count.
Polled(q) == IF Len(q.scq) < params.count THEN Len(q.scq) ELSE params.count

\* Mutant: a call goes on from the sum of the last.
InitialSumKept == sum + Polled(qp["server"])

\* What the next call of dccs_rdma_send_comp starts from.
InitialSum == 0

\* A failure ends the slots, not the session.
SlotFails(q) ==
    /\ SetQp("server", q) /\ Return("server", -1)
    /\ Goto("server", "end_post")
    /\ sum' = InitialSum /\ UNCHANGED <<slot, end>>

\* Mutant: dccs_rdma_send_comp returns with the first completions.
EnoughAny(k) == TRUE

Enough(k) == sum + k >= params.count

\* dccs_rdma_send_comp with num = count: polls until it has so many.
SlotWait ==
    /\ pc["server"] = "slot_wait"
    /\ \/ MayFail("poll") /\ SlotFails(qp["server"])
       \/ /\ qp["server"].scq # << >>
          /\ LET k == Polled(qp["server"])
                 q == PollBatch(qp["server"], k)
                 ok == \A j \in 1..k : qp["server"].scq[j].ok
             IN  \/ ~ok /\ SlotFails(q)
                 \/ /\ ok /\ ~Enough(k)
                    /\ SetQp("server", q) /\ sum' = sum + k
                    /\ UNCHANGED <<pc, rv, slot, end>>
                 \/ /\ ok /\ Enough(k)
                    /\ SetQp("server", q) /\ Return("server", sum + k)
                    /\ sum' = InitialSum /\ end' = end \union {slot}
                    /\ \/ SlotsLeft /\ slot' = slot + 1 /\ Goto("server", "slot")
                       \/ ~SlotsLeft /\ Goto("server", "end_post") /\ UNCHANGED slot
    /\ UNCHANGED <<params, i, mr, mem, remote, start, shown>>

-----------------------------------------------------------------------------
(* The terminating message, the report and the sums, and the cleanup.       *)

EndPost(e) ==
    /\ pc[e] = "end_post"
    /\ \/ e = "server" /\ SendControl(e, "end", "end_wait")
       \/ e = "client" /\ RecvControl(e, "end", "end_wait")
    /\ UNCHANGED <<sessionVars, mr, mem, remote, shown>>

\* Mutant: the client does not wait for the terminating message.
EndWaitServer(e) ==
    /\ pc[e] = "end_wait"
    /\ \/ e = "server" /\ (\E c \in SendComp(e) : Waited(e, c, "stats"))
       \/ e = "client" /\ Goto(e, "stats") /\ UNCHANGED <<rv, qp>>
    /\ UNCHANGED <<sessionVars, mr, mem, remote, shown>>

EndWait(e) ==
    /\ pc[e] = "end_wait"
    /\ \E c \in IF e = "server" THEN SendComp(e) ELSE RecvComp(e) :
          Waited(e, c, "stats")
    /\ UNCHANGED <<sessionVars, mr, mem, remote, shown>>

\* print_latency_report_raw in the server, print_sha1sum in both.
PrintStats(e) ==
    /\ pc[e] = "stats"
    /\ shown' = [shown EXCEPT ![e] = <<mem[e]>>]
    /\ Goto(e, "deallocate")
    /\ UNCHANGED <<sessionVars, rv, mr, mem, remote, qp>>

DeallocateBuffers(e) ==
    /\ pc[e] = "deallocate"
    /\ \/ "null" \in {mr[e].in, mr[e].out} /\ Crash(e)
       \/ /\ "null" \notin {mr[e].in, mr[e].out}
          /\ mr' = [mr EXCEPT ![e] = [in |-> "freed", out |-> "freed"]]
          /\ Goto(e, "disconnect") /\ UNCHANGED qp
    /\ UNCHANGED <<sessionVars, rv, mem, remote, shown>>

Disconnect(e) ==
    /\ pc[e] = "disconnect"
    /\ SetQp(e, Destroyed(qp[e])) /\ Goto(e, "done")
    /\ UNCHANGED <<sessionVars, rv, mr, mem, remote, shown>>

-----------------------------------------------------------------------------
(* The NICs, as in RdmaSession.                                             *)

LocalOk(e, wr) == wr.kind = "data" => mr[e].out = "reg"

RemoteOk(e) == remote[e] = "in" /\ mr[Peer(e)].in = "reg"

FlushedBoth == qp' = [e \in Peers |-> Flushed(qp[e])] /\ UNCHANGED mem

\* A send meets the oldest receive, which may be too small for it.
DeliverSend(e, wr) ==
    LET p == Peer(e) IN
    /\ qp[p].rq # << >>
    /\ \/ Head(qp[p].rq).kind # wr.kind /\ FlushedBoth
       \/ /\ qp' = [qp EXCEPT ![e] = Executed(@),
                              ![p] = Received(@, [kind |-> wr.kind, n |-> 0])]
          /\ UNCHANGED mem

ServeWrite(e, wr) ==
    \/ /\ RemoteOk(e)
       /\ SetQp(e, Executed(qp[e]))
       /\ mem' = [mem EXCEPT ![Peer(e)].in[wr.n] = mem[e].out[wr.n]]
    \/ ~RemoteOk(e) /\ FlushedBoth

NicExecute(e) ==
    /\ qp[e].state = "rts" /\ qp[e].sent < Len(qp[e].sq)
    /\ LET wr == qp[e].sq[qp[e].sent + 1] IN
          \/ ~LocalOk(e, wr) /\ SetQp(e, Flushed(qp[e])) /\ UNCHANGED mem
          \/ /\ LocalOk(e, wr) /\ qp[Peer(e)].state = "rts"
             /\ \/ wr.op = "send" /\ DeliverSend(e, wr)
                \/ wr.op = "write" /\ ServeWrite(e, wr)
    /\ UNCHANGED <<sessionVars, pc, rv, mr, remote, shown>>

NicAck(e) ==
    /\ qp[e].sent > 0
    /\ SetQp(e, Acknowledged(qp[e]))
    /\ UNCHANGED <<sessionVars, pc, rv, mr, mem, remote, shown>>

NicTimeout(e) ==
    /\ qp[e].state = "rts" /\ qp[e].sq # << >>
    /\ qp[e].sent = 0 /\ qp[Peer(e)].state # "rts"
    /\ SetQp(e, Flushed(qp[e]))
    /\ UNCHANGED <<sessionVars, pc, rv, mr, mem, remote, shown>>

FabricFails(e) ==
    /\ MayFail("fabric")
    /\ qp[e].state = "rts" /\ qp[e].sq # << >>
    /\ SetQp(e, Flushed(qp[e]))
    /\ UNCHANGED <<sessionVars, pc, rv, mr, mem, remote, shown>>

Nic(e) == NicExecute(e) \/ NicAck(e) \/ NicTimeout(e)

-----------------------------------------------------------------------------
(* The end of a session.                                                    *)

\* The process has left run().
Ended(e) == pc[e] \in {"done", "crashed"}

\* Polling is reliable in this session.
Polls == ~MayFail("poll")

\* Where a process polls for the completion of a message.
SendWaits(e) == {"send_mr_count", "send_mr_array"}
                \union IF e = "server" THEN {"end_wait"} ELSE {}

\* Where the client polls for a message, and where a process does.
RecvWaits == {"get_mr_count", "get_mr_array", "end_wait"}

RecvPolls(e) == IF e = "server" THEN RecvWaits \ {"end_wait"} ELSE RecvWaits

SendPolls(e) == SendWaits(e) \union IF e = "server" THEN {"slot_wait"} ELSE {}

\* A process polls a completion queue that is empty.
Waiting(e) == /\ Polls
              /\ \/ pc[e] \in SendPolls(e) /\ qp[e].scq = << >>
                 \/ pc[e] \in RecvPolls(e) /\ qp[e].rcq = << >>

\* A NIC has nothing to acknowledge, to execute or to give up on: at most a
\* message for which the connected peer has posted no receive.
AtRest(e) ==
    /\ qp[e].sent = 0
    /\ qp[e].state = "rts" /\ qp[e].sq # << >> =>
          /\ Head(qp[e].sq).op = "send" /\ LocalOk(e, Head(qp[e].sq))
          /\ qp[Peer(e)].state = "rts" /\ qp[Peer(e)].rq = << >>
          /\ ~MayFail("fabric")

\* No step is possible any more: no call but a poll of an empty queue stops a
\* process that has not ended.
Standstill == \A e \in Peers : (Ended(e) \/ Waiting(e)) /\ AtRest(e)

Stopped == Standstill /\ UNCHANGED vars

-----------------------------------------------------------------------------
Init ==
    /\ params \in ParamSet
    /\ pc = [e \in Peers |-> "allocate"]
    /\ rv = [e \in Peers |-> 0]
    /\ slot = 1 /\ i = 1 /\ sum = 0
    /\ mr = [e \in Peers |-> [in |-> "none", out |-> "none"]]
    /\ mem = [e \in Peers |-> [in |-> Filling(e), out |-> Filling(e)]]
    /\ remote = [e \in Peers |-> "null"]
    /\ qp = [e \in Peers |-> NewQp("rts")]
    /\ start = [s \in 1..params.repeat |-> 0] /\ end = {}
    /\ shown = [e \in Peers |-> << >>]

Exchange(e) == GetMrInfo(e) \/ GetMrCount(e) \/ GetMrArray(e)
               \/ SendMrInfo(e) \/ SendMrCount(e) \/ SendMrArray(e)

Teardown(e) == EndPost(e) \/ EndWait(e) \/ PrintStats(e)
               \/ DeallocateBuffers(e) \/ Disconnect(e)

Process(e) == Allocate(e) \/ Exchange(e) \/ DivideByZero(e) \/ Teardown(e)

ClientStep == Process("client") \/ ClientSlots

ServerStep == Process("server") \/ Calloc \/ SlotWrite \/ SlotWait

Step == ClientStep \/ ServerStep \/ \E e \in Peers : Nic(e) \/ FabricFails(e)

Next == Step \/ Stopped

\* Both processes are scheduled and busy-poll, and the NICs make progress.
Fairness == /\ WF_vars(ClientStep) /\ WF_vars(ServerStep)
            /\ \A e \in Peers : WF_vars(Nic(e))

Spec == Init /\ [][Next]_vars

FairSpec == Spec /\ Fairness

-----------------------------------------------------------------------------
(* Properties.                                                              *)

Slots == 1..params.repeat

\* The contents of the buffers requests_in and requests_out of one side.
Memory(e) == [in : [Indices(e) -> Values], out : [Indices(e) -> Values]]

MemOK(m) == DOMAIN m = Peers /\ \A e \in Peers : m[e] \in Memory(e)

ShownOK(s) == DOMAIN s = Peers /\ \A e \in Peers : s[e] \in Seq(Memory(e))

\* Every variable has its type.
TypeOK ==
    /\ params \in ParamSet
    /\ pc \in [Peers -> Labels]
    /\ rv \in [Peers -> Int]
    /\ slot \in Slots /\ i \in Packets /\ sum \in 0..(params.count - 1)
    /\ mr \in [Peers -> [in : MrStates, out : MrStates]]
    /\ MemOK(mem) /\ ShownOK(shown)
    /\ remote \in [Peers -> {"null", "in"}]
    /\ qp \in [Peers -> QueuePairs]
    /\ start \in [Slots -> 0..params.count] /\ end \subseteq Slots

\* Both sides were given the same count of packets, and polling is reliable.
Regular == params.count = params.ccount /\ Polls

\* A slot's packets fit the send queue.
Fits == params.count <= MAX_WR

\* The latency report is only printed when every slot has both of its time
\* stamps: a slot that failed keeps the terminating message from succeeding,
\* so that the zeros calloc left are never reported as latencies.
ReportComplete ==
    Polls /\ pc["server"] = "stats"
    => \A s \in Slots : start[s] > 0 /\ s \in end

\* The sums compared across the hosts are of equal contents: what the client
\* shows as received is what the server shows as sent, packet by packet.
ReceivedIsSent ==
    Regular /\ shown["client"] # << >> /\ shown["server"] # << >>
    => shown["client"][1].in = shown["server"][1].out

\* Once the client has summed its buffers no write changes them any more.
SumIsFinal ==
    [][Regular => \A e \in Peers : shown[e] # << >> => mem'[e] = mem[e]]_vars

\* A successful completion taken for a message is that of the message, and one
\* taken for a slot is that of a packet of this slot: none is left over from
\* the memory-region exchange or from an earlier slot.
CompletionIsMine ==
    /\ \A e \in Peers :
          Polls /\ pc[e] \in SendWaits(e) /\ qp[e].scq # << >> /\ Head(qp[e].scq).ok
          => Head(qp[e].scq).idx = qp[e].posted
    /\ LET q == qp["server"] IN
          Polls /\ pc["server"] = "slot_wait" /\ q.scq # << >>
          => Head(q.scq).idx > q.posted - params.count

\* dccs_rdma_send_comp asks for num completions wherever it stands in wc_arr,
\* which has num entries: there are never more than the array has room for.
PollFits ==
    pc["server"] = "slot_wait" => sum + Polled(qp["server"]) <= params.count

\* The slots reuse the buffers and their registrations.  While both ends are
\* connected, a write that is still to be executed finds the client's memory
\* registered: the client deallocates only behind the terminating message
\* (unless it cannot register the buffer for it, and leaves early).
WriteTargetLive ==
    /\ Regular /\ \A e \in Peers : qp[e].state = "rts"
    /\ ~MayFail("reg")
    /\ \E j \in (qp["server"].sent + 1)..Len(qp["server"].sq) :
          qp["server"].sq[j].op = "write"
    => mr["client"].in = "reg"

\* "with only unsignaled requests, WQ will be full": as every write is
\* signaled and polled before the next slot, a slot finds the send queue
\* empty, however many slots there are and whatever failed before.
SlotFindsQueueEmpty ==
    pc["server"] = "slot" /\ i = 1 => qp["server"].posted = qp["server"].retired

\* The two-way exchange and the slots never leave both processes waiting for
\* each other: the session stops only when both have left run(), or when one
\* polls for a message of a peer that is not connected any more.  (With more
\* packets than the queue holds the server polls for ever for completions of
\* the packets it could not post.  With inconsistent counts it never receives
\* the client's array, and both poll for ever for a message of theirs.)
StuckOnlyOnDeadPeer ==
    Regular /\ Fits /\ Standstill =>
        \A e \in Peers :
            Ended(e) \/ (pc[e] \in RecvPolls(e) /\ qp[Peer(e)].state # "rts")

\* "Both sides use RDMA writes": what the server shows as received is what
\* the client shows as sent.
BothSidesWrite ==
    shown["client"] # << >> /\ shown["server"] # << >>
    => shown["server"][1].in = shown["client"][1].out

\* "repeat must be a positive integer" is all that parse_args asks for: when
\* nothing fails no process dies.
PositiveRepeatRuns ==
    params.faults = {} => \A e \in Peers : pc[e] # "crashed"

\* With at least 100 slots, equal counts of packets that fit the queue and
\* nothing failing, both processes leave run() with a result that is not negative.
Termination ==
    params.faults = {} /\ Regular /\ params.repeat >= 100 /\ Fits
    ~> \A e \in Peers : pc[e] = "done" /\ rv[e] >= 0

=============================================================================
