------------------------ MODULE ControlSessionProofs ------------------------
(***************************************************************************)
(* What every behaviour of ControlSession keeps, for every depth MAX_WR,    *)
(* every number of slots and of packets, and every set of faults.           *)
(*                                                                          *)
(* The properties are about the moment a call is made or a report printed.  *)
(* They follow from what the queue pair owes the process at each of its     *)
(* labels: how many requests are unretired, which slots are stamped, and    *)
(* whether a failure has broken the queue pair (Phases).                    *)
(*                                                                          *)
(* The properties that relate the two hosts (the sums agree and are final,  *)
(* a write finds the client's memory) are about hosts given equal counts,   *)
(* whose polling is reliable; they need what one process knows of the       *)
(* other: how many of the server's messages the client can have received,   *)
(* and where the packets of the slot are (FlowInv).  That they never wait   *)
(* for each other needs what each finds at its queue pair where it polls,   *)
(* and that the server has received the messages of the exchange that the   *)
(* client has sent (StopInv).                                               *)
(***************************************************************************)
EXTENDS ControlSession, VerbsProofs

\* The requests a side may have on its send queue: only the server writes, and
\* a write names one of the packets.  Every one is signaled.
Mine(e) == {wr \in WorkRequests :
               /\ wr.op \in {"send", "write"} /\ wr.sig
               /\ wr.op = "send" => wr.kind # "data"
               /\ wr.op = "write" =>
                     wr.kind = "data" /\ wr.n \in Packets /\ e = "server"}

\* A failure takes the receives that were posted with it.
Drained(q) == q.state = "err" => q.rq = << >>

Good(e, q) == Accounted(q) /\ FailuresLast(q) /\ Holds(q, Mine(e)) /\ Drained(q)

QpInv == qp \in [Peers -> QueuePairs] /\ \A e \in Peers : Good(e, qp[e])

\* Before the slots, outside the calls that wait for a send.
Before == {"allocate", "get_mr", "get_mr_count", "get_mr_array", "send_mr",
           "calloc"}

Sending == {"send_mr_count", "send_mr_array"}

\* The memory-region exchange waits for every message it has sent.
ExchangeInv ==
    \A e \in Peers : /\ pc[e] \in Before => Unretired(qp[e]) = 0
                     /\ pc[e] \in Sending => Unretired(qp[e]) <= 1

\* The first k slots have both of their time stamps.
Stamped(k) == \A t \in 1..k : start[t] > 0 /\ t \in end

\* What is unretired in a slot are its own packets.
SlotInv ==
    /\ pc["server"] \in Before \union Sending => slot = 1 /\ i = 1 /\ sum = 0
    /\ pc["server"] = "slot" =>
          /\ sum = 0 /\ Unretired(qp["server"]) < i
          /\ Stamped(slot - 1) /\ (i > 1 => start[slot] > 0)
    /\ pc["server"] = "slot_wait" =>
          /\ i = 1 /\ sum + Unretired(qp["server"]) <= params.count
          /\ Stamped(slot - 1) /\ start[slot] > 0

\* Behind the slots: all of them are stamped and nothing is unretired, or a
\* slot has failed and nothing succeeds any more.
EndInv ==
    Polls =>
      /\ pc["server"] = "end_post" =>
            \/ Broken(qp["server"])
            \/ Stamped(params.repeat) /\ Unretired(qp["server"]) = 0
      /\ pc["server"] = "end_wait" =>
            \/ Broken(qp["server"])
            \/ Stamped(params.repeat) /\ Unretired(qp["server"]) <= 1
      /\ pc["server"] = "stats" => Stamped(params.repeat)

Phases == ExchangeInv /\ SlotInv /\ EndInv

IInv == TypeOK /\ QpInv /\ Phases

-----------------------------------------------------------------------------
(* The parameters and the labels.                                           *)

\* What the type invariant says of the parameters.
LEMMA ParamFacts ==
    ASSUME TypeOK
    PROVE  /\ params \in Params
           /\ params.repeat \in Nat /\ params.repeat > 0
           /\ params.count \in Nat /\ params.count > 0
           /\ params.ccount \in Nat /\ params.ccount > 0
           /\ Packets = 1..params.count /\ 1 \in Packets
           /\ 1 \in Slots
           /\ Indices("server") = Packets
           /\ Regular => Indices("client") = Packets
  <1>1. params \in Params
    BY ParamAssumption DEF TypeOK
  <1>2. /\ params.repeat \in Nat /\ params.repeat > 0
        /\ params.count \in Nat /\ params.count > 0
        /\ params.ccount \in Nat /\ params.ccount > 0
    BY <1>1 DEF Params
  <1>3. Indices("server") = Packets /\ (Regular => Indices("client") = Packets)
    BY DEF Indices, Count, Packets, Regular
  <1> QED
    BY <1>1, <1>2, <1>3 DEF Packets, Slots

\* Every label a step may go to is one.
LEMMA LabelsOK ==
    /\ {"get_mr", "get_mr_count", "get_mr_array", "send_mr", "send_mr_count",
        "send_mr_array", "calloc", "slot", "slot_wait", "end_post", "end_wait",
        "stats", "deallocate", "disconnect", "done", "crashed"} \subseteq Labels
    /\ \A e \in Peers : /\ AfterAllocate(e) \in {"get_mr", "send_mr"}
                        /\ AfterGet(e) \in {"send_mr", "slot"}
                        /\ AfterGet(e) = "slot" => e = "client"
                        /\ AfterSend(e) \in {"calloc", "get_mr"}
  BY DEF Labels, AfterAllocate, AfterGet, AfterSend, Peers

-----------------------------------------------------------------------------
(* The queue pairs.                                                         *)

\* One queue pair moves to a good value, the other stays.
LEMMA QpStep ==
    ASSUME QpInv, params' = params, NEW e \in Peers, NEW q, Good(e, q),
           qp' = [qp EXCEPT ![e] = q]
    PROVE  QpInv' /\ qp'[e] = q /\ \A d \in Peers \ {e} : qp'[d] = qp[d]
  <1>1. q \in QueuePairs
    BY DEF Good, Accounted
  <1>2. \A d \in Peers : qp'[d] = IF d = e THEN q ELSE qp[d]
    BY DEF QpInv
  <1>3. qp' \in [Peers -> QueuePairs]
    BY <1>1 DEF QpInv
  <1>4. \A d \in Peers : Mine(d)' = Mine(d)
    BY DEF Mine, Packets
  <1>5. \A d \in Peers : Good(d, qp'[d])
    BY <1>2 DEF QpInv
  <1>6. \A d \in Peers : /\ Accounted(qp'[d]) /\ FailuresLast(qp'[d])
                         /\ Holds(qp'[d], Mine(d)) /\ Drained(qp'[d])
    BY <1>5 DEF Good
  <1>7. \A d \in Peers : Good(d, qp[d])'
    BY <1>4, <1>6 DEF Good
  <1> QED
    BY <1>2, <1>3, <1>7 DEF QpInv

\* Neither moves.
LEMMA QpSame ==
    ASSUME QpInv, params' = params, qp' = qp
    PROVE  QpInv'
  <1>1. \A d \in Peers : Mine(d)' = Mine(d)
    BY DEF Mine, Packets
  <1>2. \A d \in Peers : /\ Accounted(qp'[d]) /\ FailuresLast(qp'[d])
                         /\ Holds(qp'[d], Mine(d)) /\ Drained(qp'[d])
    BY DEF QpInv, Good
  <1>3. \A d \in Peers : Good(d, qp[d])'
    BY <1>1, <1>2 DEF Good
  <1> QED
    BY <1>3 DEF QpInv

\* Both move.
LEMMA QpBoth ==
    ASSUME params' = params, qp' \in [Peers -> QueuePairs],
           \A e \in Peers : Good(e, qp'[e])
    PROVE  QpInv'
  <1>1. \A d \in Peers : Mine(d)' = Mine(d)
    BY DEF Mine, Packets
  <1>2. \A d \in Peers : /\ Accounted(qp'[d]) /\ FailuresLast(qp'[d])
                         /\ Holds(qp'[d], Mine(d)) /\ Drained(qp'[d])
    BY DEF Good
  <1>3. \A d \in Peers : Good(d, qp[d])'
    BY <1>1, <1>2 DEF Good
  <1> QED
    BY <1>3 DEF QpInv

\* No call and no step of a NIC leaves a receive posted in the error state.
LEMMA DrainedKept ==
    ASSUME NEW q, Accounted(q), Drained(q)
    PROVE  /\ Drained(Destroyed(q)) /\ Drained(Flushed(q))
           /\ \A kind, n : Drained(PostRecv(q, kind, n))
           /\ \A op, kind, n, sig : Drained(PostSend(q, op, kind, n, sig))
           /\ Drained(PollSend(q)) /\ Drained(PollRecv(q))
           /\ \A k : Drained(PollBatch(q, k))
           /\ Drained(Executed(q)) /\ Drained(Acknowledged(q))
           /\ q.rq # << >> => \A m : Drained(Received(q, m))
  <1>1. q \in QueuePairs
    BY QpFields
  <1>2. Drained(Destroyed(q)) /\ Drained(Flushed(q))
    BY <1>1 DEF Drained, Destroyed, Flushed, QueuePairs
  <1>3. \A kind, n : Drained(PostRecv(q, kind, n))
    BY <1>1 DEF Drained, PostRecv, QueuePairs
  <1>4. \A op, kind, n, sig : Drained(PostSend(q, op, kind, n, sig))
    BY <1>1 DEF Drained, PostSend, QueuePairs
  <1>5. /\ Drained(PollSend(q)) /\ Drained(PollRecv(q))
        /\ \A k : Drained(PollBatch(q, k))
    BY <1>1 DEF Drained, PollSend, PollRecv, PollBatch, QueuePairs
  <1>6. Drained(Executed(q)) /\ Drained(Acknowledged(q))
    BY <1>1 DEF Drained, Executed, Acknowledged, QueuePairs
  <1>7. q.rq # << >> => \A m : Drained(Received(q, m))
    BY <1>1 DEF Drained, Received, QueuePairs
  <1> QED
    BY <1>2, <1>3, <1>4, <1>5, <1>6, <1>7

\* What the wrappers of dccs_rdma.h leave is good.
LEMMA WrappersGood ==
    ASSUME NEW e \in Peers, NEW q, Good(e, q)
    PROVE  /\ Good(e, Destroyed(q))
           /\ Good(e, Flushed(q))
           /\ \A kind \in Kinds, n \in Nat : Good(e, PostRecv(q, kind, n))
           /\ \A kind \in Kinds \ {"data"} :
                 Good(e, PostSend(q, "send", kind, 0, TRUE))
  <1>1. Accounted(q) /\ FailuresLast(q) /\ Holds(q, Mine(e)) /\ Drained(q)
    BY DEF Good
  <1>2. Good(e, Destroyed(q)) /\ Good(e, Flushed(q))
    BY <1>1, DestroyedAccounted, FlushedAccounted, OthersHold,
       FlushedFailuresLast, OthersFailuresLast, DrainedKept DEF Good
  <1>3. \A kind \in Kinds, n \in Nat : Good(e, PostRecv(q, kind, n))
    BY <1>1, PostRecvAccounted, OthersHold, OthersFailuresLast, DrainedKept DEF Good
  <1>4. ASSUME NEW kind \in Kinds \ {"data"}
        PROVE  Good(e, PostSend(q, "send", kind, 0, TRUE))
    <2>1. q.posted + 1 \in Nat
      BY <1>1, QpFields
    <2>2. [op |-> "send", kind |-> kind, n |-> 0, sig |-> TRUE,
           idx |-> q.posted + 1] \in Mine(e)
      BY <2>1 DEF Mine, WorkRequests
    <2>3. Accounted(PostSend(q, "send", kind, 0, TRUE))
      BY <1>1, PostSendAccounted
    <2>4. Holds(PostSend(q, "send", kind, 0, TRUE), Mine(e))
      BY <1>1, <2>2, PostSendHolds
    <2>5. FailuresLast(PostSend(q, "send", kind, 0, TRUE))
      BY <1>1, PostSendFailuresLast
    <2>6. Drained(PostSend(q, "send", kind, 0, TRUE))
      BY <1>1, DrainedKept
    <2> QED
      BY <2>3, <2>4, <2>5, <2>6 DEF Good
  <1> QED
    BY <1>2, <1>3, <1>4

\* What dccs_rdma_send_comp returns: a success retires what it waited for, and
\* there is none once a request has failed.
LEMMA SendCompGood ==
    ASSUME NEW e \in Peers, Good(e, qp[e]), NEW c \in SendComp(e)
    PROVE  /\ c.rv \in {1, -1} /\ Good(e, c.q)
           /\ c.rv >= 0 => /\ qp[e].scq # << >> /\ Head(qp[e].scq).ok
                           /\ c.q = PollSend(qp[e]) /\ ~Broken(qp[e])
                           /\ Unretired(c.q) < Unretired(qp[e])
  <1>1. /\ Accounted(qp[e]) /\ FailuresLast(qp[e]) /\ Holds(qp[e], Mine(e))
        /\ Drained(qp[e])
    BY DEF Good
  <1>2. ASSUME qp[e].scq # << >>
        PROVE  /\ Good(e, PollSend(qp[e]))
               /\ Unretired(PollSend(qp[e])) < Unretired(qp[e])
               /\ Head(qp[e].scq).ok => ~Broken(qp[e])
    <2>1. Good(e, PollSend(qp[e]))
      BY <1>1, <1>2, PollSendAccounted, OthersHold, PollSendFailuresLast,
         DrainedKept DEF Good
    <2>2. Unretired(PollSend(qp[e])) < Unretired(qp[e])
      BY <1>1, <1>2, PollSendUnretired
    <2>3. Head(qp[e].scq).ok => ~Broken(qp[e])
      BY <1>1, <1>2, PollSendFailuresLast
    <2> QED
      BY <2>1, <2>2, <2>3
  <1>3. \/ /\ qp[e].scq # << >>
           /\ c = [rv |-> IF Head(qp[e].scq).ok THEN 1 ELSE -1,
                   q |-> PollSend(qp[e])]
        \/ c = [rv |-> -1, q |-> qp[e]]
    BY DEF SendComp
  <1> QED
    BY <1>2, <1>3

\* What dccs_rdma_recv_comp returns.
LEMMA RecvCompGood ==
    ASSUME NEW e \in Peers, Good(e, qp[e]), NEW c \in RecvComp(e)
    PROVE  /\ c.rv \in {1, -1} /\ Good(e, c.q)
           /\ Unretired(c.q) = Unretired(qp[e])
           /\ Broken(qp[e]) => Broken(c.q)
  <1>1. /\ Accounted(qp[e]) /\ FailuresLast(qp[e]) /\ Holds(qp[e], Mine(e))
        /\ Drained(qp[e])
    BY DEF Good
  <1>2. ASSUME qp[e].rcq # << >>
        PROVE  /\ Good(e, PollRecv(qp[e]))
               /\ Unretired(PollRecv(qp[e])) = Unretired(qp[e])
               /\ Broken(qp[e]) => Broken(PollRecv(qp[e]))
    <2>1. Good(e, PollRecv(qp[e])) /\ (Broken(qp[e]) => Broken(PollRecv(qp[e])))
      BY <1>1, <1>2, PollRecvAccounted, OthersHold, OthersFailuresLast,
         DrainedKept DEF Good
    <2>2. Unretired(PollRecv(qp[e])) = Unretired(qp[e])
      BY <1>1, RecvUnretired
    <2> QED
      BY <2>1, <2>2
  <1>3. \/ /\ qp[e].rcq # << >>
           /\ c = [rv |-> IF Head(qp[e].rcq).ok THEN 1 ELSE -1,
                   q |-> PollRecv(qp[e])]
        \/ c = [rv |-> -1, q |-> qp[e]]
    BY DEF RecvComp
  <1> QED
    BY <1>2, <1>3

\* A packet of a slot is posted.
LEMMA WriteGood ==
    ASSUME TypeOK, Good("server", qp["server"])
    PROVE  LET q == PostSend(qp["server"], "write", "data", i, Signal)
           IN  /\ Good("server", q)
               /\ Unretired(q) <= Unretired(qp["server"]) + 1
  <1> DEFINE s == qp["server"]
             q == PostSend(s, "write", "data", i, TRUE)
  <1>1. /\ Accounted(s) /\ FailuresLast(s) /\ Holds(s, Mine("server"))
        /\ Drained(s)
    BY DEF Good
  <1>2. i \in Packets /\ i \in Nat
    BY ParamFacts DEF TypeOK
  <1>3. s.posted + 1 \in Nat
    BY <1>1, QpFields
  <1> HIDE DEF s
  <1>4. [op |-> "write", kind |-> "data", n |-> i, sig |-> TRUE,
         idx |-> s.posted + 1] \in Mine("server")
    BY <1>2, <1>3 DEF Mine, WorkRequests, Kinds
  <1>5. Accounted(q)
    BY <1>1, <1>2, PostSendAccounted DEF Kinds
  <1>6. Holds(q, Mine("server")) /\ FailuresLast(q) /\ Drained(q)
    BY <1>1, <1>4, PostSendHolds, PostSendFailuresLast, DrainedKept
  <1>7. Unretired(q) <= Unretired(s) + 1
    BY <1>1, PostSendUnretired
  <1> QED
    BY <1>5, <1>6, <1>7 DEF Good, Signal, s

\* The completions a slot polls.
LEMMA PolledGood ==
    ASSUME TypeOK, Good("server", qp["server"]), qp["server"].scq # << >>
    PROVE  LET k == Polled(qp["server"])
               q == PollBatch(qp["server"], k)
           IN  /\ k \in 1..Len(qp["server"].scq) /\ k \in Nat /\ k > 0
               /\ Good("server", q)
               /\ Unretired(q) \in Nat /\ Unretired(q) <= Unretired(qp["server"]) - k
               /\ (\E j \in 1..k : ~qp["server"].scq[j].ok) => Broken(q)
  <1> DEFINE s == qp["server"]
             k == Polled(s)
             q == PollBatch(s, k)
  <1>1. /\ Accounted(s) /\ FailuresLast(s) /\ Holds(s, Mine("server"))
        /\ Drained(s)
    BY DEF Good
  <1>2. Len(s.scq) \in Nat /\ Len(s.scq) > 0
    BY <1>1, QpFields
  <1>3. k \in 1..Len(s.scq) /\ k \in Nat /\ k > 0
    BY <1>2, ParamFacts DEF Polled
  <1> HIDE DEF s, k
  <1>4. /\ Accounted(q) /\ Unretired(q) <= Unretired(s) - k /\ q.sq = s.sq
        /\ q.state = s.state /\ q.scq = SubSeq(s.scq, k + 1, Len(s.scq))
    BY <1>1, <1>3, PollBatchAccounted
  <1>5. Unretired(q) \in Nat
    BY <1>4, CompletionsUnretired
  <1>6. Holds(q, Mine("server"))
    BY <1>1, <1>4 DEF Holds
  <1>7. /\ FailuresLast(q)
        /\ (\E j \in 1..k : ~s.scq[j].ok) => Broken(q)
    BY <1>1, <1>3, <1>4, FailuresLastRest
  <1>8. Drained(q)
    BY <1>1, DrainedKept
  <1> QED
    BY <1>3, <1>4, <1>5, <1>6, <1>7, <1>8 DEF Good, s, k

-----------------------------------------------------------------------------
(* Types.                                                                   *)

\* Jumping to a label, setting run()'s result.
LEMMA GotoOK ==
    ASSUME pc \in [Peers -> Labels], NEW e \in Peers, NEW l \in Labels, Goto(e, l)
    PROVE  pc' \in [Peers -> Labels]
  BY DEF Goto

LEMMA ReturnOK ==
    ASSUME rv \in [Peers -> Int], NEW e \in Peers, NEW v \in Int, Return(e, v)
    PROVE  rv' \in [Peers -> Int]
  BY DEF Return

\* The parameters are fixed, so that the types are.
LEMMA TypesStep ==
    ASSUME TypeOK, params' = params,
           pc' \in [Peers -> Labels], rv' \in [Peers -> Int],
           slot' \in Slots, i' \in Packets, sum' \in 0..(params.count - 1),
           mr' \in [Peers -> [in : MrStates, out : MrStates]],
           MemOK(mem'), remote' \in [Peers -> {"null", "in"}],
           QpInv', start' \in [Slots -> 0..params.count], end' \subseteq Slots,
           ShownOK(shown')
    PROVE  TypeOK'
  <1>1. Slots' = Slots /\ Packets' = Packets
    BY DEF Slots, Packets
  <1>3. MemOK(mem)' /\ ShownOK(shown)'
    BY DEF MemOK, ShownOK, Memory, Indices, Count
  <1>2. params' \in ParamSet /\ qp' \in [Peers -> QueuePairs]
    BY DEF TypeOK, QpInv
  <1> QED
    BY <1>1, <1>2, <1>3 DEF TypeOK

\* Only the place and the result of the processes change.
LEMMA TypesKept ==
    ASSUME TypeOK, QpInv', pc' \in [Peers -> Labels], rv' \in [Peers -> Int],
           UNCHANGED <<sessionVars, mr, mem, remote, shown>>
    PROVE  TypeOK'
  <1>1. /\ params' = params
        /\ slot' \in Slots /\ i' \in Packets /\ sum' \in 0..(params.count - 1)
        /\ start' \in [Slots -> 0..params.count] /\ end' \subseteq Slots
    BY DEF TypeOK, sessionVars
  <1>2. /\ mr' \in [Peers -> [in : MrStates, out : MrStates]]
        /\ MemOK(mem') /\ remote' \in [Peers -> {"null", "in"}]
        /\ ShownOK(shown')
    BY DEF TypeOK
  <1> QED
    BY <1>1, <1>2, TypesStep

-----------------------------------------------------------------------------
(* Phases.                                                                  *)

\* The process e goes on to l, outside the slots.
LEMMA PhasesStep ==
    ASSUME TypeOK, Phases, UNCHANGED sessionVars,
           NEW e \in Peers, NEW l, pc' = [pc EXCEPT ![e] = l],
           \A d \in Peers \ {e} : qp'[d] = qp[d],
           l \in Before => Unretired(qp'[e]) = 0,
           l \in Sending => Unretired(qp'[e]) <= 1,
           e = "server" =>
              /\ l \notin {"slot_wait", "end_post"}
              /\ l \in Before \union Sending \union {"slot"}
                 => slot = 1 /\ i = 1 /\ sum = 0
              /\ l = "slot" => Unretired(qp'[e]) = 0
              /\ Polls /\ l = "end_wait"
                 => \/ Broken(qp'[e])
                    \/ Stamped(params.repeat) /\ Unretired(qp'[e]) <= 1
              /\ Polls /\ l = "stats" => Stamped(params.repeat)
    PROVE  Phases'
  <1>1. /\ params' = params /\ slot' = slot /\ i' = i /\ sum' = sum
        /\ start' = start /\ end' = end
    BY DEF sessionVars
  <1>2. /\ pc'[e] = l /\ \A d \in Peers \ {e} : pc'[d] = pc[d]
        /\ "server" \in Peers
    BY DEF TypeOK, Peers
  <1>3. (Polls <=> Polls') /\ \A k : Stamped(k) <=> Stamped(k)'
    BY <1>1 DEF Polls, MayFail, Stamped
  <1>4. ExchangeInv'
    <2> SUFFICES ASSUME NEW d \in Peers
                 PROVE  /\ pc'[d] \in Before => Unretired(qp'[d]) = 0
                        /\ pc'[d] \in Sending => Unretired(qp'[d]) <= 1
      BY DEF ExchangeInv, Unretired
    <2>1. CASE d = e
      BY <1>2, <2>1
    <2>2. CASE d # e
      BY <1>2, <2>2 DEF Phases, ExchangeInv
    <2> QED
      BY <2>1, <2>2
  <1>5. CASE e = "server"
    <2>1. SlotInv'
      <3>1. l = "slot" => Stamped(slot - 1)
        BY <1>5 DEF Stamped
      <3>2. l = "slot" => /\ sum' = 0 /\ Unretired(qp'["server"]) < i'
                          /\ Stamped(slot - 1)' /\ ~(i' > 1)
        BY <1>1, <1>3, <1>5, <3>1
      <3> QED
        BY <1>1, <1>2, <1>5, <3>2 DEF SlotInv, Unretired, Stamped
    <2>2. EndInv'
      BY <1>1, <1>2, <1>3, <1>5 DEF EndInv, Unretired, Broken, Stamped
    <2> QED
      BY <1>4, <2>1, <2>2 DEF Phases
  <1>6. CASE e # "server"
    <2>1. pc'["server"] = pc["server"] /\ qp'["server"] = qp["server"]
      BY <1>2, <1>6
    <2>2. SlotInv' /\ EndInv'
      BY <1>1, <1>3, <2>1 DEF Phases, SlotInv, EndInv, Unretired, Broken, Stamped
    <2> QED
      BY <1>4, <2>2 DEF Phases
  <1> QED
    BY <1>5, <1>6

\* A step of a NIC retires nothing and repairs nothing.
LEMMA PhasesNic ==
    ASSUME Phases, UNCHANGED <<sessionVars, pc>>,
           \A d \in Peers : /\ Unretired(qp'[d]) = Unretired(qp[d])
                            /\ Broken(qp[d]) => Broken(qp'[d])
    PROVE  Phases'
  <1>1. /\ params' = params /\ slot' = slot /\ i' = i /\ sum' = sum
        /\ start' = start /\ end' = end /\ pc' = pc /\ "server" \in Peers
    BY DEF sessionVars, Peers
  <1>2. (Polls <=> Polls') /\ \A k : Stamped(k) <=> Stamped(k)'
    BY <1>1 DEF Polls, MayFail, Stamped
  <1>3. ExchangeInv'
    BY <1>1 DEF Phases, ExchangeInv, Unretired
  <1>4. SlotInv'
    BY <1>1, <1>2 DEF Phases, SlotInv, Unretired, Stamped
  <1>5. EndInv'
    BY <1>1, <1>2 DEF Phases, EndInv, Unretired, Broken, Stamped
  <1> QED
    BY <1>3, <1>4, <1>5 DEF Phases

-----------------------------------------------------------------------------
(* The steps of the processes.                                              *)

\* What the invariant says in one place.
LEMMA Facts ==
    ASSUME IInv
    PROVE  /\ TypeOK /\ QpInv /\ Phases
           /\ pc \in [Peers -> Labels] /\ rv \in [Peers -> Int]
           /\ "client" \in Peers /\ "server" \in Peers
           /\ 0 \in Int /\ -1 \in Int /\ 1 \in Int
           /\ \A e \in Peers : Good(e, qp[e]) /\ Accounted(qp[e])
  BY DEF IInv, TypeOK, QpInv, Good, Peers

\* The process e goes on to l: what is left to show.
LEMMA ProcessStep ==
    ASSUME IInv, NEW e \in Peers, NEW l \in Labels, Goto(e, l),
           NEW q, Good(e, q), SetQp(e, q) \/ (q = qp[e] /\ UNCHANGED qp),
           rv' \in [Peers -> Int],
           UNCHANGED <<sessionVars, mr, mem, remote, shown>>
              \/ (params' = params /\ TypeOK'),
           UNCHANGED sessionVars,
           l \in Before => Unretired(q) = 0,
           l \in Sending => Unretired(q) <= 1,
           e = "server" =>
              /\ l \notin {"slot_wait", "end_post"}
              /\ l \in Before \union Sending \union {"slot"}
                 => slot = 1 /\ i = 1 /\ sum = 0
              /\ l = "slot" => Unretired(q) = 0
              /\ Polls /\ l = "end_wait"
                 => Broken(q) \/ (Stamped(params.repeat) /\ Unretired(q) <= 1)
              /\ Polls /\ l = "stats" => Stamped(params.repeat)
    PROVE  IInv'
  <1>1. TypeOK /\ QpInv /\ Phases /\ params' = params
    BY Facts DEF sessionVars
  <1>2. QpInv' /\ qp'[e] = q /\ \A d \in Peers \ {e} : qp'[d] = qp[d]
    <2>1. CASE SetQp(e, q)
      BY <1>1, <2>1, QpStep DEF SetQp
    <2>2. CASE q = qp[e] /\ UNCHANGED qp
      BY <1>1, <2>2, QpSame
    <2> QED
      BY <2>1, <2>2
  <1>3. pc' \in [Peers -> Labels]
    BY Facts, GotoOK
  <1>4. TypeOK'
    BY <1>1, <1>2, <1>3, TypesKept
  <1>5. Phases'
    BY <1>1, <1>2, PhasesStep DEF Goto
  <1> QED
    BY <1>2, <1>4, <1>5 DEF IInv

\* The cleanup and what follows it ask for nothing.
LEMMA LeaveStep ==
    ASSUME IInv, NEW e \in Peers,
           NEW l \in {"deallocate", "disconnect", "done", "crashed"}, Goto(e, l),
           NEW q, Good(e, q), SetQp(e, q) \/ (q = qp[e] /\ UNCHANGED qp),
           rv' \in [Peers -> Int],
           UNCHANGED <<sessionVars, mr, mem, remote, shown>>
              \/ (params' = params /\ TypeOK'),
           UNCHANGED sessionVars
    PROVE  IInv'
  <1>1. l \in Labels /\ l \notin Before \union Sending
        /\ l \notin {"slot", "slot_wait", "end_post", "end_wait", "stats"}
    BY DEF Labels, Before, Sending
  <1> QED
    BY <1>1, ProcessStep

\* A process dies.
LEMMA CrashStep ==
    ASSUME IInv, NEW e \in Peers, Crash(e), rv' = rv,
           UNCHANGED <<sessionVars, mem, remote, shown>>
    PROVE  IInv'
  <1>1. Good(e, Destroyed(qp[e]))
    BY Facts, WrappersGood
  <1>2. /\ SetQp(e, Destroyed(qp[e])) /\ Goto(e, "crashed")
        /\ mr' = [mr EXCEPT ![e] = [in |-> "freed", out |-> "freed"]]
    BY DEF Crash
  <1>3. QpInv' /\ params' = params
    BY <1>1, <1>2, Facts, QpStep DEF SetQp, sessionVars
  <1>4. pc' \in [Peers -> Labels] /\ rv' \in [Peers -> Int]
    BY <1>2, Facts, GotoOK, LabelsOK
  <1>5. mr' \in [Peers -> [in : MrStates, out : MrStates]]
    BY <1>2 DEF IInv, TypeOK, MrStates
  <1>6. TypeOK'
    <2>1. /\ slot' \in Slots /\ i' \in Packets /\ sum' \in 0..(params.count - 1)
          /\ start' \in [Slots -> 0..params.count] /\ end' \subseteq Slots
          /\ MemOK(mem') /\ remote' \in [Peers -> {"null", "in"}]
          /\ ShownOK(shown')
      BY DEF IInv, TypeOK, sessionVars
    <2> QED
      BY <1>3, <1>4, <1>5, <2>1, Facts, TypesStep
  <1> QED
    BY <1>1, <1>2, <1>3, <1>4, <1>6, LeaveStep

\* A control buffer is posted from a place where nothing is unretired.
LEMMA PostControlStep ==
    ASSUME IInv, NEW e \in Peers, NEW q, Good(e, q), NEW next \in Labels,
           NEW fits, PostControl(e, q, fits, next),
           UNCHANGED <<sessionVars, mr, mem, remote, shown>>,
           next \in Before => Unretired(q) = 0,
           next \in Sending => Unretired(q) <= 1,
           e = "server" =>
              /\ next \notin {"slot", "slot_wait", "end_post", "stats"}
              /\ next \in Before \union Sending => slot = 1 /\ i = 1 /\ sum = 0
              /\ Polls /\ next = "end_wait"
                 => Broken(q) \/ (Stamped(params.repeat) /\ Unretired(q) <= 1)
    PROVE  IInv'
  <1>1. CASE SetQp(e, q) /\ Goto(e, next) /\ UNCHANGED rv
    BY <1>1, Facts, ProcessStep
  <1>2. CASE Return(e, -1) /\ Goto(e, "deallocate") /\ UNCHANGED qp
    <2>1. Good(e, qp[e]) /\ rv' \in [Peers -> Int]
      BY <1>2, Facts, ReturnOK
    <2> QED
      BY <1>2, <2>1, LeaveStep
  <1> QED
    BY <1>1, <1>2 DEF PostControl

\* A wait is over.
LEMMA WaitedStep ==
    ASSUME IInv, NEW e \in Peers, NEW c, c.rv \in Int, Good(e, c.q),
           NEW next \in Labels, Waited(e, c, next),
           UNCHANGED <<sessionVars, mr, mem, remote, shown>>
              \/ (params' = params /\ TypeOK'),
           UNCHANGED sessionVars,
           c.rv >= 0 =>
              /\ next \in Before => Unretired(c.q) = 0
              /\ next \in Sending => Unretired(c.q) <= 1
              /\ e = "server" =>
                    /\ next \notin {"slot", "slot_wait", "end_post", "end_wait"}
                    /\ next \in Before \union Sending
                       => slot = 1 /\ i = 1 /\ sum = 0
                    /\ Polls /\ next = "stats" => Stamped(params.repeat)
    PROVE  IInv'
  <1>1. /\ SetQp(e, c.q) /\ Return(e, c.rv)
        /\ Goto(e, IF c.rv < 0 THEN "deallocate" ELSE next)
    BY DEF Waited
  <1>2. rv' \in [Peers -> Int]
    BY <1>1, Facts, ReturnOK
  <1>3. CASE c.rv < 0
    <2>1. Goto(e, "deallocate")
      BY <1>1, <1>3
    <2> QED
      BY <1>1, <1>2, <2>1, LeaveStep
  <1>4. CASE ~(c.rv < 0)
    <2>1. Goto(e, next) /\ c.rv >= 0
      BY <1>1, <1>4
    <2> QED
      BY <1>1, <1>2, <2>1, ProcessStep
  <1> QED
    BY <1>3, <1>4

\* The memory-region exchange.
LEMMA ExchangeKeeps ==
    ASSUME IInv, NEW e \in Peers, Exchange(e)
    PROVE  IInv'
  <1>1. /\ TypeOK /\ QpInv /\ Phases /\ Good(e, qp[e]) /\ Accounted(qp[e])
        /\ Unretired(qp[e]) \in Nat
    BY Facts, CompletionsUnretired
  <1>2. /\ "count" \in Kinds \ {"data"} /\ "array" \in Kinds \ {"data"} /\ 0 \in Nat
        /\ "count" \in Kinds /\ "array" \in Kinds
    BY DEF Kinds
  <1>3. /\ pc[e] \in Before => Unretired(qp[e]) = 0
        /\ pc[e] \in Sending => Unretired(qp[e]) <= 1
        /\ e = "server" /\ pc[e] \in Before \union Sending
           => slot = 1 /\ i = 1 /\ sum = 0
    BY <1>1 DEF Phases, ExchangeInv, SlotInv
  <1>4. /\ {"get_mr", "get_mr_count", "get_mr_array", "send_mr", "calloc"}
           \subseteq Before
        /\ {"send_mr_count", "send_mr_array"} = Sending
        /\ Before \intersect Sending = {} /\ "slot" \notin Before \union Sending
        /\ \A l \in Before \union Sending :
              l \notin {"slot", "slot_wait", "end_post", "end_wait", "stats"}
    BY DEF Before, Sending
  <1>5. CASE GetMrInfo(e)
    <2> DEFINE q == PostRecv(qp[e], "count", 0)
    <2>1. /\ Good(e, q) /\ Unretired(q) = Unretired(qp[e])
          /\ PostControl(e, q, CanRecv(qp[e]), "get_mr_count")
      BY <1>1, <1>2, <1>5, WrappersGood, RecvUnretired, ZenonT(60) DEF GetMrInfo, RecvControl
    <2>2. pc[e] = "get_mr" /\ UNCHANGED <<sessionVars, mr, mem, remote, shown>>
      BY <1>5 DEF GetMrInfo
    <2> HIDE DEF q
    <2>3. /\ Unretired(q) = 0 /\ "get_mr_count" \in Labels
          /\ e = "server" => slot = 1 /\ i = 1 /\ sum = 0
          /\ "get_mr_count" \notin Sending
      BY <1>3, <1>4, <2>1, <2>2, LabelsOK
    <2> QED
      BY <2>1, <2>2, <2>3, PostControlStep
  <1>6. CASE GetMrCount(e)
    <2> DEFINE d(c) == [rv |-> IF CanRecv(c.q) THEN 1 ELSE -1,
                        q |-> PostRecv(c.q, "array", 0)]
    <2>1. PICK c \in RecvComp(e) : \/ Waited(e, c, AfterGet(e))
                                  \/ Waited(e, d(c), "get_mr_array")
      BY <1>6 DEF GetMrCount
    <2>2. /\ c.rv \in {1, -1} /\ Good(e, c.q) /\ Accounted(c.q)
          /\ Unretired(c.q) = Unretired(qp[e])
      BY <1>1, RecvCompGood DEF Good
    <2>3. /\ Good(e, PostRecv(c.q, "array", 0))
          /\ Unretired(PostRecv(c.q, "array", 0)) = Unretired(c.q)
      BY <1>2, <2>2, WrappersGood, RecvUnretired, ZenonT(60)
    <2>4. d(c).rv \in Int /\ Good(e, d(c).q) /\ Unretired(d(c).q) = Unretired(qp[e])
      BY <2>2, <2>3
    <2>5. pc[e] = "get_mr_count" /\ UNCHANGED <<sessionVars, mr, mem, remote, shown>>
      BY <1>6 DEF GetMrCount
    <2> HIDE DEF d
    <2>6. CASE Waited(e, d(c), "get_mr_array")
      BY <1>3, <1>4, <2>4, <2>5, <2>6, LabelsOK, WaitedStep
    <2>7. CASE Waited(e, c, AfterGet(e))
      <3>1. /\ AfterGet(e) \in Labels /\ AfterGet(e) \in {"send_mr", "slot"}
            /\ AfterGet(e) = "slot" => e = "client"
            /\ c.rv \in Int
        BY <2>2, LabelsOK
      <3> QED
        BY <1>3, <1>4, <2>2, <2>5, <2>7, <3>1, WaitedStep DEF Peers
    <2> QED
      BY <2>1, <2>6, <2>7
  <1>7. CASE GetMrArray(e)
    <2>1. PICK c \in RecvComp(e) :
             /\ Waited(e, c, AfterGet(e))
             /\ remote' = IF c.rv < 0 THEN remote ELSE [remote EXCEPT ![e] = "in"]
      BY <1>7 DEF GetMrArray
    <2>2. c.rv \in {1, -1} /\ Good(e, c.q) /\ Unretired(c.q) = Unretired(qp[e])
      BY <1>1, RecvCompGood
    <2>3. pc[e] = "get_mr_array" /\ UNCHANGED <<sessionVars, mr, mem, shown>>
      BY <1>7 DEF GetMrArray
    <2>4. remote' \in [Peers -> {"null", "in"}]
      BY <1>1, <2>1 DEF TypeOK
    <2>5. QpInv' /\ pc' \in [Peers -> Labels] /\ rv' \in [Peers -> Int]
      <3>1. SetQp(e, c.q) /\ Return(e, c.rv)
            /\ Goto(e, IF c.rv < 0 THEN "deallocate" ELSE AfterGet(e))
        BY <2>1 DEF Waited
      <3>2. (IF c.rv < 0 THEN "deallocate" ELSE AfterGet(e)) \in Labels /\ c.rv \in Int
        BY <2>2, LabelsOK
      <3> QED
        BY <2>2, <2>3, <3>1, <3>2, Facts, QpStep, GotoOK, ReturnOK
           DEF SetQp, sessionVars
    <2>6. TypeOK' /\ params' = params
      <3>1. /\ slot' \in Slots /\ i' \in Packets /\ sum' \in 0..(params.count - 1)
            /\ start' \in [Slots -> 0..params.count] /\ end' \subseteq Slots
            /\ MemOK(mem') /\ ShownOK(shown')
            /\ mr' \in [Peers -> [in : MrStates, out : MrStates]]
            /\ params' = params
        BY <1>1, <2>3 DEF TypeOK, sessionVars
      <3> QED
        BY <1>1, <2>4, <2>5, <3>1, TypesStep
    <2>7. AfterGet(e) \in Labels /\ AfterGet(e) \in {"send_mr", "slot"}
          /\ (AfterGet(e) = "slot" => e = "client")
      BY LabelsOK
    <2> QED
      BY <1>3, <1>4, <2>1, <2>2, <2>3, <2>6, <2>7, WaitedStep DEF Peers
  <1>8. CASE SendMrInfo(e)
    <2>1. pc[e] = "send_mr" /\ UNCHANGED <<sessionVars, mem, remote, shown>>
      BY <1>8 DEF SendMrInfo
    <2>2. CASE Crash(e) /\ UNCHANGED rv
      BY <2>1, <2>2, CrashStep
    <2>3. CASE SendControl(e, "count", "send_mr_count") /\ UNCHANGED mr
      <3> DEFINE q == PostSend(qp[e], "send", "count", 0, TRUE)
      <3>1. /\ Good(e, q) /\ Unretired(q) <= Unretired(qp[e]) + 1
            /\ PostControl(e, q, CanPost(qp[e]), "send_mr_count")
        BY <1>1, <1>2, <2>3, WrappersGood, PostSendUnretired DEF SendControl
      <3> HIDE DEF q
      <3>2. Unretired(q) <= 1
        BY <1>3, <1>4, <2>1, <3>1
      <3> QED
        BY <1>3, <1>4, <2>1, <2>3, <3>1, <3>2, LabelsOK, PostControlStep
    <2> QED
      BY <1>8, <2>2, <2>3 DEF SendMrInfo
  <1>9. CASE SendMrCount(e)
    <2>1. PICK c \in SendComp(e) :
             Waited(e, IF c.rv < 0 THEN c
                       ELSE [c EXCEPT !.q = PostSend(@, "send", "array", 0, TRUE)],
                    "send_mr_array")
      BY <1>9 DEF SendMrCount
    <2>2. /\ c.rv \in {1, -1} /\ Good(e, c.q) /\ Accounted(c.q)
          /\ c.rv >= 0 => Unretired(c.q) < Unretired(qp[e])
      BY <1>1, SendCompGood DEF Good
    <2>3. /\ Good(e, PostSend(c.q, "send", "array", 0, TRUE))
          /\ Unretired(PostSend(c.q, "send", "array", 0, TRUE)) <= Unretired(c.q) + 1
          /\ Unretired(c.q) \in Nat
          /\ Unretired(PostSend(c.q, "send", "array", 0, TRUE)) \in Nat
      BY <1>2, <2>2, WrappersGood, PostSendUnretired, CompletionsUnretired DEF Good
    <2>4. pc[e] = "send_mr_count" /\ UNCHANGED <<sessionVars, mr, mem, remote, shown>>
      BY <1>9 DEF SendMrCount
    <2> DEFINE d == IF c.rv < 0 THEN c
                    ELSE [c EXCEPT !.q = PostSend(@, "send", "array", 0, TRUE)]
    <2>5. c = [rv |-> c.rv, q |-> c.q]
      BY DEF SendComp
    <2>6. /\ c.rv < 0 => d = c
          /\ ~(c.rv < 0) => /\ d.q = PostSend(c.q, "send", "array", 0, TRUE)
                            /\ d.rv = c.rv
      BY <2>5
    <2>7. Waited(e, d, "send_mr_array")
      BY <2>1
    <2> HIDE DEF d
    <2>8. d.rv \in Int /\ Good(e, d.q)
      <3>1. CASE c.rv < 0
        BY <2>2, <2>6, <3>1
      <3>2. CASE ~(c.rv < 0)
        <4>1. d.q = PostSend(c.q, "send", "array", 0, TRUE) /\ d.rv = c.rv
          BY <2>6, <3>2, Zenon
        <4>2. c.rv \in Int
          BY <2>2
        <4> QED
          BY <2>3, <4>1, <4>2, Zenon
      <3> QED
        BY <3>1, <3>2
    <2>9. d.rv >= 0 => Unretired(d.q) <= 1
      <3> SUFFICES ASSUME d.rv >= 0 PROVE Unretired(d.q) <= 1
        OBVIOUS
      <3>1. c.rv >= 0 /\ ~(c.rv < 0)
        BY <2>2, <2>6
      <3>2. Unretired(c.q) < Unretired(qp[e]) /\ Unretired(qp[e]) <= 1
        BY <1>3, <1>4, <2>2, <2>4, <3>1
      <3>3. d.q = PostSend(c.q, "send", "array", 0, TRUE)
        BY <2>6, <3>1
      <3>4. \A a, b, f \in Nat : a <= b + 1 /\ b < f /\ f <= 1 => a <= 1
        OBVIOUS
      <3> QED
        BY <1>1, <2>3, <3>2, <3>3, <3>4
    <2> QED
      BY <1>3, <1>4, <2>4, <2>7, <2>8, <2>9, LabelsOK, WaitedStep
  <1>10. CASE SendMrArray(e)
    <2>1. PICK c \in SendComp(e) : Waited(e, c, AfterSend(e))
      BY <1>10 DEF SendMrArray
    <2>2. /\ c.rv \in {1, -1} /\ Good(e, c.q) /\ Accounted(c.q)
          /\ c.rv >= 0 => Unretired(c.q) < Unretired(qp[e])
      BY <1>1, SendCompGood DEF Good
    <2>3. pc[e] = "send_mr_array" /\ UNCHANGED <<sessionVars, mr, mem, remote, shown>>
      BY <1>10 DEF SendMrArray
    <2>4. c.rv >= 0 => Unretired(c.q) = 0
      <3>1. Unretired(qp[e]) <= 1 /\ Unretired(c.q) \in Nat
        BY <1>3, <1>4, <2>2, <2>3, CompletionsUnretired
      <3> QED
        BY <1>1, <2>2, <3>1
    <2>5. AfterSend(e) \in Labels /\ AfterSend(e) \in {"calloc", "get_mr"}
          /\ c.rv \in Int
      BY <2>2, LabelsOK
    <2> QED
      BY <1>3, <1>4, <2>1, <2>2, <2>3, <2>4, <2>5, WaitedStep
  <1> QED
    BY <1>5, <1>6, <1>7, <1>8, <1>9, <1>10 DEF Exchange

\* The terminating message, the report and the cleanup.
LEMMA TeardownKeeps ==
    ASSUME IInv, NEW e \in Peers, Teardown(e)
    PROVE  IInv'
  <1>1. /\ TypeOK /\ QpInv /\ Phases /\ Good(e, qp[e]) /\ Accounted(qp[e])
        /\ FailuresLast(qp[e]) /\ Unretired(qp[e]) \in Nat
    BY Facts, CompletionsUnretired DEF Good
  <1>2. "end" \in Kinds \ {"data"} /\ "end" \in Kinds /\ 0 \in Nat
    BY DEF Kinds
  <1>3. /\ "end_wait" \notin Before \union Sending
        /\ "stats" \notin Before \union Sending
    BY DEF Before, Sending
  <1>4. CASE EndPost(e)
    <2>1. pc[e] = "end_post" /\ UNCHANGED <<sessionVars, mr, mem, remote, shown>>
      BY <1>4 DEF EndPost
    <2>2. CASE e = "server" /\ SendControl(e, "end", "end_wait")
      <3> DEFINE q == PostSend(qp[e], "send", "end", 0, TRUE)
      <3>1. /\ Good(e, q) /\ Unretired(q) <= Unretired(qp[e]) + 1
            /\ Unretired(q) \in Nat
            /\ Broken(qp[e]) => Broken(q)
            /\ PostControl(e, q, CanPost(qp[e]), "end_wait")
        BY <1>1, <1>2, <2>2, WrappersGood, PostSendUnretired, PostSendFailuresLast,
           CompletionsUnretired DEF SendControl, Good
      <3>2. Polls => \/ Broken(qp[e])
                     \/ Stamped(params.repeat) /\ Unretired(qp[e]) = 0
        BY <1>1, <2>1, <2>2 DEF Phases, EndInv
      <3> HIDE DEF q
      <3>3. Polls => Broken(q) \/ (Stamped(params.repeat) /\ Unretired(q) <= 1)
        BY <3>1, <3>2
      <3> QED
        BY <1>3, <2>1, <3>1, <3>3, LabelsOK, PostControlStep
    <2>3. CASE e = "client" /\ RecvControl(e, "end", "end_wait")
      <3> DEFINE q == PostRecv(qp[e], "end", 0)
      <3>1. Good(e, q) /\ PostControl(e, q, CanRecv(qp[e]), "end_wait")
        BY <1>1, <1>2, <2>3, WrappersGood DEF RecvControl
      <3> HIDE DEF q
      <3> QED
        BY <1>3, <2>1, <2>3, <3>1, LabelsOK, PostControlStep
    <2> QED
      BY <1>4, <2>2, <2>3 DEF EndPost
  <1>5. CASE EndWait(e)
    <2>1. PICK c \in IF e = "server" THEN SendComp(e) ELSE RecvComp(e) :
             Waited(e, c, "stats")
      BY <1>5 DEF EndWait
    <2>2. pc[e] = "end_wait" /\ UNCHANGED <<sessionVars, mr, mem, remote, shown>>
      BY <1>5 DEF EndWait
    <2>3. /\ c.rv \in {1, -1} /\ Good(e, c.q)
          /\ e = "server" /\ c.rv >= 0 => ~Broken(qp[e])
      BY <1>1, <2>1, SendCompGood, RecvCompGood
    <2>4. c.rv >= 0 /\ e = "server" /\ Polls => Stamped(params.repeat)
      BY <1>1, <2>2, <2>3 DEF Phases, EndInv
    <2> QED
      BY <1>3, <2>1, <2>2, <2>3, <2>4, LabelsOK, WaitedStep
  <1>6. CASE PrintStats(e)
    <2>1. /\ shown' = [shown EXCEPT ![e] = <<mem[e]>>] /\ Goto(e, "deallocate")
          /\ UNCHANGED <<sessionVars, rv, mr, mem, remote, qp>>
      BY <1>6 DEF PrintStats
    <2>2. ShownOK(shown')
      <3>1. <<mem[e]>> \in Seq(Memory(e))
        BY <1>1 DEF TypeOK, MemOK
      <3> QED
        BY <1>1, <2>1, <3>1 DEF TypeOK, ShownOK
    <2>3. TypeOK' /\ params' = params
      <3>1. /\ slot' \in Slots /\ i' \in Packets /\ sum' \in 0..(params.count - 1)
            /\ start' \in [Slots -> 0..params.count] /\ end' \subseteq Slots
            /\ MemOK(mem') /\ remote' \in [Peers -> {"null", "in"}]
            /\ mr' \in [Peers -> [in : MrStates, out : MrStates]]
            /\ params' = params /\ rv' \in [Peers -> Int]
        BY <1>1, <2>1 DEF TypeOK, sessionVars
      <3>2. QpInv' /\ pc' \in [Peers -> Labels]
        BY <2>1, <3>1, Facts, QpSame, GotoOK, LabelsOK
      <3> QED
        BY <1>1, <2>2, <3>1, <3>2, TypesStep
    <2> QED
      BY <1>1, <2>1, <2>3, Facts, LeaveStep
  <1>7. CASE DeallocateBuffers(e)
    <2>1. UNCHANGED <<sessionVars, rv, mem, remote, shown>>
      BY <1>7 DEF DeallocateBuffers
    <2>2. CASE Crash(e)
      BY <2>1, <2>2, CrashStep
    <2>3. CASE /\ mr' = [mr EXCEPT ![e] = [in |-> "freed", out |-> "freed"]]
               /\ Goto(e, "disconnect") /\ UNCHANGED qp
      <3>1. /\ slot' \in Slots /\ i' \in Packets /\ sum' \in 0..(params.count - 1)
            /\ start' \in [Slots -> 0..params.count] /\ end' \subseteq Slots
            /\ MemOK(mem') /\ remote' \in [Peers -> {"null", "in"}]
            /\ ShownOK(shown')
            /\ params' = params /\ rv' \in [Peers -> Int]
        BY <1>1, <2>1 DEF TypeOK, sessionVars
      <3>2. mr' \in [Peers -> [in : MrStates, out : MrStates]]
        BY <1>1, <2>3 DEF TypeOK, MrStates
      <3>3. QpInv' /\ pc' \in [Peers -> Labels]
        BY <2>3, <3>1, Facts, QpSame, GotoOK, LabelsOK
      <3>4. TypeOK'
        BY <1>1, <3>1, <3>2, <3>3, TypesStep
      <3> QED
        BY <1>1, <2>1, <2>3, <3>1, <3>4, LeaveStep
    <2> QED
      BY <1>7, <2>2, <2>3 DEF DeallocateBuffers
  <1>8. CASE Disconnect(e)
    <2>1. Good(e, Destroyed(qp[e]))
      BY <1>1, WrappersGood
    <2>2. rv' \in [Peers -> Int]
      BY <1>8, Facts DEF Disconnect
    <2> QED
      BY <1>8, <2>1, <2>2, LeaveStep DEF Disconnect
  <1> QED
    BY <1>4, <1>5, <1>6, <1>7, <1>8 DEF Teardown

\* The buffers are allocated.
LEMMA AllocateKeeps ==
    ASSUME IInv, NEW e \in Peers, Allocate(e)
    PROVE  IInv'
  <1>1. /\ TypeOK /\ Phases /\ Good(e, qp[e]) /\ UNCHANGED <<sessionVars, remote, qp, shown>>
        /\ pc[e] = "allocate" /\ Return(e, 0) /\ Goto(e, AfterAllocate(e))
    BY Facts DEF Allocate
  <1>2. mr' \in [Peers -> [in : MrStates, out : MrStates]]
    <2>1. PICK r, o \in {"reg"} \union IF MayFail("reg") THEN {"null"} ELSE {} :
             mr' = [mr EXCEPT ![e] = [in |-> r, out |-> o]]
      BY DEF Allocate
    <2>2. r \in MrStates /\ o \in MrStates
      BY DEF MrStates
    <2>3. [in |-> r, out |-> o] \in [in : MrStates, out : MrStates]
      BY <2>2
    <2> QED
      BY <1>1, <2>1, <2>3 DEF TypeOK
  <1>3. MemOK(mem')
    <2> DEFINE m == [in  |-> Filling(e),
                     out |-> [j \in Indices(e) |-> [by |-> e, packet |-> j]]]
    <2>1. Filling(e) \in [Indices(e) -> Values]
      BY DEF Filling, Values
    <2>2. [j \in Indices(e) |-> [by |-> e, packet |-> j]] \in [Indices(e) -> Values]
      BY <1>1, ParamFacts DEF Values, Indices, Count
    <2>3. m \in Memory(e)
      BY <2>1, <2>2 DEF Memory
    <2>4. mem' = [mem EXCEPT ![e] = m]
      BY DEF Allocate
    <2> HIDE DEF m
    <2> QED
      BY <1>1, <2>3, <2>4 DEF TypeOK, MemOK
  <1>4. AfterAllocate(e) \in Labels /\ AfterAllocate(e) \in Before \ Sending
        /\ AfterAllocate(e) \notin {"slot", "slot_wait", "end_post", "end_wait", "stats"}
    BY LabelsOK DEF Before, Sending
  <1>5. pc' \in [Peers -> Labels] /\ rv' \in [Peers -> Int]
    BY <1>1, <1>4, Facts, GotoOK, ReturnOK
  <1>6. QpInv' /\ params' = params
    BY <1>1, Facts, QpSame DEF sessionVars
  <1>7. TypeOK'
    <2>1. /\ slot' \in Slots /\ i' \in Packets /\ sum' \in 0..(params.count - 1)
          /\ start' \in [Slots -> 0..params.count] /\ end' \subseteq Slots
          /\ remote' \in [Peers -> {"null", "in"}] /\ ShownOK(shown')
      BY <1>1 DEF TypeOK, sessionVars
    <2> QED
      BY <1>1, <1>2, <1>3, <1>5, <1>6, <2>1, TypesStep
  <1>8. /\ Unretired(qp[e]) = 0
        /\ e = "server" => slot = 1 /\ i = 1 /\ sum = 0
    BY <1>1 DEF Phases, ExchangeInv, SlotInv, Before
  <1> QED
    BY <1>1, <1>4, <1>5, <1>6, <1>7, <1>8, ProcessStep

\* The client's slots, the server's time stamps, and a division by zero.
LEMMA SlotsStart ==
    ASSUME IInv, ClientSlots \/ Calloc \/ \E e \in Peers : DivideByZero(e)
    PROVE  IInv'
  <1>1. CASE ClientSlots
    <2>1. "end_post" \notin Before \union Sending /\ "end_post" \in Labels
          /\ "client" # "server"
      BY DEF Before, Sending, Labels
    <2> QED
      BY <1>1, <2>1, Facts, ProcessStep DEF ClientSlots
  <1>2. CASE Calloc
    <2>1. /\ Unretired(qp["server"]) = 0 /\ slot = 1 /\ i = 1 /\ sum = 0
      BY <1>2, Facts DEF Calloc, Phases, ExchangeInv, SlotInv, Before
    <2>2. CASE Goto("server", "slot")
      <3>1. "slot" \notin Before \union Sending /\ "slot" \in Labels
        BY DEF Before, Sending, Labels
      <3> QED
        BY <1>2, <2>1, <2>2, <3>1, Facts, ProcessStep DEF Calloc
    <2>3. CASE Goto("server", "deallocate")
      BY <1>2, <2>3, Facts, LeaveStep DEF Calloc
    <2> QED
      BY <1>2, <2>2, <2>3 DEF Calloc
  <1>3. ASSUME NEW e \in Peers, DivideByZero(e) PROVE IInv'
    BY <1>3, CrashStep DEF DivideByZero
  <1> QED
    BY <1>1, <1>2, <1>3

\* The server goes on to l within or behind its slots: the exchange is over.
LEMMA ServerSlotStep ==
    ASSUME IInv, pc'["server"] \notin Before \union Sending,
           pc'["client"] = pc["client"], qp'["client"] = qp["client"]
    PROVE  ExchangeInv'
  <1> SUFFICES ASSUME NEW d \in Peers
               PROVE  /\ pc'[d] \in Before => Unretired(qp'[d]) = 0
                      /\ pc'[d] \in Sending => Unretired(qp'[d]) <= 1
    BY DEF ExchangeInv, Unretired
  <1>1. CASE d = "server"
    BY <1>1
  <1>2. CASE d = "client"
    BY <1>2, Facts DEF Phases, ExchangeInv
  <1> QED
    BY <1>1, <1>2 DEF Peers

\* A packet is written.
LEMMA SlotWriteKeeps ==
    ASSUME IInv, SlotWrite
    PROVE  IInv'
  <1> DEFINE s == qp["server"]
             q == PostSend(qp["server"], "write", "data", i, Signal)
  <1>1. /\ TypeOK /\ QpInv /\ Phases /\ Good("server", s) /\ Accounted(s)
        /\ "server" \in Peers
        /\ "client" \in Peers \ {"server"}
    BY Facts
  <1>2. /\ Good("server", q) /\ Unretired(q) <= Unretired(s) + 1
        /\ Unretired(s) \in Nat /\ Unretired(q) \in Nat
    BY <1>1, WriteGood, CompletionsUnretired DEF Good
  <1>3. /\ pc["server"] = "slot" /\ start' = [start EXCEPT ![slot] = i]
        /\ qp' = [qp EXCEPT !["server"] = q]
        /\ UNCHANGED <<params, rv, slot, sum, mr, mem, remote, end, shown>>
    BY DEF SlotWrite, SetQp
  <1>4. \/ i < params.count /\ i' = i + 1 /\ pc' = pc
        \/ i' = 1 /\ pc' = [pc EXCEPT !["server"] = "slot_wait"]
    BY DEF SlotWrite, NextPacket, Goto
  <1>5. /\ sum = 0 /\ Unretired(s) < i /\ Stamped(slot - 1)
    BY <1>1, <1>3 DEF Phases, SlotInv
  <1>6. /\ i \in Nat /\ i > 0 /\ i <= params.count /\ params.count \in Nat
        /\ slot \in Slots /\ slot \in Nat /\ slot > 0 /\ 1 \in Packets
        /\ Packets = 1..params.count
    BY <1>1, ParamFacts, SMTT(30) DEF TypeOK, Slots
  <1> HIDE DEF q, s
  <1>7. QpInv' /\ qp'["server"] = q /\ qp'["client"] = qp["client"]
    BY <1>1, <1>2, <1>3, QpStep
  <1>8. /\ i' \in Packets /\ pc' \in [Peers -> Labels]
        /\ pc'["client"] = pc["client"]
        /\ \/ pc'["server"] = "slot" /\ i' = i + 1
           \/ pc'["server"] = "slot_wait" /\ i' = 1
    <2>1. i' \in Packets
      BY <1>4, <1>6
    <2>2. pc \in [Peers -> Labels] /\ "slot_wait" \in Labels
      BY <1>1 DEF TypeOK, Labels
    <2> QED
      BY <1>1, <1>3, <1>4, <2>1, <2>2
  <1>9. start' \in [Slots -> 0..params.count] /\ start'[slot] > 0
        /\ \A t \in Slots : t # slot => start'[t] = start[t]
    BY <1>1, <1>3, <1>6 DEF TypeOK
  <1>10. TypeOK'
    <2>1. /\ slot' \in Slots /\ sum' \in 0..(params.count - 1) /\ end' \subseteq Slots
          /\ mr' \in [Peers -> [in : MrStates, out : MrStates]]
          /\ MemOK(mem') /\ remote' \in [Peers -> {"null", "in"}]
          /\ ShownOK(shown') /\ rv' \in [Peers -> Int]
          /\ params' = params
      BY <1>1, <1>3 DEF TypeOK
    <2> QED
      BY <1>1, <1>7, <1>8, <1>9, <2>1, TypesStep
  <1>11. ExchangeInv'
    <2>1. pc'["server"] \notin Before \union Sending
      BY <1>8 DEF Before, Sending
    <2> QED
      BY <1>7, <1>8, <2>1, ServerSlotStep
  <1>12. Stamped(slot - 1)' /\ slot' = slot /\ end' = end
    <2>1. ASSUME NEW t \in 1..(slot - 1) PROVE start'[t] > 0 /\ t \in end'
      <3>1. t # slot /\ t \in Slots
        BY <1>1, <1>6, ParamFacts DEF Slots
      <3> QED
        BY <1>3, <1>5, <1>9, <3>1 DEF Stamped
    <2> QED
      BY <1>3, <2>1 DEF Stamped
  <1>13. SlotInv'
    <2>1. CASE pc'["server"] = "slot" /\ i' = i + 1
      <3>1. Unretired(q) < i'
        BY <1>2, <1>5, <1>6, <2>1
      <3>2. "slot" \notin Before \union Sending /\ "slot" # "slot_wait"
        BY DEF Before, Sending
      <3> QED
        BY <1>3, <1>5, <1>7, <1>9, <1>12, <2>1, <3>1, <3>2 DEF SlotInv, Unretired
    <2>2. CASE pc'["server"] = "slot_wait" /\ i' = 1
      <3>1. sum' = 0 /\ params'.count = params.count /\ Unretired(q) <= params.count
        BY <1>2, <1>3, <1>5, <1>6
      <3>2. sum' + Unretired(q) <= params'.count
        BY <1>2, <3>1
      <3>3. "slot_wait" \notin Before \union Sending /\ "slot" # "slot_wait"
        BY DEF Before, Sending
      <3> QED
        BY <1>3, <1>7, <1>9, <1>12, <2>2, <3>2, <3>3 DEF SlotInv, Unretired
    <2> QED
      BY <1>8, <2>1, <2>2
  <1>14. EndInv'
    BY <1>8 DEF EndInv
  <1> QED
    BY <1>7, <1>10, <1>11, <1>13, <1>14 DEF IInv, Phases

\* The completions of a slot are polled.
LEMMA SlotWaitKeeps ==
    ASSUME IInv, SlotWait
    PROVE  IInv'
  <1> DEFINE s == qp["server"]
             k == Polled(s)
             q == PollBatch(s, k)
  <1>1. /\ TypeOK /\ QpInv /\ Phases /\ Good("server", s) /\ Accounted(s)
        /\ "server" \in Peers /\ "client" \in Peers \ {"server"}
        /\ pc \in [Peers -> Labels] /\ rv \in [Peers -> Int]
    BY Facts
  <1>2. /\ pc["server"] = "slot_wait"
        /\ UNCHANGED <<params, i, mr, mem, remote, start, shown>>
    BY DEF SlotWait, InitialSum
  <1>3. /\ i = 1 /\ sum + Unretired(s) <= params.count /\ Stamped(slot - 1)
        /\ start[slot] > 0
    BY <1>1, <1>2 DEF Phases, SlotInv
  <1>4. /\ sum \in Nat /\ sum < params.count /\ params.count \in Nat
        /\ params.repeat \in Nat /\ Unretired(s) \in Nat
        /\ slot \in Slots /\ slot \in Nat /\ slot > 0 /\ slot <= params.repeat
        /\ 0 \in 0..(params.count - 1)
    BY <1>1, ParamFacts, CompletionsUnretired, SMTT(30) DEF TypeOK, Slots
  <1>5. ASSUME pc' \in [Peers -> Labels], rv' \in [Peers -> Int], slot' \in Slots,
               sum' \in 0..(params.count - 1), end' \subseteq Slots, QpInv'
        PROVE  TypeOK'
    <2>1. /\ i' \in Packets /\ start' \in [Slots -> 0..params.count]
          /\ mr' \in [Peers -> [in : MrStates, out : MrStates]]
          /\ MemOK(mem') /\ remote' \in [Peers -> {"null", "in"}]
          /\ ShownOK(shown') /\ params' = params
      BY <1>1, <1>2 DEF TypeOK
    <2> QED
      BY <1>1, <1>5, <2>1, TypesStep
  <1>6. ASSUME NEW r, Good("server", r), Polls => Broken(r), SlotFails(r)
        PROVE  IInv'
    <2>1. /\ qp' = [qp EXCEPT !["server"] = r] /\ Return("server", -1)
          /\ Goto("server", "end_post") /\ sum' = 0 /\ slot' = slot /\ end' = end
      BY <1>6 DEF SlotFails, InitialSum, SetQp
    <2>2. /\ QpInv' /\ qp'["server"] = r /\ qp'["client"] = qp["client"]
          /\ rv' \in [Peers -> Int] /\ pc' \in [Peers -> Labels]
      <3>1. /\ QpInv' /\ qp'["server"] = r /\ qp'["client"] = qp["client"]
        BY <1>1, <1>2, <1>6, <2>1, QpStep
      <3>2. -1 \in Int /\ "end_post" \in Labels
        BY LabelsOK
      <3>3. rv' \in [Peers -> Int]
        BY <1>1, <2>1, <3>2, ReturnOK
      <3>4. pc' \in [Peers -> Labels]
        BY <1>1, <2>1, <3>2, GotoOK
      <3> QED
        BY <3>1, <3>3, <3>4
    <2>3. pc'["server"] = "end_post" /\ pc'["client"] = pc["client"]
      BY <1>1, <2>1 DEF Goto
    <2>4. TypeOK'
      BY <1>1, <1>4, <1>5, <2>1, <2>2 DEF TypeOK
    <2>5. ExchangeInv' /\ SlotInv'
      BY <2>2, <2>3, ServerSlotStep DEF Before, Sending, SlotInv
    <2>6. EndInv'
      <3>1. Polls' => Polls
        BY <1>2 DEF Polls, MayFail
      <3> QED
        BY <1>6, <2>2, <2>3, <3>1 DEF EndInv, Broken
    <2> QED
      BY <2>2, <2>4, <2>5, <2>6 DEF IInv, Phases
  <1>7. CASE MayFail("poll") /\ SlotFails(s)
    BY <1>1, <1>6, <1>7 DEF Polls
  <1>8. CASE s.scq # << >>
    <2>1. /\ k \in 1..Len(s.scq) /\ k \in Nat /\ k > 0 /\ Good("server", q)
          /\ Unretired(q) \in Nat /\ Unretired(q) <= Unretired(s) - k
          /\ (\E j \in 1..k : ~s.scq[j].ok) => Broken(q)
      BY <1>1, <1>8, PolledGood
    <2>2. CASE ~(\A j \in 1..k : s.scq[j].ok) /\ SlotFails(q)
      <3>1. Broken(q)
        BY <2>1, <2>2
      <3> QED
        BY <1>6, <2>1, <2>2, <3>1
    <2>3. CASE /\ ~Enough(k) /\ SetQp("server", q) /\ sum' = sum + k
               /\ UNCHANGED <<pc, rv, slot, end>>
      <3> HIDE DEF q, k, s
      <3>1. QpInv' /\ qp'["server"] = q /\ qp'["client"] = qp["client"]
        BY <1>1, <1>2, <2>1, <2>3, QpStep DEF SetQp
      <3>2. /\ sum' \in 0..(params.count - 1)
            /\ sum' + Unretired(q) <= params.count
        BY <1>3, <1>4, <2>1, <2>3, SMTT(30) DEF Enough
      <3>3. TypeOK'
        BY <1>1, <1>4, <1>5, <2>3, <3>1, <3>2 DEF TypeOK
      <3>4. ExchangeInv'
        BY <1>2, <2>3, <3>1, ServerSlotStep DEF Before, Sending
      <3>5. pc'["server"] = "slot_wait" /\ i' = 1 /\ slot' = slot /\ start' = start
            /\ end' = end /\ params' = params
        BY <1>2, <1>3, <2>3
      <3>6. Stamped(slot - 1)' /\ start'[slot'] > 0
        BY <1>3, <3>5 DEF Stamped
      <3>7. SlotInv'
        BY <3>1, <3>2, <3>5, <3>6 DEF SlotInv, Unretired, Before, Sending
      <3>8. EndInv'
        BY <3>5 DEF EndInv
      <3> QED
        BY <3>1, <3>3, <3>4, <3>7, <3>8 DEF IInv, Phases
    <2>4. CASE /\ Enough(k) /\ SetQp("server", q) /\ Return("server", sum + k)
               /\ sum' = 0 /\ end' = end \union {slot}
               /\ \/ SlotsLeft /\ slot' = slot + 1 /\ Goto("server", "slot")
                  \/ ~SlotsLeft /\ Goto("server", "end_post") /\ UNCHANGED slot
      <3> HIDE DEF q, k, s
      <3>1. /\ QpInv' /\ qp'["server"] = q /\ qp'["client"] = qp["client"]
            /\ rv' \in [Peers -> Int]
        <4>1. sum + k \in Int
          BY <1>4, <2>1
        <4> QED
          BY <1>1, <1>2, <2>1, <2>4, <4>1, QpStep, ReturnOK DEF SetQp
      <3>2. Unretired(q) = 0
        BY <1>3, <1>4, <2>1, <2>4, SMTT(30) DEF Enough
      <3>3. end' \subseteq Slots
        BY <1>1, <1>4, <2>4 DEF TypeOK
      <3>4. ASSUME NEW t \in 1..slot PROVE start'[t] > 0 /\ t \in end'
        <4>1. CASE t = slot
          BY <1>2, <1>3, <2>4, <4>1
        <4>2. CASE t # slot
          <5>1. t \in 1..(slot - 1)
            BY <1>4, <4>2
          <5> QED
            BY <1>2, <1>3, <2>4, <5>1 DEF Stamped
        <4> QED
          BY <4>1, <4>2
      <3>5. /\ i' = 1 /\ params' = params
        BY <1>2, <1>3
      <3>6. CASE SlotsLeft /\ slot' = slot + 1 /\ Goto("server", "slot")
        <4>1. slot' \in Slots /\ slot' - 1 = slot
          BY <1>4, <3>6 DEF SlotsLeft, Slots
        <4>2. /\ pc' \in [Peers -> Labels] /\ pc'["server"] = "slot"
              /\ pc'["client"] = pc["client"]
          BY <1>1, <3>6, GotoOK, LabelsOK DEF Goto
        <4>3. TypeOK'
          BY <1>4, <1>5, <2>4, <3>1, <3>3, <4>1, <4>2
        <4>4. ExchangeInv'
          BY <3>1, <4>2, ServerSlotStep DEF Before, Sending
        <4>5. \A t \in 1..(slot' - 1) : start'[t] > 0 /\ t \in end'
          BY <3>4, <4>1
        <4>6. Unretired(q) < i' /\ ~(i' > 1)
          BY <3>2, <3>5
        <4>7. SlotInv'
          BY <2>4, <3>1, <4>2, <4>5, <4>6
             DEF SlotInv, Stamped, Unretired, Before, Sending
        <4>8. EndInv'
          BY <4>2 DEF EndInv
        <4> QED
          BY <3>1, <4>3, <4>4, <4>7, <4>8 DEF IInv, Phases
      <3>7. CASE ~SlotsLeft /\ Goto("server", "end_post") /\ UNCHANGED slot
        <4>1. slot = params.repeat /\ slot' \in Slots
          BY <1>4, <3>7 DEF SlotsLeft
        <4>2. /\ pc' \in [Peers -> Labels] /\ pc'["server"] = "end_post"
              /\ pc'["client"] = pc["client"]
          BY <1>1, <3>7, GotoOK, LabelsOK DEF Goto
        <4>3. TypeOK'
          BY <1>4, <1>5, <2>4, <3>1, <3>3, <4>1, <4>2
        <4>4. ExchangeInv' /\ SlotInv'
          BY <3>1, <4>2, ServerSlotStep DEF Before, Sending, SlotInv
        <4>5. \A t \in 1..params'.repeat : start'[t] > 0 /\ t \in end'
          BY <3>4, <3>5, <4>1
        <4>6. EndInv'
          BY <3>1, <3>2, <4>2, <4>5 DEF EndInv, Stamped, Unretired
        <4> QED
          BY <3>1, <4>3, <4>4, <4>6 DEF IInv, Phases
      <3> QED
        BY <2>4, <3>6, <3>7
    <2>5. \/ MayFail("poll") /\ SlotFails(s)
          \/ ~(\A j \in 1..k : s.scq[j].ok) /\ SlotFails(q)
          \/ /\ ~Enough(k) /\ SetQp("server", q) /\ sum' = sum + k
             /\ UNCHANGED <<pc, rv, slot, end>>
          \/ /\ Enough(k) /\ SetQp("server", q) /\ Return("server", sum + k)
             /\ sum' = 0 /\ end' = end \union {slot}
             /\ \/ SlotsLeft /\ slot' = slot + 1 /\ Goto("server", "slot")
                \/ ~SlotsLeft /\ Goto("server", "end_post") /\ UNCHANGED slot
      BY Zenon DEF SlotWait, InitialSum
    <2> QED
      BY <1>7, <2>2, <2>3, <2>4, <2>5
  <1> QED
    BY <1>7, <1>8, Zenon DEF SlotWait, InitialSum

-----------------------------------------------------------------------------
(* The steps of the NICs.                                                   *)

\* A NIC moves one queue pair.
LEMMA NicStep ==
    ASSUME IInv, NEW e \in Peers, NEW q, Good(e, q), SetQp(e, q),
           Unretired(q) = Unretired(qp[e]), Broken(qp[e]) => Broken(q),
           UNCHANGED <<sessionVars, pc, rv, mr, remote, shown>>,
           MemOK(mem')
    PROVE  IInv'
  <1>1. /\ QpInv' /\ qp'[e] = q /\ \A d \in Peers \ {e} : qp'[d] = qp[d]
    BY Facts, QpStep DEF SetQp, sessionVars
  <1>2. Phases'
    <2>1. \A d \in Peers : /\ Unretired(qp'[d]) = Unretired(qp[d])
                           /\ Broken(qp[d]) => Broken(qp'[d])
      BY <1>1
    <2> QED
      BY <2>1, Facts, PhasesNic
  <1>3. TypeOK'
    <2>1. /\ slot' \in Slots /\ i' \in Packets /\ sum' \in 0..(params.count - 1)
          /\ start' \in [Slots -> 0..params.count] /\ end' \subseteq Slots
          /\ remote' \in [Peers -> {"null", "in"}] /\ ShownOK(shown')
          /\ mr' \in [Peers -> [in : MrStates, out : MrStates]]
          /\ params' = params /\ pc' \in [Peers -> Labels] /\ rv' \in [Peers -> Int]
      BY DEF IInv, TypeOK, sessionVars
    <2> QED
      BY <1>1, <2>1, Facts, TypesStep
  <1> QED
    BY <1>1, <1>2, <1>3 DEF IInv

\* Both NICs move.
LEMMA NicBoth ==
    ASSUME IInv, qp' \in [Peers -> QueuePairs],
           \A d \in Peers : /\ Good(d, qp'[d])
                            /\ Unretired(qp'[d]) = Unretired(qp[d])
                            /\ Broken(qp[d]) => Broken(qp'[d]),
           UNCHANGED <<sessionVars, pc, rv, mr, mem, remote, shown>>
    PROVE  IInv'
  <1>1. QpInv'
    BY QpBoth DEF sessionVars
  <1>2. Phases'
    BY Facts, PhasesNic
  <1>3. TypeOK'
    BY <1>1, Facts, TypesKept
  <1> QED
    BY <1>1, <1>2, <1>3 DEF IInv

\* What the NICs leave is good.
LEMMA NicGood ==
    ASSUME NEW e \in Peers, NEW q, Good(e, q)
    PROVE  /\ Good(e, Flushed(q)) /\ Unretired(Flushed(q)) = Unretired(q)
           /\ Broken(q) => Broken(Flushed(q))
           /\ q.sent < Len(q.sq) =>
                 /\ Good(e, Executed(q)) /\ Unretired(Executed(q)) = Unretired(q)
                 /\ Broken(q) => Broken(Executed(q))
                 /\ q.sq[q.sent + 1] \in Mine(e)
           /\ q.sent > 0 =>
                 /\ Good(e, Acknowledged(q))
                 /\ Unretired(Acknowledged(q)) = Unretired(q)
                 /\ Broken(q) => Broken(Acknowledged(q))
           /\ \A m \in Buffers : q.rq # << >> =>
                 /\ Good(e, Received(q, m)) /\ Unretired(Received(q, m)) = Unretired(q)
                 /\ Broken(q) => Broken(Received(q, m))
  <1>1. Accounted(q) /\ FailuresLast(q) /\ Holds(q, Mine(e)) /\ Drained(q)
    BY DEF Good
  <1>2. /\ Good(e, Flushed(q)) /\ Unretired(Flushed(q)) = Unretired(q)
        /\ Broken(q) => Broken(Flushed(q))
    BY <1>1, WrappersGood, NicUnretired, FlushedFailuresLast
  <1>3. ASSUME q.sent < Len(q.sq)
        PROVE  /\ Good(e, Executed(q)) /\ Unretired(Executed(q)) = Unretired(q)
               /\ Broken(q) => Broken(Executed(q))
               /\ q.sq[q.sent + 1] \in Mine(e)
    <2>1. q.sent + 1 \in 1..Len(q.sq)
      BY <1>1, <1>3, QpFields
    <2>2. q.sq[q.sent + 1] \in Mine(e)
      BY <1>1, <2>1 DEF Holds
    <2> QED
      BY <1>1, <1>3, <2>2, ExecutedAccounted, OthersHold, OthersFailuresLast,
         NicUnretired, DrainedKept DEF Good
  <1>4. ASSUME q.sent > 0
        PROVE  /\ Good(e, Acknowledged(q))
               /\ Unretired(Acknowledged(q)) = Unretired(q)
               /\ Broken(q) => Broken(Acknowledged(q))
    BY <1>1, <1>4, AcknowledgedAccounted, AcknowledgedHolds,
       AcknowledgedFailuresLast, NicUnretired, DrainedKept DEF Good
  <1>5. ASSUME NEW m \in Buffers, q.rq # << >>
        PROVE  /\ Good(e, Received(q, m)) /\ Unretired(Received(q, m)) = Unretired(q)
               /\ Broken(q) => Broken(Received(q, m))
    BY <1>1, <1>5, ReceivedAccounted, OthersHold, OthersFailuresLast,
       RecvUnretired, DrainedKept DEF Good
  <1> QED
    BY <1>2, <1>3, <1>4, <1>5

\* A failure at the peer breaks both ends.
LEMMA FlushedBothKeeps ==
    ASSUME IInv, FlushedBoth, UNCHANGED <<sessionVars, pc, rv, mr, remote, shown>>
    PROVE  IInv'
  <1>1. /\ qp' = [e \in Peers |-> Flushed(qp[e])] /\ mem' = mem
    BY DEF FlushedBoth
  <1>2. \A d \in Peers : /\ Good(d, Flushed(qp[d]))
                         /\ Unretired(Flushed(qp[d])) = Unretired(qp[d])
                         /\ Broken(qp[d]) => Broken(Flushed(qp[d]))
                         /\ Flushed(qp[d]) \in QueuePairs
    BY Facts, NicGood DEF Good, Accounted
  <1>3. /\ qp' \in [Peers -> QueuePairs]
        /\ \A d \in Peers : qp'[d] = Flushed(qp[d])
    BY <1>1, <1>2
  <1> QED
    BY <1>1, <1>2, <1>3, NicBoth

\* No step of a NIC disturbs the invariant.
LEMMA NicKeeps ==
    ASSUME IInv, NEW e \in Peers, Nic(e) \/ FabricFails(e)
    PROVE  IInv'
  <1>1. /\ TypeOK /\ \A d \in Peers : Good(d, qp[d])
        /\ Peer(e) \in Peers /\ Peer(e) # e /\ MemOK(mem)
        /\ qp \in [Peers -> QueuePairs]
    BY Facts DEF TypeOK, Peers, Peer
  <1>2. CASE NicAck(e)
    BY <1>1, <1>2, NicGood, NicStep DEF NicAck
  <1>3. CASE NicTimeout(e) \/ FabricFails(e)
    BY <1>1, <1>3, NicGood, NicStep DEF NicTimeout, FabricFails
  <1>4. CASE NicExecute(e)
    <2> DEFINE wr == qp[e].sq[qp[e].sent + 1]
    <2>1. /\ qp[e].sent < Len(qp[e].sq)
          /\ UNCHANGED <<sessionVars, pc, rv, mr, remote, shown>>
      BY <1>4 DEF NicExecute
    <2>2. /\ wr \in Mine(e) /\ Good(e, Executed(qp[e]))
          /\ Unretired(Executed(qp[e])) = Unretired(qp[e])
          /\ Broken(qp[e]) => Broken(Executed(qp[e]))
      BY <1>1, <2>1, NicGood
    <2>3. \/ SetQp(e, Flushed(qp[e])) /\ UNCHANGED mem
          \/ wr.op = "send" /\ DeliverSend(e, wr)
          \/ wr.op = "write" /\ ServeWrite(e, wr)
      BY <1>4 DEF NicExecute
    <2> HIDE DEF wr
    <2>4. CASE SetQp(e, Flushed(qp[e])) /\ UNCHANGED mem
      BY <1>1, <2>1, <2>4, NicGood, NicStep
    <2>5. CASE FlushedBoth
      BY <2>1, <2>5, FlushedBothKeeps
    <2>6. CASE DeliverSend(e, wr) /\ ~FlushedBoth
      <3> DEFINE p == Peer(e)
                 m == [kind |-> wr.kind, n |-> 0]
      <3>1. /\ qp[p].rq # << >> /\ mem' = mem
            /\ qp' = [qp EXCEPT ![e] = Executed(@), ![p] = Received(@, m)]
        BY <2>6 DEF DeliverSend
      <3>2. m \in Buffers
        BY <2>2 DEF Mine, WorkRequests, Buffers
      <3> HIDE DEF m
      <3>3. /\ Good(p, Received(qp[p], m))
            /\ Unretired(Received(qp[p], m)) = Unretired(qp[p])
            /\ Broken(qp[p]) => Broken(Received(qp[p], m))
        BY <1>1, <3>1, <3>2, NicGood
      <3>4. Executed(qp[e]) \in QueuePairs /\ Received(qp[p], m) \in QueuePairs
        BY <2>2, <3>3 DEF Good, Accounted
      <3>5. /\ qp' \in [Peers -> QueuePairs]
            /\ qp'[e] = Executed(qp[e]) /\ qp'[p] = Received(qp[p], m)
            /\ \A d \in Peers : d = e \/ d = p
        <4>1. qp' \in [Peers -> QueuePairs]
          BY <1>1, <3>1, <3>4
        <4>2. qp'[e] = Executed(qp[e]) /\ qp'[p] = Received(qp[p], m)
          BY <1>1, <3>1
        <4>3. \A d \in Peers : d = e \/ d = p
          BY DEF Peers, Peer
        <4> QED
          BY <4>1, <4>2, <4>3
      <3> HIDE DEF p
      <3>6. \A d \in Peers : /\ Good(d, qp'[d])
                             /\ Unretired(qp'[d]) = Unretired(qp[d])
                             /\ Broken(qp[d]) => Broken(qp'[d])
        BY <2>2, <3>3, <3>5
      <3> QED
        BY <2>1, <3>1, <3>5, <3>6, NicBoth
    <2>7. CASE wr.op = "write" /\ ServeWrite(e, wr) /\ ~FlushedBoth
      <3>1. /\ SetQp(e, Executed(qp[e]))
            /\ mem' = [mem EXCEPT ![Peer(e)].in[wr.n] = mem[e].out[wr.n]]
        BY <2>7 DEF ServeWrite
      <3>2. wr.n \in Indices(e)
        BY <1>1, <2>2, <2>7, ParamFacts DEF Mine
      <3>3. /\ mem[e].out[wr.n] \in Values
            /\ mem[Peer(e)] \in Memory(Peer(e))
            /\ mem[Peer(e)].in \in [Indices(Peer(e)) -> Values]
        BY <1>1, <3>2 DEF MemOK, Memory
      <3>4. [mem[Peer(e)].in EXCEPT ![wr.n] = mem[e].out[wr.n]]
            \in [Indices(Peer(e)) -> Values]
        BY <3>3
      <3>5. [mem[Peer(e)] EXCEPT !.in = [mem[Peer(e)].in EXCEPT
                                            ![wr.n] = mem[e].out[wr.n]]]
            \in Memory(Peer(e))
        BY <3>3, <3>4 DEF Memory
      <3>6. mem' = [mem EXCEPT ![Peer(e)] =
                       [mem[Peer(e)] EXCEPT !.in = [mem[Peer(e)].in EXCEPT
                                                       ![wr.n] = mem[e].out[wr.n]]]]
        BY <3>1
      <3>7. MemOK(mem')
        BY <1>1, <3>5, <3>6 DEF MemOK
      <3> QED
        BY <2>1, <2>2, <3>1, <3>7, NicStep
    <2> QED
      BY <2>3, <2>4, <2>5, <2>6, <2>7
  <1> QED
    BY <1>2, <1>3, <1>4 DEF Nic

-----------------------------------------------------------------------------
(* The invariant, and what it says.                                         *)

\* The connected state run() starts from.
LEMMA InitIInv == Init => IInv
  <1> SUFFICES ASSUME Init PROVE IInv
    OBVIOUS
  <1>1. params \in Params /\ params \in ParamSet
    BY ParamAssumption DEF Init
  <1>2. /\ params.repeat \in Nat /\ params.repeat > 0
        /\ params.count \in Nat /\ params.count > 0
    BY <1>1 DEF Params
  <1>3. "rts" \in QpStates
    BY DEF QpStates
  <1>4. /\ Accounted(NewQp("rts")) /\ FailuresLast(NewQp("rts"))
        /\ Drained(NewQp("rts"))
        /\ \A e \in Peers : Holds(NewQp("rts"), Mine(e))
        /\ Unretired(NewQp("rts")) = 0
    BY <1>3, NewQpAccounted, NewQpHolds DEF FailuresLast, Drained, NewQp, Unretired
  <1>5. \A e \in Peers : qp[e] = NewQp("rts") /\ Good(e, qp[e])
    BY <1>4 DEF Init, Good
  <1>6. QpInv
    BY <1>4, <1>5 DEF Init, QpInv, Accounted
  <1>7. \A e \in Peers : Filling(e) \in [Indices(e) -> Values]
    BY DEF Filling, Values
  <1>8. MemOK(mem)
    BY <1>7 DEF Init, MemOK, Memory
  <1>9. TypeOK
    <2>1. pc \in [Peers -> Labels] /\ rv \in [Peers -> Int]
      BY DEF Init, Labels
    <2>2. slot \in Slots /\ i \in Packets /\ sum \in 0..(params.count - 1)
      BY <1>2 DEF Init, Slots, Packets
    <2>3. /\ mr \in [Peers -> [in : MrStates, out : MrStates]]
          /\ remote \in [Peers -> {"null", "in"}]
      BY DEF Init, MrStates
    <2>4. start \in [Slots -> 0..params.count] /\ end \subseteq Slots
      BY <1>2 DEF Init, Slots
    <2>5. ShownOK(shown)
      BY DEF Init, ShownOK
    <2> QED
      BY <1>1, <1>6, <1>8, <2>1, <2>2, <2>3, <2>4, <2>5 DEF TypeOK, QpInv
  <1>10. Phases
    <2>1. /\ \A e \in Peers : pc[e] = "allocate" /\ Unretired(qp[e]) = 0
          /\ slot = 1 /\ i = 1 /\ sum = 0 /\ "server" \in Peers
      BY <1>4, <1>5 DEF Init, Peers
    <2> QED
      BY <2>1 DEF Phases, ExchangeInv, SlotInv, EndInv, Sending
  <1> QED
    BY <1>6, <1>9, <1>10 DEF IInv

\* Every step keeps it.
LEMMA NextIInv == IInv /\ [Next]_vars => IInv'
  <1> SUFFICES ASSUME IInv, [Next]_vars PROVE IInv'
    OBVIOUS
  <1>1. CASE UNCHANGED vars
    <2>1. /\ TypeOK' /\ params' = params
      BY <1>1, Facts DEF vars, TypeOK, Slots, Packets, MemOK, ShownOK, Memory,
                         Indices, Count
    <2>2. QpInv'
      BY <1>1, Facts, QpSame DEF vars
    <2>3. UNCHANGED <<sessionVars, pc>> /\ qp' = qp
      BY <1>1 DEF vars, sessionVars
    <2>4. Phases'
      BY <2>3, Facts, PhasesNic
    <2> QED
      BY <2>1, <2>2, <2>4 DEF IInv
  <1>2. ASSUME NEW e \in Peers, Process(e) PROVE IInv'
    BY <1>2, AllocateKeeps, ExchangeKeeps, SlotsStart, TeardownKeeps DEF Process
  <1>3. CASE ClientStep
    BY <1>2, <1>3, SlotsStart, Facts DEF ClientStep
  <1>4. CASE ServerStep
    BY <1>2, <1>4, SlotsStart, SlotWriteKeeps, SlotWaitKeeps, Facts DEF ServerStep
  <1>5. ASSUME NEW e \in Peers, Nic(e) \/ FabricFails(e) PROVE IInv'
    BY <1>5, NicKeeps
  <1>6. CASE Stopped
    BY <1>1, <1>6 DEF Stopped
  <1> QED
    BY <1>1, <1>3, <1>4, <1>5, <1>6 DEF Next, Step

\* The invariant holds throughout.
THEOREM Invariance == Spec => []IInv
  BY InitIInv, NextIInv, PTL DEF Spec

\* Every variable of a control session keeps its type.
THEOREM TypeCorrect == Spec => []TypeOK
  <1>1. IInv => TypeOK
    BY DEF IInv
  <1> QED
    BY <1>1, Invariance, PTL

\* A slot finds the send queue empty, whatever the number of slots and packets
\* and whatever failed before.
THEOREM QueueEmptied == Spec => []SlotFindsQueueEmpty
  <1>1. IInv => SlotFindsQueueEmpty
    <2> SUFFICES ASSUME IInv, pc["server"] = "slot", i = 1
                 PROVE  qp["server"].posted = qp["server"].retired
      BY DEF SlotFindsQueueEmpty
    <2>1. Unretired(qp["server"]) < 1 /\ Unretired(qp["server"]) \in Nat
      BY Facts, CompletionsUnretired DEF Phases, SlotInv
    <2>2. qp["server"].posted \in Nat /\ qp["server"].retired \in Nat
      BY Facts, QpFields
    <2> QED
      BY <2>1, <2>2 DEF Unretired
  <1> QED
    BY <1>1, Invariance, PTL

\* dccs_rdma_send_comp never writes behind the end of wc_arr.
THEOREM PollStaysInArray == Spec => []PollFits
  <1>1. IInv => PollFits
    <2> SUFFICES ASSUME IInv, pc["server"] = "slot_wait"
                 PROVE  sum + Polled(qp["server"]) <= params.count
      BY DEF PollFits
    <2>1. sum + Unretired(qp["server"]) <= params.count
      BY Facts DEF Phases, SlotInv
    <2>2. /\ Unretired(qp["server"]) \in Nat /\ Len(qp["server"].scq) \in Nat
          /\ Len(qp["server"].scq) <= Unretired(qp["server"])
          /\ sum \in Nat /\ params.count \in Nat
      BY Facts, CompletionsUnretired, ParamFacts, SMTT(30) DEF TypeOK
    <2>3. /\ Polled(qp["server"]) <= Len(qp["server"].scq)
          /\ Polled(qp["server"]) \in Nat
      BY <2>2 DEF Polled
    <2> QED
      BY <2>1, <2>2, <2>3
  <1> QED
    BY <1>1, Invariance, PTL

\* No completion of the exchange or of an earlier slot is taken for one of a
\* message or of a packet.
THEOREM NoStaleCompletion == Spec => []CompletionIsMine
  <1>1. IInv => CompletionIsMine
    <2> SUFFICES ASSUME IInv PROVE CompletionIsMine
      OBVIOUS
    <2>1. ASSUME NEW e \in Peers, Polls, pc[e] \in SendWaits(e),
                 qp[e].scq # << >>, Head(qp[e].scq).ok
          PROVE  Head(qp[e].scq).idx = qp[e].posted
      <3>1. Accounted(qp[e]) /\ FailuresLast(qp[e])
        BY Facts DEF Good
      <3>2. ~Broken(qp[e])
        BY <2>1, <3>1, PollSendFailuresLast
      <3>3. Unretired(qp[e]) <= 1
        <4>1. CASE pc[e] \in Sending
          BY <4>1, Facts DEF Phases, ExchangeInv
        <4>2. CASE e = "server" /\ pc[e] = "end_wait"
          BY <2>1, <3>2, <4>2, Facts DEF Phases, EndInv
        <4> QED
          BY <2>1, <4>1, <4>2 DEF SendWaits, Sending
      <3> QED
        BY <2>1, <3>1, <3>3, HeadCompletion
    <2>2. ASSUME pc["server"] = "slot_wait", qp["server"].scq # << >>
          PROVE  Head(qp["server"].scq).idx > qp["server"].posted - params.count
      <3> DEFINE q == qp["server"]
      <3>1. sum + Unretired(q) <= params.count /\ sum \in Nat /\ params.count \in Nat
        BY <2>2, Facts, ParamFacts DEF Phases, SlotInv, TypeOK
      <3>2. /\ Head(q.scq).idx \in Nat /\ q.retired < Head(q.scq).idx
            /\ q.posted \in Nat /\ q.retired \in Nat
        BY <2>2, Facts, HeadCompletion, QpFields
      <3> QED
        BY <3>1, <3>2 DEF Unretired
    <2> QED
      BY <2>1, <2>2 DEF CompletionIsMine
  <1> QED
    BY <1>1, Invariance, PTL

\* The latency report never shows a slot without both of its time stamps.
THEOREM ReportOfWholeSlots == Spec => []ReportComplete
  <1>1. IInv => ReportComplete
    BY Facts DEF ReportComplete, Phases, EndInv, Stamped, Slots
  <1> QED
    BY <1>1, Invariance, PTL

-----------------------------------------------------------------------------
(* What the two processes know of each other.  A client that has received a *)
(* message knows where the server is at least; a server that writes knows   *)
(* that the client still holds its buffers.                                 *)

Leaving == {"deallocate", "disconnect", "done", "crashed"}

Writing == {"slot", "slot_wait"}

\* Where the server waits for a message it has sent.
Announcing == {"send_mr_count", "send_mr_array", "end_wait"}

\* What is on the server's send queue: one message while it waits for it, the
\* packets in a slot, nothing elsewhere.
Queued(l, q) ==
    /\ l \notin Announcing \union Writing => q.sq = << >>
    /\ l \in Announcing => /\ Len(q.sq) <= 1
                           /\ \A j \in 1..Len(q.sq) : q.sq[j].op = "send"
    /\ l \in Writing => \A j \in 1..Len(q.sq) : q.sq[j].op = "write"

\* What is on the client's receive queue: the receive it waits for.
Receiving(l, q) ==
    /\ l \notin RecvWaits => RecvIdle(q)
    /\ l \in RecvWaits => \E kind \in Kinds : RecvOne(q, [kind |-> kind, n |-> 0])
    /\ \A j \in 1..Len(q.rcq) : ~q.rcq[j].ok => q.state # "rts"

\* A message has been received and not been polled.
OkRecv(q) == \E j \in 1..Len(q.rcq) : q.rcq[j].ok

\* The messages a client at l has polled, s being what it has shown, and those
\* it has received.
Taken(l, s) ==
    IF s # << >> \/ l = "stats" THEN 3
    ELSE IF l \in {"slot", "end_post", "end_wait"} THEN 2
    ELSE IF l = "get_mr_array" THEN 1 ELSE 0

Got(l, q, s) == IF l \in RecvWaits /\ OkRecv(q) THEN Taken(l, s) + 1 ELSE Taken(l, s)

\* The messages a server at l may have posted, and its NIC may have executed.
Announced(l) ==
    IF l \in {"end_wait", "stats"} \union Leaving THEN 3
    ELSE IF l \in {"send_mr_array", "calloc", "slot", "slot_wait", "end_post"} THEN 2
    ELSE IF l = "send_mr_count" THEN 1 ELSE 0

Delivered(l, q) ==
    IF l \in Announcing /\ q.sent < Len(q.sq) THEN Announced(l) - 1 ELSE Announced(l)

\* Nothing reaches a client that has not allocated its buffers, and the server
\* waits for its message.
FreshInv ==
    pc["client"] = "allocate" =>
        /\ mem["client"].in = Filling("client")
        /\ pc["server"] \in {"allocate", "get_mr", "get_mr_count"} \union Leaving
        /\ ~OkRecv(qp["server"])

Packet(j) == [by |-> "server", packet |-> j]

OutInv == pc["server"] # "allocate" => \A j \in Packets : mem["server"].out[j] = Packet(j)

Arrived(j) == mem["client"].in[j] = Packet(j)

\* The write of packet j is still to be executed.
Pending(q, j) == \E m \in (q.sent + 1)..Len(q.sq) : q.sq[m].n = j

\* A failure is there to be polled.
Lost(q) == \E j \in 1..Len(q.scq) : ~q.scq[j].ok

\* A packet of the slot has arrived or is still to be executed, unless a failure
\* is there to be polled or the slot lacks a completion; a slot that has ended
\* has delivered its packets.
DataInv ==
    /\ end # {} => \A j \in Packets : Arrived(j)
    /\ pc["server"] = "slot" =>
          \/ \A j \in 1..(i - 1) : Arrived(j) \/ Pending(qp["server"], j)
          \/ Lost(qp["server"])
    /\ pc["server"] = "slot_wait" =>
          \/ \A j \in Packets : Arrived(j) \/ Pending(qp["server"], j)
          \/ Lost(qp["server"])
          \/ sum + Unretired(qp["server"]) < params.count

\* The sums are of what the buffers hold ever after.
ShownInv ==
    /\ \A e \in Peers : pc[e] \notin Leaving => shown[e] = << >>
    /\ shown["client"] # << >> => shown["client"][1].in = mem["client"].in
    /\ shown["server"] # << >> =>
          end # {} /\ \A j \in Packets : shown["server"][1].out[j] = Packet(j)

\* A client holds its memory, and leaves a live connection only behind its sum.
Holding(l, q, r, s) ==
    /\ l \notin {"allocate", "disconnect", "done", "crashed"} => r.in = "reg"
    /\ l \in Leaving /\ q.state = "rts" => s # << >>

FlowInv ==
    Regular =>
      /\ Queued(pc["server"], qp["server"]) /\ Receiving(pc["client"], qp["client"])
      /\ Got(pc["client"], qp["client"], shown["client"])
         <= Delivered(pc["server"], qp["server"])
      /\ FreshInv /\ OutInv /\ DataInv /\ ShownInv
      /\ ~MayFail("reg") => Holding(pc["client"], qp["client"], mr["client"],
                                    shown["client"])

\* An empty queue has no entries (the provers find it only by itself).
LEMMA EmptyLen == Len(<< >>) = 0
  OBVIOUS

\* The packets before packet a of a slot are packets (the provers find this, too,
\* only by itself).
LEMMA EarlierPackets ==
    \A m \in Nat : \A a \in 1..m : \A j \in 1..(a - 1) : j \in 1..m
  OBVIOUS

\* Nothing unretired means nothing on the send queue.
LEMMA NothingQueued ==
    ASSUME NEW q, Accounted(q), Unretired(q) = 0
    PROVE  q.sq = << >>
  <1>1. /\ q.sq \in Seq(WorkRequests) /\ Len(q.sq) \in Nat
        /\ q.retired <= q.posted - Len(q.sq) /\ q.posted \in Nat /\ q.retired \in Nat
    BY QpFields
  <1>2. Len(q.sq) = 0
    BY <1>1 DEF Unretired
  <1> QED
    BY <1>1, <1>2

-----------------------------------------------------------------------------
(* What a step of the NICs does to them.                                    *)

\* The NICs acknowledge, or break off.
Quiet(q, r) ==
    \/ r = q
    \/ q.state = "rts" /\ r = Flushed(q)
    \/ q.sent > 0 /\ r = Acknowledged(q)

\* Failures are kept until they are polled, and a flush is one.
LEMMA FlushedLost ==
    ASSUME NEW q, Accounted(q)
    PROVE  /\ Lost(q) => Lost(Flushed(q))
           /\ Len(q.sq) > 0 => Lost(Flushed(q))
  <1> DEFINE f == [k \in 1..Len(q.sq) |-> [ok |-> FALSE, idx |-> q.sq[k].idx]]
             r == Flushed(q)
  <1>1. /\ q \in QueuePairs /\ q.scq \in Seq(SendCompletions)
        /\ Len(q.scq) \in Nat /\ Len(q.sq) \in Nat
    BY QpFields
  <1>2. r.scq = q.scq \o f
    BY <1>1 DEF Flushed, QueuePairs
  <1>3. Len(f) = Len(q.sq) /\ \A k \in 1..Len(q.sq) : f[k].ok = FALSE
    BY <1>1
  <1>4. f \in Seq(SendCompletions)
    <2>1. \A k \in 1..Len(q.sq) :
             [ok |-> FALSE, idx |-> q.sq[k].idx] \in SendCompletions
      <3> TAKE k \in 1..Len(q.sq)
      <3>1. q.sq[k] \in WorkRequests
        BY QpFields
      <3> QED
        BY <3>1 DEF WorkRequests, SendCompletions
    <2> QED
      BY <1>1, <2>1
  <1>5. \A a, b \in Nat : /\ \A j \in 1..a : j \in 1..(a + b)
                          /\ b > 0 => 1 \in 1..b /\ a + 1 \in 1..(a + b)
    OBVIOUS
  <1>6. Len(q.scq) \in Nat /\ Len(q.sq) \in Nat
    BY <1>1
  <1> HIDE DEF f, r
  <1>7. /\ Len(r.scq) = Len(q.scq) + Len(q.sq)
        /\ \A k \in 1..Len(q.scq) : r.scq[k] = q.scq[k]
        /\ \A k \in 1..Len(q.sq) : r.scq[Len(q.scq) + k] = f[k]
    <2>1. /\ Len(q.scq \o f) = Len(q.scq) + Len(f)
          /\ \A k \in 1..Len(q.scq) : (q.scq \o f)[k] = q.scq[k]
          /\ \A k \in 1..Len(f) : (q.scq \o f)[Len(q.scq) + k] = f[k]
      BY <1>1, <1>4, ConcatProperties
    <2> QED
      BY <1>2, <1>3, <2>1
  <1>8. ASSUME NEW j \in 1..Len(q.scq), ~q.scq[j].ok PROVE Lost(r)
    <2>1. Len(r.scq) = Len(q.scq) + Len(q.sq)
      BY <1>7
    <2>2. j \in 1..Len(r.scq)
      BY <1>5, <1>6, <2>1, Zenon
    <2>3. r.scq[j] = q.scq[j]
      BY <1>7
    <2> QED
      BY <1>8, <2>2, <2>3 DEF Lost
  <1>9. ASSUME Len(q.sq) > 0 PROVE Lost(r)
    <2>1. Len(r.scq) = Len(q.scq) + Len(q.sq)
      BY <1>7
    <2>2. 1 \in 1..Len(q.sq) /\ Len(q.scq) + 1 \in 1..Len(r.scq)
      BY <1>9, <1>5, <1>6, <2>1, Zenon
    <2>3. r.scq[Len(q.scq) + 1].ok = FALSE
      BY <1>3, <1>7, <2>2
    <2> QED
      BY <2>2, <2>3 DEF Lost
  <1> QED
    BY <1>8, <1>9 DEF Lost, r

\* A quiet step forgets no packet: it is still to be executed, or a failure is
\* there.
LEMMA QuietPending ==
    ASSUME NEW q, Accounted(q), NEW r, Quiet(q, r)
    PROVE  /\ Lost(q) => Lost(r)
           /\ Lost(r) \/ \A j : Pending(q, j) => Pending(r, j)
  <1>1. CASE r = q
    BY <1>1
  <1>2. CASE r = Flushed(q)
    <2>1. CASE Len(q.sq) > 0
      BY <1>2, <2>1, FlushedLost
    <2>2. CASE ~(Len(q.sq) > 0)
      <3>1. \A j : ~Pending(q, j)
        BY <2>2, QpFields DEF Pending
      <3> QED
        BY <1>2, <3>1, FlushedLost
    <2> QED
      BY <2>1, <2>2
  <1>3. CASE q.sent > 0 /\ r = Acknowledged(q)
    <2>1. AckedTo(q, r)
      BY <1>3, AcknowledgedFields
    <2>2. /\ q.sent \in Nat /\ Len(q.sq) \in Nat /\ q.scq \in Seq(SendCompletions)
          /\ Len(q.scq) \in Nat /\ Len(q.sq) > 0
      BY <2>1, QpFields DEF AckedTo
    <2>3. ASSUME NEW j, Pending(q, j) PROVE Pending(r, j)
      <3>1. PICK m \in (q.sent + 1)..Len(q.sq) : q.sq[m].n = j
        BY <2>3 DEF Pending
      <3>2. /\ m - 1 \in (r.sent + 1)..Len(r.sq) /\ m - 1 \in 1..Len(r.sq)
            /\ (m - 1) + 1 = m
        BY <1>3, <2>1, <2>2 DEF AckedTo
      <3>3. r.sq[m - 1] = q.sq[m]
        BY <2>1, <3>2 DEF AckedTo
      <3> QED
        BY <3>1, <3>2, <3>3 DEF Pending
    <2>4. ASSUME NEW j \in 1..Len(q.scq), ~q.scq[j].ok PROVE Lost(r)
      <3> DEFINE c == [ok |-> TRUE, idx |-> q.sq[1].idx]
      <3>1. CASE r.scq = q.scq
        BY <2>4, <3>1 DEF Lost
      <3>2. CASE r.scq = Append(q.scq, c)
        <4>1. Len(r.scq) = Len(q.scq) + 1 /\ r.scq[j] = q.scq[j]
          BY <2>2, <3>2
        <4>2. j \in 1..Len(r.scq)
          BY <2>2, <4>1
        <4> QED
          BY <2>4, <4>1, <4>2 DEF Lost
      <3> QED
        BY <2>1, <3>1, <3>2 DEF AckedTo
    <2> QED
      BY <2>3, <2>4 DEF Lost
  <1> QED
    BY <1>1, <1>2, <1>3 DEF Quiet

\* What is received does not change with the send side.
LEMMA ReceivingSame ==
    ASSUME NEW q, NEW r, RecvSame(q, r), r.state = q.state
    PROVE  /\ OkRecv(r) <=> OkRecv(q)
           /\ \A l : Receiving(l, q) => Receiving(l, r)
  <1>1. r.rcq = q.rcq
    BY DEF RecvSame
  <1>2. OkRecv(r) <=> OkRecv(q)
    BY <1>1 DEF OkRecv
  <1>3. /\ RecvIdle(q) => RecvIdle(r)
        /\ \A b : RecvOne(q, b) => RecvOne(r, b)
    BY RecvPhasesSame
  <1>4. ASSUME NEW l, Receiving(l, q) PROVE Receiving(l, r)
    <2>1. l \notin RecvWaits => RecvIdle(r)
      BY <1>3, <1>4 DEF Receiving
    <2>2. l \in RecvWaits => \E kind \in Kinds : RecvOne(r, [kind |-> kind, n |-> 0])
      BY <1>3, <1>4 DEF Receiving
    <2>3. \A j \in 1..Len(r.rcq) : ~r.rcq[j].ok => r.state # "rts"
      BY <1>1, <1>4 DEF Receiving
    <2> QED
      BY <2>1, <2>2, <2>3 DEF Receiving
  <1> QED
    BY <1>2, <1>4

\* Nor does it bring a message.
LEMMA QuietMessages ==
    ASSUME NEW q, Accounted(q), NEW r, Quiet(q, r)
    PROVE  /\ OkRecv(r) => OkRecv(q)
           /\ r.state = "rts" => q.state = "rts"
           /\ \A l : Queued(l, q) => Queued(l, r) /\ Delivered(l, q) <= Delivered(l, r)
           /\ \A l : Receiving(l, q) => Receiving(l, r)
  <1>1. CASE r = q
    <2>1. \A l : Delivered(l, q) \in Int
      BY DEF Delivered, Announced
    <2> QED
      BY <1>1, <2>1
  <1>2. CASE r = Flushed(q)
    <2>1. FlushedTo(q, r)
      BY <1>2, FlushedFields
    <2>2. OkRecv(r) => OkRecv(q)
      BY <2>1 DEF FlushedTo, OkRecv
    <2>3. r.state = "err" /\ r.sq = << >> /\ r.sent = 0 /\ Len(r.sq) = 0
      BY <2>1 DEF FlushedTo
    <2>4. \A l : Queued(l, r) /\ Delivered(l, q) <= Delivered(l, r)
      BY <2>3 DEF Queued, Delivered, Announced
    <2>5. \A l : Receiving(l, q) => Receiving(l, r)
      BY <1>2, <2>3, FlushedRecv DEF Receiving
    <2> QED
      BY <2>2, <2>3, <2>4, <2>5
  <1>3. CASE q.sent > 0 /\ r = Acknowledged(q)
    <2>1. AckedTo(q, r) /\ RecvSame(q, r)
      BY <1>3, AcknowledgedFields, SidesKept
    <2>2. /\ q.sent \in Nat /\ Len(q.sq) \in Nat /\ r.state = q.state
          /\ r.sent = q.sent - 1 /\ Len(r.sq) = Len(q.sq) - 1
          /\ Len(q.sq) > 0 /\ q.sq # << >>
      BY <2>1, QpFields DEF AckedTo
    <2>3. \A j \in 1..Len(r.sq) : j + 1 \in 1..Len(q.sq) /\ r.sq[j] = q.sq[j + 1]
      BY <2>1 DEF AckedTo
    <2>4. \A l : Queued(l, q) => Queued(l, r)
      BY <2>2, <2>3 DEF Queued
    <2>5. \A l : Delivered(l, q) <= Delivered(l, r)
      <3>1. r.sent < Len(r.sq) <=> q.sent < Len(q.sq)
        BY <2>2
      <3>2. \A l : Delivered(l, r) = Delivered(l, q)
        BY <3>1 DEF Delivered
      <3>3. \A l : Delivered(l, q) \in Int
        BY DEF Delivered, Announced
      <3>4. \A a \in Int : a <= a
        OBVIOUS
      <3> QED
        BY <3>2, <3>3, <3>4
    <2>6. (OkRecv(r) => OkRecv(q)) /\ \A l : Receiving(l, q) => Receiving(l, r)
      BY <2>1, <2>2, ReceivingSame
    <2> QED
      BY <2>2, <2>4, <2>5, <2>6
  <1> QED
    BY <1>1, <1>2, <1>3 DEF Quiet

\* The client of a quiet step has not received more.
LEMMA QuietGot ==
    ASSUME NEW q, NEW r, OkRecv(r) => OkRecv(q), NEW l, NEW s
    PROVE  /\ Got(l, r, s) <= Got(l, q, s)
           /\ Got(l, r, s) \in Nat /\ Got(l, q, s) \in Nat
  BY DEF Got, Taken

\* The three kinds of NIC steps: quiet ones, a message, a write of the server.
LEMMA NicKinds ==
    ASSUME IInv, NEW e \in Peers, Nic(e) \/ FabricFails(e)
    PROVE  /\ UNCHANGED <<sessionVars, pc, rv, mr, remote, shown>>
           /\ \/ mem' = mem /\ \A d \in Peers : Quiet(qp[d], qp'[d])
              \/ \E m \in Buffers :
                    /\ mem' = mem /\ qp[e].sent < Len(qp[e].sq)
                    /\ qp[e].sq[qp[e].sent + 1].op = "send"
                    /\ qp[Peer(e)].rq # << >>
                    /\ qp'[e] = Executed(qp[e])
                    /\ qp'[Peer(e)] = Received(qp[Peer(e)], m)
              \/ LET q == qp["server"]
                     n == q.sq[q.sent + 1].n
                 IN  /\ q.sent < Len(q.sq) /\ q.sq[q.sent + 1].op = "write"
                     /\ n \in Packets
                     /\ qp'["server"] = Executed(q) /\ qp'["client"] = qp["client"]
                     /\ mem'["server"] = mem["server"]
                     /\ mem'["client"] = [mem["client"] EXCEPT !.in =
                                             [@ EXCEPT ![n] = mem["server"].out[n]]]
  <1>1. /\ TypeOK /\ \A d \in Peers : Good(d, qp[d])
        /\ Peer(e) \in Peers /\ Peer(e) # e /\ MemOK(mem)
        /\ qp \in [Peers -> QueuePairs] /\ \A d \in Peers : d = e \/ d = Peer(e)
    BY Facts DEF TypeOK, Peers, Peer
  <1>2. UNCHANGED <<sessionVars, pc, rv, mr, remote, shown>>
    BY DEF Nic, NicExecute, NicAck, NicTimeout, FabricFails
  <1>3. ASSUME NEW q, Quiet(qp[e], q), SetQp(e, q)
        PROVE  \A d \in Peers : Quiet(qp[d], qp'[d])
    <2>1. \A d \in Peers : qp'[d] = IF d = e THEN q ELSE qp[d]
      BY <1>1, <1>3 DEF SetQp
    <2> QED
      BY <1>3, <2>1 DEF Quiet
  <1>4. CASE NicAck(e) \/ NicTimeout(e) \/ FabricFails(e)
    <2>1. CASE NicAck(e)
      <3>1. Quiet(qp[e], Acknowledged(qp[e]))
        BY <2>1 DEF NicAck, Quiet
      <3> QED
        BY <1>2, <1>3, <2>1, <3>1 DEF NicAck
    <2>2. CASE NicTimeout(e) \/ FabricFails(e)
      <3>1. Quiet(qp[e], Flushed(qp[e]))
        BY <2>2 DEF NicTimeout, FabricFails, Quiet
      <3> QED
        BY <1>2, <1>3, <2>2, <3>1 DEF NicTimeout, FabricFails
    <2> QED
      BY <1>4, <2>1, <2>2
  <1>5. CASE NicExecute(e)
    <2> DEFINE wr == qp[e].sq[qp[e].sent + 1]
    <2>1. qp[e].sent < Len(qp[e].sq) /\ qp[e].state = "rts"
      BY <1>5 DEF NicExecute
    <2>2. wr \in Mine(e)
      BY <1>1, <2>1, NicGood
    <2>3. \/ SetQp(e, Flushed(qp[e])) /\ mem' = mem
          \/ /\ qp[Peer(e)].state = "rts"
             /\ \/ wr.op = "send" /\ DeliverSend(e, wr)
                \/ wr.op = "write" /\ ServeWrite(e, wr)
      BY <1>5 DEF NicExecute
    <2> HIDE DEF wr
    <2>4. CASE SetQp(e, Flushed(qp[e])) /\ mem' = mem
      <3>1. Quiet(qp[e], Flushed(qp[e]))
        BY <2>1 DEF Quiet
      <3> QED
        BY <1>2, <1>3, <2>4, <3>1
    <2>5. CASE FlushedBoth /\ qp[Peer(e)].state = "rts"
      <3>1. mem' = mem /\ \A d \in Peers : qp'[d] = Flushed(qp[d])
        BY <2>5 DEF FlushedBoth
      <3>2. \A d \in Peers : Quiet(qp[d], qp'[d])
        BY <1>1, <2>1, <2>5, <3>1 DEF Quiet
      <3> QED
        BY <1>2, <3>1, <3>2
    <2>6. CASE wr.op = "send" /\ DeliverSend(e, wr) /\ ~FlushedBoth
      <3> DEFINE p == Peer(e)
                 m == [kind |-> wr.kind, n |-> 0]
      <3>1. /\ qp[p].rq # << >> /\ mem' = mem
            /\ qp' = [qp EXCEPT ![e] = Executed(@), ![p] = Received(@, m)]
        BY <2>6 DEF DeliverSend
      <3>2. m \in Buffers
        BY <2>2 DEF Mine, WorkRequests, Buffers
      <3> HIDE DEF m
      <3>3. qp'[e] = Executed(qp[e]) /\ qp'[p] = Received(qp[p], m)
        BY <1>1, <3>1
      <3> QED
        BY <1>2, <2>1, <2>6, <3>1, <3>2, <3>3 DEF wr
    <2>7. CASE wr.op = "write" /\ ServeWrite(e, wr) /\ ~FlushedBoth
      <3>1. /\ SetQp(e, Executed(qp[e]))
            /\ mem' = [mem EXCEPT ![Peer(e)].in[wr.n] = mem[e].out[wr.n]]
        BY <2>7 DEF ServeWrite
      <3>2. wr.n \in Packets /\ e = "server" /\ Peer(e) = "client"
        BY <2>2, <2>7 DEF Mine, Peer
      <3>3. qp'["server"] = Executed(qp["server"]) /\ qp'["client"] = qp["client"]
        BY <1>1, <3>1, <3>2, Facts DEF SetQp
      <3>4. /\ mem'["server"] = mem["server"]
            /\ mem'["client"] = [mem["client"] EXCEPT !.in =
                                   [@ EXCEPT ![wr.n] = mem["server"].out[wr.n]]]
        BY <1>1, <3>1, <3>2, Facts DEF MemOK
      <3> QED
        BY <1>2, <2>1, <2>7, <3>2, <3>3, <3>4 DEF wr
    <2> QED
      BY <2>3, <2>4, <2>5, <2>6, <2>7 DEF DeliverSend, ServeWrite
  <1> QED
    BY <1>4, <1>5 DEF Nic

\* A quiet step keeps what is known.
LEMMA QuietFlow ==
    ASSUME IInv, FlowInv, Regular, mem' = mem,
           \A d \in Peers : Quiet(qp[d], qp'[d]),
           UNCHANGED <<sessionVars, pc, rv, mr, remote, shown>>,
           \A d \in Peers : Unretired(qp'[d]) = Unretired(qp[d])
    PROVE  FlowInv'
  <1> DEFINE s == qp["server"]
             c == qp["client"]
             t == qp'["server"]
             d == qp'["client"]
  <1>1. /\ Accounted(s) /\ Accounted(c) /\ Quiet(s, t) /\ Quiet(c, d)
        /\ Unretired(t) = Unretired(s)
    BY Facts
  <1>2. /\ params' = params /\ pc' = pc /\ mr' = mr /\ shown' = shown /\ i' = i
        /\ sum' = sum /\ end' = end
    BY DEF sessionVars
  <1>3. /\ OkRecv(t) => OkRecv(s)
        /\ Lost(s) => Lost(t)
        /\ Lost(t) \/ \A j : Pending(s, j) => Pending(t, j)
        /\ OkRecv(d) => OkRecv(c)
        /\ d.state = "rts" => c.state = "rts"
    BY <1>1, QuietMessages, QuietPending
  <1>4. /\ Queued(pc["server"], t)
        /\ Delivered(pc["server"], s) <= Delivered(pc["server"], t)
        /\ Receiving(pc["client"], d)
    BY <1>1, QuietMessages DEF FlowInv
  <1>5. /\ Got(pc["client"], d, shown["client"]) <= Got(pc["client"], c, shown["client"])
        /\ Got(pc["client"], d, shown["client"]) \in Nat
        /\ Got(pc["client"], c, shown["client"]) \in Nat
    BY <1>3, QuietGot
  <1>6. Delivered(pc["server"], s) \in Int /\ Delivered(pc["server"], t) \in Int
    BY DEF Delivered, Announced
  <1>7. FreshInv' /\ OutInv' /\ ShownInv'
    BY <1>2, <1>3 DEF FlowInv, FreshInv, OutInv, ShownInv, Packets, Packet, Filling, Indices, Count
  <1>8. DataInv'
    BY <1>1, <1>2, <1>3 DEF FlowInv, DataInv, Arrived, Packets, Packet
  <1>9. ~MayFail("reg") => Holding(pc["client"], d, mr["client"], shown["client"])
    BY <1>3 DEF FlowInv, Holding
  <1>10. Got(pc["client"], d, shown["client"]) <= Delivered(pc["server"], t)
    BY <1>4, <1>5, <1>6 DEF FlowInv
  <1> HIDE DEF s, c, t, d
  <1>11. MayFail("reg")' = MayFail("reg")
    BY <1>2 DEF MayFail
  <1> QED
    BY <1>2, <1>4, <1>7, <1>8, <1>9, <1>10, <1>11 DEF FlowInv, s, c, t, d

\* A message reaches the client.
LEMMA MessageToClient ==
    ASSUME IInv, FlowInv, Regular, mem' = mem, NEW m \in Buffers,
           qp["server"].sent < Len(qp["server"].sq),
           qp["server"].sq[qp["server"].sent + 1].op = "send",
           qp["client"].rq # << >>,
           qp'["server"] = Executed(qp["server"]),
           qp'["client"] = Received(qp["client"], m),
           UNCHANGED <<sessionVars, pc, rv, mr, remote, shown>>
    PROVE  FlowInv'
  <1> DEFINE s == qp["server"]
             c == qp["client"]
             t == qp'["server"]
             d == qp'["client"]
             l == pc["client"]
             k == pc["server"]
  <1>1. /\ Accounted(s) /\ Accounted(c) /\ "client" \in Peers /\ "server" \in Peers
    BY Facts
  <1>2. /\ params' = params /\ pc' = pc /\ mr' = mr /\ shown' = shown /\ i' = i
        /\ sum' = sum /\ end' = end
    BY DEF sessionVars
  <1>3. /\ Len(s.sq) \in Nat /\ s.sent \in Nat
    BY <1>1, QpFields
  <1>4. /\ t.sq = s.sq /\ t.sent = s.sent + 1 /\ t.rcq = s.rcq
        /\ d.state = c.state
    BY <1>1, SidesKept DEF SendSame, RecvSame
  <1>5. k \in Announcing /\ Len(s.sq) = 1
    <2>1. s.sent + 1 \in 1..Len(s.sq) /\ Len(s.sq) # 0
      BY <1>3
    <2>2. k \notin Writing
      BY <2>1 DEF FlowInv, Queued
    <2>3. k \in Announcing
      BY <2>1, <2>2 DEF FlowInv, Queued
    <2>4. Len(s.sq) <= 1
      BY <2>3 DEF FlowInv, Queued
    <2>5. \A x \in Nat : x # 0 /\ x <= 1 => x = 1
      OBVIOUS
    <2> QED
      BY <1>3, <2>1, <2>3, <2>4, <2>5, Zenon
  <1>6. /\ Delivered(k, s) = Announced(k) - 1 /\ Delivered(k, t) = Announced(k)
        /\ Announced(k) \in Nat
    BY <1>3, <1>4, <1>5 DEF Delivered, Announced
  <1>7. l \in RecvWaits
    BY DEF FlowInv, Receiving, RecvIdle
  <1>8. PICK kind \in Kinds : RecvOne(c, [kind |-> kind, n |-> 0])
    BY <1>7 DEF FlowInv, Receiving
  <1>9. /\ RecvOne(d, [kind |-> kind, n |-> 0]) /\ c.rcq = << >>
        /\ d.rcq = <<[ok |-> TRUE, buf |-> [kind |-> kind, n |-> 0], msg |-> m]>>
    <2> DEFINE b == [kind |-> kind, n |-> 0]
    <2>1. RecvOne(c, b) /\ c.rq # << >>
      BY <1>8
    <2>2. c.rcq = << >>
      BY <2>1 DEF RecvOne
    <2> HIDE DEF b, c
    <2>3. /\ Received(c, m).rcq = <<[ok |-> TRUE, buf |-> b, msg |-> m]>>
          /\ RecvOne(Received(c, m), b)
      BY <1>1, <2>1, ReceivedOne
    <2> QED
      BY <2>2, <2>3 DEF b, c
  <1>10. \A j \in 1..Len(d.rcq) : d.rcq[j].ok
    BY <1>9
  <1>11. Receiving(l, d)
    BY <1>7, <1>9, <1>10 DEF Receiving
  <1>12. ~OkRecv(c)
    BY <1>9 DEF OkRecv
  <1>13. /\ Got(l, c, shown["client"]) = Taken(l, shown["client"])
         /\ Got(l, d, shown["client"]) <= Taken(l, shown["client"]) + 1
         /\ Taken(l, shown["client"]) \in Nat
    BY <1>12 DEF Got, Taken
  <1>14. Got(l, d, shown["client"]) <= Delivered(k, t)
    <2>1. Got(l, d, shown["client"]) \in Nat
      BY DEF Got, Taken
    <2>2. Got(l, c, shown["client"]) <= Delivered(k, s)
      BY DEF FlowInv
    <2> QED
      BY <1>6, <1>13, <2>1, <2>2
  <1>15. Queued(k, t)
    BY <1>4 DEF FlowInv, Queued
  <1>16. FreshInv' /\ OutInv' /\ ShownInv'
    BY <1>2, <1>4 DEF FlowInv, FreshInv, OutInv, ShownInv, Packets, Packet, Filling, OkRecv,
                        Indices, Count
  <1>17. DataInv'
    BY <1>2, <1>5 DEF FlowInv, DataInv, Arrived, Packets, Packet, Announcing
  <1>18. ~MayFail("reg") => Holding(l, d, mr["client"], shown["client"])
    BY <1>4 DEF FlowInv, Holding
  <1> HIDE DEF s, c, t, d, k, l
  <1>19. MayFail("reg")' = MayFail("reg")
    BY <1>2 DEF MayFail
  <1> QED
    BY <1>2, <1>11, <1>14, <1>15, <1>16, <1>17, <1>18, <1>19
    DEF FlowInv, s, c, t, d, k, l

\* A message reaches the server.
LEMMA MessageToServer ==
    ASSUME IInv, FlowInv, Regular, mem' = mem, NEW m \in Buffers,
           qp["client"].sent < Len(qp["client"].sq),
           qp'["client"] = Executed(qp["client"]),
           qp'["server"] = Received(qp["server"], m),
           UNCHANGED <<sessionVars, pc, rv, mr, remote, shown>>
    PROVE  FlowInv'
  <1> DEFINE s == qp["server"]
             c == qp["client"]
             t == qp'["server"]
             d == qp'["client"]
             l == pc["client"]
             k == pc["server"]
  <1>1. /\ Accounted(s) /\ Accounted(c) /\ "client" \in Peers /\ "server" \in Peers
    BY Facts
  <1>2. /\ params' = params /\ pc' = pc /\ mr' = mr /\ shown' = shown /\ i' = i
        /\ sum' = sum /\ end' = end
    BY DEF sessionVars
  <1>3. /\ SendSame(s, t) /\ t.sent = s.sent /\ RecvSame(c, d) /\ d.state = c.state
    BY <1>1, SidesKept DEF SendSame
  <1>4. l # "allocate"
    <2>1. l = "allocate" => Unretired(c) = 0
      BY <1>1, Facts DEF Phases, ExchangeInv, Before
    <2>2. Unretired(c) = 0 => Len(c.sq) = 0
      BY <1>1, QpFields DEF Unretired
    <2>3. c.sent \in Nat /\ Len(c.sq) \in Nat
      BY <1>1, QpFields
    <2> QED
      BY <2>1, <2>2, <2>3
  <1>5. Queued(k, t) /\ Delivered(k, t) = Delivered(k, s)
    <2>1. Queued(k, s)
      BY DEF FlowInv
    <2>2. t.sq = s.sq /\ t.sent = s.sent
      BY <1>3 DEF SendSame
    <2> QED
      BY <2>1, <2>2 DEF Queued, Delivered
  <1>6. /\ Receiving(l, d) /\ (OkRecv(d) <=> OkRecv(c))
    BY <1>3, ReceivingSame DEF FlowInv
  <1>7. Got(l, d, shown["client"]) <= Delivered(k, t)
    BY <1>5, <1>6 DEF FlowInv, Got
  <1>8. FreshInv' /\ OutInv' /\ ShownInv'
    BY <1>2, <1>4 DEF FlowInv, FreshInv, OutInv, ShownInv, Packets, Packet, Filling
  <1>9. DataInv'
    <2>1. Unretired(t) = Unretired(s)
      BY <1>3 DEF SendSame, Unretired
    <2>2. (Lost(s) <=> Lost(t)) /\ \A j : Pending(s, j) <=> Pending(t, j)
      BY <1>3 DEF SendSame, Lost, Pending
    <2> QED
      BY <1>2, <2>1, <2>2 DEF FlowInv, DataInv, Arrived, Packets, Packet
  <1>10. ~MayFail("reg") => Holding(l, d, mr["client"], shown["client"])
    BY <1>3 DEF FlowInv, Holding
  <1> HIDE DEF s, c, t, d, k, l
  <1>11. MayFail("reg")' = MayFail("reg")
    BY <1>2 DEF MayFail
  <1> QED
    BY <1>2, <1>5, <1>6, <1>7, <1>8, <1>9, <1>10, <1>11
    DEF FlowInv, s, c, t, d, k, l

\* A server that writes is in a slot: the client has its buffers, has not summed
\* them, and has not been told of the end.
LEMMA WriterInSlot ==
    ASSUME IInv, FlowInv, Regular,
           NEW j \in 1..Len(qp["server"].sq), qp["server"].sq[j].op = "write"
    PROVE  /\ pc["server"] \in Writing /\ pc["client"] # "allocate"
           /\ shown["client"] = << >>
  <1> DEFINE s == qp["server"]
  <1>1. Len(s.sq) \in Nat /\ Len(s.sq) # 0
    BY Facts, QpFields
  <1>2. pc["server"] \in Writing
    BY <1>1 DEF FlowInv, Queued
  <1>3. pc["client"] # "allocate"
    BY <1>2 DEF FlowInv, FreshInv, Writing, Leaving
  <1>4. Delivered(pc["server"], s) = 2
    BY <1>2 DEF Writing, Delivered, Announced, Announcing, Leaving
  <1>5. shown["client"] # << >> => Got(pc["client"], qp["client"], shown["client"]) >= 3
    BY DEF Got, Taken
  <1>6. Got(pc["client"], qp["client"], shown["client"]) \in Nat
    BY DEF Got, Taken
  <1> QED
    BY <1>2, <1>3, <1>4, <1>5, <1>6 DEF FlowInv

\* Executing the oldest write of a slot.
LEMMA WriteExecuted ==
    ASSUME NEW s, Accounted(s), s.sent < Len(s.sq), NEW t, t = Executed(s)
    PROVE  /\ s.sent + 1 \in 1..Len(s.sq)
           /\ Unretired(t) = Unretired(s) /\ (Lost(s) => Lost(t))
           /\ \A l \in Writing : /\ Delivered(l, t) = Delivered(l, s)
                                 /\ Queued(l, s) => Queued(l, t)
           /\ \A j : Pending(s, j) => Pending(t, j) \/ j = s.sq[s.sent + 1].n
  <1>1. /\ SendSame(s, t) /\ t.sent = s.sent + 1
    BY SidesKept
  <1>2. /\ Len(s.sq) \in Nat /\ s.sent \in Nat
    BY QpFields
  <1>3. s.sent + 1 \in 1..Len(s.sq)
    BY <1>2
  <1>4. t.sq = s.sq /\ t.scq = s.scq /\ t.posted = s.posted /\ t.retired = s.retired
    BY <1>1 DEF SendSame
  <1>5. Unretired(t) = Unretired(s) /\ (Lost(s) => Lost(t))
    BY <1>4 DEF Unretired, Lost
  <1>6. \A l \in Writing : /\ Delivered(l, t) = Delivered(l, s)
                           /\ Queued(l, s) => Queued(l, t)
    BY <1>4 DEF Delivered, Queued, Announcing, Writing
  <1>7. ASSUME NEW j, Pending(s, j) PROVE Pending(t, j) \/ j = s.sq[s.sent + 1].n
    <2>1. PICK m \in (s.sent + 1)..Len(s.sq) : s.sq[m].n = j
      BY <1>7 DEF Pending
    <2>2. CASE m = s.sent + 1
      BY <2>1, <2>2
    <2>3. CASE m # s.sent + 1
      <3>1. m \in (t.sent + 1)..Len(t.sq)
        BY <1>1, <1>2, <1>4, <2>3
      <3> QED
        BY <1>4, <2>1, <3>1 DEF Pending
    <2> QED
      BY <2>2, <2>3
  <1> QED
    BY <1>3, <1>5, <1>6, <1>7

\* A packet reaches the client's buffer.
LEMMA WriteFlow ==
    ASSUME IInv, FlowInv, Regular,
           NEW n \in Packets, n = qp["server"].sq[qp["server"].sent + 1].n,
           qp["server"].sent < Len(qp["server"].sq),
           qp["server"].sq[qp["server"].sent + 1].op = "write",
           qp'["server"] = Executed(qp["server"]), qp'["client"] = qp["client"],
           mem'["server"] = mem["server"],
           mem'["client"].in = [mem["client"].in EXCEPT ![n] = mem["server"].out[n]],
           UNCHANGED <<sessionVars, pc, rv, mr, remote, shown>>
    PROVE  FlowInv'
  <1> DEFINE s == qp["server"]
             t == qp'["server"]
             c == qp["client"]
             l == pc["client"]
             k == pc["server"]
  <1>1. /\ Accounted(s) /\ "client" \in Peers /\ "server" \in Peers
        /\ mem["client"] \in Memory("client") /\ Indices("client") = Packets
    BY Facts, ParamFacts DEF TypeOK, MemOK
  <1>2. /\ params' = params /\ pc' = pc /\ mr' = mr /\ shown' = shown /\ i' = i
        /\ sum' = sum /\ end' = end
    BY DEF sessionVars
  <1>3. /\ s.sent + 1 \in 1..Len(s.sq)
        /\ Unretired(t) = Unretired(s) /\ (Lost(s) => Lost(t))
        /\ \A x \in Writing : /\ Delivered(x, t) = Delivered(x, s)
                              /\ Queued(x, s) => Queued(x, t)
        /\ \A j : Pending(s, j) => Pending(t, j) \/ j = s.sq[s.sent + 1].n
    BY <1>1, WriteExecuted
  <1>4. n = s.sq[s.sent + 1].n
    OBVIOUS
  <1>5. k \in Writing /\ l # "allocate" /\ shown["client"] = << >>
    BY <1>3, WriterInSlot
  <1>6. mem["server"].out[n] = Packet(n)
    BY <1>5 DEF FlowInv, OutInv, Writing
  <1>7. /\ mem'["client"].in = [mem["client"].in EXCEPT ![n] = Packet(n)]
        /\ mem["client"].in \in [Packets -> Values]
    BY <1>1, <1>6 DEF Memory
  <1>8. Arrived(n)' /\ \A j \in Packets : Arrived(j) => Arrived(j)'
    <2>1. \A j \in Packets : mem'["client"].in[j] =
                               IF j = n THEN Packet(n) ELSE mem["client"].in[j]
      BY <1>7
    <2>2. \A j : Packet(j)' = Packet(j)
      BY DEF Packet
    <2> QED
      BY <2>1, <2>2 DEF Arrived
  <1>9. Queued(k, t) /\ Delivered(k, t) = Delivered(k, s)
    BY <1>3, <1>5 DEF FlowInv
  <1>10. ASSUME NEW j \in Packets, Arrived(j) \/ Pending(s, j)
         PROVE  Arrived(j)' \/ Pending(t, j)
    <2>1. CASE Arrived(j)
      BY <1>8, <2>1
    <2>2. CASE Pending(s, j)
      BY <1>3, <1>4, <1>8, <2>2
    <2> QED
      BY <1>10, <2>1, <2>2
  <1>11. DataInv'
    <2>1. Unretired(t) = Unretired(s) /\ (Lost(s) => Lost(t))
      BY <1>3
    <2>2. \A j \in 1..(i - 1) : j \in Packets
      <3>1. TypeOK /\ params.count \in Nat /\ Packets = 1..params.count
        BY Facts, ParamFacts
      <3>2. i \in Packets
        BY <3>1 DEF TypeOK
      <3> QED
        BY <3>1, <3>2, EarlierPackets
    <2>3. end # {} => \A j \in Packets : Arrived(j)'
      BY <1>8 DEF FlowInv, DataInv
    <2>4. k = "slot" => \/ \A j \in 1..(i - 1) : Arrived(j)' \/ Pending(t, j)
                        \/ Lost(t)
      BY <1>10, <2>1, <2>2 DEF FlowInv, DataInv
    <2>5. k = "slot_wait" => \/ \A j \in Packets : Arrived(j)' \/ Pending(t, j)
                             \/ Lost(t)
                             \/ sum + Unretired(t) < params.count
      BY <1>10, <2>1 DEF FlowInv, DataInv
    <2>6. Packets' = Packets
      BY <1>2 DEF Packets
    <2> QED
      BY <1>2, <2>3, <2>4, <2>5, <2>6 DEF DataInv
  <1>12. FreshInv' /\ OutInv' /\ ShownInv'
    BY <1>2, <1>5 DEF FlowInv, FreshInv, OutInv, ShownInv, Packets, Packet
  <1> HIDE DEF s, t, c, l, k
  <1>13. MayFail("reg")' = MayFail("reg")
    BY <1>2 DEF MayFail
  <1>14. /\ Got(l, c, shown["client"]) <= Delivered(k, t) /\ Receiving(l, c)
         /\ ~MayFail("reg") => Holding(l, c, mr["client"], shown["client"])
    BY <1>9 DEF FlowInv, s, c, l, k
  <1> QED
    BY <1>2, <1>9, <1>11, <1>12, <1>13, <1>14 DEF FlowInv, t, c, l, k

\* The NICs keep what is known.
LEMMA NicFlow ==
    ASSUME IInv, FlowInv, NEW e \in Peers, Nic(e) \/ FabricFails(e)
    PROVE  FlowInv'
  <1>1. UNCHANGED <<sessionVars, pc, rv, mr, remote, shown>>
    BY NicKinds
  <1>2. Regular' = Regular
    BY <1>1 DEF Regular, Polls, MayFail, sessionVars
  <1>3. CASE ~Regular
    BY <1>2, <1>3 DEF FlowInv
  <1>4. CASE Regular
    <2>1. CASE mem' = mem /\ \A d \in Peers : Quiet(qp[d], qp'[d])
      <3>1. \A d \in Peers : Unretired(qp'[d]) = Unretired(qp[d])
        BY <2>1, Facts, NicUnretired DEF Quiet
      <3> QED
        BY <1>1, <1>4, <2>1, <3>1, QuietFlow
    <2>2. ASSUME NEW m \in Buffers,
                 /\ mem' = mem /\ qp[e].sent < Len(qp[e].sq)
                 /\ qp[e].sq[qp[e].sent + 1].op = "send"
                 /\ qp[Peer(e)].rq # << >>
                 /\ qp'[e] = Executed(qp[e])
                 /\ qp'[Peer(e)] = Received(qp[Peer(e)], m)
          PROVE  FlowInv'
      <3>1. \/ e = "client" /\ Peer(e) = "server"
            \/ e = "server" /\ Peer(e) = "client"
        BY DEF Peers, Peer
      <3> QED
        BY <1>1, <1>4, <2>2, <3>1, MessageToClient, MessageToServer
    <2>3. CASE LET q == qp["server"]
                   n == q.sq[q.sent + 1].n
               IN  /\ q.sent < Len(q.sq) /\ q.sq[q.sent + 1].op = "write"
                   /\ n \in Packets
                   /\ qp'["server"] = Executed(q) /\ qp'["client"] = qp["client"]
                   /\ mem'["server"] = mem["server"]
                   /\ mem'["client"] = [mem["client"] EXCEPT !.in =
                                           [@ EXCEPT ![n] = mem["server"].out[n]]]
      <3> DEFINE n == qp["server"].sq[qp["server"].sent + 1].n
      <3>1. mem["client"] \in Memory("client")
        BY Facts DEF TypeOK, MemOK
      <3>2. \A f : [mem["client"] EXCEPT !.in = f].in = f
        BY <3>1 DEF Memory
      <3>3. mem'["client"].in = [mem["client"].in EXCEPT ![n] = mem["server"].out[n]]
        BY <2>3, <3>2
      <3> QED
        BY <1>1, <1>4, <2>3, <3>3, WriteFlow
    <2> QED
      BY <2>1, <2>2, <2>3, NicKinds
  <1> QED
    BY <1>3, <1>4

-----------------------------------------------------------------------------
(* What a step of a process does to them.                                   *)

\* The client goes on to l: what is left to show.
LEMMA ClientMoves ==
    ASSUME IInv, FlowInv, Regular, UNCHANGED sessionVars,
           NEW l, NEW q, Goto("client", l),
           qp'["client"] = q, qp'["server"] = qp["server"],
           mem'["server"] = mem["server"], mem'["client"].in = mem["client"].in,
           shown'["server"] = shown["server"],
           l # "allocate", Receiving(l, q),
           Got(l, q, shown'["client"])
              <= Got(pc["client"], qp["client"], shown["client"]),
           l \notin Leaving => shown'["client"] = << >>,
           shown'["client"] # << >> => shown'["client"][1].in = mem["client"].in,
           ~MayFail("reg") => Holding(l, q, mr'["client"], shown'["client"])
    PROVE  FlowInv'
  <1> DEFINE s == qp["server"]
             k == pc["server"]
  <1>1. /\ params' = params /\ i' = i /\ sum' = sum /\ end' = end
    BY DEF sessionVars
  <1>2. /\ pc'["client"] = l /\ pc'["server"] = k
    BY Facts DEF Goto
  <1>3. FreshInv' /\ OutInv'
    BY <1>1, <1>2 DEF FlowInv, FreshInv, OutInv, Packets, Packet
  <1>4. DataInv'
    BY <1>1, <1>2 DEF FlowInv, DataInv, Arrived, Packets, Packet
  <1>5. ShownInv'
    <2>1. pc'["server"] \notin Leaving => shown'["server"] = << >>
      BY <1>2, Facts DEF FlowInv, ShownInv
    <2>2. \A e \in Peers : pc'[e] \notin Leaving => shown'[e] = << >>
      BY <1>2, <2>1 DEF Peers
    <2>3. shown'["server"] # << >> =>
             end # {} /\ \A j \in Packets : shown'["server"][1].out[j] = Packet(j)
      BY DEF FlowInv, ShownInv
    <2>4. Packets' = Packets
      BY <1>1 DEF Packets
    <2> QED
      BY <1>1, <2>2, <2>3, <2>4 DEF ShownInv, Packet
  <1>6. Got(l, q, shown'["client"]) <= Delivered(k, s)
    <2>1. /\ Got(l, q, shown'["client"]) \in Nat
          /\ Got(pc["client"], qp["client"], shown["client"]) \in Nat
      BY DEF Got, Taken
    <2>2. Delivered(k, s) \in Int
      BY DEF Delivered, Announced
    <2>3. Got(pc["client"], qp["client"], shown["client"]) <= Delivered(k, s)
      BY DEF FlowInv
    <2> QED
      BY <2>1, <2>2, <2>3
  <1>7. Queued(k, s)
    BY DEF FlowInv
  <1> HIDE DEF s, k
  <1>8. MayFail("reg")' = MayFail("reg")
    BY <1>1 DEF MayFail
  <1> QED
    BY <1>2, <1>3, <1>4, <1>5, <1>6, <1>7, <1>8 DEF FlowInv, s

\* The server goes on to l: what is left to show.
LEMMA ServerMoves ==
    ASSUME IInv, FlowInv, Regular, params' = params,
           NEW l, NEW q, Goto("server", l),
           qp'["server"] = q, qp'["client"] = qp["client"],
           mr'["client"] = mr["client"], mem'["client"] = mem["client"],
           shown'["client"] = shown["client"],
           Queued(l, q), Delivered(pc["server"], qp["server"]) <= Delivered(l, q),
           pc["client"] = "allocate" =>
              /\ l \in {"allocate", "get_mr", "get_mr_count"} \union Leaving
              /\ ~OkRecv(q),
           \A j \in Packets : mem'["server"].out[j] = Packet(j),
           DataInv',
           l \notin Leaving => shown'["server"] = << >>,
           shown'["server"] # << >> =>
              end' # {} /\ \A j \in Packets : shown'["server"][1].out[j] = Packet(j)
    PROVE  FlowInv'
  <1> DEFINE c == qp["client"]
             k == pc["client"]
  <1>1. /\ pc'["server"] = l /\ pc'["client"] = k
    BY Facts DEF Goto
  <1>2. Packets' = Packets /\ Filling("client")' = Filling("client")
    BY DEF Packets, Filling, Indices, Count
  <1>3. FreshInv' /\ OutInv'
    BY <1>1, <1>2 DEF FlowInv, FreshInv, OutInv, Packet
  <1>4. ShownInv'
    <2>1. pc'["client"] \notin Leaving => shown'["client"] = << >>
      BY <1>1, Facts DEF FlowInv, ShownInv
    <2>2. \A e \in Peers : pc'[e] \notin Leaving => shown'[e] = << >>
      BY <1>1, <2>1 DEF Peers
    <2>3. shown'["client"] # << >> => shown'["client"][1].in = mem'["client"].in
      BY DEF FlowInv, ShownInv
    <2> QED
      BY <1>2, <2>2, <2>3 DEF ShownInv, Packet
  <1>5. Got(k, c, shown["client"]) <= Delivered(l, q)
    <2>1. Got(k, c, shown["client"]) \in Nat
      BY DEF Got, Taken
    <2>2. /\ Delivered(l, q) \in Int
          /\ Delivered(pc["server"], qp["server"]) \in Int
      BY DEF Delivered, Announced
    <2>3. Got(k, c, shown["client"]) <= Delivered(pc["server"], qp["server"])
      BY DEF FlowInv
    <2> QED
      BY <2>1, <2>2, <2>3
  <1>6. Receiving(k, c)
        /\ (~MayFail("reg") => Holding(k, c, mr["client"], shown["client"]))
    BY DEF FlowInv
  <1> HIDE DEF c, k
  <1>7. MayFail("reg")' = MayFail("reg")
    BY DEF MayFail
  <1> QED
    BY <1>1, <1>3, <1>4, <1>5, <1>6, <1>7 DEF FlowInv, c

\* Posting a receive, and polling it.
LEMMA PostsReceive ==
    ASSUME NEW q, Accounted(q), RecvIdle(q), NEW kind \in Kinds
    PROVE  LET r == PostRecv(q, kind, 0)
           IN  /\ \A l \in RecvWaits : Receiving(l, r)
               /\ ~OkRecv(r)
  <1> DEFINE r == PostRecv(q, kind, 0)
             b == [kind |-> kind, n |-> 0]
             c == [ok |-> FALSE, buf |-> b, msg |-> b]
  <1>1. q \in QueuePairs /\ q.rcq = << >>
    BY QpFields DEF RecvIdle
  <1>2. RecvOne(r, b)
    BY PostRecvOne
  <1>3. \/ r.rcq = << >>
        \/ r.rcq = Append(<< >>, c) /\ r.state = "err"
    BY <1>1, IdleReceives DEF PostRecv, QueuePairs
  <1> HIDE DEF r
  <1>4. /\ \A j \in 1..Len(r.rcq) : ~r.rcq[j].ok => r.state # "rts"
        /\ ~OkRecv(r)
    <2>1. CASE r.rcq = << >>
      BY <2>1 DEF OkRecv
    <2>2. CASE r.rcq = Append(<< >>, c) /\ r.state = "err"
      <3>1. Len(r.rcq) = 1 /\ r.rcq[1] = c
        BY <2>2, UnitSeq
      <3>2. \A j \in 1..Len(r.rcq) : r.rcq[j] = c
        BY <3>1
      <3> QED
        BY <2>2, <3>2 DEF OkRecv
    <2> QED
      BY <1>3, <2>1, <2>2
  <1> QED
    BY <1>2, <1>4 DEF Receiving, r

LEMMA PollsReceive ==
    ASSUME NEW q, Accounted(q), NEW l \in RecvWaits, Receiving(l, q), q.rcq # << >>
    PROVE  /\ RecvIdle(PollRecv(q))
           /\ Head(q.rcq).ok => OkRecv(q)
           /\ ~Head(q.rcq).ok => PollRecv(q).state # "rts"
  <1>1. PICK kind \in Kinds : RecvOne(q, [kind |-> kind, n |-> 0])
    BY DEF Receiving
  <1>2. RecvIdle(PollRecv(q))
    BY <1>1, PollRecvOne
  <1>3. /\ q.rcq \in Seq(RecvCompletions) /\ 1 \in 1..Len(q.rcq)
        /\ Head(q.rcq) = q.rcq[1]
    BY QpFields
  <1>4. PollRecv(q).state = q.state
    BY SidesKept DEF SendSame
  <1> QED
    BY <1>2, <1>3, <1>4 DEF OkRecv, Receiving

\* An idle receive side is what is expected wherever no message is awaited.
LEMMA IdleExpects ==
    ASSUME NEW q, RecvIdle(q), NEW l, l \notin RecvWaits
    PROVE  Receiving(l, q)
  <1>1. Len(q.rcq) = 0
    BY DEF RecvIdle
  <1> QED
    BY <1>1 DEF Receiving

\* The client goes on, with its memory as it is, or leaves for a failure.
LEMMA ClientProcess ==
    ASSUME IInv, FlowInv, Regular, UNCHANGED <<sessionVars, mem, shown>>,
           pc["client"] \notin Leaving \union {"allocate"},
           NEW l, l \notin {"allocate", "disconnect", "done"}, Goto("client", l),
           NEW q, SetQp("client", q) \/ (q = qp["client"] /\ UNCHANGED qp),
           Receiving(l, q),
           Got(l, q, << >>) <= Got(pc["client"], qp["client"], << >>),
           mr' = mr \/ l = "crashed",
           l \in Leaving => MayFail("reg") \/ q.state # "rts"
    PROVE  FlowInv'
  <1>1. /\ qp'["client"] = q /\ qp'["server"] = qp["server"]
    BY Facts DEF SetQp, QpInv
  <1>2. shown["client"] = << >>
    BY Facts DEF FlowInv, ShownInv
  <1>3. ~MayFail("reg") => Holding(l, q, mr'["client"], shown'["client"])
    <2>1. ~MayFail("reg") => mr["client"].in = "reg"
      BY DEF FlowInv, Holding, Leaving
    <2> QED
      BY <2>1 DEF Holding
  <1> QED
    BY <1>1, <1>2, <1>3, ClientMoves

\* It posts a message or a receive.
LEMMA ClientPosts ==
    ASSUME IInv, FlowInv, Regular, UNCHANGED <<sessionVars, mr, mem, remote, shown>>,
           pc["client"] \notin RecvWaits \union Leaving \union {"allocate"},
           NEW q, NEW next, next \notin Leaving \union {"allocate"},
           \/ SetQp("client", q) /\ Goto("client", next)
           \/ MayFail("reg") /\ Goto("client", "deallocate") /\ UNCHANGED qp,
           Receiving(next, q),
           Got(next, q, << >>) <= Got(pc["client"], qp["client"], << >>)
    PROVE  FlowInv'
  <1>1. CASE SetQp("client", q) /\ Goto("client", next)
    BY <1>1, ClientProcess DEF Leaving
  <1>2. CASE MayFail("reg") /\ Goto("client", "deallocate") /\ UNCHANGED qp
    <2>1. RecvIdle(qp["client"])
      BY DEF FlowInv, Receiving
    <2>2. Receiving("deallocate", qp["client"])
      BY <2>1, IdleExpects DEF RecvWaits
    <2>3. /\ Got("deallocate", qp["client"], << >>) = 0
          /\ Got(pc["client"], qp["client"], << >>) \in Nat
      BY DEF Got, Taken, RecvWaits
    <2> QED
      BY <1>2, <2>2, <2>3, ClientProcess
  <1> QED
    BY <1>1, <1>2

\* A wait of the client is over.
LEMMA ClientWaits ==
    ASSUME IInv, FlowInv, Regular, UNCHANGED <<sessionVars, mr, mem, shown>>,
           pc["client"] \notin Leaving \union {"allocate"},
           NEW c, c.rv \in Int, NEW next, next \notin Leaving \union {"allocate"},
           Waited("client", c, next),
           c.rv < 0 => RecvIdle(c.q) /\ c.q.state # "rts",
           c.rv >= 0 => /\ Receiving(next, c.q)
                        /\ Got(next, c.q, << >>)
                           <= Got(pc["client"], qp["client"], << >>)
    PROVE  FlowInv'
  <1>1. SetQp("client", c.q)
        /\ Goto("client", IF c.rv < 0 THEN "deallocate" ELSE next)
    BY DEF Waited
  <1>2. CASE c.rv < 0
    <2>1. Receiving("deallocate", c.q)
      BY <1>2, IdleExpects DEF RecvWaits
    <2>2. /\ Got("deallocate", c.q, << >>) = 0
          /\ Got(pc["client"], qp["client"], << >>) \in Nat
      BY DEF Got, Taken, RecvWaits
    <2>3. Goto("client", "deallocate")
      BY <1>1, <1>2
    <2> QED
      BY <1>1, <1>2, <2>1, <2>2, <2>3, ClientProcess
  <1>3. CASE ~(c.rv < 0)
    <2>1. Goto("client", next) /\ c.rv >= 0
      BY <1>1, <1>3
    <2> QED
      BY <1>1, <2>1, ClientProcess DEF Leaving
  <1> QED
    BY <1>2, <1>3

\* A client that dies.
LEMMA ClientCrashes ==
    ASSUME IInv, FlowInv, Regular, UNCHANGED <<sessionVars, mem, shown>>,
           pc["client"] \notin Leaving \union {"allocate"}, Crash("client")
    PROVE  FlowInv'
  <1> DEFINE q == Destroyed(qp["client"])
  <1>1. RecvIdle(q) /\ q.state # "rts"
    BY DEF RecvIdle, Destroyed
  <1>2. SetQp("client", q) /\ Goto("client", "crashed")
    BY DEF Crash
  <1> HIDE DEF q
  <1>3. Receiving("crashed", q)
    BY <1>1, IdleExpects DEF RecvWaits
  <1>4. /\ Got("crashed", q, << >>) = 0
        /\ Got(pc["client"], qp["client"], << >>) \in Nat
    BY DEF Got, Taken, RecvWaits
  <1> QED
    BY <1>1, <1>2, <1>3, <1>4, ClientProcess

\* What dccs_rdma_recv_comp and dccs_rdma_send_comp return while polling is
\* reliable.
LEMMA CompsPolled ==
    ASSUME Polls, NEW e
    PROVE  /\ \A c \in RecvComp(e) :
                 /\ qp[e].rcq # << >> /\ c.q = PollRecv(qp[e]) /\ c.rv \in {1, -1}
                 /\ c.rv < 0 <=> ~Head(qp[e].rcq).ok
                 /\ c = [rv |-> c.rv, q |-> c.q]
           /\ \A c \in SendComp(e) :
                 /\ qp[e].scq # << >> /\ c.q = PollSend(qp[e]) /\ c.rv \in {1, -1}
                 /\ c.rv < 0 <=> ~Head(qp[e].scq).ok
                 /\ c = [rv |-> c.rv, q |-> c.q]
  <1>1. params.faults \intersect {"poll"} = {}
    BY DEF Polls, MayFail
  <1>2. ASSUME NEW c \in RecvComp(e)
        PROVE  /\ qp[e].rcq # << >> /\ c.q = PollRecv(qp[e]) /\ c.rv \in {1, -1}
               /\ c.rv < 0 <=> ~Head(qp[e].rcq).ok
               /\ c = [rv |-> c.rv, q |-> c.q]
    <2>1. /\ qp[e].rcq # << >>
          /\ c = [rv |-> IF Head(qp[e].rcq).ok THEN 1 ELSE -1, q |-> PollRecv(qp[e])]
      BY <1>1 DEF RecvComp
    <2> QED
      BY <2>1
  <1>3. ASSUME NEW c \in SendComp(e)
        PROVE  /\ qp[e].scq # << >> /\ c.q = PollSend(qp[e]) /\ c.rv \in {1, -1}
               /\ c.rv < 0 <=> ~Head(qp[e].scq).ok
               /\ c = [rv |-> c.rv, q |-> c.q]
    <2>1. /\ qp[e].scq # << >>
          /\ c = [rv |-> IF Head(qp[e].scq).ok THEN 1 ELSE -1, q |-> PollSend(qp[e])]
      BY <1>1 DEF SendComp
    <2> QED
      BY <2>1
  <1> QED
    BY <1>2, <1>3

\* The count has come, or the wait for it has failed: the counts are equal, and
\* what is left is whether there is room for the receive of the array.
LEMMA CountReceived ==
    ASSUME Regular, NEW e \in Peers, GetMrCount(e)
    PROVE  \E c \in RecvComp(e) :
              \/ c.rv < 0 /\ Waited(e, c, "deallocate")
              \/ /\ c.rv > 0
                 /\ Waited(e, [rv |-> IF CanRecv(c.q) THEN 1 ELSE -1,
                               q |-> PostRecv(c.q, "array", 0)], "get_mr_array")
  <1>1. Count(e) = Count(Peer(e))
    BY DEF Regular, Count, Peer, Peers
  <1> QED
    BY <1>1 DEF GetMrCount, Waited

\* What a client's wait for a message gives it.
LEMMA ClientReceives ==
    ASSUME IInv, FlowInv, Regular, pc["client"] \in RecvWaits,
           NEW c \in RecvComp("client")
    PROVE  /\ c.rv \in {1, -1} /\ RecvIdle(c.q) /\ Accounted(c.q)
           /\ c = [rv |-> c.rv, q |-> c.q]
           /\ c.rv < 0 => c.q.state # "rts"
           /\ c.rv >= 0 => OkRecv(qp["client"])
  <1>1. /\ Accounted(qp["client"]) /\ Receiving(pc["client"], qp["client"])
    BY Facts DEF FlowInv
  <1>2. /\ qp["client"].rcq # << >> /\ c.q = PollRecv(qp["client"])
        /\ c.rv \in {1, -1} /\ c = [rv |-> c.rv, q |-> c.q]
        /\ c.rv < 0 <=> ~Head(qp["client"].rcq).ok
    BY CompsPolled DEF Regular
  <1>3. Accounted(c.q)
    BY <1>1, <1>2, PollRecvAccounted
  <1>4. /\ RecvIdle(c.q) /\ (Head(qp["client"].rcq).ok => OkRecv(qp["client"]))
        /\ ~Head(qp["client"].rcq).ok => c.q.state # "rts"
    BY <1>1, <1>2, PollsReceive
  <1> QED
    BY <1>2, <1>3, <1>4

\* What its wait for a completion of a send gives it.
LEMMA ClientSent ==
    ASSUME IInv, FlowInv, Regular, pc["client"] \notin RecvWaits,
           NEW c \in SendComp("client")
    PROVE  /\ c.rv \in {1, -1} /\ RecvIdle(c.q) /\ Accounted(c.q)
           /\ c = [rv |-> c.rv, q |-> c.q]
           /\ c.rv < 0 => c.q.state # "rts"
  <1> DEFINE q == qp["client"]
  <1>1. /\ Accounted(q) /\ FailuresLast(q) /\ RecvIdle(q)
    BY Facts DEF FlowInv, Receiving, Good
  <1>2. /\ q.scq # << >> /\ c.q = PollSend(q)
        /\ c.rv \in {1, -1} /\ c = [rv |-> c.rv, q |-> c.q]
        /\ c.rv < 0 <=> ~Head(q.scq).ok
    BY CompsPolled DEF Regular
  <1> HIDE DEF q
  <1>3. Accounted(c.q)
    BY <1>1, <1>2, PollSendAccounted
  <1>4. RecvIdle(c.q)
    BY <1>1, <1>2, SidesKept DEF RecvSame, RecvIdle
  <1>5. ~Head(q.scq).ok => c.q.state # "rts"
    BY <1>1, <1>2, PollSendFailuresLast DEF Broken
  <1> QED
    BY <1>2, <1>3, <1>4, <1>5

\* The client's part of the memory-region exchange.
LEMMA ClientExchange ==
    ASSUME IInv, FlowInv, Regular, Exchange("client")
    PROVE  FlowInv'
  <1> DEFINE q == qp["client"]
  <1>1. /\ Accounted(q) /\ Receiving(pc["client"], q)
    BY Facts DEF FlowInv
  <1>2. CASE GetMrInfo("client")
    <2>1. /\ pc["client"] = "get_mr" /\ UNCHANGED <<sessionVars, mr, mem, remote, shown>>
          /\ \/ SetQp("client", PostRecv(q, "count", 0)) /\ Goto("client", "get_mr_count")
             \/ MayFail("reg") /\ Goto("client", "deallocate") /\ UNCHANGED qp
      <3>1. pc["client"] = "get_mr"
        BY <1>2 DEF GetMrInfo
      <3>2. CanRecv(q)
        BY <1>1, <3>1, IdleReceives DEF Receiving, RecvWaits
      <3> QED
        BY <1>2, <3>2 DEF PostControl, GetMrInfo, RecvControl
    <2>2. RecvIdle(q)
      BY <1>1, <2>1 DEF Receiving, RecvWaits
    <2>3. /\ Receiving("get_mr_count", PostRecv(q, "count", 0))
          /\ ~OkRecv(PostRecv(q, "count", 0))
      BY <1>1, <2>2, PostsReceive DEF Kinds, RecvWaits
    <2>4. /\ Got("get_mr_count", PostRecv(q, "count", 0), << >>) = 0
          /\ Got(pc["client"], q, << >>) = 0
      BY <2>1, <2>3 DEF Got, Taken, RecvWaits
    <2> QED
      BY <2>1, <2>3, <2>4, ClientPosts DEF Leaving, RecvWaits
  <1>3. CASE GetMrCount("client")
    <2>1. /\ pc["client"] = "get_mr_count"
          /\ UNCHANGED <<sessionVars, mr, mem, remote, shown>>
      BY <1>3 DEF GetMrCount
    <2>2. PICK c \in RecvComp("client") :
             \/ c.rv < 0 /\ Waited("client", c, "deallocate")
             \/ /\ c.rv > 0
                /\ Waited("client", [rv |-> IF CanRecv(c.q) THEN 1 ELSE -1,
                                     q |-> PostRecv(c.q, "array", 0)], "get_mr_array")
      BY <1>3, CountReceived, Facts
    <2>3. /\ c.rv \in {1, -1} /\ RecvIdle(c.q) /\ Accounted(c.q)
          /\ c.rv < 0 => c.q.state # "rts"
          /\ c.rv >= 0 => OkRecv(q)
      BY <2>1, ClientReceives DEF RecvWaits
    <2>4. CASE c.rv < 0
      <3>1. Waited("client", c, "get_mr_array")
        BY <2>2, <2>3, <2>4 DEF Waited
      <3> QED
        BY <2>1, <2>3, <2>4, <3>1, ClientWaits DEF Leaving
    <2>5. CASE ~(c.rv < 0)
      <3> DEFINE r == PostRecv(c.q, "array", 0)
                 d == [rv |-> 1, q |-> r]
      <3>1. Waited("client", d, "get_mr_array") /\ d.rv = 1 /\ d.q = r
        BY <2>2, <2>3, <2>5, IdleReceives
      <3>2. Receiving("get_mr_array", r) /\ ~OkRecv(r)
        BY <2>3, PostsReceive DEF Kinds, RecvWaits
      <3> HIDE DEF r, d
      <3>3. Got("get_mr_array", r, << >>) = 1 /\ Got(pc["client"], q, << >>) = 1
        BY <2>1, <2>3, <2>5, <3>2 DEF Got, Taken, RecvWaits
      <3> QED
        BY <2>1, <2>3, <2>5, <3>1, <3>2, <3>3, ClientWaits DEF Leaving
    <2> QED
      BY <2>4, <2>5
  <1>4. CASE GetMrArray("client")
    <2>1. /\ pc["client"] = "get_mr_array"
          /\ UNCHANGED <<sessionVars, mr, mem, shown>>
      BY <1>4 DEF GetMrArray
    <2>2. PICK c \in RecvComp("client") : Waited("client", c, "slot")
      BY <1>4 DEF GetMrArray, AfterGet
    <2>3. /\ c.rv \in {1, -1} /\ RecvIdle(c.q)
          /\ c.rv < 0 => c.q.state # "rts"
          /\ c.rv >= 0 => OkRecv(q)
      BY <2>1, ClientReceives DEF RecvWaits
    <2>4. Receiving("slot", c.q)
      BY <2>3, IdleExpects DEF RecvWaits
    <2>5. c.rv >= 0 => Got("slot", c.q, << >>) = 2 /\ Got(pc["client"], q, << >>) = 2
      BY <2>1, <2>3 DEF Got, Taken, RecvWaits
    <2> QED
      BY <2>1, <2>2, <2>3, <2>4, <2>5, ClientWaits DEF Leaving
  <1>5. CASE SendMrInfo("client")
    <2>1. /\ pc["client"] = "send_mr" /\ UNCHANGED <<sessionVars, mem, remote, shown>>
      BY <1>5 DEF SendMrInfo
    <2>2. CASE Crash("client")
      BY <2>1, <2>2, ClientCrashes DEF Leaving
    <2>3. CASE SendControl("client", "count", "send_mr_count") /\ UNCHANGED mr
      <3> DEFINE r == PostSend(q, "send", "count", 0, TRUE)
      <3>1. CanPost(q)
        <4>1. Unretired(q) = 0
          BY <2>1, Facts DEF Phases, ExchangeInv, Before
        <4> QED
          BY <4>1, MaxWrAssumption DEF CanPost, Unretired
      <3>2. \/ SetQp("client", r) /\ Goto("client", "send_mr_count")
            \/ MayFail("reg") /\ Goto("client", "deallocate") /\ UNCHANGED qp
        BY <2>3, <3>1 DEF SendControl, PostControl
      <3>3. RecvIdle(r)
        <4>1. RecvSame(q, r)
          BY <1>1, SidesKept
        <4>2. RecvIdle(q)
          BY <1>1, <2>1 DEF Receiving, RecvWaits
        <4> QED
          BY <4>1, <4>2, RecvPhasesSame
      <3> HIDE DEF r
      <3>4. Receiving("send_mr_count", r)
        BY <3>3, IdleExpects DEF RecvWaits
      <3>5. Got("send_mr_count", r, << >>) = 0 /\ Got(pc["client"], q, << >>) = 0
        BY <2>1 DEF Got, Taken, RecvWaits
      <3> QED
        BY <2>1, <2>3, <3>2, <3>4, <3>5, ClientPosts DEF Leaving, RecvWaits
    <2> QED
      BY <1>5, <2>2, <2>3 DEF SendMrInfo
  <1>6. CASE SendMrCount("client")
    <2>1. /\ pc["client"] = "send_mr_count"
          /\ UNCHANGED <<sessionVars, mr, mem, remote, shown>>
      BY <1>6 DEF SendMrCount
    <2>2. PICK c \in SendComp("client") :
             Waited("client", IF c.rv < 0 THEN c
                              ELSE [c EXCEPT !.q = PostSend(@, "send", "array", 0, TRUE)],
                    "send_mr_array")
      BY <1>6 DEF SendMrCount
    <2>3. /\ c.rv \in {1, -1} /\ RecvIdle(c.q) /\ Accounted(c.q)
          /\ c = [rv |-> c.rv, q |-> c.q]
          /\ c.rv < 0 => c.q.state # "rts"
      BY <2>1, ClientSent DEF RecvWaits
    <2>4. CASE c.rv < 0
      BY <2>1, <2>2, <2>3, <2>4, ClientWaits DEF Leaving
    <2>5. CASE ~(c.rv < 0)
      <3> DEFINE r == PostSend(c.q, "send", "array", 0, TRUE)
                 d == [rv |-> c.rv, q |-> r]
      <3>1. Waited("client", d, "send_mr_array") /\ d.rv = c.rv /\ d.q = r
        <4>1. \A x : [c EXCEPT !.q = x] = [rv |-> c.rv, q |-> x]
          BY <2>3
        <4>2. [c EXCEPT !.q = PostSend(@, "send", "array", 0, TRUE)] = d
          BY <4>1
        <4> QED
          BY <2>2, <2>5, <4>2
      <3>2. RecvIdle(r)
        <4>1. RecvSame(c.q, r)
          BY <2>3, SidesKept
        <4> QED
          BY <2>3, <4>1, RecvPhasesSame
      <3> HIDE DEF r, d
      <3>3. Receiving("send_mr_array", r)
        BY <3>2, IdleExpects DEF RecvWaits
      <3>4. Got("send_mr_array", r, << >>) = 0 /\ Got(pc["client"], q, << >>) = 0
        BY <2>1 DEF Got, Taken, RecvWaits
      <3> QED
        BY <2>1, <2>3, <2>5, <3>1, <3>3, <3>4, ClientWaits DEF Leaving
    <2> QED
      BY <2>4, <2>5
  <1>7. CASE SendMrArray("client")
    <2>1. /\ pc["client"] = "send_mr_array"
          /\ UNCHANGED <<sessionVars, mr, mem, shown>>
      BY <1>7 DEF SendMrArray
    <2>2. PICK c \in SendComp("client") : Waited("client", c, "get_mr")
      BY <1>7 DEF SendMrArray, AfterSend
    <2>3. /\ c.rv \in {1, -1} /\ RecvIdle(c.q)
          /\ c.rv < 0 => c.q.state # "rts"
      BY <2>1, ClientSent DEF RecvWaits
    <2>4. Receiving("get_mr", c.q)
      BY <2>3, IdleExpects DEF RecvWaits
    <2>5. Got("get_mr", c.q, << >>) = 0 /\ Got(pc["client"], q, << >>) = 0
      BY <2>1 DEF Got, Taken, RecvWaits
    <2> QED
      BY <2>1, <2>2, <2>3, <2>4, <2>5, ClientWaits DEF Leaving
  <1> QED
    BY <1>2, <1>3, <1>4, <1>5, <1>6, <1>7 DEF Exchange

\* The rest of the client's run().
LEMMA ClientFlow ==
    ASSUME IInv, FlowInv, Regular, ClientStep
    PROVE  FlowInv'
  <1> DEFINE q == qp["client"]
             s == shown["client"]
  <1>1. /\ Accounted(q) /\ Receiving(pc["client"], q) /\ "client" \in Peers
        /\ "server" \in Peers
        /\ pc["client"] \notin Leaving => s = << >>
        /\ s # << >> => s[1].in = mem["client"].in
        /\ ~MayFail("reg") => Holding(pc["client"], q, mr["client"], s)
        /\ mr \in [Peers -> [in : MrStates, out : MrStates]]
        /\ MemOK(mem) /\ ShownOK(shown)
    BY Facts DEF FlowInv, ShownInv, TypeOK
  <1>2. CASE Allocate("client")
    <2>1. /\ pc["client"] = "allocate" /\ UNCHANGED <<sessionVars, remote, qp, shown>>
          /\ Goto("client", "send_mr")
      BY <1>2 DEF Allocate, AfterAllocate
    <2>2. /\ mem'["server"] = mem["server"]
          /\ mem'["client"].in = Filling("client")
      BY <1>1, <1>2 DEF Allocate, MemOK
    <2>3. mem["client"].in = Filling("client")
      BY <2>1 DEF FlowInv, FreshInv
    <2>4. ~MayFail("reg") => mr'["client"].in = "reg"
      BY <1>1, <1>2 DEF Allocate
    <2>5. Receiving("send_mr", q)
      BY <1>1, <2>1, IdleExpects DEF Receiving, RecvWaits
    <2>6. s = << >> /\ shown' = shown
      BY <1>1, <2>1 DEF Leaving
    <2>7. Got("send_mr", q, s) = 0 /\ Got(pc["client"], q, s) = 0
      BY <2>1, <2>6 DEF Got, Taken, RecvWaits
    <2>8. ~MayFail("reg") => Holding("send_mr", q, mr'["client"], s)
      BY <2>4 DEF Holding, Leaving
    <2> QED
      <3>1. /\ UNCHANGED sessionVars /\ qp'["client"] = q /\ qp'["server"] = qp["server"]
            /\ mem'["client"].in = mem["client"].in
        BY <2>1, <2>2, <2>3
      <3> HIDE DEF q, s
      <3> QED
        BY <2>1, <2>2, <2>5, <2>6, <2>7, <2>8, <3>1, ClientMoves DEF q, s
  <1>3. CASE Exchange("client")
    BY <1>3, ClientExchange
  <1>4. CASE DivideByZero("client")
    BY <1>4, ClientCrashes DEF DivideByZero, Leaving
  <1>5. CASE ClientSlots
    <2>1. /\ pc["client"] = "slot" /\ Goto("client", "end_post")
          /\ UNCHANGED <<sessionVars, mr, mem, qp, shown>>
      BY <1>5 DEF ClientSlots
    <2>2. Receiving("end_post", q)
      BY <1>1, <2>1, IdleExpects DEF Receiving, RecvWaits
    <2>3. Got("end_post", q, << >>) = 2 /\ Got(pc["client"], q, << >>) = 2
      BY <2>1 DEF Got, Taken, RecvWaits
    <2> QED
      BY <2>1, <2>2, <2>3, ClientProcess DEF Leaving
  <1>6. CASE EndPost("client")
    <2>1. /\ pc["client"] = "end_post" /\ UNCHANGED <<sessionVars, mr, mem, remote, shown>>
          /\ \/ SetQp("client", PostRecv(q, "end", 0)) /\ Goto("client", "end_wait")
             \/ MayFail("reg") /\ Goto("client", "deallocate") /\ UNCHANGED qp
      <3>1. pc["client"] = "end_post"
        BY <1>6 DEF EndPost
      <3>2. CanRecv(q)
        BY <1>1, <3>1, IdleReceives DEF Receiving, RecvWaits
      <3> QED
        BY <1>6, <3>2 DEF PostControl, EndPost, RecvControl
    <2>2. RecvIdle(q)
      BY <1>1, <2>1 DEF Receiving, RecvWaits
    <2>3. /\ Receiving("end_wait", PostRecv(q, "end", 0))
          /\ ~OkRecv(PostRecv(q, "end", 0))
      BY <1>1, <2>2, PostsReceive DEF Kinds, RecvWaits
    <2>4. /\ Got("end_wait", PostRecv(q, "end", 0), << >>) = 2
          /\ Got(pc["client"], q, << >>) = 2
      BY <2>1, <2>3 DEF Got, Taken, RecvWaits
    <2> QED
      BY <2>1, <2>3, <2>4, ClientPosts DEF Leaving, RecvWaits
  <1>7. CASE EndWait("client")
    <2>1. /\ pc["client"] = "end_wait" /\ UNCHANGED <<sessionVars, mr, mem, shown>>
      BY <1>7 DEF EndWait
    <2>2. PICK c \in RecvComp("client") : Waited("client", c, "stats")
      BY <1>7 DEF EndWait
    <2>3. /\ c.rv \in {1, -1} /\ RecvIdle(c.q)
          /\ c.rv < 0 => c.q.state # "rts"
          /\ c.rv >= 0 => OkRecv(q)
      BY <2>1, ClientReceives DEF RecvWaits
    <2>4. Receiving("stats", c.q)
      BY <2>3, IdleExpects DEF RecvWaits
    <2>5. c.rv >= 0 => Got("stats", c.q, << >>) = 3 /\ Got(pc["client"], q, << >>) = 3
      BY <2>1, <2>3 DEF Got, Taken, RecvWaits
    <2> QED
      BY <2>1, <2>2, <2>3, <2>4, <2>5, ClientWaits DEF Leaving
  <1>8. CASE PrintStats("client")
    <2>1. /\ pc["client"] = "stats" /\ UNCHANGED <<sessionVars, mr, mem, qp>>
          /\ Goto("client", "deallocate")
          /\ shown' = [shown EXCEPT !["client"] = <<mem["client"]>>]
      BY <1>8 DEF PrintStats
    <2>2. /\ shown'["client"] = <<mem["client"]>> /\ shown'["server"] = shown["server"]
          /\ shown'["client"] # << >> /\ shown'["client"][1] = mem["client"]
      BY <1>1, <2>1 DEF ShownOK
    <2>3. Receiving("deallocate", q)
      BY <1>1, <2>1, IdleExpects DEF Receiving, RecvWaits
    <2>4. Got("deallocate", q, shown'["client"]) = 3 /\ Got(pc["client"], q, s) = 3
      BY <2>1, <2>2 DEF Got, Taken, RecvWaits
    <2>5. ~MayFail("reg") => Holding("deallocate", q, mr["client"], shown'["client"])
      BY <1>1, <2>1, <2>2 DEF Holding
    <2> QED
      <3>1. /\ UNCHANGED sessionVars /\ qp'["client"] = q /\ qp'["server"] = qp["server"]
            /\ mem'["server"] = mem["server"] /\ mem'["client"].in = mem["client"].in
            /\ mr'["client"] = mr["client"] /\ "deallocate" \in Leaving
            /\ shown'["client"][1].in = mem["client"].in
        BY <2>1, <2>2 DEF Leaving
      <3> HIDE DEF q, s
      <3> QED
        BY <2>1, <2>2, <2>3, <2>4, <2>5, <3>1, ClientMoves DEF q, s
  <1>9. ASSUME NEW l \in Leaving, NEW r, pc["client"] \in Leaving,
               UNCHANGED <<sessionVars, mem, shown>>,
               Goto("client", l),
               qp'["client"] = r, qp'["server"] = qp["server"],
               r.state = "rts" => r = q, RecvIdle(r), l # "deallocate"
        PROVE  FlowInv'
    <2>1. Receiving(l, r)
      BY <1>9, IdleExpects DEF Leaving, RecvWaits
    <2>2. /\ Got(l, r, s) = Got(pc["client"], q, s) /\ Got(l, r, s) \in Nat
      BY <1>9 DEF Got, Taken, Leaving, RecvWaits
    <2>3. ~MayFail("reg") => Holding(l, r, mr'["client"], s)
      BY <1>1, <1>9 DEF Holding, Leaving
    <2> QED
      <3>1. /\ UNCHANGED sessionVars /\ mem'["server"] = mem["server"]
            /\ mem'["client"].in = mem["client"].in
            /\ shown'["client"] = s /\ shown'["server"] = shown["server"]
            /\ l # "allocate" /\ Got(l, r, s) <= Got(pc["client"], q, s)
        BY <1>9, <2>2 DEF Leaving
      <3> HIDE DEF q
      <3> QED
        BY <1>1, <1>9, <2>1, <2>3, <3>1, ClientMoves DEF q
  <1>10. CASE DeallocateBuffers("client")
    <2>1. /\ pc["client"] = "deallocate" /\ UNCHANGED <<sessionVars, mem, shown>>
      BY <1>10 DEF DeallocateBuffers
    <2>2. RecvIdle(q)
      BY <1>1, <2>1 DEF Receiving, RecvWaits
    <2>3. CASE Crash("client")
      <3>1. /\ Goto("client", "crashed")
            /\ qp'["client"] = Destroyed(q) /\ qp'["server"] = qp["server"]
        BY <2>3, Facts DEF Crash, SetQp, QpInv
      <3>2. RecvIdle(Destroyed(q)) /\ Destroyed(q).state # "rts"
        BY DEF RecvIdle, Destroyed
      <3> QED
        BY <1>9, <2>1, <3>1, <3>2 DEF Leaving
    <2>4. CASE Goto("client", "disconnect") /\ UNCHANGED qp
      BY <1>9, <2>1, <2>2, <2>4 DEF Leaving
    <2> QED
      BY <1>10, <2>3, <2>4 DEF DeallocateBuffers
  <1>11. CASE Disconnect("client")
    <2>1. /\ pc["client"] = "disconnect" /\ UNCHANGED <<sessionVars, mem, shown>>
          /\ Goto("client", "done")
          /\ qp'["client"] = Destroyed(q) /\ qp'["server"] = qp["server"]
      BY <1>11, Facts DEF Disconnect, SetQp, QpInv
    <2>2. RecvIdle(Destroyed(q)) /\ Destroyed(q).state # "rts"
      BY DEF RecvIdle, Destroyed
    <2> QED
      BY <1>9, <2>1, <2>2 DEF Leaving
  <1> QED
    BY <1>2, <1>3, <1>4, <1>5, <1>6, <1>7, <1>8, <1>10, <1>11
    DEF ClientStep, Process, Teardown

\* The messages delivered are those announced but, perhaps, the last.
LEMMA DeliveredBounds ==
    ASSUME NEW l, NEW q
    PROVE  /\ Delivered(l, q) \in Int /\ Announced(l) \in 0..3
           /\ Announced(l) - 1 <= Delivered(l, q) /\ Delivered(l, q) <= Announced(l)
           /\ l \notin Announcing => Delivered(l, q) = Announced(l)
  BY DEF Delivered, Announced

\* An empty send queue is what is expected everywhere.
LEMMA EmptyQueued ==
    ASSUME NEW q, q.sq = << >>, NEW l
    PROVE  Queued(l, q)
  <1>1. Len(q.sq) = 0
    BY Zenon, EmptyLen
  <1> QED
    BY <1>1 DEF Queued

\* Posting a message on an empty queue.
LEMMA PostsMessage ==
    ASSUME NEW q, Accounted(q), q.sq = << >>, NEW kind \in Kinds, NEW l \in Announcing
    PROVE  Queued(l, PostSend(q, "send", kind, 0, TRUE))
  <1> DEFINE r  == PostSend(q, "send", kind, 0, TRUE)
             wr == [op |-> "send", kind |-> kind, n |-> 0, sig |-> TRUE,
                    idx |-> q.posted + 1]
  <1>1. Posted(q, r, wr)
    BY PostSendFields
  <1>2. wr.op = "send" /\ Len(q.sq) = 0
    BY EmptyLen
  <1> HIDE DEF r, wr
  <1>3. \/ r.sq = << >>
        \/ Len(r.sq) = 1 /\ \A j \in 1..Len(r.sq) : r.sq[j].op = "send"
    BY <1>1, <1>2 DEF Posted
  <1>4. CASE r.sq = << >>
    BY <1>4, EmptyQueued DEF r
  <1>5. CASE Len(r.sq) = 1 /\ \A j \in 1..Len(r.sq) : r.sq[j].op = "send"
    <2>1. l \notin Writing
      BY DEF Announcing, Writing
    <2>2. Queued(l, r)
      BY <1>5, <2>1 DEF Queued
    <2> QED
      BY <2>2 DEF r
  <1> QED
    BY <1>3, <1>4, <1>5

\* Neither posting nor polling brings a message.
LEMMA NoMessage ==
    ASSUME NEW q, Accounted(q), ~OkRecv(q)
    PROVE  /\ \A kind \in Kinds : ~OkRecv(PostRecv(q, kind, 0))
           /\ q.rcq # << >> => ~OkRecv(PollRecv(q))
           /\ ~OkRecv(Destroyed(q))
  <1>1. /\ q \in QueuePairs /\ q.rcq \in Seq(RecvCompletions) /\ Len(q.rcq) \in Nat
        /\ \A j \in 1..Len(q.rcq) : ~q.rcq[j].ok
    BY QpFields DEF OkRecv
  <1>2. ASSUME NEW kind \in Kinds PROVE ~OkRecv(PostRecv(q, kind, 0))
    <2> DEFINE r == PostRecv(q, kind, 0)
               b == [kind |-> kind, n |-> 0]
               c == [ok |-> FALSE, buf |-> b, msg |-> b]
    <2>1. r.rcq = q.rcq \/ r.rcq = Append(q.rcq, c)
      BY <1>1 DEF PostRecv, QueuePairs
    <2>2. c \in RecvCompletions /\ c.ok = FALSE
      BY DEF RecvCompletions, Buffers
    <2> HIDE DEF r, c
    <2>3. CASE r.rcq = Append(q.rcq, c)
      <3>1. \A j \in 1..Len(r.rcq) : \/ j \in 1..Len(q.rcq) /\ r.rcq[j] = q.rcq[j]
                                     \/ r.rcq[j] = c
        BY <1>1, <2>2, <2>3, AppendEntries
      <3> QED
        BY <1>1, <2>2, <3>1 DEF OkRecv, r
    <2> QED
      BY <1>1, <2>1, <2>3 DEF OkRecv, r
  <1>3. ASSUME q.rcq # << >> PROVE ~OkRecv(PollRecv(q))
    <2>1. PollRecv(q).rcq = Tail(q.rcq)
      BY <1>1 DEF PollRecv, QueuePairs
    <2>2. \A j \in 1..Len(Tail(q.rcq)) :
             j + 1 \in 1..Len(q.rcq) /\ Tail(q.rcq)[j] = q.rcq[j + 1]
      BY <1>1, <1>3
    <2> QED
      BY <1>1, <2>1, <2>2 DEF OkRecv
  <1>4. ~OkRecv(Destroyed(q))
    BY DEF OkRecv, Destroyed
  <1> QED
    BY <1>2, <1>3, <1>4

\* Behind the wait for a message the client has allocated its buffers.
LEMMA ClientAllocated ==
    ASSUME FlowInv, Regular,
           pc["server"] \notin {"allocate", "get_mr", "get_mr_count"} \union Leaving
    PROVE  pc["client"] # "allocate"
  BY DEF FlowInv, FreshInv

\* Outside the slots the packets are left alone.
LEMMA DataKept ==
    ASSUME FlowInv, Regular, UNCHANGED sessionVars, mem'["client"] = mem["client"],
           pc'["server"] \notin Writing
    PROVE  DataInv'
  BY DEF FlowInv, DataInv, sessionVars, Arrived, Packets, Packet, Writing

\* The server goes on outside the slots, or leaves.
LEMMA ServerProcess ==
    ASSUME IInv, FlowInv, Regular, UNCHANGED <<sessionVars, mem, shown>>,
           pc["server"] \notin Leaving \union {"allocate"},
           NEW l, l # "slot_wait", Goto("server", l), l = "slot" => i = 1,
           NEW q, SetQp("server", q) \/ (q = qp["server"] /\ UNCHANGED qp),
           mr'["client"] = mr["client"], Queued(l, q),
           Delivered(pc["server"], qp["server"]) <= Delivered(l, q),
           pc["client"] = "allocate" =>
              l \in {"allocate", "get_mr", "get_mr_count"} \union Leaving /\ ~OkRecv(q)
    PROVE  FlowInv'
  <1>1. /\ qp'["server"] = q /\ qp'["client"] = qp["client"]
    BY Facts DEF SetQp, QpInv
  <1>2. shown["server"] = << >>
    BY Facts DEF FlowInv, ShownInv
  <1>3. pc'["server"] = l
    BY Facts DEF Goto
  <1>4. DataInv'
    <2>1. CASE l # "slot"
      BY <1>3, <2>1, DataKept DEF Writing
    <2>2. CASE l = "slot"
      <3>1. /\ i' = 1 /\ end' = end /\ params' = params /\ mem' = mem
            /\ pc'["server"] = "slot"
        BY <1>3, <2>2 DEF sessionVars
      <3>2. \A j \in 1..(i' - 1) : FALSE
        BY <3>1
      <3>3. end' # {} => \A j \in Packets' : Arrived(j)'
        BY <3>1 DEF FlowInv, DataInv, Arrived, Packets, Packet
      <3> QED
        BY <3>1, <3>2, <3>3 DEF DataInv
    <2> QED
      BY <2>1, <2>2
  <1>5. \A j \in Packets : mem'["server"].out[j] = Packet(j)
    BY DEF FlowInv, OutInv
  <1>6. params' = params /\ shown' = shown /\ mem' = mem
    BY DEF sessionVars
  <1> QED
    BY <1>1, <1>2, <1>4, <1>5, <1>6, ServerMoves

\* The server leaves.
LEMMA ServerLeaves ==
    ASSUME IInv, FlowInv, Regular, UNCHANGED <<sessionVars, mem, shown>>,
           pc["server"] \notin Leaving \union {"allocate"},
           NEW l \in Leaving, Goto("server", l),
           NEW q, SetQp("server", q) \/ (q = qp["server"] /\ UNCHANGED qp),
           mr'["client"] = mr["client"], q.sq = << >>,
           pc["client"] = "allocate" => ~OkRecv(q)
    PROVE  FlowInv'
  <1>1. l \notin {"slot", "slot_wait"} /\ l \notin Announcing
    BY DEF Leaving, Announcing
  <1>2. Queued(l, q)
    BY EmptyQueued
  <1>3. Announced(l) = 3
    BY DEF Announced
  <1>4. Delivered(l, q) = 3
    BY <1>1, <1>3, DeliveredBounds
  <1>5. Delivered(pc["server"], qp["server"]) <= 3
    BY DeliveredBounds
  <1> QED
    BY <1>1, <1>2, <1>4, <1>5, ServerProcess

\* A server that dies.
LEMMA ServerCrashes ==
    ASSUME IInv, FlowInv, Regular, UNCHANGED <<sessionVars, mem, shown>>,
           pc["server"] \notin Leaving \union {"allocate"}, Crash("server")
    PROVE  FlowInv'
  <1> DEFINE q == Destroyed(qp["server"])
  <1>1. q.sq = << >> /\ ~OkRecv(q)
    BY DEF OkRecv, Destroyed
  <1>2. SetQp("server", q) /\ Goto("server", "crashed")
    BY DEF Crash
  <1>3. mr'["client"] = mr["client"]
    BY Facts DEF Crash, TypeOK
  <1> HIDE DEF q
  <1> QED
    BY <1>1, <1>2, <1>3, ServerLeaves DEF Leaving

\* What the server's wait for the completion of a message gives it: the queue is
\* empty.
LEMMA ServerSent ==
    ASSUME IInv, FlowInv, Regular, pc["server"] \in Announcing,
           NEW c \in SendComp("server")
    PROVE  /\ c.rv \in {1, -1} /\ Accounted(c.q) /\ c.q.sq = << >>
           /\ c = [rv |-> c.rv, q |-> c.q]
  <1> DEFINE q == qp["server"]
  <1>1. /\ Accounted(q) /\ FailuresLast(q) /\ Good("server", q)
    BY Facts DEF Good
  <1>2. /\ q.scq # << >> /\ c.q = PollSend(q)
        /\ c.rv \in {1, -1} /\ c = [rv |-> c.rv, q |-> c.q]
        /\ c.rv < 0 <=> ~Head(q.scq).ok
    BY CompsPolled DEF Regular
  <1>3. Accounted(c.q)
    BY <1>1, <1>2, PollSendAccounted
  <1>4. CASE c.rv < 0
    <2>1. Broken(c.q)
      BY <1>1, <1>2, <1>4, PollSendFailuresLast
    <2> QED
      BY <1>2, <1>3, <2>1, QpFields DEF Broken, SendAccounting
  <1>5. CASE ~(c.rv < 0)
    <2>1. ~Broken(q)
      BY <1>1, <1>2, <1>5, PollSendFailuresLast
    <2>2. Unretired(q) <= 1
      <3>1. CASE pc["server"] \in Sending
        BY <3>1, Facts DEF Phases, ExchangeInv
      <3>2. CASE pc["server"] = "end_wait"
        BY <2>1, <3>2, Facts DEF Phases, EndInv, Regular
      <3> QED
        BY <3>1, <3>2 DEF Announcing, Sending
    <2>3. Unretired(c.q) < Unretired(q)
      BY <1>1, <1>2, PollSendUnretired
    <2>4. Unretired(q) \in Nat /\ Unretired(c.q) \in Nat
      BY <1>1, <1>3, CompletionsUnretired
    <2>5. Unretired(c.q) = 0
      BY <2>2, <2>3, <2>4
    <2> QED
      BY <1>2, <1>3, <2>5, NothingQueued
  <1> QED
    BY <1>2, <1>3, <1>4, <1>5

\* The server's part of the memory-region exchange.
LEMMA ServerExchange ==
    ASSUME IInv, FlowInv, Regular, Exchange("server")
    PROVE  FlowInv'
  <1> DEFINE q == qp["server"]
  <1>1. /\ Accounted(q) /\ Queued(pc["server"], q) /\ mr \in [Peers -> [in : MrStates, out : MrStates]]
    BY Facts DEF FlowInv, TypeOK
  <1>2. CASE GetMrInfo("server")
    <2> DEFINE r == PostRecv(q, "count", 0)
    <2>1. /\ pc["server"] = "get_mr" /\ UNCHANGED <<sessionVars, mr, mem, shown>>
          /\ \/ SetQp("server", r) /\ Goto("server", "get_mr_count")
             \/ Goto("server", "deallocate") /\ UNCHANGED qp
      BY <1>2 DEF GetMrInfo, RecvControl, PostControl
    <2>2. q.sq = << >> /\ r.sq = << >>
      <3>1. q.sq = << >>
        BY <1>1, <2>1 DEF Queued, Announcing, Writing
      <3>2. SendSame(q, r)
        BY <1>1, SidesKept
      <3> QED
        BY <3>1, <3>2 DEF SendSame
    <2>3. pc["client"] = "allocate" => ~OkRecv(q) /\ ~OkRecv(r)
      BY <1>1, NoMessage DEF FlowInv, FreshInv, Kinds
    <2> HIDE DEF r
    <2>4. Queued("get_mr_count", r)
      BY <2>2, EmptyQueued
    <2>5. Delivered("get_mr_count", r) = 0 /\ Delivered(pc["server"], q) = 0
      BY <2>1 DEF Delivered, Announced, Announcing, Leaving
    <2>6. CASE SetQp("server", r) /\ Goto("server", "get_mr_count")
      BY <2>1, <2>3, <2>4, <2>5, <2>6, ServerProcess DEF Leaving
    <2>7. CASE Goto("server", "deallocate") /\ UNCHANGED qp
      BY <2>1, <2>2, <2>3, <2>7, ServerLeaves DEF Leaving
    <2> QED
      BY <2>1, <2>6, <2>7
  <1>3. CASE GetMrCount("server")
    <2>1. /\ pc["server"] = "get_mr_count" /\ UNCHANGED <<sessionVars, mr, mem, shown>>
      BY <1>3 DEF GetMrCount
    <2>2. PICK c \in RecvComp("server") :
             \/ c.rv < 0 /\ Waited("server", c, "deallocate")
             \/ /\ c.rv > 0
                /\ Waited("server", [rv |-> IF CanRecv(c.q) THEN 1 ELSE -1,
                                     q |-> PostRecv(c.q, "array", 0)], "get_mr_array")
      BY <1>3, CountReceived, Facts
    <2>3. /\ q.rcq # << >> /\ c.q = PollRecv(q) /\ c.rv \in {1, -1}
          /\ c.rv < 0 <=> ~Head(q.rcq).ok
          /\ c = [rv |-> c.rv, q |-> c.q]
      BY CompsPolled DEF Regular
    <2>4. Accounted(c.q) /\ c.q.sq = << >>
      <3>1. q.sq = << >>
        BY <1>1, <2>1 DEF Queued, Announcing, Writing
      <3>2. SendSame(q, PollRecv(q)) /\ Accounted(PollRecv(q))
        BY <1>1, <2>3, SidesKept, PollRecvAccounted
      <3> QED
        BY <2>3, <3>1, <3>2 DEF SendSame
    <2>5. CASE c.rv < 0
      <3>1. SetQp("server", c.q) /\ Goto("server", "deallocate")
        BY <2>2, <2>3, <2>5 DEF Waited
      <3>2. pc["client"] = "allocate" => ~OkRecv(c.q)
        BY <1>1, <2>3, NoMessage DEF FlowInv, FreshInv
      <3> QED
        BY <2>1, <2>4, <3>1, <3>2, ServerLeaves DEF Leaving
    <2>6. CASE ~(c.rv < 0)
      <3> DEFINE r == PostRecv(c.q, "array", 0)
      <3>1. /\ SetQp("server", r)
            /\ Goto("server", "get_mr_array") \/ Goto("server", "deallocate")
        BY <2>2, <2>6 DEF Waited
      <3>2. r.sq = << >>
        <4>1. SendSame(c.q, r)
          BY <2>4, SidesKept
        <4> QED
          BY <2>4, <4>1 DEF SendSame
      <3>3. pc["client"] # "allocate"
        <4>1. OkRecv(q)
          <5>1. q.rcq \in Seq(RecvCompletions)
            BY <1>1, QpFields
          <5>2. 1 \in 1..Len(q.rcq) /\ Head(q.rcq) = q.rcq[1]
            BY <2>3, <5>1
          <5> QED
            BY <2>3, <2>6, <5>2 DEF OkRecv
        <4> QED
          BY <4>1 DEF FlowInv, FreshInv
      <3> HIDE DEF r
      <3>4. Queued("get_mr_array", r)
        BY <3>2, EmptyQueued
      <3>5. Delivered("get_mr_array", r) = 0 /\ Delivered(pc["server"], q) = 0
        BY <2>1 DEF Delivered, Announced, Announcing, Leaving
      <3>6. CASE Goto("server", "get_mr_array")
        BY <2>1, <3>1, <3>3, <3>4, <3>5, <3>6, ServerProcess DEF Leaving
      <3>7. CASE Goto("server", "deallocate")
        BY <2>1, <3>1, <3>2, <3>3, <3>7, ServerLeaves DEF Leaving
      <3> QED
        BY <3>1, <3>6, <3>7
    <2> QED
      BY <2>5, <2>6
  <1>4. CASE GetMrArray("server")
    <2>1. /\ pc["server"] = "get_mr_array" /\ UNCHANGED <<sessionVars, mr, mem, shown>>
      BY <1>4 DEF GetMrArray
    <2>2. PICK c \in RecvComp("server") : Waited("server", c, "send_mr")
      BY <1>4 DEF GetMrArray, AfterGet
    <2>3. q.rcq # << >> /\ c.q = PollRecv(q) /\ c.rv \in {1, -1}
      BY CompsPolled DEF Regular
    <2>4. c.q.sq = << >>
      <3>1. q.sq = << >>
        BY <1>1, <2>1 DEF Queued, Announcing, Writing
      <3>2. SendSame(q, PollRecv(q))
        BY <1>1, SidesKept
      <3> QED
        BY <2>3, <3>1, <3>2 DEF SendSame
    <2>5. pc["client"] # "allocate"
      BY <2>1, ClientAllocated DEF Leaving
    <2>6. CASE c.rv < 0
      <3>1. SetQp("server", c.q) /\ Goto("server", "deallocate")
        BY <2>2, <2>6 DEF Waited
      <3> QED
        BY <2>1, <2>4, <2>5, <3>1, ServerLeaves DEF Leaving
    <2>7. CASE ~(c.rv < 0)
      <3>1. SetQp("server", c.q) /\ Goto("server", "send_mr")
        BY <2>2, <2>7 DEF Waited
      <3>2. Queued("send_mr", c.q)
        BY <2>4, EmptyQueued
      <3>3. Delivered("send_mr", c.q) = 0 /\ Delivered(pc["server"], q) = 0
        BY <2>1 DEF Delivered, Announced, Announcing, Leaving
      <3> QED
        BY <2>1, <2>5, <3>1, <3>2, <3>3, ServerProcess DEF Leaving
    <2> QED
      BY <2>6, <2>7
  <1>5. CASE SendMrInfo("server")
    <2>1. pc["server"] = "send_mr" /\ UNCHANGED <<sessionVars, mem, shown>>
      BY <1>5 DEF SendMrInfo
    <2>2. CASE Crash("server")
      BY <2>1, <2>2, ServerCrashes DEF Leaving
    <2>3. CASE SendControl("server", "count", "send_mr_count") /\ UNCHANGED mr
      <3> DEFINE r == PostSend(q, "send", "count", 0, TRUE)
      <3>1. \/ SetQp("server", r) /\ Goto("server", "send_mr_count")
            \/ Goto("server", "deallocate") /\ UNCHANGED qp
        BY <2>3 DEF SendControl, PostControl
      <3>2. q.sq = << >>
        BY <1>1, <2>1 DEF Queued, Announcing, Writing
      <3>3. pc["client"] # "allocate"
        BY <2>1, ClientAllocated DEF Leaving
      <3>4. Queued("send_mr_count", r)
        BY <1>1, <3>2, PostsMessage DEF Kinds, Announcing
      <3> HIDE DEF r
      <3>5. Delivered("send_mr_count", r) >= 0 /\ Delivered(pc["server"], q) = 0
            /\ Delivered("send_mr_count", r) \in Int
        BY <2>1 DEF Delivered, Announced, Announcing, Leaving
      <3>6. CASE SetQp("server", r) /\ Goto("server", "send_mr_count")
        BY <2>1, <2>3, <3>3, <3>4, <3>5, <3>6, ServerProcess DEF Leaving
      <3>7. CASE Goto("server", "deallocate") /\ UNCHANGED qp
        BY <2>1, <2>3, <3>2, <3>3, <3>7, ServerLeaves DEF Leaving
      <3> QED
        BY <3>1, <3>6, <3>7
    <2> QED
      BY <1>5, <2>2, <2>3 DEF SendMrInfo
  <1>6. CASE SendMrCount("server")
    <2>1. /\ pc["server"] = "send_mr_count" /\ UNCHANGED <<sessionVars, mr, mem, shown>>
      BY <1>6 DEF SendMrCount
    <2>2. PICK c \in SendComp("server") :
             Waited("server", IF c.rv < 0 THEN c
                              ELSE [c EXCEPT !.q = PostSend(@, "send", "array", 0, TRUE)],
                    "send_mr_array")
      BY <1>6 DEF SendMrCount
    <2>3. /\ c.rv \in {1, -1} /\ Accounted(c.q) /\ c.q.sq = << >>
          /\ c = [rv |-> c.rv, q |-> c.q]
      BY <2>1, ServerSent DEF Announcing
    <2>4. pc["client"] # "allocate"
      BY <2>1, ClientAllocated DEF Leaving
    <2>5. CASE c.rv < 0
      <3>1. SetQp("server", c.q) /\ Goto("server", "deallocate")
        BY <2>2, <2>5 DEF Waited
      <3> QED
        BY <2>1, <2>3, <2>4, <3>1, ServerLeaves DEF Leaving
    <2>6. CASE ~(c.rv < 0)
      <3> DEFINE r == PostSend(c.q, "send", "array", 0, TRUE)
      <3>1. SetQp("server", r) /\ Goto("server", "send_mr_array")
        <4>1. \A x : /\ [c EXCEPT !.q = x].rv = c.rv
                     /\ [c EXCEPT !.q = x].q = x
          BY <2>3
        <4>2. Waited("server", [c EXCEPT !.q = r], "send_mr_array")
          BY <2>2, <2>6
        <4> HIDE DEF r
        <4> QED
          BY <2>6, <4>1, <4>2 DEF Waited
      <3>2. Queued("send_mr_array", r)
        BY <2>3, PostsMessage DEF Kinds, Announcing
      <3> HIDE DEF r
      <3>3. Delivered("send_mr_array", r) >= 1 /\ Delivered(pc["server"], q) <= 1
            /\ Delivered("send_mr_array", r) \in Int /\ Delivered(pc["server"], q) \in Int
        BY <2>1 DEF Delivered, Announced, Announcing, Leaving
      <3> QED
        BY <2>1, <2>4, <3>1, <3>2, <3>3, ServerProcess DEF Leaving
    <2> QED
      BY <2>5, <2>6
  <1>7. CASE SendMrArray("server")
    <2>1. /\ pc["server"] = "send_mr_array" /\ UNCHANGED <<sessionVars, mr, mem, shown>>
      BY <1>7 DEF SendMrArray
    <2>2. PICK c \in SendComp("server") : Waited("server", c, "calloc")
      BY <1>7 DEF SendMrArray, AfterSend
    <2>3. c.rv \in {1, -1} /\ c.q.sq = << >>
      BY <2>1, ServerSent DEF Announcing
    <2>4. pc["client"] # "allocate"
      BY <2>1, ClientAllocated DEF Leaving
    <2>5. CASE c.rv < 0
      <3>1. SetQp("server", c.q) /\ Goto("server", "deallocate")
        BY <2>2, <2>5 DEF Waited
      <3> QED
        BY <2>1, <2>3, <2>4, <3>1, ServerLeaves DEF Leaving
    <2>6. CASE ~(c.rv < 0)
      <3>1. SetQp("server", c.q) /\ Goto("server", "calloc")
        BY <2>2, <2>6 DEF Waited
      <3>2. Queued("calloc", c.q)
        BY <2>3, EmptyQueued
      <3>3. Delivered("calloc", c.q) = 2 /\ Delivered(pc["server"], q) <= 2
        BY <2>1 DEF Delivered, Announced, Announcing, Leaving
      <3> QED
        BY <2>1, <2>4, <3>1, <3>2, <3>3, ServerProcess DEF Leaving
    <2> QED
      BY <2>5, <2>6
  <1> QED
    BY <1>2, <1>3, <1>4, <1>5, <1>6, <1>7 DEF Exchange

\* A packet is posted behind the others, or its failure is there.
LEMMA WritePosts ==
    ASSUME NEW q, Accounted(q), NEW n \in Nat,
           \A j \in 1..Len(q.sq) : q.sq[j].op = "write"
    PROVE  LET r == PostSend(q, "write", "data", n, TRUE)
           IN  /\ \A j \in 1..Len(r.sq) : r.sq[j].op = "write"
               /\ \A j : Pending(q, j) => Pending(r, j)
               /\ Lost(q) => Lost(r)
               /\ CanPost(q) => Pending(r, n) \/ Lost(r)
               /\ ~CanPost(q) => r = q
  <1> DEFINE r  == PostSend(q, "write", "data", n, TRUE)
             wr == [op |-> "write", kind |-> "data", n |-> n, sig |-> TRUE,
                    idx |-> q.posted + 1]
  <1>1. Posted(q, r, wr)
    BY PostSendFields DEF Kinds
  <1>2. /\ wr.op = "write" /\ wr.n = n /\ Len(q.sq) \in Nat /\ q.sent \in Nat
        /\ q.sent <= Len(q.sq) /\ Len(q.scq) \in Nat
    BY QpFields DEF SendAccounting
  <1> HIDE DEF r, wr
  <1>3. CASE ~CanPost(q)
    <2>1. r = q
      BY <1>1, <1>3 DEF Posted
    <2> QED
      BY <1>3, <2>1 DEF r
  <1>4. CASE CanPost(q) /\ q.state = "err"
    <2>1. /\ r.sq = q.sq /\ r.sent = q.sent /\ Len(r.scq) = Len(q.scq) + 1
          /\ \A j \in 1..Len(r.scq) : r.scq[j].ok => j \in 1..Len(q.scq)
      BY <1>1, <1>4 DEF Posted
    <2>2. Len(q.scq) + 1 \in 1..Len(r.scq) /\ Len(q.scq) + 1 \notin 1..Len(q.scq)
      BY <1>2, <2>1
    <2>3. Lost(r)
      BY <2>1, <2>2 DEF Lost
    <2> QED
      BY <1>4, <2>1, <2>3 DEF Pending, r
  <1>5. CASE CanPost(q) /\ q.state # "err"
    <2>1. /\ r.scq = q.scq /\ r.sent = q.sent
          /\ Len(r.sq) = Len(q.sq) + 1 /\ r.sq[Len(r.sq)] = wr
          /\ \A j \in 1..Len(r.sq) : \/ j \in 1..Len(q.sq) /\ r.sq[j] = q.sq[j]
                                     \/ j = Len(q.sq) + 1 /\ r.sq[j] = wr
      BY <1>1, <1>5 DEF Posted
    <2>2. ASSUME NEW j, Pending(q, j) PROVE Pending(r, j)
      <3>1. PICK m \in (q.sent + 1)..Len(q.sq) : q.sq[m].n = j
        BY <2>2 DEF Pending
      <3>2. m \in (r.sent + 1)..Len(r.sq) /\ m \in 1..Len(r.sq) /\ m # Len(q.sq) + 1
        BY <1>2, <2>1
      <3>3. r.sq[m] = q.sq[m]
        BY <2>1, <3>2
      <3> QED
        BY <3>1, <3>2, <3>3 DEF Pending
    <2>3. Pending(r, n)
      <3>1. Len(r.sq) \in (r.sent + 1)..Len(r.sq) /\ r.sq[Len(r.sq)].n = n
        BY <1>2, <2>1
      <3> QED
        BY <3>1 DEF Pending
    <2>4. \A j \in 1..Len(r.sq) : r.sq[j].op = "write"
      BY <1>2, <2>1
    <2> QED
      BY <1>5, <2>1, <2>2, <2>3, <2>4 DEF Lost, r
  <1> QED
    BY <1>3, <1>4, <1>5

\* The server writes a packet.
LEMMA SlotWriteFlow ==
    ASSUME IInv, FlowInv, Regular, SlotWrite
    PROVE  FlowInv'
  <1> DEFINE s == qp["server"]
             q == PostSend(s, "write", "data", i, TRUE)
  <1>1. /\ pc["server"] = "slot" /\ SetQp("server", q)
        /\ UNCHANGED <<params, sum, mr, mem, end, shown>>
    BY DEF SlotWrite, Signal
  <1>2. /\ Accounted(s) /\ i \in Packets /\ i \in Nat /\ Packets = 1..params.count
        /\ params.count \in Nat /\ "server" \in Peers /\ pc \in [Peers -> Labels]
        /\ sum \in Nat
    <2>1. /\ Accounted(s) /\ TypeOK /\ "server" \in Peers /\ pc \in [Peers -> Labels]
      BY Facts
    <2>2. params.count \in Nat /\ Packets = 1..params.count
      BY <2>1, ParamFacts
    <2>3. i \in Packets /\ sum \in 0..(params.count - 1)
      BY <2>1 DEF TypeOK
    <2> QED
      BY <2>1, <2>2, <2>3
  <1>3. \A j \in 1..Len(s.sq) : s.sq[j].op = "write"
    BY <1>1 DEF FlowInv, Queued, Writing
  <1>4. /\ \A j \in 1..Len(q.sq) : q.sq[j].op = "write"
        /\ \A j : Pending(s, j) => Pending(q, j)
        /\ Lost(s) => Lost(q)
        /\ CanPost(s) => Pending(q, i) \/ Lost(q)
        /\ ~CanPost(s) => q = s
    BY <1>2, <1>3, WritePosts
  <1> HIDE DEF q
  <1>5. qp'["server"] = q /\ qp'["client"] = qp["client"]
    BY <1>1, Facts DEF SetQp, QpInv
  <1>6. \/ \A j \in 1..(i - 1) : Arrived(j) \/ Pending(s, j)
        \/ Lost(s)
    BY <1>1 DEF FlowInv, DataInv
  <1>7. CanPost(s) => (\A j \in 1..i : Arrived(j) \/ Pending(q, j)) \/ Lost(q)
    <2> SUFFICES ASSUME CanPost(s), ~Lost(q), NEW j \in 1..i
                 PROVE  Arrived(j) \/ Pending(q, j)
      OBVIOUS
    <2>1. CASE j = i
      BY <1>4, <2>1
    <2>2. CASE j # i
      <3>1. j \in 1..(i - 1)
        BY <1>2, <2>2
      <3> QED
        BY <1>4, <1>6, <3>1
    <2> QED
      BY <2>1, <2>2
  <1>8. /\ Packets' = Packets
        /\ \A j : Arrived(j)' <=> Arrived(j)
    BY <1>1 DEF Packets, Arrived, Packet
  <1>9. end' # {} => \A j \in Packets' : Arrived(j)'
    BY <1>1, <1>8 DEF FlowInv, DataInv
  <1>10. pc["client"] # "allocate"
    BY <1>1, ClientAllocated DEF Leaving
  <1>11. /\ shown["server"] = << >>
         /\ \A j \in Packets : mem'["server"].out[j] = Packet(j)
    BY <1>1, Facts DEF FlowInv, ShownInv, OutInv, Leaving
  <1>12. ASSUME NEW l \in Writing, Goto("server", l), DataInv'
         PROVE  FlowInv'
    <2>1. Queued(l, q)
      BY <1>4 DEF Queued, Writing, Announcing
    <2>2. Delivered(l, q) = 2 /\ Delivered(pc["server"], s) = 2
      BY <1>1 DEF Delivered, Announced, Announcing, Writing, Leaving
    <2>3. /\ params' = params /\ mr'["client"] = mr["client"]
          /\ mem'["client"] = mem["client"] /\ shown' = shown
      BY <1>1
    <2> QED
      BY <1>5, <1>10, <1>11, <1>12, <2>1, <2>2, <2>3, ServerMoves
  <1>13. CASE CanPost(s) /\ i' = i + 1 /\ UNCHANGED pc
    <2>1. Goto("server", "slot") /\ pc'["server"] = "slot"
      BY <1>1, <1>2, <1>13 DEF Goto
    <2>2. DataInv'
      <3>1. i' - 1 = i
        BY <1>2, <1>13
      <3>2. (\A j \in 1..(i' - 1) : Arrived(j)' \/ Pending(q, j)) \/ Lost(q)
        BY <1>7, <1>8, <1>13, <3>1
      <3> QED
        BY <1>5, <1>9, <2>1, <3>2 DEF DataInv
    <2> QED
      BY <1>12, <2>1, <2>2 DEF Writing
  <1>14. CASE /\ i = params.count \/ ~CanPost(s)
              /\ Goto("server", "slot_wait")
    <2>1. pc'["server"] = "slot_wait"
      BY <1>2, <1>14 DEF Goto
    <2>2. \/ \A j \in Packets : Arrived(j) \/ Pending(q, j)
          \/ Lost(q)
          \/ sum + Unretired(q) < params.count
      <3>1. CASE CanPost(s)
        BY <1>2, <1>7, <1>14, <3>1
      <3>2. CASE ~CanPost(s)
        <4>1. q = s /\ sum = 0 /\ Unretired(s) < i
          BY <1>1, <1>4, <3>2, Facts DEF Phases, SlotInv
        <4>2. Unretired(s) \in Nat
          BY <1>2, CompletionsUnretired
        <4> HIDE DEF s
        <4> QED
          BY <1>2, <4>1, <4>2
      <3> QED
        BY <3>1, <3>2
    <2>3. DataInv'
      <3>1. \/ \A j \in Packets' : Arrived(j)' \/ Pending(q, j)
            \/ Lost(q)
            \/ sum' + Unretired(q) < params'.count
        BY <1>1, <1>8, <2>2
      <3> QED
        BY <1>5, <1>9, <2>1, <3>1 DEF DataInv
    <2> QED
      BY <1>12, <1>14, <2>3 DEF Writing
  <1> QED
    BY <1>13, <1>14 DEF SlotWrite, NextPacket

\* The server polls the completions of a slot.
LEMMA SlotWaitFlow ==
    ASSUME IInv, FlowInv, Regular, SlotWait
    PROVE  FlowInv'
  <1> DEFINE s == qp["server"]
             k == Polled(s)
             q == PollBatch(s, k)
             ok == \A j \in 1..k : s.scq[j].ok
  <1>1. /\ pc["server"] = "slot_wait" /\ s.scq # << >>
        /\ UNCHANGED <<params, i, mr, mem, shown>>
    BY DEF SlotWait, InitialSum, Regular, Polls
  <1>2. /\ Accounted(s) /\ Good("server", s) /\ i \in Nat /\ TypeOK
        /\ params.count \in Nat /\ "server" \in Peers /\ pc \in [Peers -> Labels]
        /\ sum \in Nat
    <2>1. /\ Accounted(s) /\ Good("server", s) /\ TypeOK /\ "server" \in Peers
          /\ pc \in [Peers -> Labels]
      BY Facts
    <2>2. params.count \in Nat /\ Packets = 1..params.count
      BY <2>1, ParamFacts
    <2>3. i \in Packets /\ sum \in 0..(params.count - 1)
      BY <2>1 DEF TypeOK
    <2> QED
      BY <2>1, <2>2, <2>3
  <1>3. /\ k \in 1..Len(s.scq) /\ k \in Nat /\ k > 0 /\ Good("server", q)
        /\ Unretired(q) \in Nat /\ Unretired(q) <= Unretired(s) - k
        /\ (\E j \in 1..k : ~s.scq[j].ok) => Broken(q)
    BY <1>1, <1>2, PolledGood
  <1>4. Unretired(s) \in Nat /\ Len(s.scq) \in Nat /\ Len(s.scq) <= Unretired(s)
    BY <1>2, CompletionsUnretired
  <1>5. i = 1 /\ sum + Unretired(s) <= params.count
    BY <1>1, Facts DEF Phases, SlotInv
  <1>6. \/ ~ok /\ SlotFails(q)
        \/ /\ ok /\ ~Enough(k) /\ SetQp("server", q) /\ sum' = sum + k
           /\ UNCHANGED <<pc, rv, slot, end>>
        \/ /\ ok /\ Enough(k) /\ SetQp("server", q)
           /\ Goto("server", "slot") \/ Goto("server", "end_post")
    BY DEF SlotWait, InitialSum, Regular, Polls
  <1>7. q.sq = s.sq /\ q.sent = s.sent /\ q.scq = SubSeq(s.scq, k + 1, Len(s.scq))
    <2>1. s \in QueuePairs
      BY <1>2, QpFields
    <2> HIDE DEF s, k
    <2> QED
      BY <2>1 DEF PollBatch, QueuePairs
  <1>8. \A j \in 1..Len(s.sq) : s.sq[j].op = "write"
    BY <1>1 DEF FlowInv, Queued, Writing
  <1> HIDE DEF q, k
  <1>9. SetQp("server", q) => qp'["server"] = q /\ qp'["client"] = qp["client"]
    BY Facts DEF SetQp, QpInv
  <1>10. /\ Packets' = Packets
         /\ \A j : Arrived(j)' <=> Arrived(j)
    BY <1>1 DEF Packets, Arrived, Packet
  <1>11. pc["client"] # "allocate"
    BY <1>1, ClientAllocated DEF Leaving
  <1>12. /\ shown["server"] = << >>
         /\ \A j \in Packets : mem'["server"].out[j] = Packet(j)
    BY <1>1, Facts DEF FlowInv, ShownInv, OutInv, Leaving
  <1>13. ASSUME NEW l \in Writing \union {"end_post"}, Goto("server", l),
                SetQp("server", q), Queued(l, q), DataInv'
         PROVE  FlowInv'
    <2>1. Delivered(l, q) = 2 /\ Delivered(pc["server"], s) = 2
      BY <1>1 DEF Delivered, Announced, Announcing, Writing, Leaving
    <2>2. /\ params' = params /\ mr'["client"] = mr["client"]
          /\ mem'["client"] = mem["client"] /\ shown' = shown
      BY <1>1
    <2> QED
      BY <1>9, <1>11, <1>12, <1>13, <2>1, <2>2, ServerMoves
  <1>14. end # {} => \A j \in Packets' : Arrived(j)'
    BY <1>10 DEF FlowInv, DataInv
  <1>15. \/ \A j \in Packets : Arrived(j) \/ Pending(s, j)
         \/ Lost(s)
         \/ sum + Unretired(s) < params.count
    BY <1>1 DEF FlowInv, DataInv
  \* A failure that is not among those polled stays, behind them.
  <1>16. ok /\ Lost(s) => Lost(q) /\ k < Len(s.scq)
    <2> SUFFICES ASSUME ok, NEW j \in 1..Len(s.scq), ~s.scq[j].ok
                 PROVE  Lost(q) /\ k < Len(s.scq)
      BY DEF Lost
    <2>1. ~(j <= k)
      BY <1>3
    <2>2. /\ s.scq \in Seq(SendCompletions) /\ j \in Nat
      BY <1>2, QpFields
    <2>3. k < Len(s.scq) /\ j - k \in 1..(Len(s.scq) - k) /\ k + (j - k) = j
      BY <1>3, <1>4, <2>1
    <2>4. Len(q.scq) = Len(s.scq) - k /\ q.scq[j - k] = s.scq[k + (j - k)]
      <3>1. /\ Len(SubSeq(s.scq, k + 1, Len(s.scq))) = Len(s.scq) - k
            /\ \A m \in 1..(Len(s.scq) - k) :
                  SubSeq(s.scq, k + 1, Len(s.scq))[m] = s.scq[k + m]
        <4> HIDE DEF s
        <4> QED
          BY <1>3, <1>4, <2>2, SMTT(30)
      <3> QED
        BY <1>7, <2>3, <3>1
    <2>5. j - k \in 1..Len(q.scq) /\ ~q.scq[j - k].ok
      BY <2>3, <2>4
    <2> QED
      BY <2>3, <2>5 DEF Lost
  <1>17. CASE ~ok /\ SlotFails(q)
    <2>1. Goto("server", "end_post") /\ SetQp("server", q) /\ end' = end
      BY <1>17 DEF SlotFails, InitialSum
    <2>2. q.sq = << >>
      <3>1. Broken(q)
        BY <1>3, <1>17
      <3> QED
        BY <1>3, <3>1, QpFields DEF Good, Broken, SendAccounting
    <2>3. pc'["server"] = "end_post"
      BY <1>2, <2>1 DEF Goto
    <2>4. DataInv'
      BY <1>14, <2>1, <2>3 DEF DataInv
    <2> QED
      BY <1>13, <2>1, <2>2, <2>4, EmptyQueued
  <1>18. CASE /\ ok /\ ~Enough(k) /\ SetQp("server", q) /\ sum' = sum + k
              /\ UNCHANGED <<pc, rv, slot, end>>
    <2>1. Goto("server", "slot_wait") /\ pc'["server"] = "slot_wait"
      BY <1>1, <1>2, <1>18 DEF Goto
    <2>2. \/ \A j \in Packets : Arrived(j) \/ Pending(q, j)
          \/ Lost(q)
          \/ sum' + Unretired(q) < params.count
      <3>1. CASE \A j \in Packets : Arrived(j) \/ Pending(s, j)
        BY <1>7, <3>1 DEF Pending
      <3>2. CASE Lost(s)
        BY <1>16, <1>18, <3>2
      <3>3. CASE sum + Unretired(s) < params.count
        <4> HIDE DEF s
        <4> QED
          BY <1>2, <1>3, <1>4, <1>18, <3>3
      <3> QED
        BY <1>15, <3>1, <3>2, <3>3
    <2>3. DataInv'
      <3>1. \/ \A j \in Packets' : Arrived(j)' \/ Pending(q, j)
            \/ Lost(q)
            \/ sum' + Unretired(q) < params'.count
        BY <1>1, <1>10, <2>2
      <3>2. end' = end /\ qp'["server"] = q
        BY <1>9, <1>18
      <3> QED
        BY <1>14, <2>1, <3>1, <3>2 DEF DataInv
    <2>4. Queued("slot_wait", q)
      BY <1>7, <1>8 DEF Queued, Announcing, Writing
    <2> QED
      BY <1>13, <1>18, <2>1, <2>3, <2>4 DEF Writing
  <1>19. CASE /\ ok /\ Enough(k) /\ SetQp("server", q)
              /\ Goto("server", "slot") \/ Goto("server", "end_post")
    <2>1. sum + k >= params.count
      BY <1>19 DEF Enough
    <2>2. Unretired(q) = 0 /\ ~(sum + Unretired(s) < params.count) /\ Len(s.scq) <= k
      <3> HIDE DEF s
      <3> QED
        BY <1>2, <1>3, <1>4, <1>5, <2>1
    <2>3. q.sq = << >>
      BY <1>3, <2>2, NothingQueued DEF Good
    <2>4. ~Lost(s)
      BY <1>3, <1>4, <1>16, <1>19, <2>2
    <2>5. \A j : ~Pending(s, j)
      <3>1. Len(s.sq) = 0 /\ s.sent \in Nat
        BY <1>2, <1>7, <2>3, EmptyLen, QpFields
      <3> QED
        BY <3>1 DEF Pending
    <2>6. \A j \in Packets : Arrived(j)
      BY <1>15, <2>2, <2>4, <2>5
    <2>7. \A j \in Packets' : Arrived(j)'
      BY <1>10, <2>6
    <2>8. pc'["server"] \in {"slot", "end_post"} /\ i' = 1
      BY <1>1, <1>2, <1>5, <1>19 DEF Goto
    <2>9. DataInv'
      <3>1. \A j \in 1..(i' - 1) : FALSE
        BY <2>8
      <3> QED
        BY <2>7, <2>8, <3>1 DEF DataInv
    <2> QED
      BY <1>13, <1>19, <2>3, <2>9, EmptyQueued DEF Writing
  <1> QED
    BY <1>6, <1>17, <1>18, <1>19

\* The rest of the server's run().
LEMMA ServerFlow ==
    ASSUME IInv, FlowInv, Regular, ServerStep
    PROVE  FlowInv'
  <1> DEFINE q == qp["server"]
             s == shown["server"]
  <1>1. /\ Accounted(q) /\ Queued(pc["server"], q) /\ "client" \in Peers
        /\ "server" \in Peers
        /\ pc["server"] \notin Leaving => s = << >>
        /\ s # << >> => end # {} /\ \A j \in Packets : s[1].out[j] = Packet(j)
        /\ pc["server"] # "allocate" =>
              \A j \in Packets : mem["server"].out[j] = Packet(j)
        /\ pc["client"] = "allocate" => ~OkRecv(q)
        /\ pc \in [Peers -> Labels]
        /\ mr \in [Peers -> [in : MrStates, out : MrStates]]
        /\ MemOK(mem) /\ ShownOK(shown)
    BY Facts DEF FlowInv, ShownInv, OutInv, FreshInv, TypeOK
  <1>2. CASE Allocate("server")
    <2>1. /\ pc["server"] = "allocate" /\ UNCHANGED <<sessionVars, remote, qp, shown>>
          /\ Goto("server", "get_mr")
      BY <1>2 DEF Allocate, AfterAllocate
    <2>2. /\ mem'["client"] = mem["client"] /\ mr'["client"] = mr["client"]
          /\ \A j \in Packets : mem'["server"].out[j] = Packet(j)
      BY <1>1, <1>2, ParamFacts, Facts DEF Allocate, Packet, MemOK
    <2>3. q.sq = << >>
      BY <1>1, <2>1 DEF Queued, Announcing, Writing
    <2>4. Queued("get_mr", q)
      BY <2>3, EmptyQueued
    <2>5. Delivered("get_mr", q) = 0 /\ Delivered(pc["server"], q) = 0
      BY <2>1 DEF Delivered, Announced, Announcing, Leaving
    <2>6. DataInv'
      <3>1. pc'["server"] = "get_mr"
        BY <1>1, <2>1 DEF Goto
      <3> QED
        BY <2>1, <2>2, <3>1, DataKept DEF Writing
    <2>7. s = << >>
      BY <1>1, <2>1 DEF Leaving
    <2>8. /\ params' = params /\ qp'["server"] = q /\ qp'["client"] = qp["client"]
          /\ shown'["client"] = shown["client"] /\ shown'["server"] = << >>
      BY <2>1, <2>7 DEF sessionVars
    <2>9. pc["client"] = "allocate" => ~OkRecv(q)
      BY <1>1
    <2>10. Goto("server", "get_mr")
      BY <2>1
    <2>11. Delivered(pc["server"], q) <= Delivered("get_mr", q)
      BY <2>5
    <2> HIDE DEF q, s
    <2> QED
      BY <2>2, <2>4, <2>6, <2>8, <2>9, <2>10, <2>11, ServerMoves DEF q
  <1>3. CASE Exchange("server")
    BY <1>3, ServerExchange
  <1>4. CASE DivideByZero("server")
    BY <1>4, ServerCrashes DEF DivideByZero, Leaving
  <1>5. CASE Calloc
    <2>1. /\ pc["server"] = "calloc" /\ UNCHANGED <<sessionVars, mr, mem, qp, shown>>
          /\ Goto("server", "slot") \/ Goto("server", "deallocate")
      BY <1>5 DEF Calloc
    <2>2. q.sq = << >>
      BY <1>1, <2>1 DEF Queued, Announcing, Writing
    <2>3. pc["client"] # "allocate"
      BY <2>1, ClientAllocated DEF Leaving
    <2>4. CASE Goto("server", "slot")
      <3>1. i = 1
        BY <2>1, Facts DEF Phases, SlotInv, Before
      <3>2. Queued("slot", q)
        BY <2>2, EmptyQueued
      <3>3. Delivered("slot", q) = 2 /\ Delivered(pc["server"], q) = 2
        BY <2>1 DEF Delivered, Announced, Announcing, Leaving
      <3> QED
        BY <2>1, <2>3, <2>4, <3>1, <3>2, <3>3, ServerProcess DEF Leaving
    <2>5. CASE Goto("server", "deallocate")
      BY <2>1, <2>2, <2>3, <2>5, ServerLeaves DEF Leaving
    <2> QED
      BY <2>1, <2>4, <2>5
  <1>6. CASE EndPost("server")
    <2> DEFINE r == PostSend(q, "send", "end", 0, TRUE)
    <2>1. /\ pc["server"] = "end_post" /\ UNCHANGED <<sessionVars, mr, mem, shown>>
          /\ \/ SetQp("server", r) /\ Goto("server", "end_wait")
             \/ Goto("server", "deallocate") /\ UNCHANGED qp
      BY <1>6 DEF EndPost, SendControl, PostControl
    <2>2. q.sq = << >>
      BY <1>1, <2>1 DEF Queued, Announcing, Writing
    <2>3. pc["client"] # "allocate"
      BY <2>1, ClientAllocated DEF Leaving
    <2>4. Queued("end_wait", r)
      BY <1>1, <2>2, PostsMessage DEF Kinds, Announcing
    <2> HIDE DEF r
    <2>5. Delivered("end_wait", r) >= 2 /\ Delivered(pc["server"], q) = 2
          /\ Delivered("end_wait", r) \in Int
      BY <2>1 DEF Delivered, Announced, Announcing, Leaving
    <2>6. CASE SetQp("server", r) /\ Goto("server", "end_wait")
      BY <2>1, <2>3, <2>4, <2>5, <2>6, ServerProcess DEF Leaving
    <2>7. CASE Goto("server", "deallocate") /\ UNCHANGED qp
      BY <2>1, <2>2, <2>3, <2>7, ServerLeaves DEF Leaving
    <2> QED
      BY <2>1, <2>6, <2>7
  <1>7. CASE EndWait("server")
    <2>1. /\ pc["server"] = "end_wait" /\ UNCHANGED <<sessionVars, mr, mem, shown>>
      BY <1>7 DEF EndWait
    <2>2. PICK c \in SendComp("server") : Waited("server", c, "stats")
      BY <1>7 DEF EndWait
    <2>3. c.rv \in {1, -1} /\ c.q.sq = << >>
      BY <2>1, ServerSent DEF Announcing
    <2>4. pc["client"] # "allocate"
      BY <2>1, ClientAllocated DEF Leaving
    <2>5. CASE c.rv < 0
      <3>1. SetQp("server", c.q) /\ Goto("server", "deallocate")
        BY <2>2, <2>5 DEF Waited
      <3> QED
        BY <2>1, <2>3, <2>4, <3>1, ServerLeaves DEF Leaving
    <2>6. CASE ~(c.rv < 0)
      <3>1. SetQp("server", c.q) /\ Goto("server", "stats")
        BY <2>2, <2>6 DEF Waited
      <3>2. Queued("stats", c.q)
        BY <2>3, EmptyQueued
      <3>3. Delivered("stats", c.q) = 3 /\ Delivered(pc["server"], q) <= 3
        BY <2>1 DEF Delivered, Announced, Announcing, Leaving
      <3> QED
        BY <2>1, <2>4, <3>1, <3>2, <3>3, ServerProcess DEF Leaving
    <2> QED
      BY <2>5, <2>6
  <1>8. CASE PrintStats("server")
    <2>1. /\ pc["server"] = "stats" /\ UNCHANGED <<sessionVars, mr, mem, qp>>
          /\ Goto("server", "deallocate")
          /\ shown' = [shown EXCEPT !["server"] = <<mem["server"]>>]
      BY <1>8 DEF PrintStats
    <2>2. shown'["client"] = shown["client"] /\ shown'["server"] = <<mem["server"]>>
      BY <1>1, <2>1 DEF ShownOK
    <2>3. /\ end' # {}
          /\ \A j \in Packets : shown'["server"][1].out[j] = Packet(j)
      <3>1. 1 \in end
        BY <2>1, Facts, ParamFacts DEF Phases, EndInv, Regular, Stamped, Slots
      <3>2. end' = end
        BY <2>1 DEF sessionVars
      <3> QED
        BY <1>1, <2>1, <2>2, <3>1, <3>2
    <2>4. q.sq = << >>
      BY <1>1, <2>1 DEF Queued, Announcing, Writing
    <2>5. Queued("deallocate", q)
      BY <2>4, EmptyQueued
    <2>6. Delivered("deallocate", q) = 3 /\ Delivered(pc["server"], q) = 3
      BY <2>1 DEF Delivered, Announced, Announcing, Leaving
    <2>7. pc["client"] # "allocate"
      BY <2>1, ClientAllocated DEF Leaving
    <2>8. DataInv'
      <3>1. pc'["server"] = "deallocate"
        BY <1>1, <2>1 DEF Goto
      <3> QED
        BY <2>1, <3>1, DataKept DEF Writing
    <2>9. /\ params' = params /\ qp'["server"] = q /\ qp'["client"] = qp["client"]
          /\ mr'["client"] = mr["client"] /\ mem'["client"] = mem["client"]
          /\ \A j \in Packets : mem'["server"].out[j] = Packet(j)
          /\ "deallocate" \in Leaving
      BY <1>1, <2>1 DEF sessionVars, Leaving
    <2> HIDE DEF q, s
    <2> QED
      BY <2>1, <2>2, <2>3, <2>5, <2>6, <2>7, <2>8, <2>9, ServerMoves DEF q
  <1>9. ASSUME NEW l \in Leaving, NEW r,
               pc["server"] \in Leaving, UNCHANGED <<sessionVars, mem, shown>>,
               Goto("server", l), mr'["client"] = mr["client"],
               qp'["server"] = r, qp'["client"] = qp["client"],
               r.sq = << >>, pc["client"] = "allocate" => ~OkRecv(r)
        PROVE  FlowInv'
    <2>1. Queued(l, r)
      BY <1>9, EmptyQueued
    <2>2. Delivered(l, r) = 3 /\ Delivered(pc["server"], q) = 3
      BY <1>9 DEF Delivered, Announced, Announcing, Leaving
    <2>3. DataInv'
      <3>1. pc'["server"] = l /\ l \notin Writing
        BY <1>1, <1>9 DEF Goto, Leaving, Writing
      <3> QED
        BY <1>9, <3>1, DataKept
    <2>4. /\ params' = params /\ mem'["client"] = mem["client"]
          /\ shown'["client"] = shown["client"] /\ shown'["server"] = s
          /\ end' = end
          /\ \A j \in Packets : mem'["server"].out[j] = Packet(j)
      BY <1>1, <1>9 DEF sessionVars, Leaving
    <2>5. /\ shown'["server"] # << >> =>
                end' # {} /\ \A j \in Packets : shown'["server"][1].out[j] = Packet(j)
      BY <1>1, <2>4
    <2> HIDE DEF q, s
    <2> QED
      BY <1>9, <2>1, <2>2, <2>3, <2>4, <2>5, ServerMoves DEF q
  <1>10. CASE DeallocateBuffers("server")
    <2>1. /\ pc["server"] = "deallocate" /\ UNCHANGED <<sessionVars, mem, shown>>
          /\ mr'["client"] = mr["client"]
      BY <1>1, <1>10 DEF DeallocateBuffers, Crash
    <2>2. q.sq = << >>
      BY <1>1, <2>1 DEF Queued, Announcing, Writing
    <2>3. CASE Crash("server")
      <3>1. /\ Goto("server", "crashed")
            /\ qp'["server"] = Destroyed(q) /\ qp'["client"] = qp["client"]
        BY <2>3, Facts DEF Crash, SetQp, QpInv
      <3>2. Destroyed(q).sq = << >> /\ ~OkRecv(Destroyed(q))
        BY DEF Destroyed, OkRecv
      <3> QED
        BY <1>9, <2>1, <3>1, <3>2 DEF Leaving
    <2>4. CASE Goto("server", "disconnect") /\ UNCHANGED qp
      BY <1>1, <1>9, <2>1, <2>2, <2>4 DEF Leaving
    <2> QED
      BY <1>10, <2>3, <2>4 DEF DeallocateBuffers
  <1>11. CASE Disconnect("server")
    <2>1. /\ pc["server"] = "disconnect" /\ UNCHANGED <<sessionVars, mr, mem, shown>>
          /\ Goto("server", "done")
          /\ qp'["server"] = Destroyed(q) /\ qp'["client"] = qp["client"]
      BY <1>11, Facts DEF Disconnect, SetQp, QpInv
    <2>2. Destroyed(q).sq = << >> /\ ~OkRecv(Destroyed(q))
      BY DEF Destroyed, OkRecv
    <2> QED
      BY <1>9, <2>1, <2>2 DEF Leaving
  <1> QED
    BY <1>2, <1>3, <1>4, <1>5, <1>6, <1>7, <1>8, <1>10, <1>11, SlotWriteFlow, SlotWaitFlow
    DEF ServerStep, Process, Teardown

-----------------------------------------------------------------------------
(* The flow invariant, and the three properties it is for.                  *)

\* Nothing has been sent, received or written.
LEMMA InitFlow == Init => FlowInv
  <1> SUFFICES ASSUME Init PROVE FlowInv
    OBVIOUS
  <1>1. /\ pc["client"] = "allocate" /\ pc["server"] = "allocate"
        /\ qp["client"] = NewQp("rts") /\ qp["server"] = NewQp("rts")
        /\ shown["client"] = << >> /\ shown["server"] = << >>
        /\ mem["client"].in = Filling("client") /\ end = {}
    BY DEF Init, Peers
  <1>2. /\ NewQp("rts").sq = << >> /\ RecvIdle(NewQp("rts")) /\ ~OkRecv(NewQp("rts"))
    BY DEF NewQp, RecvIdle, OkRecv
  <1>3. Queued("allocate", NewQp("rts"))
    BY <1>2, EmptyQueued
  <1>4. Receiving("allocate", NewQp("rts"))
    BY <1>2, IdleExpects DEF RecvWaits
  <1>5. /\ Got("allocate", NewQp("rts"), << >>) = 0
        /\ Delivered("allocate", NewQp("rts")) = 0
    BY DEF Got, Taken, RecvWaits, Delivered, Announced, Announcing, Leaving
  <1>6. FreshInv /\ OutInv /\ DataInv
    BY <1>1, <1>2 DEF FreshInv, OutInv, DataInv
  <1>7. ShownInv
    BY <1>1 DEF ShownInv, Peers
  <1>8. Holding("allocate", NewQp("rts"), mr["client"], << >>)
    BY DEF Holding, Leaving
  <1> QED
    BY <1>1, <1>3, <1>4, <1>5, <1>6, <1>7, <1>8 DEF FlowInv

\* No step changes the parameters.
LEMMA ParamsKept ==
    ASSUME Next PROVE params' = params
  <1>1. CASE ClientStep
    BY <1>1 DEF ClientStep, Process, ClientSlots, Allocate, Exchange, GetMrInfo,
       GetMrCount, GetMrArray, SendMrInfo, SendMrCount, SendMrArray, DivideByZero,
       Teardown, EndPost, EndWait, PrintStats, DeallocateBuffers, Disconnect, sessionVars
  <1>2. CASE ServerStep
    BY <1>2 DEF ServerStep, Process, Calloc, SlotWrite, SlotWait, InitialSum, Allocate, Exchange,
       GetMrInfo, GetMrCount, GetMrArray, SendMrInfo, SendMrCount, SendMrArray,
       DivideByZero, Teardown, EndPost, EndWait, PrintStats, DeallocateBuffers,
       Disconnect, sessionVars
  <1>3. ASSUME NEW e \in Peers, Nic(e) \/ FabricFails(e) PROVE params' = params
    BY <1>3 DEF Nic, NicExecute, NicAck, NicTimeout, FabricFails, sessionVars
  <1>4. CASE Stopped
    BY <1>4 DEF Stopped, vars
  <1> QED
    BY <1>1, <1>2, <1>3, <1>4 DEF Next, Step

\* Every step keeps what the processes know of each other.
LEMMA NextFlow == IInv /\ FlowInv /\ [Next]_vars => FlowInv'
  <1> SUFFICES ASSUME IInv, FlowInv, [Next]_vars PROVE FlowInv'
    OBVIOUS
  <1>1. CASE UNCHANGED vars
    BY <1>1 DEF vars, FlowInv, Regular, Polls, MayFail, FreshInv, OutInv, DataInv, ShownInv,
       Arrived, Packets, Packet, Filling, Indices, Count
  <1>2. CASE Next
    <2>1. Regular' = Regular
      BY <1>2, ParamsKept DEF Regular, Polls, MayFail
    <2>2. CASE ~Regular
      BY <2>1, <2>2 DEF FlowInv
    <2>3. CASE Regular /\ ClientStep
      BY <2>3, ClientFlow
    <2>4. CASE Regular /\ ServerStep
      BY <2>4, ServerFlow
    <2>5. CASE \E e \in Peers : Nic(e) \/ FabricFails(e)
      BY <2>5, NicFlow
    <2>6. CASE Stopped
      BY <1>1, <2>6 DEF Stopped
    <2> QED
      BY <1>2, <2>2, <2>3, <2>4, <2>5, <2>6 DEF Next, Step
  <1> QED
    BY <1>1, <1>2

\* In every state of a session whose polling is reliable, the client is never
\* ahead of the messages the server's NIC has executed, and every packet of a
\* slot has arrived, is queued, or its failure is there to be polled.
THEOREM FlowInvariance == Spec => [](IInv /\ FlowInv)
  <1>1. Init => IInv /\ FlowInv
    BY InitIInv, InitFlow
  <1>2. IInv /\ FlowInv /\ [Next]_vars => IInv' /\ FlowInv'
    BY NextIInv, NextFlow
  <1> QED
    BY <1>1, <1>2, PTL DEF Spec

\* While both ends are connected and memory registration works, a write that is
\* still to be executed finds the client's memory registered, however many slots
\* and packets there are: the client deallocates only behind the terminating
\* message, which the server posts behind its last packet.
THEOREM WritesFindMemory == Spec => []WriteTargetLive
  <1>1. IInv /\ FlowInv => WriteTargetLive
    <2> SUFFICES ASSUME IInv, FlowInv, Regular, ~MayFail("reg"),
                        qp["client"].state = "rts",
                        NEW j \in (qp["server"].sent + 1)..Len(qp["server"].sq),
                        qp["server"].sq[j].op = "write"
                 PROVE  mr["client"].in = "reg"
      BY DEF WriteTargetLive, Peers
    <2>1. j \in 1..Len(qp["server"].sq)
      <3>1. qp["server"].sent \in Nat /\ Len(qp["server"].sq) \in Nat
        BY Facts, QpFields
      <3> QED
        BY <3>1
    <2>2. pc["client"] # "allocate" /\ shown["client"] = << >>
      BY <2>1, WriterInSlot
    <2>3. Holding(pc["client"], qp["client"], mr["client"], shown["client"])
      BY DEF FlowInv
    <2> QED
      BY <2>2, <2>3 DEF Holding, Leaving
  <1> QED
    BY <1>1, FlowInvariance, PTL

\* What the client shows as received is what the server shows as sent, packet by
\* packet, for every number of slots and packets: the sums of the two hosts agree
\* whenever both are printed.
THEOREM SumsAgree == Spec => []ReceivedIsSent
  <1>1. IInv /\ FlowInv => ReceivedIsSent
    <2> SUFFICES ASSUME IInv, FlowInv, Regular,
                        shown["client"] # << >>, shown["server"] # << >>
                 PROVE  shown["client"][1].in = shown["server"][1].out
      BY DEF ReceivedIsSent
    <2>1. /\ shown["client"][1].in = mem["client"].in
          /\ end # {} /\ \A j \in Packets : shown["server"][1].out[j] = Packet(j)
      BY DEF FlowInv, ShownInv
    <2>2. \A j \in Packets : mem["client"].in[j] = Packet(j)
      BY <2>1 DEF FlowInv, DataInv, Arrived
    <2>3. mem["client"] \in Memory("client") /\ shown["server"] \in Seq(Memory("server"))
      BY Facts DEF TypeOK, MemOK, ShownOK
    <2>4. shown["server"][1] \in Memory("server")
      BY <2>3
    <2>5. /\ mem["client"].in \in [Packets -> Values]
          /\ shown["server"][1].out \in [Packets -> Values]
      BY <2>3, <2>4, Facts, ParamFacts DEF Memory
    <2>6. mem["client"].in = shown["server"][1].out
      BY <2>1, <2>2, <2>5
    <2> QED
      BY <2>1, <2>6
  <1> QED
    BY <1>1, FlowInvariance, PTL

\* Once a process has summed its buffers no step changes them: not the writes of
\* the server's NIC, which are over when the terminating message is delivered.
THEOREM SumsAreFinal == Spec => SumIsFinal
  <1>1. IInv /\ FlowInv /\ [Next]_vars =>
           [Regular => \A e \in Peers : shown[e] # << >> => mem'[e] = mem[e]]_vars
    <2> SUFFICES ASSUME IInv, FlowInv, Next, Regular, NEW e \in Peers, shown[e] # << >>
                 PROVE  mem'[e] = mem[e]
      OBVIOUS
    <2>1. pc[e] \in Leaving
      BY DEF FlowInv, ShownInv
    <2>2. ASSUME NEW d \in Peers, Process(d) PROVE mem'[e] = mem[e]
      <3>1. CASE Allocate(d)
        <4>1. d # e
          BY <2>1, <3>1 DEF Allocate, Leaving
        <4> QED
          BY <3>1, <4>1, Facts DEF Allocate, TypeOK
      <3>2. CASE Exchange(d)
        BY <3>2 DEF Exchange, GetMrInfo, GetMrCount, GetMrArray, SendMrInfo,
           SendMrCount, SendMrArray
      <3>3. CASE DivideByZero(d) \/ Teardown(d)
        BY <3>3 DEF DivideByZero, Teardown, EndPost, EndWait, PrintStats,
           DeallocateBuffers, Disconnect
      <3> QED
        BY <2>2, <3>1, <3>2, <3>3 DEF Process
    <2>3. CASE ClientSlots \/ Calloc \/ SlotWrite \/ SlotWait
      BY <2>3 DEF ClientSlots, Calloc, SlotWrite, SlotWait, InitialSum
    <2>4. ASSUME NEW d \in Peers, Nic(d) \/ FabricFails(d) PROVE mem'[e] = mem[e]
      <3>1. CASE mem' = mem
        BY <3>1
      <3>2. CASE /\ qp["server"].sent < Len(qp["server"].sq)
                 /\ qp["server"].sq[qp["server"].sent + 1].op = "write"
                 /\ mem'["server"] = mem["server"]
        <4>1. qp["server"].sent + 1 \in 1..Len(qp["server"].sq)
          <5>1. qp["server"].sent \in Nat /\ Len(qp["server"].sq) \in Nat
            BY Facts, QpFields
          <5>2. \A a, b \in Nat : a < b => a + 1 \in 1..b
            OBVIOUS
          <5> QED
            BY <3>2, <5>1, <5>2
        <4>2. shown["client"] = << >>
          BY <3>2, <4>1, WriterInSlot
        <4> QED
          BY <3>2, <4>2 DEF Peers
      <3> QED
        BY <2>4, <3>1, <3>2, NicKinds
    <2>5. CASE Stopped
      BY <2>5 DEF Stopped, vars
    <2> QED
      BY <2>2, <2>3, <2>4, <2>5, Facts DEF Next, Step, ClientStep, ServerStep
  <1> QED
    BY <1>1, FlowInvariance, PTL DEF Spec, SumIsFinal

-----------------------------------------------------------------------------
(* Why the two processes never wait for each other.  What a process polls   *)
(* for is posted or has completed; and as long as both ends are connected   *)
(* and used, the messages the server has received are those the client's    *)
(* NIC has executed, which tells where they are in the exchange.            *)

\* Completions that are there or will be: every request is signaled.
Owed(q) == Len(q.sq) + Len(q.scq)

\* What a process at l polls its receive completions for.
Polling(e, l) == IF l \in RecvPolls(e) THEN l ELSE "nothing"

Connected(l, q) ==
    IF l \in {"done", "crashed"} THEN q.state = "gone" ELSE q.state \in {"rts", "err"}

\* The client sends nothing but the two messages of the exchange.
ClientQueue(l, q) == Len(q.sq) <= 1 /\ (l \notin Sending => q.sq = << >>)

\* What a process at l finds at its queue pair.
Finds(e, l, q) ==
    /\ Connected(l, q)
    /\ l \in SendWaits(e) => Owed(q) > 0
    /\ Receiving(Polling(e, l), q)
    /\ e = "client" => ClientQueue(l, q)

\* A slot is owed the completions of its packets, as long as all of them were
\* posted.
SlotOwed ==
    Fits => /\ pc["server"] = "slot" => Owed(qp["server"]) >= i - 1
            /\ pc["server"] = "slot_wait" => sum + Owed(qp["server"]) >= params.count

\* How many messages the client's NIC has executed, and the server has received.
Messages(e, l, q) ==
    IF e = "client"
    THEN IF l \in {"allocate", "send_mr"} THEN 0
         ELSE IF l = "send_mr_count" THEN IF q.sent < Len(q.sq) THEN 0 ELSE 1
         ELSE IF l = "send_mr_array" /\ q.sent < Len(q.sq) THEN 1 ELSE 2
    ELSE IF l \in {"allocate", "get_mr"} THEN 0
         ELSE IF l = "get_mr_count" THEN IF OkRecv(q) THEN 1 ELSE 0
         ELSE IF l = "get_mr_array" /\ ~OkRecv(q) THEN 1 ELSE 2

InUse(l, q) == q.state = "rts" /\ l \notin Leaving

Even ==
    (\A e \in Peers : InUse(pc[e], qp[e]))
    => Messages("client", pc["client"], qp["client"])
       = Messages("server", pc["server"], qp["server"])

StopInv ==
    Regular => /\ \A e \in Peers : Finds(e, pc[e], qp[e])
             /\ SlotOwed /\ Even

\* What is owed, in numbers.
LEMMA OwedSum ==
    ASSUME NEW q, NEW a, NEW b, Len(q.sq) = a, Len(q.scq) = b
    PROVE  Owed(q) = a + b
  BY DEF Owed

\* The lengths that count.
LEMMA OwedNat ==
    ASSUME NEW q, Accounted(q)
    PROVE  /\ Len(q.sq) \in Nat /\ Len(q.scq) \in Nat /\ Owed(q) \in Nat
           /\ Len(q.sq) = 0 <=> q.sq = << >>
           /\ Len(q.scq) = 0 <=> q.scq = << >>
           /\ q.sent \in Nat /\ q.sent <= Len(q.sq)
  <1>1. /\ q.sq \in Seq(WorkRequests) /\ q.scq \in Seq(SendCompletions)
        /\ q.sent \in Nat /\ SendAccounting(q)
    BY QpFields
  <1>2. q.sent <= Len(q.sq)
    BY <1>1 DEF SendAccounting
  <1>3. Len(q.sq) \in Nat /\ (Len(q.sq) = 0 <=> q.sq = << >>)
    BY <1>1
  <1>4. Len(q.scq) \in Nat /\ (Len(q.scq) = 0 <=> q.scq = << >>)
    BY <1>1
  <1> DEFINE a == Len(q.sq)
             b == Len(q.scq)
  <1>5. Owed(q) \in Nat
    <2>1. Owed(q) = a + b
      BY OwedSum
    <2>2. a \in Nat /\ b \in Nat
      BY <1>3, <1>4
    <2> HIDE DEF a, b
    <2> QED
      BY <2>1, <2>2
  <1> QED
    BY <1>1, <1>2, <1>3, <1>4, <1>5

\* A request that is posted is owed, flushed or not.
LEMMA OwedPosted ==
    ASSUME NEW q, Accounted(q), CanPost(q), NEW op \in {"send", "read", "write"},
           NEW kind \in Kinds, NEW n \in Nat, NEW sig \in BOOLEAN
    PROVE  Owed(PostSend(q, op, kind, n, sig)) = Owed(q) + 1
  <1> DEFINE r == PostSend(q, op, kind, n, sig)
             wr == [op |-> op, kind |-> kind, n |-> n, sig |-> sig, idx |-> q.posted + 1]
  <1>1. Posted(q, r, wr)
    BY PostSendFields
  <1>2. Len(q.sq) \in Nat /\ Len(q.scq) \in Nat
    BY OwedNat
  <1> HIDE DEF r, wr
  <1>3. \/ Len(r.sq) = Len(q.sq) + 1 /\ Len(r.scq) = Len(q.scq)
        \/ Len(r.sq) = Len(q.sq) /\ Len(r.scq) = Len(q.scq) + 1
    BY <1>1 DEF Posted
  <1> DEFINE a == Len(q.sq)
             b == Len(q.scq)
  <1>4. Owed(q) = a + b /\ (Owed(r) = (a + 1) + b \/ Owed(r) = a + (b + 1))
    <2>1. Owed(q) = a + b /\ Owed(r) = Len(r.sq) + Len(r.scq)
      BY DEF Owed
    <2>2. \/ Len(r.sq) = a + 1 /\ Len(r.scq) = b
          \/ Len(r.sq) = a /\ Len(r.scq) = b + 1
      BY <1>3
    <2> HIDE DEF a, b
    <2>3. CASE Len(r.sq) = a + 1 /\ Len(r.scq) = b
      BY <2>1, <2>3, Zenon
    <2>4. CASE Len(r.sq) = a /\ Len(r.scq) = b + 1
      BY <2>1, <2>4, Zenon
    <2> QED
      BY <2>1, <2>2, <2>3, <2>4, Zenon
  <1>5. Owed(r) = Owed(q) + 1
    <2> HIDE DEF a, b
    <2>1. a \in Nat /\ b \in Nat
      BY <1>2 DEF a, b
    <2> QED
      BY <1>4, <2>1
  <1> QED
    BY <1>5 DEF r

\* A step of the NICs leaves what is owed: an acknowledged request was signaled,
\* a flushed one completes.
LEMMA OwedNic ==
    ASSUME NEW q, Accounted(q), \A j \in 1..Len(q.sq) : q.sq[j].sig, NEW r,
           \/ Quiet(q, r)
           \/ r = Executed(q)
           \/ \E m : r = Received(q, m)
    PROVE  Owed(r) = Owed(q)
  <1>1. Len(q.sq) \in Nat /\ Len(q.scq) \in Nat /\ q \in QueuePairs
        /\ q.scq \in Seq(SendCompletions) /\ q.sq \in Seq(WorkRequests)
    BY OwedNat, QpFields
  <1>2. CASE r = q \/ r = Executed(q) \/ \E m : r = Received(q, m)
    <2>1. r.sq = q.sq /\ r.scq = q.scq
      BY <1>2, SidesKept DEF SendSame
    <2> QED
      BY <2>1 DEF Owed
  <1>3. CASE q.sent > 0 /\ r = Acknowledged(q)
    <2>1. AckedTo(q, r)
      BY <1>3, AcknowledgedFields
    <2>2. q.sq[1].sig /\ Len(r.sq) = Len(q.sq) - 1
      BY <1>1, <2>1 DEF AckedTo
    <2>3. r.scq = Append(q.scq, [ok |-> TRUE, idx |-> q.sq[1].idx])
      BY <2>1, <2>2 DEF AckedTo
    <2>4. q.sq[1] \in WorkRequests
      BY <1>1, <2>1 DEF AckedTo
    <2>5. [ok |-> TRUE, idx |-> q.sq[1].idx] \in SendCompletions
      BY <2>4 DEF WorkRequests, SendCompletions
    <2>6. Len(r.scq) = Len(q.scq) + 1
      BY <1>1, <2>3, <2>5, AppendEntries
    <2> DEFINE a == Len(q.sq)
               b == Len(q.scq)
    <2>7. Owed(q) = a + b /\ Owed(r) = (a - 1) + (b + 1) /\ a \in Nat /\ b \in Nat
      BY <1>1, <2>2, <2>6, OwedSum
    <2> HIDE DEF a, b
    <2> QED
      BY <2>7
  <1>4. CASE r = Flushed(q)
    <2> DEFINE f == [k \in 1..Len(q.sq) |-> [ok |-> FALSE, idx |-> q.sq[k].idx]]
    <2>1. r.scq = q.scq \o f /\ r.sq = << >>
      BY <1>1, <1>4 DEF Flushed, QueuePairs
    <2>2. Len(f) = Len(q.sq)
      BY <1>1
    <2>3. f \in Seq(SendCompletions)
      <3>1. \A k \in 1..Len(q.sq) : [ok |-> FALSE, idx |-> q.sq[k].idx] \in SendCompletions
        <4> TAKE k \in 1..Len(q.sq)
        <4>1. q.sq[k] \in WorkRequests
          BY <1>1
        <4> QED
          BY <4>1 DEF WorkRequests, SendCompletions
      <3> QED
        BY <1>1, <3>1
    <2> HIDE DEF f
    <2>4. Len(r.scq) = Len(q.scq) + Len(q.sq)
      <3>1. \A s, t \in Seq(SendCompletions) : Len(s \o t) = Len(s) + Len(t)
        BY ConcatProperties
      <3> QED
        BY <1>1, <2>1, <2>2, <2>3, <3>1, Zenon
    <2>5. Len(r.sq) = 0
      BY <2>1, EmptyLen
    <2> DEFINE a == Len(q.sq)
               b == Len(q.scq)
    <2>6. Owed(q) = a + b /\ Owed(r) = 0 + (b + a) /\ a \in Nat /\ b \in Nat
      BY <1>1, <2>4, <2>5, OwedSum
    <2> HIDE DEF a, b
    <2> QED
      BY <2>6
  <1> QED
    BY <1>2, <1>3, <1>4 DEF Quiet

\* What a batch takes is owed no longer.
LEMMA OwedPolled ==
    ASSUME NEW q, Accounted(q), NEW k \in 1..Len(q.scq)
    PROVE  Owed(PollBatch(q, k)) = Owed(q) - k
  <1> DEFINE r == PollBatch(q, k)
  <1>1. /\ Len(q.sq) \in Nat /\ Len(q.scq) \in Nat
        /\ q.scq \in Seq(SendCompletions)
    BY OwedNat, QpFields
  <1>2. r.sq = q.sq /\ r.scq = SubSeq(q.scq, k + 1, Len(q.scq))
    BY PollBatchAccounted
  <1> HIDE DEF r
  <1>3. Len(r.scq) = Len(q.scq) - k
    <2>1. \A s \in Seq(SendCompletions) : \A j \in 1..Len(s) :
             Len(SubSeq(s, j + 1, Len(s))) = Len(s) - j
      OBVIOUS
    <2> QED
      BY <1>1, <1>2, <2>1
  <1> DEFINE a == Len(q.sq)
             b == Len(q.scq)
  <1>4. Owed(q) = a + b /\ Owed(r) = a + (b - k) /\ a \in Nat /\ b \in Nat /\ k \in Int
    <2>1. Len(r.sq) = a /\ Len(r.scq) = b - k /\ a \in Nat /\ b \in Nat
      BY <1>1, <1>2, <1>3
    <2>2. k \in Int
      OBVIOUS
    <2>3. Owed(q) = a + b
      BY OwedSum
    <2>4. Owed(r) = a + (b - k)
      <3>1. Owed(r) = Len(r.sq) + Len(r.scq)
        BY DEF Owed
      <3> HIDE DEF a, b
      <3> QED
        BY <2>1, <3>1, Zenon
    <2> QED
      BY <2>1, <2>2, <2>3, <2>4
  <1>5. Owed(r) = Owed(q) - k
    <2> HIDE DEF a, b
    <2> QED
      BY <1>4
  <1> QED
    BY <1>5 DEF r

-----------------------------------------------------------------------------
(* The NICs.                                                                *)

\* The labels at which a message is polled for.
LEMMA PollingWaits ==
    ASSUME NEW e \in Peers, NEW l
    PROVE  /\ Polling(e, l) \in RecvWaits <=> l \in RecvPolls(e)
           /\ l \in RecvPolls(e) => Polling(e, l) = l
           /\ "server" \in Peers /\ "client" \in Peers
           /\ RecvPolls("client") = RecvWaits
           /\ RecvPolls("server") = {"get_mr_count", "get_mr_array"}
           /\ l \in RecvPolls(e) => l \in RecvWaits
  BY DEF Polling, RecvPolls, RecvWaits, Peers

\* Every request is signaled.
LEMMA AllSignaled ==
    ASSUME IInv, NEW e \in Peers
    PROVE  \A j \in 1..Len(qp[e].sq) : qp[e].sq[j].sig
  <1>1. Holds(qp[e], Mine(e))
    BY Facts DEF Good
  <1> QED
    BY <1>1 DEF Holds, Mine

\* What the NICs leave alone, executed or acknowledged is found as before, and a
\* failure is.
LEMMA QuietFinds ==
    ASSUME NEW q, Accounted(q), \A j \in 1..Len(q.sq) : q.sq[j].sig, NEW r,
           Quiet(q, r) \/ r = Executed(q), NEW e \in Peers, NEW l, Finds(e, l, q)
    PROVE  Finds(e, l, r)
  <1>1. Owed(r) = Owed(q)
    BY OwedNic
  <1>2. Receiving(Polling(e, l), r)
    <2>1. CASE Quiet(q, r)
      BY <2>1, QuietMessages DEF Finds
    <2>2. CASE r = Executed(q)
      <3>1. RecvSame(q, r) /\ r.state = q.state
        BY <2>2, SidesKept DEF SendSame
      <3> QED
        BY <3>1, ReceivingSame DEF Finds
    <2> QED
      BY <2>1, <2>2
  <1>3. Connected(l, r) /\ (ClientQueue(l, q) => ClientQueue(l, r))
    <2>1. CASE r = q \/ r = Executed(q)
      <3>1. r.state = q.state /\ r.sq = q.sq
        BY <2>1, SidesKept DEF SendSame
      <3> QED
        BY <3>1 DEF Finds, Connected, ClientQueue
    <2>2. CASE q.state = "rts" /\ r = Flushed(q)
      <3>1. r.state = "err" /\ r.sq = << >> /\ Len(r.sq) = 0
        BY <2>2, FlushedFields, EmptyLen DEF FlushedTo
      <3> QED
        BY <2>2, <3>1 DEF Finds, Connected, ClientQueue
    <2>3. CASE q.sent > 0 /\ r = Acknowledged(q)
      <3>1. AckedTo(q, r) /\ Len(q.sq) \in Nat
        BY <2>3, AcknowledgedFields, OwedNat
      <3>2. /\ r.state = q.state /\ Len(r.sq) = Len(q.sq) - 1
            /\ Len(q.sq) > 0
        BY <3>1 DEF AckedTo
      <3>3. Connected(l, r)
        BY <3>2 DEF Finds, Connected
      <3>4. q.sq # << >>
        BY <3>1, <3>2, OwedNat
      <3>5. Len(q.sq) <= 1 => Len(r.sq) <= 1
        BY <3>1, <3>2
      <3> QED
        BY <3>3, <3>4, <3>5 DEF ClientQueue
    <2> QED
      BY <2>1, <2>2, <2>3 DEF Quiet
  <1> QED
    BY <1>1, <1>2, <1>3 DEF Finds

\* Nor does it change what has been executed or received, unless it fails.
LEMMA QuietEven ==
    ASSUME NEW q, Accounted(q), NEW r, Quiet(q, r), NEW e \in Peers, NEW l,
           InUse(l, r)
    PROVE  InUse(l, q) /\ Messages(e, l, r) = Messages(e, l, q)
  <1>1. r.state = "rts" /\ q.state = "rts"
    BY QuietMessages DEF InUse
  <1>2. CASE r = q
    BY <1>1, <1>2 DEF InUse
  <1>3. CASE r = Flushed(q)
    <2>1. FALSE
      BY <1>1, <1>3, FlushedFields DEF FlushedTo
    <2> QED
      BY <2>1
  <1>4. CASE q.sent > 0 /\ r = Acknowledged(q)
    <2>1. /\ AckedTo(q, r) /\ RecvSame(q, r)
          /\ Len(q.sq) \in Nat /\ q.sent \in Nat
      BY <1>4, AcknowledgedFields, SidesKept, OwedNat
    <2>2. r.sent = q.sent - 1 /\ Len(r.sq) = Len(q.sq) - 1
      BY <2>1 DEF AckedTo
    <2>3. r.sent < Len(r.sq) <=> q.sent < Len(q.sq)
      BY <2>1, <2>2
    <2>4. OkRecv(r) <=> OkRecv(q)
      BY <2>1 DEF RecvSame, OkRecv
    <2> QED
      BY <1>1, <2>3, <2>4, Zenon DEF InUse, Messages
  <1> QED
    BY <1>2, <1>3, <1>4 DEF Quiet

\* A message arrives in the receive that was posted.
LEMMA ReceivedFinds ==
    ASSUME NEW q, Accounted(q), q.rq # << >>, NEW m \in Buffers,
           \A j \in 1..Len(q.sq) : q.sq[j].sig,
           NEW e \in Peers, NEW l, Finds(e, l, q)
    PROVE  /\ Finds(e, l, Received(q, m)) /\ l \in RecvPolls(e)
           /\ ~OkRecv(q) /\ OkRecv(Received(q, m))
           /\ Received(q, m).state = q.state
  <1> DEFINE r == Received(q, m)
  <1>1. Receiving(Polling(e, l), q)
    BY DEF Finds
  <1>2. Polling(e, l) \in RecvWaits
    BY <1>1 DEF Receiving, RecvIdle
  <1>3. PICK kind \in Kinds : RecvOne(q, [kind |-> kind, n |-> 0])
    BY <1>1, <1>2 DEF Receiving
  <1> DEFINE b == [kind |-> kind, n |-> 0]
  <1>4. /\ q.rcq = << >> /\ RecvOne(r, b)
        /\ r.rcq = <<[ok |-> TRUE, buf |-> b, msg |-> m]>>
    <2>1. RecvOne(q, b)
      BY <1>3
    <2>2. q.rcq = << >>
      BY <2>1 DEF RecvOne
    <2> HIDE DEF b
    <2>3. r.rcq = <<[ok |-> TRUE, buf |-> b, msg |-> m]>> /\ RecvOne(r, b)
      BY <2>1, ReceivedOne
    <2> QED
      BY <2>2, <2>3
  <1>5. SendSame(q, r) /\ Owed(r) = Owed(q)
    BY SidesKept, OwedNic
  <1> HIDE DEF r
  <1>6. Len(r.rcq) = 1 /\ r.rcq[1].ok /\ \A j \in 1..Len(r.rcq) : r.rcq[j].ok
    BY <1>4
  <1>7. OkRecv(r) /\ ~OkRecv(q)
    BY <1>4, <1>6 DEF OkRecv
  <1>8. Receiving(Polling(e, l), r)
    BY <1>2, <1>4, <1>6 DEF Receiving
  <1>9. Finds(e, l, r)
    BY <1>5, <1>8 DEF Finds, SendSame, Connected, ClientQueue
  <1> QED
    BY <1>2, <1>5, <1>7, <1>9, PollingWaits DEF r, SendSame

\* An executed message of the client counts, and so does one the server receives;
\* what goes the other way does not.
LEMMA MessageCounts ==
    ASSUME NEW q, Accounted(q), NEW m
    PROVE  /\ \A l : Messages("server", l, Executed(q)) = Messages("server", l, q)
           /\ \A l : Messages("client", l, Received(q, m)) = Messages("client", l, q)
           /\ Executed(q).state = q.state
           /\ \A l : ClientQueue(l, q) /\ q.sent < Len(q.sq)
                     => Messages("client", l, Executed(q)) = Messages("client", l, q) + 1
           /\ \A l \in RecvPolls("server") :
                 ~OkRecv(q) /\ OkRecv(Received(q, m))
                 => Messages("server", l, Received(q, m)) = Messages("server", l, q) + 1
  <1> DEFINE x == Executed(q)
             r == Received(q, m)
  <1>1. /\ SendSame(q, x) /\ RecvSame(q, x) /\ x.sent = q.sent + 1
        /\ SendSame(q, r) /\ r.sent = q.sent
    BY SidesKept
  <1> HIDE DEF x, r
  <1>2. \A l : Messages("server", l, x) = Messages("server", l, q)
    <2>1. OkRecv(x) <=> OkRecv(q)
      BY <1>1 DEF RecvSame, OkRecv
    <2> QED
      BY <2>1, Zenon DEF Messages
  <1>3. \A l : Messages("client", l, r) = Messages("client", l, q)
    <2>1. r.sent = q.sent /\ r.sq = q.sq
      BY <1>1 DEF SendSame
    <2> QED
      BY <2>1 DEF Messages
  <1>4. ASSUME NEW l, ClientQueue(l, q), q.sent < Len(q.sq)
        PROVE  Messages("client", l, x) = Messages("client", l, q) + 1
    <2>1. /\ Len(q.sq) \in Nat /\ q.sent \in Nat /\ Len(q.sq) <= 1
          /\ (Len(q.sq) = 0 <=> q.sq = << >>)
      BY <1>4, OwedNat DEF ClientQueue
    <2>2. l \in Sending
      BY <1>4, <2>1 DEF ClientQueue
    <2>3. x.sq = q.sq
      BY <1>1 DEF SendSame
    <2>4. ~(x.sent < Len(x.sq))
      BY <1>1, <1>4, <2>1, <2>3
    <2> QED
      BY <1>4, <2>2, <2>4 DEF Messages, Sending
  <1>5. ASSUME NEW l \in RecvPolls("server"), ~OkRecv(q), OkRecv(r)
        PROVE  Messages("server", l, r) = Messages("server", l, q) + 1
    <2>1. l = "get_mr_count" \/ l = "get_mr_array"
      BY <1>5 DEF RecvPolls, RecvWaits
    <2>2. /\ l = "get_mr_count" => Messages("server", l, q) = 0 /\ Messages("server", l, r) = 1
          /\ l = "get_mr_array" => Messages("server", l, q) = 1 /\ Messages("server", l, r) = 2
      BY <1>5 DEF Messages
    <2> QED
      BY <2>1, <2>2
  <1>6. x.state = q.state
    BY <1>1 DEF SendSame
  <1> QED
    BY <1>2, <1>3, <1>4, <1>5, <1>6 DEF x, r

\* No step of the NICs takes away what a process polls for.
LEMMA NicStop ==
    ASSUME IInv, StopInv, NEW e \in Peers, Nic(e) \/ FabricFails(e)
    PROVE  StopInv'
  <1> DEFINE s == qp["server"]
             c == qp["client"]
             t == qp'["server"]
             d == qp'["client"]
  <1>1. /\ UNCHANGED <<sessionVars, pc, rv, mr, remote, shown>>
        /\ params' = params /\ pc' = pc /\ i' = i /\ sum' = sum
        /\ Regular' = Regular /\ Fits' = Fits
    BY NicKinds DEF sessionVars, Regular, Polls, Fits, MayFail
  <1> SUFFICES ASSUME Regular
               PROVE  /\ \A p \in Peers : Finds(p, pc[p], qp'[p])
                      /\ SlotOwed' /\ Even'
    BY <1>1 DEF StopInv
  <1>2. /\ \A p \in Peers : /\ Accounted(qp[p]) /\ Finds(p, pc[p], qp[p])
                            /\ \A j \in 1..Len(qp[p].sq) : qp[p].sq[j].sig
        /\ "client" \in Peers /\ "server" \in Peers /\ SlotOwed /\ Even
        /\ Peer("client") = "server" /\ Peer("server") = "client"
        /\ \A p \in Peers : p = "client" \/ p = "server"
    BY Facts, AllSignaled DEF StopInv, Peers, Peer
  <1> DEFINE N == \A p \in Peers : InUse(pc[p], qp[p])
             M == \A p \in Peers : InUse(pc[p], qp'[p])
             a == Messages("client", pc["client"], c)
             b == Messages("server", pc["server"], s)
             u == Messages("client", pc["client"], d)
             v == Messages("server", pc["server"], t)
  <1>3. ASSUME Owed(t) = Owed(s), \A p \in Peers : Finds(p, pc[p], qp'[p]),
               M => N /\ \/ u = a /\ v = b
                         \/ u = a + 1 /\ v = b + 1
        PROVE  /\ \A p \in Peers : Finds(p, pc[p], qp'[p])
               /\ SlotOwed' /\ Even'
    <2>1. SlotOwed'
      BY <1>1, <1>2, <1>3 DEF SlotOwed
    <2>2. N => a = b
      BY <1>2 DEF Even
    <2>3. M => u = v
      <3> HIDE DEF M, N, a, b, u, v
      <3> QED
        BY <1>3, <2>2
    <2>4. Even'
      BY <1>1, <2>3 DEF Even
    <2> QED
      BY <1>3, <2>1, <2>4
  <1>4. CASE \A p \in Peers : Quiet(qp[p], qp'[p])
    <2>1. \A p \in Peers : Finds(p, pc[p], qp'[p])
      BY <1>2, <1>4, QuietFinds
    <2>2. Owed(t) = Owed(s)
      BY <1>2, <1>4, OwedNic
    <2>3. \A p \in Peers : InUse(pc[p], qp'[p])
             => InUse(pc[p], qp[p]) /\ Messages(p, pc[p], qp'[p]) = Messages(p, pc[p], qp[p])
      BY <1>2, <1>4, QuietEven
    <2> QED
      BY <1>2, <1>3, <2>1, <2>2, <2>3
  <1>5. ASSUME NEW m \in Buffers, c.sent < Len(c.sq), s.rq # << >>,
               d = Executed(c), t = Received(s, m)
        PROVE  /\ \A p \in Peers : Finds(p, pc[p], qp'[p])
               /\ SlotOwed' /\ Even'
    <2>1. Finds("client", pc["client"], d) /\ d.state = c.state
      BY <1>2, <1>5, QuietFinds, MessageCounts
    <2>2. /\ Finds("server", pc["server"], t) /\ pc["server"] \in RecvPolls("server")
          /\ ~OkRecv(s) /\ OkRecv(t) /\ t.state = s.state
      BY <1>2, <1>5, ReceivedFinds
    <2>3. u = a + 1
      BY <1>2, <1>5, MessageCounts DEF Finds
    <2>4. v = b + 1
      BY <1>2, <1>5, <2>2, MessageCounts
    <2>5. Owed(t) = Owed(s)
      BY <1>2, <1>5, OwedNic
    <2>6. M => N
      BY <1>2, <2>1, <2>2 DEF InUse
    <2>7. \A p \in Peers : Finds(p, pc[p], qp'[p])
      BY <1>2, <2>1, <2>2
    <2> HIDE DEF a, b, u, v, M, N
    <2> QED
      BY <1>3, <2>3, <2>4, <2>5, <2>6, <2>7
  <1>6. ASSUME t = Executed(s),
               \/ d = c
               \/ c.rq # << >> /\ \E m \in Buffers : d = Received(c, m)
        PROVE  /\ \A p \in Peers : Finds(p, pc[p], qp'[p])
               /\ SlotOwed' /\ Even'
    <2>1. Finds("server", pc["server"], t) /\ t.state = s.state /\ v = b
      <3>1. Finds("server", pc["server"], t)
        BY <1>2, <1>6, QuietFinds
      <3>2. t.state = s.state
        BY <1>2, <1>6, SidesKept DEF SendSame
      <3>3. \A l : Messages("server", l, Executed(s)) = Messages("server", l, s)
        BY <1>2, MessageCounts
      <3> QED
        BY <1>6, <3>1, <3>2, <3>3
    <2>2. Finds("client", pc["client"], d) /\ d.state = c.state /\ u = a
      BY <1>2, <1>6, ReceivedFinds, MessageCounts
    <2>3. Owed(t) = Owed(s)
      BY <1>2, <1>6, OwedNic
    <2>4. M => N
      BY <1>2, <2>1, <2>2 DEF InUse
    <2>5. \A p \in Peers : Finds(p, pc[p], qp'[p])
      BY <1>2, <2>1, <2>2
    <2> HIDE DEF a, b, u, v, M, N
    <2> QED
      BY <1>3, <2>1, <2>2, <2>3, <2>4, <2>5
  <1>7. \/ \A p \in Peers : Quiet(qp[p], qp'[p])
        \/ /\ qp[e].sent < Len(qp[e].sq) /\ qp[Peer(e)].rq # << >>
           /\ qp'[e] = Executed(qp[e])
           /\ \E m \in Buffers : qp'[Peer(e)] = Received(qp[Peer(e)], m)
        \/ t = Executed(s) /\ d = c
    BY NicKinds
  <1>8. e = "client" \/ e = "server"
    BY <1>2
  <1> QED
    BY <1>2, <1>4, <1>5, <1>6, <1>7, <1>8

-----------------------------------------------------------------------------
(* The processes.                                                           *)

\* What a process that goes on to l with q keeps to.
Counted(e, l, q) ==
    InUse(l, q) => /\ InUse(pc[e], qp[e])
                   /\ Messages(e, l, q) = Messages(e, pc[e], qp[e])

\* A process that goes on outside the slots.
LEMMA StopMoves ==
    ASSUME IInv, StopInv, Regular, NEW e \in Peers, params' = params,
           NEW l, Goto(e, l), NEW q, SetQp(e, q) \/ (q = qp[e] /\ UNCHANGED qp),
           Accounted(q), Finds(e, l, q), Counted(e, l, q),
           \/ e = "server" /\ l # "slot_wait" /\ (l = "slot" => i' = 1)
           \/ e = "server" /\ SlotOwed'
           \/ e = "client" /\ UNCHANGED sessionVars
    PROVE  StopInv'
  <1>1. /\ Regular' = Regular /\ Fits' = Fits /\ pc \in [Peers -> Labels]
        /\ qp \in [Peers -> QueuePairs] /\ "client" \in Peers /\ "server" \in Peers
        /\ Accounted(qp["server"]) /\ \A p \in Peers : p = "client" \/ p = "server"
        /\ Accounted(qp["client"])
    BY Facts DEF Regular, Polls, Fits, MayFail, TypeOK, Peers
  <1>2. /\ pc'[e] = l /\ \A p \in Peers \ {e} : pc'[p] = pc[p]
        /\ qp'[e] = q /\ \A p \in Peers \ {e} : qp'[p] = qp[p]
    BY <1>1 DEF Goto, SetQp
  <1>3. \A p \in Peers : Finds(p, pc'[p], qp'[p])
    BY <1>2 DEF StopInv
  <1>4. SlotOwed'
    <2>1. CASE e = "server" /\ l # "slot_wait" /\ (l = "slot" => i' = 1)
      <3>1. CASE l # "slot"
        BY <1>2, <2>1, <3>1 DEF SlotOwed
      <3>2. CASE l = "slot"
        <4>1. Owed(q) \in Nat
          BY OwedNat
        <4>2. Owed(q) >= i' - 1
          BY <2>1, <3>2, <4>1
        <4> QED
          BY <1>2, <2>1, <3>2, <4>2 DEF SlotOwed
      <3> QED
        BY <3>1, <3>2
    <2>2. CASE e = "client" /\ UNCHANGED sessionVars
      <3>1. /\ pc'["server"] = pc["server"] /\ qp'["server"] = qp["server"]
            /\ i' = i /\ sum' = sum
        BY <1>1, <1>2, <2>2 DEF sessionVars
      <3> QED
        BY <1>1, <3>1 DEF StopInv, SlotOwed
    <2> QED
      BY <2>1, <2>2
  <1>5. Even'
    <2>1. ASSUME \A p \in Peers : InUse(pc'[p], qp'[p])
          PROVE  \A p \in Peers : /\ InUse(pc[p], qp[p])
                                  /\ Messages(p, pc'[p], qp'[p]) = Messages(p, pc[p], qp[p])
      BY <1>2, <2>1 DEF Counted
    <2> QED
      BY <1>1, <2>1 DEF StopInv, Even
  <1> QED
    BY <1>1, <1>3, <1>4, <1>5 DEF StopInv

\* What the other conditions on the server come to, outside the slots.
NoSlot(e, l) ==
    UNCHANGED sessionVars /\ l # "slot_wait" /\ (e = "server" /\ l = "slot" => i = 1)

\* A step outside the slots.
LEMMA StopOutside ==
    ASSUME IInv, StopInv, Regular, NEW e \in Peers, NEW l, NoSlot(e, l), Goto(e, l),
           NEW q, SetQp(e, q) \/ (q = qp[e] /\ UNCHANGED qp),
           Accounted(q), Finds(e, l, q), Counted(e, l, q)
    PROVE  StopInv'
  <1>1. /\ e = "client" \/ e = "server"
        /\ params' = params /\ i' = i
    BY DEF Peers, NoSlot, sessionVars
  <1> QED
    BY <1>1, StopMoves DEF NoSlot

\* A step that leaves the queue pair alone.
LEMMA StopStays ==
    ASSUME IInv, StopInv, Regular, NEW e \in Peers, NEW l, NoSlot(e, l), Goto(e, l),
           UNCHANGED qp,
           pc[e] \notin RecvPolls(e) \union {"done", "crashed"},
           e = "client" => pc[e] \notin Sending,
           l \notin RecvPolls(e) \union SendWaits(e) \union {"done", "crashed"},
           \/ l \in Leaving
           \/ /\ pc[e] \notin Leaving
              /\ Messages(e, l, qp[e]) = Messages(e, pc[e], qp[e])
    PROVE  StopInv'
  <1>1. Accounted(qp[e]) /\ Finds(e, pc[e], qp[e])
    BY Facts DEF StopInv
  <1>2. Polling(e, pc[e]) = "nothing" /\ Polling(e, l) = "nothing"
    BY DEF Polling
  <1>3. Finds(e, l, qp[e])
    BY <1>1, <1>2 DEF Finds, Connected, ClientQueue
  <1>4. Counted(e, l, qp[e])
    BY DEF Counted, InUse
  <1> QED
    BY <1>1, <1>3, <1>4, StopOutside

\* The queue pair is gone.
LEMMA StopGone ==
    ASSUME IInv, StopInv, Regular, NEW e \in Peers, NEW l \in {"done", "crashed"},
           NoSlot(e, l), Goto(e, l), SetQp(e, Destroyed(qp[e]))
    PROVE  StopInv'
  <1> DEFINE q == Destroyed(qp[e])
  <1>1. Accounted(qp[e]) /\ Accounted(q)
    BY Facts, DestroyedAccounted
  <1>2. /\ q.state = "gone" /\ q.sq = << >> /\ q.rq = << >> /\ q.rcq = << >>
        /\ Len(q.sq) = 0
    BY EmptyLen DEF Destroyed
  <1> HIDE DEF q
  <1>3. Polling(e, l) = "nothing" /\ l \notin SendWaits(e)
    BY DEF Polling, RecvPolls, RecvWaits, SendWaits
  <1>4. Receiving(Polling(e, l), q)
    BY <1>2, <1>3, IdleExpects DEF RecvIdle, RecvWaits
  <1>5. Finds(e, l, q)
    BY <1>2, <1>3, <1>4 DEF Finds, Connected, ClientQueue
  <1>6. Counted(e, l, q)
    BY <1>2 DEF Counted, InUse
  <1> QED
    BY <1>1, <1>5, <1>6, StopOutside DEF q

\* A failure that goes on to the cleanup.
LEMMA StopFails ==
    ASSUME IInv, StopInv, Regular, NEW e \in Peers, NoSlot(e, "deallocate"),
           Goto(e, "deallocate"), NEW q, SetQp(e, q), Accounted(q),
           RecvIdle(q), q.state = qp[e].state, e = "client" => q.sq = << >>,
           pc[e] \notin {"done", "crashed"}
    PROVE  StopInv'
  <1> DEFINE l == "deallocate"
  <1>1. Connected(pc[e], qp[e])
    BY DEF StopInv, Finds
  <1>2. Polling(e, l) = "nothing" /\ l \notin SendWaits(e)
    BY DEF Polling, RecvPolls, RecvWaits, SendWaits
  <1>3. Receiving(Polling(e, l), q)
    BY <1>2, IdleExpects DEF RecvWaits
  <1>4. Finds(e, l, q)
    BY <1>1, <1>2, <1>3, EmptyLen DEF Finds, Connected, ClientQueue
  <1>5. Counted(e, l, q)
    BY DEF Counted, InUse, Leaving
  <1> QED
    BY <1>4, <1>5, StopOutside

\* A message that is posted is owed, and not executed yet.
LEMMA SendPosts ==
    ASSUME NEW q, Accounted(q), CanPost(q), NEW kind \in Kinds
    PROVE  LET r == PostSend(q, "send", kind, 0, TRUE)
           IN  /\ Accounted(r) /\ Owed(r) > 0 /\ r.state = q.state /\ RecvSame(q, r)
               /\ q.sq = << >> => /\ Len(r.sq) <= 1
                                  /\ q.state = "rts" => r.sent < Len(r.sq)
  <1> DEFINE r == PostSend(q, "send", kind, 0, TRUE)
             wr == [op |-> "send", kind |-> kind, n |-> 0, sig |-> TRUE,
                    idx |-> q.posted + 1]
  <1>1. /\ Accounted(r) /\ Owed(r) = Owed(q) + 1 /\ Posted(q, r, wr)
        /\ RecvSame(q, r)
    BY PostSendAccounted, OwedPosted, PostSendFields, SidesKept
  <1>2. Owed(q) \in Nat /\ q.sent \in Nat /\ q.sent <= Len(q.sq)
    BY OwedNat
  <1> HIDE DEF r, wr
  <1>3. r.state = q.state /\ r.sent = q.sent
    BY <1>1 DEF Posted
  <1>4. ASSUME q.sq = << >>
        PROVE  Len(r.sq) <= 1 /\ (q.state = "rts" => r.sent < Len(r.sq))
    <2>1. Len(q.sq) = 0 /\ q.sent = 0
      BY <1>2, <1>4, EmptyLen
    <2>2. \/ q.state = "err" /\ r.sq = q.sq
          \/ Len(r.sq) = Len(q.sq) + 1
      BY <1>1 DEF Posted
    <2>3. (q.state = "err" /\ Len(r.sq) = 0) \/ Len(r.sq) = 1
      <3>1. 0 + 1 = 1
        OBVIOUS
      <3> QED
        BY <2>1, <2>2, <3>1, Zenon
    <2>4. r.sent = 0
      BY <1>3, <2>1
    <2> DEFINE x == Len(r.sq)
               y == r.sent
               z == q.state
    <2>5. (z = "err" /\ x = 0) \/ x = 1
      BY <2>3
    <2>6. y = 0
      BY <2>4
    <2> HIDE DEF x, y, z
    <2>7. x <= 1 /\ (z = "rts" => y < x)
      BY <2>5, <2>6
    <2> QED
      BY <2>7 DEF x, y, z
  <1>5. Owed(r) > 0
    BY <1>1, <1>2
  <1> QED
    BY <1>1, <1>3, <1>4, <1>5 DEF r

\* A process sends the first message of the exchange or the terminating one.
LEMMA StopSends ==
    ASSUME IInv, StopInv, Regular, NEW e \in Peers, UNCHANGED sessionVars,
           NEW kind \in Kinds, NEW next, SendControl(e, kind, next),
           \/ pc[e] = "send_mr" /\ next = "send_mr_count"
           \/ e = "server" /\ pc[e] = "end_post" /\ next = "end_wait"
    PROVE  StopInv'
  <1> DEFINE q == PostSend(qp[e], "send", kind, 0, TRUE)
  <1>1. /\ Accounted(qp[e]) /\ Finds(e, pc[e], qp[e])
        /\ pc[e] \notin Sending \union Leaving \union RecvPolls(e)
        /\ next \in SendWaits(e) /\ next \notin RecvPolls(e) \union Leaving
        /\ NoSlot(e, next) /\ NoSlot(e, "deallocate")
    BY Facts DEF StopInv, NoSlot, Sending, Leaving, RecvPolls, RecvWaits, SendWaits
  <1>2. CASE Goto(e, "deallocate") /\ UNCHANGED qp
    <2>1. /\ "deallocate" \notin RecvPolls(e) \union SendWaits(e) \union {"done", "crashed"}
          /\ "deallocate" \in Leaving
      BY DEF Leaving, RecvPolls, RecvWaits, SendWaits
    <2>2. pc[e] \notin RecvPolls(e) \union {"done", "crashed"}
      BY <1>1 DEF Leaving
    <2> QED
      BY <1>1, <1>2, <2>1, <2>2, StopStays
  <1>3. CASE CanPost(qp[e]) /\ SetQp(e, q) /\ Goto(e, next)
    <2>1. /\ Accounted(q) /\ Owed(q) > 0 /\ q.state = qp[e].state
          /\ RecvSame(qp[e], q)
          /\ qp[e].sq = << >> => /\ Len(q.sq) <= 1
                                 /\ q.state = "rts" => q.sent < Len(q.sq)
      BY <1>1, <1>3, SendPosts
    <2> HIDE DEF q
    <2>2. Polling(e, next) = Polling(e, pc[e])
      BY <1>1 DEF Polling
    <2>3. Receiving(Polling(e, next), q)
      BY <1>1, <2>1, <2>2, ReceivingSame DEF Finds
    <2>4. Connected(next, q)
      BY <1>1, <2>1 DEF Finds, Connected, Leaving
    <2>5. e = "client" => /\ next = "send_mr_count" /\ pc[e] = "send_mr"
                          /\ qp[e].sq = << >>
      BY <1>1 DEF Finds, ClientQueue
    <2>6. e = "client" => ClientQueue(next, q)
      BY <2>1, <2>5 DEF ClientQueue, Sending
    <2>7. Counted(e, next, q)
      <3>1. InUse(next, q) => InUse(pc[e], qp[e])
        BY <1>1, <2>1 DEF InUse
      <3>2. InUse(next, q) => Messages(e, next, q) = Messages(e, pc[e], qp[e])
        <4>1. CASE e = "client"
          BY <2>1, <2>5, <4>1 DEF InUse, Messages
        <4>2. CASE e # "client"
          BY <4>2 DEF Messages
        <4> QED
          BY <4>1, <4>2
      <3> QED
        BY <3>1, <3>2 DEF Counted
    <2>8. Finds(e, next, q)
      BY <2>1, <2>3, <2>4, <2>6 DEF Finds
    <2> QED
      BY <1>1, <1>3, <2>1, <2>7, <2>8, StopOutside DEF q
  <1> QED
    BY <1>2, <1>3 DEF SendControl, PostControl

\* A process posts the receive for the first message of the exchange or the
\* terminating one.
LEMMA StopRecvs ==
    ASSUME IInv, StopInv, Regular, NEW e \in Peers, UNCHANGED sessionVars,
           NEW kind \in Kinds, NEW next, RecvControl(e, kind, next),
           \/ pc[e] = "get_mr" /\ next = "get_mr_count"
           \/ e = "client" /\ pc[e] = "end_post" /\ next = "end_wait"
    PROVE  StopInv'
  <1> DEFINE q == PostRecv(qp[e], kind, 0)
  <1>1. /\ Accounted(qp[e]) /\ Finds(e, pc[e], qp[e])
        /\ pc[e] \notin Sending \union Leaving \union RecvPolls(e)
        /\ next \in RecvPolls(e) /\ next \notin SendWaits(e) \union Leaving \union Sending
        /\ NoSlot(e, next) /\ NoSlot(e, "deallocate")
    BY Facts DEF StopInv, NoSlot, Sending, Leaving, RecvPolls, RecvWaits, SendWaits, Peers
  <1>2. CASE Goto(e, "deallocate") /\ UNCHANGED qp
    <2>1. /\ "deallocate" \notin RecvPolls(e) \union SendWaits(e) \union {"done", "crashed"}
          /\ "deallocate" \in Leaving
      BY DEF Leaving, RecvPolls, RecvWaits, SendWaits
    <2>2. pc[e] \notin RecvPolls(e) \union {"done", "crashed"}
      BY <1>1 DEF Leaving
    <2> QED
      BY <1>1, <1>2, <2>1, <2>2, StopStays
  <1>3. CASE SetQp(e, q) /\ Goto(e, next)
    <2>1. Polling(e, pc[e]) \notin RecvWaits /\ Polling(e, next) = next /\ next \in RecvWaits
      BY <1>1, PollingWaits
    <2>2. RecvIdle(qp[e])
      BY <1>1, <2>1 DEF Finds, Receiving
    <2>3. Receiving(next, q) /\ ~OkRecv(q)
      BY <1>1, <2>1, <2>2, PostsReceive
    <2>4. SendSame(qp[e], q) /\ Accounted(q)
      BY <1>1, SidesKept, PostRecvAccounted
    <2> HIDE DEF q
    <2>5. Finds(e, next, q)
      BY <1>1, <2>1, <2>3, <2>4 DEF Finds, Connected, ClientQueue, SendSame, Leaving
    <2>6. Counted(e, next, q)
      BY <1>1, <2>3, <2>4 DEF Counted, InUse, Messages, SendSame
    <2> QED
      BY <1>1, <1>3, <2>4, <2>5, <2>6, StopOutside DEF q
  <1> QED
    BY <1>2, <1>3 DEF RecvControl, PostControl

\* What a receive that is polled leaves.
LEMMA StopReceived ==
    ASSUME IInv, StopInv, Regular, NEW e \in Peers, pc[e] \in RecvPolls(e),
           NEW c \in RecvComp(e)
    PROVE  /\ RecvIdle(c.q) /\ Accounted(c.q) /\ SendSame(qp[e], c.q)
           /\ c = [rv |-> c.rv, q |-> c.q] /\ c.rv \in {1, -1}
           /\ c.rv >= 0 => OkRecv(qp[e])
           /\ e = "client" => c.q.sq = << >>
  <1>1. Accounted(qp[e]) /\ Finds(e, pc[e], qp[e])
    BY Facts DEF StopInv
  <1>2. /\ qp[e].rcq # << >> /\ c.q = PollRecv(qp[e]) /\ c.rv \in {1, -1}
        /\ (c.rv < 0 <=> ~Head(qp[e].rcq).ok) /\ c = [rv |-> c.rv, q |-> c.q]
    BY CompsPolled DEF Regular
  <1>3. pc[e] \in RecvWaits /\ Receiving(pc[e], qp[e])
    BY <1>1, PollingWaits DEF Finds
  <1>4. RecvIdle(c.q) /\ (Head(qp[e].rcq).ok => OkRecv(qp[e]))
    BY <1>1, <1>2, <1>3, PollsReceive
  <1>5. Accounted(c.q) /\ SendSame(qp[e], c.q)
    BY <1>1, <1>2, PollRecvAccounted, SidesKept
  <1>6. e = "client" => c.q.sq = << >>
    <2>1. pc[e] \notin Sending
      BY <1>3 DEF Sending, RecvWaits
    <2> QED
      BY <1>1, <1>5, <2>1 DEF Finds, ClientQueue, SendSame
  <1>7. c.rv >= 0 => Head(qp[e].rcq).ok
    BY <1>2
  <1> QED
    BY <1>2, <1>4, <1>5, <1>6, <1>7

\* What a send that is polled leaves.
LEMMA StopSent ==
    ASSUME IInv, StopInv, Regular, NEW e \in Peers, pc[e] \in SendWaits(e),
           NEW c \in SendComp(e)
    PROVE  /\ RecvIdle(c.q) /\ Accounted(c.q) /\ c.q.state = qp[e].state
           /\ c = [rv |-> c.rv, q |-> c.q] /\ c.rv \in {1, -1}
           /\ pc[e] \in Sending => CanPost(c.q) /\ qp[e].sq = << >> /\ c.q.sq = << >>
           /\ pc[e] \notin RecvPolls(e) \union Leaving
           /\ e = "client" => pc[e] \in Sending
  <1>1. Accounted(qp[e]) /\ Finds(e, pc[e], qp[e])
    BY Facts DEF StopInv
  <1>2. /\ qp[e].scq # << >> /\ c.q = PollSend(qp[e]) /\ c.rv \in {1, -1}
        /\ c = [rv |-> c.rv, q |-> c.q]
    BY CompsPolled DEF Regular
  <1>3. /\ pc[e] \notin RecvPolls(e) \union Leaving
        /\ e = "client" => pc[e] \in Sending
    BY DEF SendWaits, RecvPolls, RecvWaits, Leaving, Sending
  <1>4. RecvIdle(qp[e])
    BY <1>1, <1>3, PollingWaits DEF Finds, Receiving
  <1>5. Accounted(c.q) /\ RecvIdle(c.q) /\ Unretired(c.q) < Unretired(qp[e])
    BY <1>1, <1>2, <1>4, PollSendAccounted, SidesKept, RecvPhasesSame, PollSendUnretired
  <1>6. c.q.state = qp[e].state /\ c.q.sq = qp[e].sq
    <2>1. qp[e] \in QueuePairs
      BY <1>1, QpFields
    <2> QED
      BY <1>2, <2>1 DEF PollSend, QueuePairs
  <1>7. pc[e] \in Sending => CanPost(c.q) /\ c.q.sq = << >>
    <2> SUFFICES ASSUME pc[e] \in Sending PROVE CanPost(c.q) /\ c.q.sq = << >>
      OBVIOUS
    <2>1. Unretired(qp[e]) <= 1
      BY Facts DEF Phases, ExchangeInv
    <2>2. Unretired(c.q) = 0
      BY <1>1, <1>5, <2>1, CompletionsUnretired
    <2>3. CanPost(c.q)
      BY <2>2, MaxWrAssumption DEF CanPost, Unretired
    <2> QED
      BY <1>5, <2>2, <2>3, NothingQueued
  <1> QED
    BY <1>2, <1>3, <1>5, <1>6, <1>7

\* A wait for a message goes on without posting anything.
LEMMA StopGoesOn ==
    ASSUME IInv, StopInv, Regular, NEW e \in Peers, NEW l, NoSlot(e, l), Goto(e, l),
           NEW q, SetQp(e, q), Accounted(q), RecvIdle(q), q.state = qp[e].state,
           e = "client" => q.sq = << >>,
           pc[e] \notin Leaving,
           l \notin RecvPolls(e) \union SendWaits(e) \union Leaving,
           Messages(e, l, q) = Messages(e, pc[e], qp[e])
    PROVE  StopInv'
  <1>1. Connected(pc[e], qp[e])
    BY DEF StopInv, Finds
  <1>2. Receiving(Polling(e, l), q)
    BY PollingWaits, IdleExpects
  <1>3. Finds(e, l, q)
    BY <1>1, <1>2, EmptyLen DEF Finds, Connected, ClientQueue, Leaving
  <1>4. Counted(e, l, q)
    BY DEF Counted, InUse
  <1> QED
    BY <1>3, <1>4, StopOutside

\* Posting to the queue pair that a wrapper left.
LEMMA QueueReplaced ==
    ASSUME NEW c, c = [rv |-> c.rv, q |-> c.q], NEW q
    PROVE  [c EXCEPT !.q = q] = [rv |-> c.rv, q |-> q]
  OBVIOUS

\* The exchange, step by step.
LEMMA GetMrCountStop ==
    ASSUME IInv, StopInv, Regular, NEW e \in Peers, GetMrCount(e)
    PROVE  StopInv'
  <1>1. /\ pc[e] = "get_mr_count" /\ UNCHANGED sessionVars /\ pc[e] \in RecvPolls(e)
        /\ pc[e] \notin Leaving
    BY DEF GetMrCount, RecvPolls, RecvWaits, Leaving
  <1>2. PICK c \in RecvComp(e) :
           \/ c.rv < 0 /\ Waited(e, c, "deallocate")
           \/ /\ c.rv > 0
              /\ Waited(e, [rv |-> IF CanRecv(c.q) THEN 1 ELSE -1,
                            q |-> PostRecv(c.q, "array", 0)], "get_mr_array")
    BY CountReceived
  <1>3. /\ RecvIdle(c.q) /\ Accounted(c.q) /\ SendSame(qp[e], c.q)
        /\ c = [rv |-> c.rv, q |-> c.q] /\ c.rv \in {1, -1}
        /\ c.rv >= 0 => OkRecv(qp[e])
        /\ e = "client" => c.q.sq = << >>
    BY <1>1, StopReceived
  <1>4. CASE c.rv < 0
    <2>1. SetQp(e, c.q) /\ Goto(e, "deallocate")
      BY <1>2, <1>3, <1>4 DEF Waited
    <2>2. NoSlot(e, "deallocate")
      BY <1>1 DEF NoSlot
    <2> QED
      BY <1>1, <1>3, <2>1, <2>2, StopFails DEF SendSame, Leaving
  <1>5. CASE ~(c.rv < 0)
    <2> DEFINE q == PostRecv(c.q, "array", 0)
               l == "get_mr_array"
    <2>1. SetQp(e, q) /\ Goto(e, l)
      <3>1. Waited(e, [rv |-> 1, q |-> q], l)
        BY <1>2, <1>3, <1>5, IdleReceives
      <3> HIDE DEF q
      <3> QED
        BY <3>1 DEF Waited
    <2>2. /\ Receiving(l, q) /\ ~OkRecv(q) /\ Accounted(q)
          /\ SendSame(c.q, q)
      BY <1>3, PostsReceive, PostRecvAccounted, SidesKept DEF Kinds, RecvWaits
    <2> HIDE DEF q
    <2>3. q.state = qp[e].state /\ q.sq = c.q.sq
      BY <1>3, <2>2 DEF SendSame
    <2>4. Connected(pc[e], qp[e]) /\ Polling(e, l) = l /\ l \notin SendWaits(e) \union Leaving
      BY DEF StopInv, Finds, Polling, RecvPolls, RecvWaits, SendWaits, Leaving
    <2>5. Finds(e, l, q)
      BY <1>1, <1>3, <2>2, <2>3, <2>4, EmptyLen DEF Finds, Connected, ClientQueue
    <2>6. OkRecv(qp[e])
      BY <1>3, <1>5
    <2>7. Messages(e, l, q) = Messages(e, pc[e], qp[e])
      BY <1>1, <2>2, <2>6 DEF Messages
    <2>8. Counted(e, l, q) /\ NoSlot(e, l)
      BY <1>1, <2>3, <2>7 DEF Counted, InUse, NoSlot
    <2> QED
      BY <2>1, <2>2, <2>5, <2>8, StopOutside
  <1> QED
    BY <1>4, <1>5

\* The count has been sent; the array follows.
LEMMA SendMrCountStop ==
    ASSUME IInv, StopInv, Regular, NEW e \in Peers, SendMrCount(e)
    PROVE  StopInv'
  <1>1. /\ pc[e] = "send_mr_count" /\ UNCHANGED sessionVars /\ pc[e] \in SendWaits(e)
        /\ pc[e] \in Sending /\ pc[e] \notin Leaving
    BY DEF SendMrCount, SendWaits, Sending, Leaving
  <1>2. PICK c \in SendComp(e) :
           Waited(e, IF c.rv < 0 THEN c
                     ELSE [c EXCEPT !.q = PostSend(@, "send", "array", 0, TRUE)],
                  "send_mr_array")
    BY DEF SendMrCount
  <1>3. /\ RecvIdle(c.q) /\ Accounted(c.q) /\ c.q.state = qp[e].state
        /\ c = [rv |-> c.rv, q |-> c.q] /\ c.rv \in {1, -1}
        /\ CanPost(c.q) /\ qp[e].sq = << >> /\ c.q.sq = << >>
    BY <1>1, StopSent
  <1>4. CASE c.rv < 0
    <2>1. SetQp(e, c.q) /\ Goto(e, "deallocate")
      BY <1>2, <1>4 DEF Waited
    <2>2. NoSlot(e, "deallocate")
      BY <1>1 DEF NoSlot
    <2> QED
      BY <1>1, <1>3, <2>1, <2>2, StopFails DEF Leaving
  <1>5. CASE ~(c.rv < 0)
    <2> DEFINE q == PostSend(c.q, "send", "array", 0, TRUE)
               l == "send_mr_array"
    <2>1. SetQp(e, q) /\ Goto(e, l)
      <3> HIDE DEF q
      <3>1. [c EXCEPT !.q = q] = [rv |-> c.rv, q |-> q]
        BY <1>3, QueueReplaced
      <3>2. Waited(e, [rv |-> c.rv, q |-> q], l)
        BY <1>2, <1>5, <3>1 DEF q
      <3> QED
        BY <1>5, <3>2 DEF Waited
    <2>2. /\ Accounted(q) /\ Owed(q) > 0 /\ q.state = c.q.state /\ RecvSame(c.q, q)
          /\ Len(q.sq) <= 1 /\ (q.state = "rts" => q.sent < Len(q.sq))
      BY <1>3, SendPosts DEF Kinds
    <2> HIDE DEF q
    <2>3. Connected(pc[e], qp[e]) /\ l \notin RecvPolls(e) \union Leaving /\ l \in Sending
      BY DEF StopInv, Finds, RecvPolls, RecvWaits, Leaving, Sending
    <2>4. RecvIdle(q)
      BY <1>3, <2>2, RecvPhasesSame
    <2>5. Receiving(Polling(e, l), q)
      BY <2>3, <2>4, PollingWaits, IdleExpects
    <2>6. Finds(e, l, q)
      BY <1>1, <1>3, <2>2, <2>3, <2>5 DEF Finds, Connected, ClientQueue, Leaving
    <2>7. q.state = "rts" => Messages(e, l, q) = Messages(e, pc[e], qp[e])
      <3>1. Accounted(qp[e])
        BY Facts
      <3>2. ~(qp[e].sent < Len(qp[e].sq))
        BY <1>3, <3>1, EmptyLen, OwedNat
      <3> QED
        BY <1>1, <2>2, <3>2 DEF Messages
    <2>8. Counted(e, l, q) /\ NoSlot(e, l)
      BY <1>1, <1>3, <2>2, <2>7 DEF Counted, InUse, NoSlot
    <2> QED
      BY <2>1, <2>2, <2>6, <2>8, StopOutside
  <1> QED
    BY <1>4, <1>5

\* The last wait of either half of the exchange.
LEMMA ArrayStop ==
    ASSUME IInv, StopInv, Regular, NEW e \in Peers, GetMrArray(e) \/ SendMrArray(e)
    PROVE  StopInv'
  <1>1. CASE GetMrArray(e)
    <2>1. /\ pc[e] = "get_mr_array" /\ UNCHANGED sessionVars /\ pc[e] \in RecvPolls(e)
          /\ pc[e] \notin Leaving
      BY <1>1 DEF GetMrArray, RecvPolls, RecvWaits, Leaving
    <2>2. PICK c \in RecvComp(e) : Waited(e, c, AfterGet(e))
      BY <1>1 DEF GetMrArray
    <2>3. /\ RecvIdle(c.q) /\ Accounted(c.q) /\ SendSame(qp[e], c.q)
          /\ c.rv \in {1, -1} /\ (c.rv >= 0 => OkRecv(qp[e]))
          /\ e = "client" => c.q.sq = << >>
      BY <2>1, StopReceived
    <2>4. CASE c.rv < 0
      <3>1. SetQp(e, c.q) /\ Goto(e, "deallocate") /\ NoSlot(e, "deallocate")
        BY <2>1, <2>2, <2>4 DEF Waited, NoSlot
      <3> QED
        BY <2>1, <2>3, <3>1, StopFails DEF SendSame, Leaving
    <2>5. CASE ~(c.rv < 0)
      <3> DEFINE l == AfterGet(e)
      <3>1. SetQp(e, c.q) /\ Goto(e, l) /\ OkRecv(qp[e])
        BY <2>2, <2>3, <2>5 DEF Waited
      <3>2. /\ NoSlot(e, l) /\ l \notin RecvPolls(e) \union SendWaits(e) \union Leaving
            /\ Messages(e, l, c.q) = Messages(e, pc[e], qp[e])
        BY <2>1, <3>1 DEF AfterGet, NoSlot, RecvPolls, RecvWaits, SendWaits, Leaving,
                          Messages, Peers
      <3> HIDE DEF l
      <3> QED
        BY <2>1, <2>3, <3>1, <3>2, StopGoesOn DEF SendSame
    <2> QED
      BY <2>4, <2>5
  <1>2. CASE SendMrArray(e)
    <2>1. /\ pc[e] = "send_mr_array" /\ UNCHANGED sessionVars /\ pc[e] \in SendWaits(e)
          /\ pc[e] \in Sending /\ pc[e] \notin Leaving
      BY <1>2 DEF SendMrArray, SendWaits, Sending, Leaving
    <2>2. PICK c \in SendComp(e) : Waited(e, c, AfterSend(e))
      BY <1>2 DEF SendMrArray
    <2>3. /\ RecvIdle(c.q) /\ Accounted(c.q) /\ c.q.state = qp[e].state
          /\ c.rv \in {1, -1} /\ qp[e].sq = << >> /\ c.q.sq = << >>
      BY <2>1, StopSent
    <2>4. CASE c.rv < 0
      <3>1. SetQp(e, c.q) /\ Goto(e, "deallocate") /\ NoSlot(e, "deallocate")
        BY <2>1, <2>2, <2>4 DEF Waited, NoSlot
      <3> QED
        BY <2>1, <2>3, <3>1, StopFails DEF Leaving
    <2>5. CASE ~(c.rv < 0)
      <3> DEFINE l == AfterSend(e)
      <3>1. SetQp(e, c.q) /\ Goto(e, l)
        BY <2>2, <2>5 DEF Waited
      <3>2. Accounted(qp[e])
        BY Facts
      <3>3. ~(qp[e].sent < Len(qp[e].sq))
        BY <2>3, <3>2, EmptyLen, OwedNat
      <3>4. /\ NoSlot(e, l) /\ l \notin RecvPolls(e) \union SendWaits(e) \union Leaving
            /\ Messages(e, l, c.q) = Messages(e, pc[e], qp[e])
        BY <2>1, <3>3 DEF AfterSend, NoSlot, RecvPolls, RecvWaits, SendWaits, Leaving,
                          Messages, Peers
      <3> HIDE DEF l
      <3> QED
        BY <2>1, <2>3, <3>1, <3>4, StopGoesOn
    <2> QED
      BY <2>4, <2>5
  <1> QED
    BY <1>1, <1>2

\* The terminating message.
LEMMA EndStop ==
    ASSUME IInv, StopInv, Regular, NEW e \in Peers, EndPost(e) \/ EndWait(e)
    PROVE  StopInv'
  <1>1. CASE EndPost(e)
    <2>1. /\ pc[e] = "end_post" /\ UNCHANGED sessionVars /\ "end" \in Kinds
          /\ \/ e = "server" /\ SendControl(e, "end", "end_wait")
             \/ e = "client" /\ RecvControl(e, "end", "end_wait")
      BY <1>1 DEF EndPost, Kinds
    <2> QED
      BY <2>1, StopSends, StopRecvs
  <1>2. CASE EndWait(e)
    <2>1. /\ pc[e] = "end_wait" /\ UNCHANGED sessionVars /\ pc[e] \notin Leaving
          /\ e = "client" \/ e = "server"
      BY <1>2 DEF EndWait, Leaving, Peers
    <2>2. PICK c \in (IF e = "server" THEN SendComp(e) ELSE RecvComp(e)) :
             Waited(e, c, "stats")
      BY <1>2 DEF EndWait
    <2>3. /\ RecvIdle(c.q) /\ Accounted(c.q) /\ c.q.state = qp[e].state
          /\ c.rv \in {1, -1} /\ (e = "client" => c.q.sq = << >>)
      <3>1. CASE e = "server"
        <4>1. pc[e] \in SendWaits(e) /\ c \in SendComp(e)
          BY <2>1, <2>2, <3>1 DEF SendWaits
        <4> QED
          BY <3>1, <4>1, StopSent
      <3>2. CASE e = "client"
        <4>1. pc[e] \in RecvPolls(e) /\ c \in RecvComp(e)
          BY <2>1, <2>2, <3>2 DEF RecvPolls, RecvWaits
        <4> QED
          BY <3>2, <4>1, StopReceived DEF SendSame
      <3> QED
        BY <2>1, <3>1, <3>2
    <2>4. CASE c.rv < 0
      <3>1. SetQp(e, c.q) /\ Goto(e, "deallocate") /\ NoSlot(e, "deallocate")
        BY <2>1, <2>2, <2>4 DEF Waited, NoSlot
      <3> QED
        BY <2>1, <2>3, <3>1, StopFails DEF Leaving
    <2>5. CASE ~(c.rv < 0)
      <3>1. SetQp(e, c.q) /\ Goto(e, "stats")
        BY <2>2, <2>5 DEF Waited
      <3>2. /\ NoSlot(e, "stats")
            /\ "stats" \notin RecvPolls(e) \union SendWaits(e) \union Leaving
            /\ Messages(e, "stats", c.q) = Messages(e, pc[e], qp[e])
        BY <2>1 DEF NoSlot, RecvPolls, RecvWaits, SendWaits, Leaving, Messages
      <3> QED
        BY <2>1, <2>3, <3>1, <3>2, StopGoesOn
    <2> QED
      BY <2>4, <2>5
  <1> QED
    BY <1>1, <1>2

\* A packet is posted: it is owed, or the queue is too short for the slot.
LEMMA SlotWriteStop ==
    ASSUME IInv, StopInv, Regular, SlotWrite
    PROVE  StopInv'
  <1> DEFINE e == "server"
             q == PostSend(qp[e], "write", "data", i, Signal)
  <1>1. /\ pc[e] = "slot" /\ UNCHANGED <<params, slot, sum>> /\ SetQp(e, q)
        /\ \/ /\ i < params.count /\ CanPost(qp[e])
              /\ i' = i + 1 /\ UNCHANGED pc
           \/ /\ i = params.count \/ ~CanPost(qp[e])
              /\ i' = 1 /\ Goto(e, "slot_wait")
    BY DEF SlotWrite, NextPacket
  <1>2. /\ e \in Peers /\ Accounted(qp[e]) /\ Good(e, qp[e]) /\ TypeOK
        /\ pc \in [Peers -> Labels] /\ qp \in [Peers -> QueuePairs]
        /\ Finds(e, pc[e], qp[e]) /\ SlotOwed
    BY Facts DEF StopInv, QpInv
  <1>3. /\ i \in Nat /\ i > 0 /\ i <= params.count /\ params.count \in Nat
        /\ sum = 0 /\ Unretired(qp[e]) < i
    <2>1. i \in Packets /\ Packets = 1..params.count /\ params.count \in Nat
      BY <1>2, ParamFacts DEF TypeOK
    <2>2. sum = 0 /\ Unretired(qp[e]) < i
      BY <1>1, Facts DEF Phases, SlotInv
    <2> QED
      BY <2>1, <2>2
  <1>4. Accounted(q) /\ q.state = qp[e].state /\ RecvSame(qp[e], q)
    <2>1. Accounted(q)
      BY <1>2, WriteGood DEF Good
    <2>2. Posted(qp[e], q, [op |-> "write", kind |-> "data", n |-> i, sig |-> TRUE,
                            idx |-> qp[e].posted + 1])
      BY <1>2, <1>3, PostSendFields DEF Signal, Kinds
    <2>3. q.state = qp[e].state
      BY <2>2 DEF Posted
    <2> QED
      BY <1>2, <2>1, <2>3, SidesKept
  <1>5. Fits => CanPost(qp[e]) /\ Owed(q) >= i /\ Owed(q) \in Nat
    <2> SUFFICES ASSUME Fits PROVE CanPost(qp[e]) /\ Owed(q) >= i /\ Owed(q) \in Nat
      OBVIOUS
    <2>1. CanPost(qp[e])
      <3>1. MAX_WR \in Nat /\ params.count <= MAX_WR
        BY MaxWrAssumption DEF Fits
      <3>2. Unretired(qp[e]) \in Nat
        BY <1>2, CompletionsUnretired
      <3>3. Unretired(qp[e]) < MAX_WR
        BY <1>3, <3>1, <3>2
      <3> QED
        BY <3>3 DEF CanPost, Unretired
    <2>2. Owed(q) = Owed(qp[e]) + 1
      BY <1>2, <1>3, <2>1, OwedPosted DEF Signal, Kinds
    <2>3. Owed(qp[e]) >= i - 1 /\ Owed(qp[e]) \in Nat
      BY <1>1, <1>2, OwedNat DEF SlotOwed
    <2> HIDE DEF q
    <2> QED
      BY <1>3, <2>1, <2>2, <2>3
  <1> HIDE DEF q
  <1>6. qp'[e] = q /\ params' = params /\ Fits' = Fits /\ sum' = sum
    BY <1>1, <1>2 DEF SetQp, Fits
  <1>7. ASSUME NEW l \in Writing, Goto(e, l), SlotOwed'
        PROVE  StopInv'
    <2>1. /\ l \notin RecvPolls(e) \union SendWaits(e) \union Leaving
          /\ pc[e] \notin RecvPolls(e)
      BY <1>1 DEF Writing, RecvPolls, RecvWaits, SendWaits, Leaving
    <2>2. Polling(e, l) = Polling(e, pc[e])
      BY <2>1 DEF Polling
    <2>3. Receiving(Polling(e, l), q)
      BY <1>2, <1>4, <2>2, ReceivingSame DEF Finds
    <2>4. Finds(e, l, q)
      BY <1>1, <1>2, <1>4, <2>1, <2>3 DEF Finds, Connected, Leaving
    <2>5. Messages(e, l, q) = Messages(e, pc[e], qp[e])
      BY <1>1 DEF Messages, Writing
    <2>6. Counted(e, l, q)
      BY <1>1, <1>4, <2>5 DEF Counted, InUse, Leaving
    <2> QED
      BY <1>1, <1>2, <1>4, <1>6, <1>7, <2>4, <2>6, StopMoves
  <1>8. CASE i < params.count /\ i' = i + 1 /\ UNCHANGED pc
    <2>1. Goto(e, "slot")
      BY <1>1, <1>2, <1>8 DEF Goto
    <2>2. pc'[e] = "slot" /\ (i + 1) - 1 = i
      BY <1>1, <1>3, <1>8
    <2>3. SlotOwed'
      BY <1>5, <1>6, <1>8, <2>2 DEF SlotOwed
    <2> QED
      BY <1>7, <2>1, <2>3 DEF Writing
  <1>9. CASE (i = params.count \/ ~CanPost(qp[e])) /\ Goto(e, "slot_wait")
    <2>1. pc'[e] = "slot_wait"
      BY <1>2, <1>9 DEF Goto
    <2>2. Fits => sum' + Owed(q) >= params.count
      BY <1>3, <1>5, <1>6, <1>9
    <2>3. SlotOwed'
      BY <1>6, <2>1, <2>2 DEF SlotOwed
    <2> QED
      BY <1>7, <1>9, <2>3 DEF Writing
  <1> QED
    BY <1>1, <1>8, <1>9

\* Completions are polled: those the slot still lacks are still owed.
LEMMA SlotWaitStop ==
    ASSUME IInv, StopInv, Regular, SlotWait
    PROVE  StopInv'
  <1> DEFINE e == "server"
             k == Polled(qp[e])
             q == PollBatch(qp[e], k)
             ok == \A j \in 1..k : qp[e].scq[j].ok
  <1>1. /\ pc[e] = "slot_wait" /\ qp[e].scq # << >> /\ params' = params /\ i' = i
    BY DEF SlotWait, InitialSum, Regular, Polls
  <1>2. /\ e \in Peers /\ Accounted(qp[e]) /\ Good(e, qp[e]) /\ TypeOK
        /\ pc \in [Peers -> Labels] /\ qp \in [Peers -> QueuePairs]
        /\ Finds(e, pc[e], qp[e]) /\ SlotOwed
    BY Facts DEF StopInv, QpInv
  <1>3. k \in 1..Len(qp[e].scq) /\ k \in Nat /\ Accounted(q)
    BY <1>1, <1>2, PolledGood DEF Good
  <1>4. /\ i = 1 /\ sum \in Nat /\ params.count \in Nat
    <2>1. i = 1 /\ sum \in 0..(params.count - 1)
      BY <1>1, Facts DEF Phases, SlotInv, TypeOK
    <2>2. params.count \in Nat
      BY <1>2, ParamFacts
    <2> QED
      BY <2>1, <2>2
  <1>5. \/ SlotFails(q)
        \/ /\ SetQp(e, q) /\ sum' = sum + k /\ UNCHANGED pc
        \/ SetQp(e, q) /\ (Goto(e, "slot") \/ Goto(e, "end_post"))
    BY DEF SlotWait, InitialSum, Regular, Polls
  <1>6. q.state = qp[e].state /\ RecvSame(qp[e], q)
    <2>1. qp[e] \in QueuePairs
      BY <1>2
    <2> HIDE DEF k
    <2> QED
      BY <2>1 DEF PollBatch, QueuePairs, RecvSame
  <1>7. Owed(q) = Owed(qp[e]) - k /\ Owed(qp[e]) \in Nat
    BY <1>2, <1>3, OwedPolled, OwedNat
  <1> HIDE DEF q, k
  <1>8. SetQp(e, q) => qp'[e] = q
    BY <1>2 DEF SetQp
  <1>9. ASSUME NEW l \in Writing \union {"end_post"}, Goto(e, l), SetQp(e, q),
               l # "slot_wait" \/ SlotOwed'
        PROVE  StopInv'
    <2>1. /\ l \notin RecvPolls(e) \union SendWaits(e) \union Leaving
          /\ pc[e] \notin RecvPolls(e)
      BY <1>1 DEF Writing, RecvPolls, RecvWaits, SendWaits, Leaving
    <2>2. Polling(e, l) = Polling(e, pc[e])
      BY <2>1 DEF Polling
    <2>3. Receiving(Polling(e, l), q)
      BY <1>2, <1>6, <2>2, ReceivingSame DEF Finds
    <2>4. Finds(e, l, q)
      BY <1>1, <1>2, <1>6, <2>1, <2>3 DEF Finds, Connected, Leaving
    <2>5. Messages(e, l, q) = Messages(e, pc[e], qp[e])
      BY <1>1 DEF Messages, Writing
    <2>6. Counted(e, l, q)
      BY <1>1, <1>6, <2>5 DEF Counted, InUse, Leaving
    <2> QED
      BY <1>1, <1>2, <1>3, <1>4, <1>9, <2>4, <2>6, StopMoves
  <1>10. CASE SlotFails(q)
    BY <1>9, <1>10 DEF SlotFails, InitialSum
  <1>11. CASE SetQp(e, q) /\ sum' = sum + k /\ UNCHANGED pc
    <2>1. Goto(e, "slot_wait") /\ pc'[e] = "slot_wait"
      BY <1>1, <1>2, <1>11 DEF Goto
    <2>2. Fits => sum + Owed(qp[e]) >= params.count
      BY <1>1, <1>2 DEF SlotOwed
    <2>3. Fits => sum' + Owed(q) >= params.count
      BY <1>3, <1>4, <1>7, <1>11, <2>2
    <2>4. Fits' = Fits /\ qp'[e] = q
      BY <1>1, <1>8, <1>11 DEF Fits
    <2>5. SlotOwed'
      BY <1>1, <2>1, <2>3, <2>4 DEF SlotOwed
    <2> QED
      BY <1>9, <1>11, <2>1, <2>5 DEF Writing
  <1>12. CASE SetQp(e, q) /\ (Goto(e, "slot") \/ Goto(e, "end_post"))
    BY <1>9, <1>12 DEF Writing
  <1> HIDE DEF e
  <1> QED
    BY <1>5, <1>10, <1>11, <1>12

\* What is left of a process: the steps both have.
LEMMA ProcessStop ==
    ASSUME IInv, StopInv, Regular, NEW e \in Peers, Process(e)
    PROVE  StopInv'
  <1>1. \A l : NoSlot(e, l) <=> /\ UNCHANGED sessionVars /\ l # "slot_wait"
                                /\ e = "server" /\ l = "slot" => i = 1
    BY DEF NoSlot
  <1>2. CASE Allocate(e)
    <2>1. /\ pc[e] = "allocate" /\ UNCHANGED sessionVars /\ UNCHANGED qp
          /\ Goto(e, AfterAllocate(e))
      BY <1>2 DEF Allocate
    <2>2. PICK l \in {"get_mr", "send_mr"} :
             l = AfterAllocate(e) /\ (e = "client" <=> l = "send_mr")
      BY DEF AfterAllocate, Peers
    <2>3. /\ pc[e] \notin RecvPolls(e) \union {"done", "crashed"} \union Sending
          /\ pc[e] \notin Leaving /\ NoSlot(e, l) /\ Goto(e, l)
          /\ l \notin RecvPolls(e) \union SendWaits(e) \union {"done", "crashed"}
      BY <1>1, <2>1, <2>2 DEF RecvPolls, RecvWaits, SendWaits, Sending, Leaving
    <2>4. Messages(e, l, qp[e]) = Messages(e, pc[e], qp[e])
      BY <2>1, <2>2 DEF Messages
    <2> QED
      BY <2>1, <2>3, <2>4, StopStays
  <1>3. CASE GetMrInfo(e)
    <2>1. /\ pc[e] = "get_mr" /\ UNCHANGED sessionVars /\ "count" \in Kinds
          /\ RecvControl(e, "count", "get_mr_count")
      BY <1>3 DEF GetMrInfo, Kinds
    <2> QED
      BY <2>1, StopRecvs
  <1>4. CASE SendMrInfo(e)
    <2>1. pc[e] = "send_mr" /\ UNCHANGED sessionVars /\ "count" \in Kinds
      BY <1>4 DEF SendMrInfo, Kinds
    <2>2. CASE Crash(e)
      BY <1>1, <2>1, <2>2, StopGone DEF Crash
    <2>3. CASE SendControl(e, "count", "send_mr_count")
      BY <2>1, <2>3, StopSends
    <2> QED
      BY <1>4, <2>2, <2>3 DEF SendMrInfo
  <1>5. CASE DivideByZero(e)
    <2>1. UNCHANGED sessionVars /\ Crash(e)
      BY <1>5 DEF DivideByZero
    <2> QED
      BY <1>1, <2>1, StopGone DEF Crash
  <1>6. ASSUME NEW l \in Leaving \ {"done", "crashed"}, UNCHANGED sessionVars,
               UNCHANGED qp, Goto(e, l), pc[e] \in {"stats", "deallocate"}
        PROVE  StopInv'
    <2>1. /\ pc[e] \notin RecvPolls(e) \union {"done", "crashed"} \union Sending
          /\ NoSlot(e, l)
          /\ l \notin RecvPolls(e) \union SendWaits(e) \union {"done", "crashed"}
      BY <1>1, <1>6 DEF RecvPolls, RecvWaits, SendWaits, Sending, Leaving
    <2> QED
      BY <1>6, <2>1, StopStays
  <1>7. CASE PrintStats(e)
    <2>1. /\ pc[e] = "stats" /\ UNCHANGED sessionVars /\ UNCHANGED qp
          /\ Goto(e, "deallocate")
      BY <1>7 DEF PrintStats
    <2> QED
      BY <1>6, <2>1 DEF Leaving
  <1>8. CASE DeallocateBuffers(e)
    <2>1. pc[e] = "deallocate" /\ UNCHANGED sessionVars
      BY <1>8 DEF DeallocateBuffers
    <2>2. CASE Crash(e)
      BY <1>1, <2>1, <2>2, StopGone DEF Crash
    <2>3. CASE Goto(e, "disconnect") /\ UNCHANGED qp
      BY <1>6, <2>1, <2>3 DEF Leaving
    <2> QED
      BY <1>8, <2>2, <2>3 DEF DeallocateBuffers
  <1>9. CASE Disconnect(e)
    <2>1. /\ UNCHANGED sessionVars /\ SetQp(e, Destroyed(qp[e])) /\ Goto(e, "done")
      BY <1>9 DEF Disconnect
    <2> QED
      BY <1>1, <2>1, StopGone
  <1> QED
    BY <1>2, <1>3, <1>4, <1>5, <1>7, <1>8, <1>9, GetMrCountStop, SendMrCountStop,
       ArrayStop, EndStop
    DEF Process, Exchange, Teardown

\* The steps of one of them: the client lets the slots pass, the server has
\* its time stamps or leaves.
LEMMA OwnStop ==
    ASSUME IInv, StopInv, Regular, ClientSlots \/ Calloc
    PROVE  StopInv'
  <1>1. CASE ClientSlots
    <2> DEFINE e == "client"
    <2>1. /\ pc[e] = "slot" /\ UNCHANGED sessionVars /\ UNCHANGED qp
          /\ Goto(e, "end_post") /\ e \in Peers
      BY <1>1, PollingWaits DEF ClientSlots, Peers
    <2>2. /\ pc[e] \notin RecvPolls(e) \union {"done", "crashed"} \union Sending
          /\ pc[e] \notin Leaving /\ NoSlot(e, "end_post")
          /\ "end_post" \notin RecvPolls(e) \union SendWaits(e) \union {"done", "crashed"}
      BY <2>1 DEF RecvPolls, RecvWaits, SendWaits, Sending, Leaving, NoSlot
    <2>3. Messages(e, "end_post", qp[e]) = Messages(e, pc[e], qp[e])
      BY <2>1 DEF Messages
    <2> HIDE DEF e
    <2> QED
      BY <2>1, <2>2, <2>3, StopStays
  <1>2. CASE Calloc
    <2> DEFINE e == "server"
    <2>1. /\ pc[e] = "calloc" /\ UNCHANGED sessionVars /\ UNCHANGED qp
          /\ Goto(e, "slot") \/ Goto(e, "deallocate")
          /\ e \in Peers /\ e # "client"
      BY <1>2 DEF Calloc, Peers
    <2>2. i = 1
      BY <2>1, Facts DEF Phases, SlotInv, Before
    <2>3. /\ pc[e] \notin RecvPolls(e) \union {"done", "crashed"} \union Leaving
          /\ \A l \in {"slot", "deallocate"} :
                /\ NoSlot(e, l)
                /\ l \notin RecvPolls(e) \union SendWaits(e) \union {"done", "crashed"}
      BY <2>1, <2>2 DEF RecvPolls, RecvWaits, SendWaits, Leaving, NoSlot
    <2>4. Messages(e, "slot", qp[e]) = Messages(e, pc[e], qp[e])
      BY <2>1 DEF Messages
    <2>5. "deallocate" \in Leaving
      BY DEF Leaving
    <2> HIDE DEF e
    <2> QED
      BY <2>1, <2>3, <2>4, <2>5, StopStays
  <1> QED
    BY <1>1, <1>2

-----------------------------------------------------------------------------
(* The invariant, and what it is for.                                       *)

\* Nothing is polled for, posted or received.
LEMMA InitStop == Init => StopInv
  <1> SUFFICES ASSUME Init PROVE StopInv
    OBVIOUS
  <1> DEFINE q == NewQp("rts")
  <1>1. \A e \in Peers : pc[e] = "allocate" /\ qp[e] = q
    BY DEF Init
  <1>2. /\ q.state = "rts" /\ q.sq = << >> /\ RecvIdle(q)
    BY DEF NewQp, RecvIdle
  <1> HIDE DEF q
  <1>3. ASSUME NEW e \in Peers PROVE Finds(e, "allocate", q)
    <2>1. Polling(e, "allocate") = "nothing" /\ "allocate" \notin SendWaits(e)
      BY DEF Polling, RecvPolls, RecvWaits, SendWaits
    <2>2. Receiving("nothing", q)
      BY <1>2, IdleExpects DEF RecvWaits
    <2> QED
      BY <1>2, <2>1, <2>2, EmptyLen DEF Finds, Connected, ClientQueue
  <1>4. SlotOwed /\ Even
    BY <1>1 DEF SlotOwed, Even, Messages, Peers
  <1> QED
    BY <1>1, <1>3, <1>4 DEF StopInv

\* Every step keeps it.
LEMMA NextStop == IInv /\ StopInv /\ [Next]_vars => StopInv'
  <1> SUFFICES ASSUME IInv, StopInv, [Next]_vars PROVE StopInv'
    OBVIOUS
  <1>1. CASE UNCHANGED vars
    BY <1>1 DEF vars, StopInv, Regular, Polls, MayFail, SlotOwed, Fits, Even
  <1>2. CASE Next
    <2>1. Regular' = Regular
      BY <1>2, ParamsKept DEF Regular, Polls, MayFail
    <2>2. CASE ~Regular
      BY <2>1, <2>2 DEF StopInv
    <2>3. CASE Regular /\ (ClientStep \/ ServerStep)
      <3>1. "client" \in Peers /\ "server" \in Peers
        BY DEF Peers
      <3> QED
        BY <2>3, <3>1, ProcessStop, OwnStop, SlotWriteStop, SlotWaitStop
        DEF ClientStep, ServerStep
    <2>4. CASE \E e \in Peers : Nic(e) \/ FabricFails(e)
      BY <2>4, NicStop
    <2>5. CASE Stopped
      BY <1>1, <2>5 DEF Stopped
    <2> QED
      BY <1>2, <2>2, <2>3, <2>4, <2>5 DEF Next, Step
  <1> QED
    BY <1>1, <1>2

\* In every state of a session whose polling is reliable, what a process polls
\* for is posted or has completed, and the server has received the messages the
\* client's NIC has executed.
THEOREM StopInvariance == Spec => [](IInv /\ FlowInv /\ StopInv)
  <1>1. Init => IInv /\ FlowInv /\ StopInv
    BY InitIInv, InitFlow, InitStop
  <1>2. IInv /\ FlowInv /\ StopInv /\ [Next]_vars => IInv' /\ FlowInv' /\ StopInv'
    BY NextIInv, NextFlow, NextStop
  <1> QED
    BY <1>1, <1>2, PTL DEF Spec

\* A process that polls for a completion that is not there has a request posted
\* or, for a message, a receive.
LEMMA WaitingPosted ==
    ASSUME IInv, StopInv, Regular, Fits, NEW e \in Peers, Waiting(e)
    PROVE  /\ pc[e] \notin {"done", "crashed"}
           /\ \/ /\ pc[e] \in SendPolls(e) /\ pc[e] \notin RecvPolls(e)
                 /\ qp[e].sq # << >> /\ qp[e].state = "rts"
              \/ /\ pc[e] \in RecvPolls(e) /\ pc[e] \notin SendPolls(e)
                 /\ qp[e].rq # << >> /\ qp[e].rcq = << >> /\ qp[e].state = "rts"
                 /\ ~OkRecv(qp[e])
  <1>1. /\ Accounted(qp[e]) /\ Good(e, qp[e]) /\ Finds(e, pc[e], qp[e]) /\ SlotOwed
    BY Facts DEF StopInv
  <1>2. /\ pc[e] \notin {"done", "crashed"}
        /\ ~(pc[e] \in RecvPolls(e) /\ pc[e] \in SendPolls(e))
        /\ pc[e] \in RecvPolls(e) \/ pc[e] \in SendPolls(e)
    BY DEF Waiting, RecvPolls, RecvWaits, SendPolls, SendWaits, Peers
  <1>3. qp[e].state \in {"rts", "err"}
    BY <1>1, <1>2 DEF Finds, Connected
  <1>4. CASE pc[e] \in SendPolls(e)
    <2>1. qp[e].scq = << >> /\ Len(qp[e].scq) = 0
      BY <1>2, <1>4, EmptyLen DEF Waiting
    <2>2. Owed(qp[e]) > 0
      <3>1. CASE pc[e] \in SendWaits(e)
        BY <1>1, <3>1 DEF Finds
      <3>2. CASE e = "server" /\ pc[e] = "slot_wait"
        <4>1. sum + Owed(qp[e]) >= params.count
          BY <1>1, <3>2 DEF SlotOwed
        <4>2. sum \in 0..(params.count - 1) /\ params.count \in Nat
          BY ParamFacts DEF IInv, TypeOK
        <4>3. Owed(qp[e]) \in Nat
          BY <1>1, OwedNat
        <4> HIDE DEF Owed
        <4> QED
          BY <4>1, <4>2, <4>3
      <3> QED
        BY <1>4, <3>1, <3>2 DEF SendPolls
    <2>3. qp[e].sq # << >>
      <3>1. Owed(qp[e]) = Len(qp[e].sq) + 0 /\ Len(qp[e].sq) \in Nat
            /\ (Len(qp[e].sq) = 0 <=> qp[e].sq = << >>)
        BY <1>1, <2>1, OwedNat, OwedSum
      <3> QED
        BY <2>2, <3>1
    <2>4. qp[e].state # "err"
      BY <1>1, <2>3 DEF Accounted, SendAccounting
    <2> QED
      BY <1>2, <1>3, <1>4, <2>3, <2>4
  <1>5. CASE pc[e] \in RecvPolls(e)
    <2>1. qp[e].rcq = << >>
      BY <1>2, <1>5 DEF Waiting
    <2>2. Receiving(pc[e], qp[e]) /\ pc[e] \in RecvWaits
      BY <1>1, <1>5, PollingWaits DEF Finds
    <2>3. PICK kind \in Kinds : RecvOne(qp[e], [kind |-> kind, n |-> 0])
      BY <2>2 DEF Receiving
    <2>4. qp[e].rq # << >>
      <3>1. \A c : <<c>> # << >>
        OBVIOUS
      <3> QED
        BY <2>1, <2>3, <3>1, Zenon DEF RecvOne
    <2>5. qp[e].state # "err"
      BY <1>1, <2>4 DEF Good, Drained
    <2>6. ~OkRecv(qp[e])
      BY <2>1, EmptyLen DEF OkRecv
    <2> QED
      BY <1>2, <1>3, <1>5, <2>1, <2>4, <2>5, <2>6
  <1> QED
    BY <1>2, <1>4, <1>5

\* The two processes never wait for each other: at a standstill of a session
\* whose polling is reliable, with equal counts of packets that fit the queue,
\* both have ended, or one polls for a message of a peer that is not connected any more.
LEMMA NoStandstill == IInv /\ FlowInv /\ StopInv => StuckOnlyOnDeadPeer
  <1> SUFFICES ASSUME IInv, FlowInv, StopInv, Regular, Fits, Standstill,
                      NEW e \in Peers, ~Ended(e)
               PROVE  pc[e] \in RecvPolls(e) /\ qp[Peer(e)].state # "rts"
    BY DEF StuckOnlyOnDeadPeer
  <1> DEFINE p == Peer(e)
  <1>1. /\ Waiting(e) /\ Regular /\ p \in Peers /\ Peer(p) = e /\ p # e
        /\ Ended(p) \/ Waiting(p)
        /\ AtRest(e) /\ AtRest(p)
        /\ "client" \in Peers /\ "server" \in Peers
        /\ {e, p} = Peers
    BY DEF Standstill, Peer, Peers
  <1>2. \A d \in Peers : Finds(d, pc[d], qp[d]) /\ Accounted(qp[d])
    BY <1>1, Facts DEF StopInv
  <1>3. Ended(p) => qp[p].state # "rts"
    BY <1>1, <1>2 DEF Ended, Finds, Connected
  <1> HIDE DEF p
  \* One that polls for the completion of a message has it on its queue, for
  \* which its peer, still connected, has no receive: that one polls for a send
  \* as well.
  <1>4. ASSUME NEW d \in Peers, Waiting(d), pc[d] \in SendPolls(d),
               Ended(Peer(d)) \/ Waiting(Peer(d)), AtRest(d)
        PROVE  /\ Head(qp[d].sq).op = "send" /\ qp[d].state = "rts"
               /\ qp[Peer(d)].state = "rts" /\ Waiting(Peer(d))
               /\ pc[Peer(d)] \in SendPolls(Peer(d))
    <2>1. qp[d].sq # << >> /\ qp[d].state = "rts" /\ Peer(d) \in Peers
      BY <1>1, <1>4, WaitingPosted DEF Peer, Peers
    <2>2. /\ Head(qp[d].sq).op = "send"
          /\ qp[Peer(d)].state = "rts" /\ qp[Peer(d)].rq = << >>
      BY <1>4, <2>1 DEF AtRest
    <2>3. Waiting(Peer(d))
      BY <1>2, <1>4, <2>1, <2>2 DEF Ended, Finds, Connected
    <2> QED
      BY <1>1, <2>1, <2>2, <2>3, WaitingPosted
  <1>5. pc["server"] # "slot_wait" \/ qp["server"].sq = << >>
           \/ Head(qp["server"].sq).op # "send"
    <2> SUFFICES ASSUME pc["server"] = "slot_wait", qp["server"].sq # << >>
                 PROVE  Head(qp["server"].sq).op # "send"
      OBVIOUS
    <2>1. \A j \in 1..Len(qp["server"].sq) : qp["server"].sq[j].op = "write"
      BY <1>1 DEF FlowInv, Queued, Writing
    <2>2. /\ qp["server"].sq \in Seq(WorkRequests) /\ Len(qp["server"].sq) \in Nat
          /\ Len(qp["server"].sq) # 0
      BY <1>1, <1>2, OwedNat, QpFields
    <2>3. 1 \in 1..Len(qp["server"].sq) /\ Head(qp["server"].sq) = qp["server"].sq[1]
      BY <2>2
    <2> QED
      BY <2>1, <2>3
  \* If both poll for sends, the server has received all there is of the
  \* exchange, and the client has sent less.
  <1>6. ASSUME Waiting("client"), Waiting("server"),
               pc["client"] \in SendPolls("client"), pc["server"] \in SendPolls("server"),
               qp["client"].state = "rts", qp["server"].state = "rts",
               AtRest("client"), Head(qp["server"].sq).op = "send"
        PROVE  FALSE
    <2>1. qp["client"].sq # << >> /\ qp["server"].sq # << >>
      BY <1>1, <1>6, WaitingPosted
    <2>2. /\ pc["client"] \in {"send_mr_count", "send_mr_array"}
          /\ pc["server"] \in {"send_mr_count", "send_mr_array", "end_wait"}
      BY <1>5, <1>6, <2>1 DEF SendPolls, SendWaits
    <2>3. qp["client"].sent < Len(qp["client"].sq)
      <3>1. Len(qp["client"].sq) \in Nat /\ Len(qp["client"].sq) # 0
        BY <1>1, <1>2, <2>1, OwedNat
      <3>2. qp["client"].sent = 0
        BY <1>6 DEF AtRest
      <3> QED
        BY <3>1, <3>2
    <2>4. Messages("client", pc["client"], qp["client"]) \in {0, 1}
      BY <2>2, <2>3 DEF Messages
    <2>5. Messages("server", pc["server"], qp["server"]) = 2
      BY <2>2 DEF Messages
    <2>6. \A d \in Peers : InUse(pc[d], qp[d])
      BY <1>6, <2>2 DEF InUse, Leaving, Peers
    <2>7. Even
      BY <1>1 DEF StopInv
    <2> QED
      BY <2>4, <2>5, <2>6, <2>7 DEF Even
  \* If both poll for messages, the client has sent both of the exchange, and the
  \* server has not received them.
  <1>7. ASSUME Waiting("client"), Waiting("server"),
               pc["client"] \in RecvPolls("client"), pc["server"] \in RecvPolls("server")
        PROVE  FALSE
    <2>1. \A d \in Peers : qp[d].state = "rts" /\ ~OkRecv(qp[d])
      BY <1>1, <1>7, WaitingPosted DEF Peers
    <2>2. /\ pc["client"] \in {"get_mr_count", "get_mr_array", "end_wait"}
          /\ pc["server"] \in {"get_mr_count", "get_mr_array"}
      BY <1>7 DEF RecvPolls, RecvWaits
    <2>3. Messages("client", pc["client"], qp["client"]) = 2
      BY <2>2 DEF Messages
    <2>4. Messages("server", pc["server"], qp["server"]) \in {0, 1}
      BY <1>1, <2>1, <2>2 DEF Messages
    <2>5. \A d \in Peers : InUse(pc[d], qp[d])
      BY <2>1, <2>2 DEF InUse, Leaving, Peers
    <2>6. Even
      BY <1>1 DEF StopInv
    <2> QED
      BY <2>3, <2>4, <2>5, <2>6 DEF Even
  <1>8. pc[e] \notin SendPolls(e)
    <2> SUFFICES ASSUME pc[e] \in SendPolls(e) PROVE FALSE
      OBVIOUS
    <2>1. /\ Head(qp[e].sq).op = "send" /\ qp[e].state = "rts"
          /\ qp[p].state = "rts" /\ Waiting(p) /\ pc[p] \in SendPolls(p)
      BY <1>1, <1>4 DEF p
    <2>2. Head(qp[p].sq).op = "send"
      BY <1>1, <1>4, <2>1
    <2> QED
      BY <1>1, <1>6, <2>1, <2>2 DEF Peers
  <1>9. pc[e] \in RecvPolls(e)
    BY <1>1, <1>8, WaitingPosted
  <1>10. qp[p].state # "rts"
    <2> SUFFICES ASSUME qp[p].state = "rts" PROVE FALSE
      OBVIOUS
    <2>1. Waiting(p)
      BY <1>1, <1>3
    <2>2. pc[p] \notin SendPolls(p)
      BY <1>1, <1>4, <1>8, <2>1
    <2>3. pc[p] \in RecvPolls(p)
      BY <1>1, <2>1, <2>2, WaitingPosted
    <2> QED
      BY <1>1, <1>7, <1>9, <2>1, <2>3 DEF Peers
  <1> QED
    BY <1>9, <1>10 DEF p

\* The exchange, the slots and the terminating message never leave the two
\* processes waiting for each other, for every depth of the queues, every number
\* of slots and packets that fit, and every set of faults but that of the polling.
THEOREM NoMutualWait == Spec => []StuckOnlyOnDeadPeer
  BY StopInvariance, NoStandstill, PTL

=============================================================================
