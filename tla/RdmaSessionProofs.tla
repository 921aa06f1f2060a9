-------------------------- MODULE RdmaSessionProofs --------------------------
(***************************************************************************)
(* What holds in every behaviour of RdmaSession without regard to how far   *)
(* the two processes are, for every depth MAX_WR, every set of parameters   *)
(* and every set of faults.  First the types.                               *)
(*                                                                          *)
(* TypeOK is not inductive: an error can turn any outstanding request into  *)
(* a completion, so the argument needs which requests the completions       *)
(* belong to (Accounted), and the NIC's accesses to memory need the index   *)
(* each outstanding request carries (Mine).                                 *)
(***************************************************************************)
EXTENDS RdmaSession, VerbsProofs

\* The requests a side may have on its send queue: only the client reads and
\* writes, and a request on application memory names one of its buffers.
Mine(e) == {wr \in WorkRequests :
               /\ wr.kind = "data" => wr.n \in Indices(e)
               /\ wr.op # "send" => wr.kind = "data" /\ e = "client"}

Good(e, q) == Accounted(q) /\ FailuresLast(q) /\ Holds(q, Mine(e))

QpInv == qp \in [Peers -> QueuePairs] /\ \A e \in Peers : Good(e, qp[e])

Rest == ProcTypeOK /\ MemTypeOK /\ LogTypeOK

IInv == Rest /\ QpInv

-----------------------------------------------------------------------------
(* The queue pairs.                                                         *)

\* One queue pair moves to a good value, the other stays.
LEMMA QpStep ==
    ASSUME QpInv, params' = params, NEW e \in Peers, NEW q, Good(e, q),
           qp' = [qp EXCEPT ![e] = q]
    PROVE  QpInv'
  <1>1. q \in QueuePairs
    BY DEF Good, Accounted
  <1>2. \A d \in Peers : qp'[d] = IF d = e THEN q ELSE qp[d]
    BY DEF QpInv
  <1>3. qp' \in [Peers -> QueuePairs]
    BY <1>1 DEF QpInv
  <1>4. \A d \in Peers : Mine(d)' = Mine(d)
    BY DEF Mine, Indices, Count
  <1>5. \A d \in Peers : Good(d, qp'[d])
    BY <1>2 DEF QpInv
  <1>6. \A d \in Peers : /\ Accounted(qp'[d]) /\ FailuresLast(qp'[d])
                         /\ Holds(qp'[d], Mine(d))
    BY <1>5 DEF Good
  <1>7. \A d \in Peers : Good(d, qp[d])'
    BY <1>4, <1>6 DEF Good
  <1> QED
    BY <1>3, <1>7 DEF QpInv

\* Neither moves.
LEMMA QpSame ==
    ASSUME QpInv, params' = params, qp' = qp
    PROVE  QpInv'
  <1>1. \A d \in Peers : Mine(d)' = Mine(d)
    BY DEF Mine, Indices, Count
  <1>2. \A d \in Peers : /\ Accounted(qp'[d]) /\ FailuresLast(qp'[d])
                         /\ Holds(qp'[d], Mine(d))
    BY DEF QpInv, Good
  <1>3. \A d \in Peers : Good(d, qp[d])'
    BY <1>1, <1>2 DEF Good
  <1> QED
    BY <1>3 DEF QpInv

\* Both move.
LEMMA QpBoth ==
    ASSUME params' = params, NEW a, NEW b, Good("client", a), Good("server", b),
           qp' = [e \in Peers |-> IF e = "client" THEN a ELSE b]
    PROVE  QpInv'
  <1>1. a \in QueuePairs /\ b \in QueuePairs
    BY DEF Good, Accounted
  <1>2. qp' \in [Peers -> QueuePairs]
    BY <1>1 DEF Peers
  <1>3. \A d \in Peers : Mine(d)' = Mine(d)
    BY DEF Mine, Indices, Count
  <1>4. \A d \in Peers : Good(d, qp'[d])
    BY DEF Peers
  <1>5. \A d \in Peers : /\ Accounted(qp'[d]) /\ FailuresLast(qp'[d])
                         /\ Holds(qp'[d], Mine(d))
    BY <1>4 DEF Good
  <1>6. \A d \in Peers : Good(d, qp[d])'
    BY <1>3, <1>5 DEF Good
  <1> QED
    BY <1>2, <1>6 DEF QpInv

\* What the wrappers of dccs_rdma.h leave is good.
LEMMA WrappersGood ==
    ASSUME NEW e \in Peers, NEW q, Good(e, q)
    PROVE  /\ \A s \in QpStates : Good(e, NewQp(s))
           /\ Good(e, Destroyed(q))
           /\ Good(e, Flushed(q))
           /\ \A kind \in Kinds, i \in Nat : Good(e, PostRecv(q, kind, i))
           /\ \A kind \in Kinds \ {"data"} :
                 Good(e, PostSend(q, "send", kind, 0, TRUE))
  <1>1. Accounted(q) /\ FailuresLast(q) /\ Holds(q, Mine(e))
    BY DEF Good
  <1>2. \A s \in QpStates : Good(e, NewQp(s))
    BY NewQpAccounted, NewQpHolds, NewQpFailuresLast DEF Good
  <1>3. Good(e, Destroyed(q)) /\ Good(e, Flushed(q))
    BY <1>1, DestroyedAccounted, FlushedAccounted, OthersHold,
       FlushedFailuresLast, OthersFailuresLast DEF Good
  <1>4. \A kind \in Kinds, i \in Nat : Good(e, PostRecv(q, kind, i))
    BY <1>1, PostRecvAccounted, OthersHold, OthersFailuresLast DEF Good
  <1>5. ASSUME NEW kind \in Kinds \ {"data"}
        PROVE  Good(e, PostSend(q, "send", kind, 0, TRUE))
    <2>1. q.posted + 1 \in Nat
      BY <1>1, QpFields
    <2>2. [op |-> "send", kind |-> kind, n |-> 0, sig |-> TRUE,
           idx |-> q.posted + 1] \in Mine(e)
      BY <2>1 DEF Mine, WorkRequests
    <2>3. Accounted(PostSend(q, "send", kind, 0, TRUE))
      BY <1>1, PostSendAccounted
    <2>4. Holds(PostSend(q, "send", kind, 0, TRUE), Mine(e))
      BY <1>1, <2>2, PostSendHolds
    <2>5. FailuresLast(PostSend(q, "send", kind, 0, TRUE))
      BY <1>1, PostSendFailuresLast
    <2> QED
      BY <2>3, <2>4, <2>5 DEF Good
  <1> QED
    BY <1>2, <1>3, <1>4, <1>5

\* What polling returns.
LEMMA CompGood ==
    ASSUME NEW e \in Peers, Good(e, qp[e])
    PROVE  /\ \A c \in SendComp(e) : c.rv \in {1, -1} /\ Good(e, c.q)
           /\ \A c \in RecvComp(e) : c.rv \in {1, -1} /\ Good(e, c.q)
  <1>1. Accounted(qp[e]) /\ FailuresLast(qp[e]) /\ Holds(qp[e], Mine(e))
    BY DEF Good
  <1>2. qp[e].scq # << >> => Good(e, PollSend(qp[e]))
    BY <1>1, PollSendAccounted, OthersHold, PollSendFailuresLast DEF Good
  <1>3. qp[e].rcq # << >> => Good(e, PollRecv(qp[e]))
    BY <1>1, PollRecvAccounted, OthersHold, OthersFailuresLast DEF Good
  <1>4. ASSUME NEW c \in SendComp(e)
        PROVE  c.rv \in {1, -1} /\ Good(e, c.q)
    BY <1>2 DEF SendComp, PollFails
  <1>5. ASSUME NEW c \in RecvComp(e)
        PROVE  c.rv \in {1, -1} /\ Good(e, c.q)
    BY <1>3 DEF RecvComp, PollFails
  <1> QED
    BY <1>4, <1>5

\* A request of the client's rounds.
LEMMA PostRequestGood ==
    ASSUME Rest, Good("client", qp["client"])
    PROVE  Good("client", PostSend(qp["client"], params.verb, "data",
                                   n["client"], Signaled(n["client"])))
  <1> DEFINE q == qp["client"]
             i == n["client"]
  <1>1. Accounted(q) /\ FailuresLast(q) /\ Holds(q, Mine("client"))
    BY DEF Good
  <1>2. /\ params.verb \in {"send", "read", "write"}
        /\ i \in Nat /\ i \in Indices("client") /\ Signaled(i) \in BOOLEAN
    BY ParamAssumption DEF Rest, ProcTypeOK, Params, Peers, Signaled
  <1>3. q.posted + 1 \in Nat
    BY <1>1, QpFields
  <1> HIDE DEF q, i
  <1>4. [op |-> params.verb, kind |-> "data", n |-> i, sig |-> Signaled(i),
         idx |-> q.posted + 1] \in Mine("client")
    BY <1>2, <1>3 DEF Mine, WorkRequests, Kinds
  <1>5. "data" \in Kinds
    BY DEF Kinds
  <1>6. Accounted(PostSend(q, params.verb, "data", i, Signaled(i)))
    BY <1>1, <1>2, <1>5, PostSendAccounted
  <1>7. /\ Holds(PostSend(q, params.verb, "data", i, Signaled(i)), Mine("client"))
        /\ FailuresLast(PostSend(q, params.verb, "data", i, Signaled(i)))
    BY <1>1, <1>4, PostSendHolds, PostSendFailuresLast
  <1> QED
    BY <1>6, <1>7 DEF Good, q, i

\* No step of a process makes a queue pair bad.
LEMMA ProcessKeepsQps ==
    ASSUME IInv, ClientStep \/ ServerStep
    PROVE  QpInv'
  <1>1. QpInv /\ Rest /\ "client" \in Peers /\ "server" \in Peers
    BY DEF IInv, Peers
  <1>2. /\ Good("client", qp["client"]) /\ Good("server", qp["server"])
        /\ \A e \in Peers : Good(e, qp[e])
    BY <1>1 DEF QpInv
  <1>3. params' = params
    BY DEF ClientStep, ServerStep, ClientCreateEp, SetTos, RdmaConnect,
           AllocateBuffer, GetMrInfo, GetMrCount, GetMrArray, PostRequest,
           WaitRequest, Report, NullMrCrash, Teardown, EndPost, EndWait,
           PrintSha1sum, DeallocateBuffer, Disconnect, Listen, Accept,
           AcceptFails, SendMrInfo, SendMrCount, SendMrArray, RecvPost,
           RecvWait, procVars
  <1>4. /\ "count" \in Kinds \ {"data"} /\ "array" \in Kinds \ {"data"}
        /\ "end" \in Kinds \ {"data"} /\ "data" \in Kinds /\ 0 \in Nat
        /\ {"none", "idle", "rts", "gone"} \subseteq QpStates
    BY DEF Kinds, QpStates
  <1>5. CASE ClientCreateEp
    BY <1>1, <1>2, <1>3, <1>4, <1>5, QpStep, QpSame, WrappersGood
       DEF ClientCreateEp, SetQp
  <1>6. CASE SetTos
    BY <1>1, <1>3, <1>6, QpSame DEF SetTos
  <1>7. CASE RdmaConnect
    BY <1>1, <1>2, <1>3, <1>7, QpStep, QpSame, WrappersGood
       DEF RdmaConnect, ConnectFails, SetQp
  <1>8. CASE Listen
    BY <1>1, <1>3, <1>8, QpSame DEF Listen
  <1>9. CASE Accept
    <2>1. Good("client", NewQp("rts")) /\ Good("server", NewQp("rts"))
      BY <1>1, <1>2, <1>4, WrappersGood
    <2>2. qp' = [e \in Peers |-> IF e = "client" THEN NewQp("rts") ELSE NewQp("rts")]
      BY <1>9 DEF Accept
    <2> QED
      BY <1>3, <2>1, <2>2, QpBoth
  <1>10. CASE AcceptFails
    <2>1. PICK s \in {"none", "gone"} : qp' = [qp EXCEPT !["server"] = NewQp(s)]
      BY <1>10 DEF AcceptFails, SetQp
    <2>2. Good("server", NewQp(s))
      BY <1>1, <1>2, <1>4, WrappersGood
    <2> QED
      BY <1>1, <1>3, <2>1, <2>2, QpStep
  <1>11. ASSUME NEW e \in Peers, AllocateBuffer(e) PROVE QpInv'
    BY <1>1, <1>3, <1>11, QpSame DEF AllocateBuffer
  <1>12. CASE GetMrInfo
    BY <1>1, <1>2, <1>3, <1>4, <1>12, QpStep, QpSame, WrappersGood
       DEF GetMrInfo, RecvControl, RegisterFails, SetQp
  <1>13. CASE GetMrCount
    <2>1. PICK c \in RecvComp("client") :
             \/ qp' = [qp EXCEPT !["client"] = c.q]
             \/ qp' = [qp EXCEPT !["client"] = PostRecv(c.q, "array", 0)]
      BY <1>13 DEF GetMrCount, SetQp
    <2>2. Good("client", c.q)
      BY <1>1, <1>2, CompGood
    <2>3. Good("client", PostRecv(c.q, "array", 0))
      BY <1>1, <1>4, <2>2, WrappersGood
    <2> QED
      BY <1>1, <1>3, <2>1, <2>2, <2>3, QpStep
  <1>14. CASE GetMrArray
    BY <1>1, <1>2, <1>3, <1>14, QpStep, CompGood DEF GetMrArray, SetQp
  <1>15. CASE SendMrInfo
    BY <1>1, <1>2, <1>3, <1>4, <1>15, QpStep, QpSame, WrappersGood
       DEF SendMrInfo, Crash, SendControl, RegisterFails, SetQp
  <1>16. CASE SendMrCount
    <2>1. PICK c \in SendComp("server") :
             \/ qp' = [qp EXCEPT !["server"] = c.q]
             \/ qp' = [qp EXCEPT !["server"] =
                          PostSend(c.q, "send", "array", 0, TRUE)]
      BY <1>16 DEF SendMrCount, SetQp
    <2>2. Good("server", c.q)
      BY <1>1, <1>2, CompGood
    <2>3. Good("server", PostSend(c.q, "send", "array", 0, TRUE))
      BY <1>1, <1>4, <2>2, WrappersGood
    <2> QED
      BY <1>1, <1>3, <2>1, <2>2, <2>3, QpStep
  <1>17. CASE SendMrArray
    BY <1>1, <1>2, <1>3, <1>17, QpStep, CompGood DEF SendMrArray, SetQp
  <1>18. CASE PostRequest
    BY <1>1, <1>2, <1>3, <1>18, QpStep, PostRequestGood DEF PostRequest, SetQp
  <1>19. CASE WaitRequest
    BY <1>1, <1>2, <1>3, <1>19, QpStep, CompGood DEF WaitRequest, SetQp
  <1>20. CASE Report
    BY <1>1, <1>3, <1>20, QpSame DEF Report
  <1>21. ASSUME NEW e \in Peers, NullMrCrash(e) PROVE QpInv'
    BY <1>1, <1>2, <1>3, <1>21, QpStep, WrappersGood DEF NullMrCrash, Crash, SetQp
  <1>22. CASE RecvPost
    <2>1. n["server"] \in Nat
      BY <1>1 DEF Rest, ProcTypeOK
    <2> QED
      BY <1>1, <1>2, <1>3, <1>4, <1>22, <2>1, QpStep, WrappersGood
         DEF RecvPost, SetQp
  <1>23. CASE RecvWait
    BY <1>1, <1>2, <1>3, <1>23, QpStep, CompGood DEF RecvWait, SetQp
  <1>24. ASSUME NEW e \in Peers, Teardown(e) PROVE QpInv'
    <2>1. CASE EndPost(e)
      <3>1. \/ qp' = qp
            \/ qp' = [qp EXCEPT ![e] = PostSend(qp[e], "send", "end", 0, TRUE)]
            \/ qp' = [qp EXCEPT ![e] = PostRecv(qp[e], "end", 0)]
        BY <2>1 DEF EndPost, SendControl, RecvControl, RegisterFails, SetQp
      <3>2. /\ Good(e, PostSend(qp[e], "send", "end", 0, TRUE))
            /\ Good(e, PostRecv(qp[e], "end", 0))
        BY <1>2, <1>4, WrappersGood
      <3> QED
        BY <1>1, <1>3, <3>1, <3>2, QpStep, QpSame
    <2>2. CASE EndWait(e)
      BY <1>1, <1>2, <1>3, <2>2, QpStep, CompGood DEF EndWait, SetQp
    <2>3. CASE PrintSha1sum(e)
      BY <1>1, <1>3, <2>3, QpSame DEF PrintSha1sum
    <2>4. CASE DeallocateBuffer(e)
      BY <1>1, <1>2, <1>3, <2>4, QpStep, QpSame, WrappersGood
         DEF DeallocateBuffer, Crash, SetQp
    <2>5. CASE Disconnect(e)
      BY <1>1, <1>2, <1>3, <2>5, QpStep, WrappersGood DEF Disconnect, SetQp
    <2> QED
      BY <1>24, <2>1, <2>2, <2>3, <2>4, <2>5 DEF Teardown
  <1> QED
    BY <1>1, <1>5, <1>6, <1>7, <1>8, <1>9, <1>10, <1>11, <1>12, <1>13, <1>14,
       <1>15, <1>16, <1>17, <1>18, <1>19, <1>20, <1>21, <1>22, <1>23, <1>24
       DEF ClientStep, ServerStep

\* The request a NIC executes is on the send queue.
LEMMA ExecutedRequest ==
    ASSUME NEW e \in Peers, Good(e, qp[e]), qp[e].sent < Len(qp[e].sq)
    PROVE  /\ qp[e].sq[qp[e].sent + 1] \in Mine(e)
           /\ Good(e, Executed(qp[e]))
  <1>1. Accounted(qp[e]) /\ FailuresLast(qp[e]) /\ Holds(qp[e], Mine(e))
    BY DEF Good
  <1>2. qp[e].sent + 1 \in 1..Len(qp[e].sq)
    BY <1>1, QpFields
  <1>3. Good(e, Executed(qp[e]))
    BY <1>1, ExecutedAccounted, OthersHold, OthersFailuresLast DEF Good
  <1> QED
    BY <1>1, <1>2, <1>3 DEF Holds

\* No step of a NIC makes a queue pair bad.
LEMMA NicKeepsQps ==
    ASSUME IInv, NEW e \in Peers, Nic(e) \/ FabricFails(e)
    PROVE  QpInv'
  <1>1. QpInv /\ Rest /\ Peer(e) \in Peers /\ Peer(e) # e
    BY DEF IInv, Peers, Peer
  <1>2. \A d \in Peers : Good(d, qp[d])
    BY <1>1 DEF QpInv
  <1>3. params' = params
    BY DEF Nic, NicExecute, NicAck, NicTimeout, FabricFails, procVars
  <1>4. \A d \in Peers : Good(d, Flushed(qp[d]))
    BY <1>2, WrappersGood
  <1>5. CASE qp' = [qp EXCEPT ![e] = Flushed(qp[e])]
    BY <1>1, <1>3, <1>4, <1>5, QpStep
  <1>6. CASE FlushedBoth
    <2>1. qp' = [d \in Peers |-> IF d = "client" THEN Flushed(qp["client"])
                                 ELSE Flushed(qp["server"])]
      BY <1>6 DEF FlushedBoth, Peers
    <2>2. Good("client", Flushed(qp["client"])) /\ Good("server", Flushed(qp["server"]))
      BY <1>4 DEF Peers
    <2> QED
      BY <1>3, <2>1, <2>2, QpBoth
  <1>7. CASE NicExecute(e)
    <2> DEFINE wr == qp[e].sq[qp[e].sent + 1]
    <2>1. wr \in Mine(e) /\ Good(e, Executed(qp[e]))
      BY <1>2, <1>7, ExecutedRequest DEF NicExecute
    <2>2. CASE DeliverSend(e, wr)
      <3> DEFINE p == Peer(e)
                 m == [kind |-> wr.kind, n |-> wr.n]
      <3>1. m \in Buffers
        BY <2>1 DEF Mine, WorkRequests, Buffers
      <3>2. FlushedBoth \/ qp' = [qp EXCEPT ![e] = Executed(@), ![p] = Received(@, m)]
        BY <2>2 DEF DeliverSend
      <3>3. Good(p, Received(qp[p], m))
        <4>1. /\ qp[p].rq # << >> /\ Accounted(qp[p])
              /\ FailuresLast(qp[p]) /\ Holds(qp[p], Mine(p))
          BY <1>1, <1>2, <2>2 DEF DeliverSend, Good
        <4> HIDE DEF m, p
        <4> QED
          BY <3>1, <4>1, ReceivedAccounted, OthersHold, OthersFailuresLast DEF Good
      <3>4. CASE qp' = [qp EXCEPT ![e] = Executed(@), ![p] = Received(@, m)]
        <4> DEFINE a == IF e = "client" THEN Executed(qp[e]) ELSE Received(qp[p], m)
                   b == IF e = "client" THEN Received(qp[p], m) ELSE Executed(qp[e])
        <4>1. Good("client", a) /\ Good("server", b)
          BY <1>1, <2>1, <3>3 DEF Peers, Peer
        <4> HIDE DEF m
        <4>2. qp' = [d \in Peers |-> IF d = "client" THEN a ELSE b]
          BY <1>1, <3>4 DEF Peers, Peer, QpInv
        <4> HIDE DEF a, b
        <4> QED
          BY <1>3, <4>1, <4>2, QpBoth
      <3> QED
        BY <1>6, <3>2, <3>4
    <2>3. CASE ServeOneSided(e, wr)
      BY <1>1, <1>3, <2>1, <2>3, QpStep DEF ServeOneSided, SetQp
    <2> QED
      BY <1>5, <1>6, <1>7, <2>2, <2>3 DEF NicExecute, SetQp
  <1>8. CASE NicAck(e)
    <2>1. qp[e].sent > 0 /\ qp' = [qp EXCEPT ![e] = Acknowledged(qp[e])]
      BY <1>8 DEF NicAck, SetQp
    <2>2. Good(e, Acknowledged(qp[e]))
      BY <1>2, <2>1, AcknowledgedAccounted, AcknowledgedHolds,
         AcknowledgedFailuresLast DEF Good
    <2> QED
      BY <1>1, <1>3, <2>1, <2>2, QpStep
  <1>9. CASE NicTimeout(e)
    BY <1>5, <1>9 DEF NicTimeout, SetQp
  <1>10. CASE FabricFails(e)
    BY <1>5, <1>10 DEF FabricFails, SetQp
  <1> QED
    BY <1>7, <1>8, <1>9, <1>10 DEF Nic

-----------------------------------------------------------------------------
(* The other variables.                                                     *)

\* The places control goes to.
LEMMA LabelsOK ==
    ASSUME NEW e
    PROVE  /\ RoundStart(e) \in Labels /\ AfterAllocate(e) \in Labels
           /\ AfterRound(e) \in Labels
  BY DEF RoundStart, AfterAllocate, AfterRound, Labels

\* Moving a process to a label.
LEMMA GotoOK ==
    ASSUME pc \in [Peers -> Labels], NEW e \in Peers, NEW l \in Labels, Goto(e, l)
    PROVE  pc' \in [Peers -> Labels]
  BY DEF Goto

\* Recording a result.
LEMMA ReturnOK ==
    ASSUME rv \in [Peers -> Int], NEW e \in Peers, NEW v \in Int, Return(e, v)
    PROVE  rv' \in [Peers -> Int]
  BY DEF Return

\* A step that keeps the parameters keeps the types of what it leaves alone.
LEMMA SameProc ==
    ASSUME ProcTypeOK, UNCHANGED <<params, n, round, failed, bad>>,
           pc' \in [Peers -> Labels], rv' \in [Peers -> Int]
    PROVE  ProcTypeOK'
  BY DEF ProcTypeOK, Indices, Count

\* The same for memory.
LEMMA SameMem ==
    ASSUME MemTypeOK, UNCHANGED <<params, memVars>>
    PROVE  MemTypeOK'
  BY DEF MemTypeOK, memVars, Indices, Count

\* The same for the log and the listening endpoint.
LEMMA SameLog ==
    ASSUME LogTypeOK, UNCHANGED <<params, noteVars>>, blind' \in [Peers -> BOOLEAN],
           listenEp' \in {"none", "open", "gone"}
    PROVE  LogTypeOK'
  BY DEF LogTypeOK, noteVars, Indices, Count

\* Leaving the log alone.
LEMMA LogKept ==
    ASSUME LogTypeOK, UNCHANGED logVars
    PROVE  UNCHANGED noteVars /\ blind' \in [Peers -> BOOLEAN]
  BY DEF LogTypeOK, logVars, noteVars

\* A poll is noted.
LEMMA PolledOK ==
    ASSUME LogTypeOK, NEW e \in Peers, NEW c, Polled(e, c)
    PROVE  blind' \in [Peers -> BOOLEAN]
  BY DEF LogTypeOK, Polled

\* The end of a request.
LEMMA NextRequestOK ==
    ASSUME Rest, NEW e \in Peers, NEW f \in BOOLEAN,
           NEW again \in Labels, NEW finished \in Labels,
           NextRequest(e, f, again, finished), params' = params
    PROVE  /\ n' \in [Peers -> Nat] /\ \A d \in Peers : n'[d] \in Indices(d)'
           /\ failed' \in [Peers -> Nat] /\ rv' \in [Peers -> Int]
           /\ pc' \in [Peers -> Labels] /\ lost' \in [Peers -> BOOLEAN]
  <1> DEFINE k == FailureCount(e, f)
  <1>1. /\ pc \in [Peers -> Labels] /\ rv \in [Peers -> Int]
        /\ n \in [Peers -> Nat] /\ \A d \in Peers : n[d] \in Indices(d)
        /\ failed \in [Peers -> Nat] /\ lost \in [Peers -> BOOLEAN]
    BY DEF Rest, ProcTypeOK, LogTypeOK
  <1>2. k \in Nat /\ -k \in Int /\ (k > 0) \in BOOLEAN
    BY <1>1 DEF FailureCount
  <1>3. \A d \in Peers : /\ Count(d) \in Nat \ {0} /\ Indices(d) = 1..Count(d)
                         /\ Indices(d)' = Indices(d)
    <2>1. params \in Params
      BY ParamAssumption DEF Rest, ProcTypeOK
    <2> QED
      BY <2>1 DEF Params, Count, Indices
  <1>4. CASE n[e] < Count(e)
    <2>1. /\ n' = [n EXCEPT ![e] = n[e] + 1] /\ failed' = [failed EXCEPT ![e] = k]
          /\ Goto(e, again) /\ rv' = rv /\ lost' = lost
      BY <1>4 DEF NextRequest
    <2> HIDE DEF k
    <2>2. n[e] + 1 \in 1..Count(e)
      BY <1>1, <1>3, <1>4
    <2>3. n' \in [Peers -> Nat] /\ \A d \in Peers : n'[d] \in Indices(d)'
      BY <1>1, <1>3, <2>1, <2>2
    <2> QED
      BY <1>1, <1>2, <2>1, <2>3, GotoOK
  <1>5. CASE ~(n[e] < Count(e))
    <2>1. /\ n' = [n EXCEPT ![e] = 1] /\ failed' = [failed EXCEPT ![e] = 0]
          /\ Return(e, -k) /\ lost' = [lost EXCEPT ![e] = lost[e] \/ k > 0]
          /\ Goto(e, finished)
      BY <1>5 DEF NextRequest
    <2> HIDE DEF k
    <2>2. 1 \in 1..Count(e)
      BY <1>3
    <2>3. n' \in [Peers -> Nat] /\ \A d \in Peers : n'[d] \in Indices(d)'
      BY <1>1, <1>3, <2>1, <2>2
    <2>4. lost' \in [Peers -> BOOLEAN]
      BY <1>1, <1>2, <2>1
    <2> QED
      BY <1>1, <1>2, <2>1, <2>3, <2>4, GotoOK, ReturnOK
  <1> QED
    BY <1>4, <1>5

\* The steps before the rounds, and those after them.
LEMMA SetupKeepsTypes ==
    ASSUME IInv,
           \/ ClientCreateEp \/ SetTos \/ RdmaConnect \/ Listen \/ Accept
           \/ AcceptFails \/ GetMrInfo \/ GetMrCount \/ SendMrCount
           \/ SendMrArray \/ Report
           \/ \E e \in Peers : EndPost(e) \/ EndWait(e) \/ Disconnect(e)
    PROVE  Rest'
  <1>1. /\ ProcTypeOK /\ MemTypeOK /\ LogTypeOK
        /\ "client" \in Peers /\ "server" \in Peers
        /\ pc \in [Peers -> Labels] /\ rv \in [Peers -> Int]
        /\ listenEp \in {"none", "open", "gone"} /\ round \in [Peers -> Nat]
        /\ 0 \in Int /\ -1 \in Int /\ 1 \in Int
    BY DEF IInv, Rest, ProcTypeOK, LogTypeOK, Peers
  <1>2. \A e \in Peers : /\ \A c \in SendComp(e) : c.rv \in Int
                         /\ \A c \in RecvComp(e) : c.rv \in Int
    BY CompGood DEF IInv, QpInv
  <1>3. {"tos", "connect", "connecting", "get_request", "allocate",
         "get_mr_count", "get_mr_array", "send_mr_count", "send_mr_array",
         "end_wait", "sha", "deallocate", "done"} \subseteq Labels
    BY DEF Labels
  <1>4. ASSUME pc' \in [Peers -> Labels], rv' \in [Peers -> Int],
               listenEp' \in {"none", "open", "gone"},
               UNCHANGED <<params, n, round, failed, bad, memVars, noteVars>>,
               blind' \in [Peers -> BOOLEAN]
        PROVE  Rest'
    BY <1>1, <1>4, SameProc, SameMem, SameLog DEF Rest
  <1>4b. ASSUME pc' \in [Peers -> Labels], rv' \in [Peers -> Int],
                listenEp' \in {"none", "open", "gone"},
                UNCHANGED <<params, n, round, failed, bad, memVars, logVars>>
         PROVE  Rest'
    BY <1>1, <1>4, <1>4b, LogKept DEF Rest
  <1>5. CASE ClientCreateEp
    BY <1>1, <1>3, <1>4b, <1>5, GotoOK, ReturnOK DEF ClientCreateEp
  <1>6. CASE SetTos
    BY <1>1, <1>3, <1>4b, <1>6, GotoOK, ReturnOK DEF SetTos
  <1>7. CASE RdmaConnect
    BY <1>1, <1>3, <1>4b, <1>7, GotoOK, ReturnOK DEF RdmaConnect, ConnectFails
  <1>8. CASE Listen
    BY <1>1, <1>3, <1>4b, <1>8, GotoOK, ReturnOK DEF Listen
  <1>9. CASE Accept
    <2>1. pc' \in [Peers -> Labels]
      BY <1>3, <1>9 DEF Accept
    <2> QED
      BY <1>1, <1>4b, <1>9, <2>1 DEF Accept, procVars
  <1>10. CASE AcceptFails
    BY <1>1, <1>3, <1>4b, <1>10, GotoOK, ReturnOK DEF AcceptFails
  <1>11. CASE GetMrInfo
    BY <1>1, <1>3, <1>4b, <1>11, GotoOK, ReturnOK
       DEF GetMrInfo, RecvControl, RegisterFails
  <1>12. CASE GetMrCount
    BY <1>1, <1>2, <1>3, <1>4, <1>12, GotoOK, ReturnOK, LabelsOK, PolledOK DEF GetMrCount
  <1>13. CASE SendMrCount
    BY <1>1, <1>2, <1>3, <1>4, <1>13, GotoOK, ReturnOK, PolledOK DEF SendMrCount
  <1>14. CASE SendMrArray
    BY <1>1, <1>2, <1>3, <1>4, <1>14, GotoOK, ReturnOK, LabelsOK, PolledOK DEF SendMrArray
  <1>15. CASE Report
    <2>1. pc' \in [Peers -> Labels]
      BY <1>1, <1>15, GotoOK, LabelsOK DEF Report
    <2>2. round' \in [Peers -> Nat]
      BY <1>1, <1>15 DEF Report
    <2>3. ProcTypeOK'
      BY <1>1, <1>15, <2>1, <2>2 DEF Report, ProcTypeOK, Indices, Count
    <2>4. MemTypeOK' /\ LogTypeOK'
      BY <1>1, <1>15, SameMem, SameLog, LogKept DEF Report
    <2> QED
      BY <2>3, <2>4 DEF Rest
  <1>16. ASSUME NEW e \in Peers, EndPost(e) PROVE Rest'
    BY <1>1, <1>3, <1>4b, <1>16, GotoOK, ReturnOK
       DEF EndPost, SendControl, RecvControl, RegisterFails
  <1>17. ASSUME NEW e \in Peers, EndWait(e) PROVE Rest'
    BY <1>1, <1>2, <1>3, <1>4, <1>17, GotoOK, ReturnOK, PolledOK DEF EndWait
  <1>18. ASSUME NEW e \in Peers, Disconnect(e) PROVE Rest'
    BY <1>1, <1>3, <1>4b, <1>18, GotoOK DEF Disconnect, procVars
  <1> QED
    BY <1>5, <1>6, <1>7, <1>8, <1>9, <1>10, <1>11, <1>12, <1>13, <1>14, <1>15,
       <1>16, <1>17, <1>18

\* The end of a process frees its buffers and closes its endpoints.
LEMMA CrashOK ==
    ASSUME Rest, NEW e \in Peers, Crash(e), params' = params, mem' = mem,
           nullmr' = nullmr, remote' = remote, rcount' = rcount, UNCHANGED logVars
    PROVE  pc' \in [Peers -> Labels] /\ MemTypeOK' /\ LogTypeOK'
  <1>1. pc' \in [Peers -> Labels]
    <2>1. "crashed" \in Labels
      BY DEF Labels
    <2> QED
      BY <2>1, GotoOK DEF Crash, Rest, ProcTypeOK
  <1>2. bufs' \in [Peers -> BufStates]
    BY DEF Crash, Rest, MemTypeOK, BufStates
  <1>3. MemTypeOK'
    BY <1>2 DEF Rest, MemTypeOK, Indices, Count
  <1>4. listenEp' \in {"none", "open", "gone"}
    BY DEF Crash, Rest, LogTypeOK
  <1> QED
    BY <1>1, <1>3, <1>4, SameLog, LogKept DEF Rest

\* The steps that touch buffers, and those of the rounds.
LEMMA RoundsKeepTypes ==
    ASSUME IInv,
           \/ GetMrArray \/ SendMrInfo \/ PostRequest \/ WaitRequest
           \/ RecvPost \/ RecvWait
           \/ \E e \in Peers : \/ AllocateBuffer(e) \/ NullMrCrash(e)
                               \/ PrintSha1sum(e) \/ DeallocateBuffer(e)
    PROVE  Rest'
  <1>1. /\ Rest /\ ProcTypeOK /\ MemTypeOK /\ LogTypeOK
        /\ "client" \in Peers /\ "server" \in Peers
        /\ pc \in [Peers -> Labels] /\ rv \in [Peers -> Int]
        /\ listenEp \in {"none", "open", "gone"} /\ round \in [Peers -> Nat]
        /\ bufs \in [Peers -> BufStates] /\ bad \in BOOLEAN
        /\ blind \in [Peers -> BOOLEAN] /\ failed \in [Peers -> Nat]
        /\ n \in [Peers -> Nat] /\ \A e \in Peers : n[e] \in Indices(e)
        /\ 0 \in Int /\ -1 \in Int /\ 1 \in Int
    <2>1. Rest /\ ProcTypeOK /\ MemTypeOK /\ LogTypeOK
      BY DEF IInv, Rest
    <2>2. /\ pc \in [Peers -> Labels] /\ rv \in [Peers -> Int]
          /\ round \in [Peers -> Nat] /\ bad \in BOOLEAN /\ failed \in [Peers -> Nat]
          /\ n \in [Peers -> Nat] /\ \A e \in Peers : n[e] \in Indices(e)
      BY <2>1, Zenon DEF ProcTypeOK
    <2>3. /\ bufs \in [Peers -> BufStates] /\ listenEp \in {"none", "open", "gone"}
          /\ blind \in [Peers -> BOOLEAN]
      BY <2>1, Zenon DEF MemTypeOK, LogTypeOK
    <2>4. "client" \in Peers /\ "server" \in Peers
      BY DEF Peers
    <2> QED
      BY <2>1, <2>2, <2>3, <2>4
  <1>2. \A e \in Peers : /\ \A c \in SendComp(e) : c.rv \in Int
                         /\ \A c \in RecvComp(e) : c.rv \in Int
    BY CompGood DEF IInv, QpInv
  <1>3. {"post", "wait", "report", "recv_post", "recv_wait", "send_mr_count",
         "deallocate", "disconnect"} \subseteq Labels
    BY DEF Labels
  <1>4. ASSUME NEW e \in Peers, AllocateBuffer(e) PROVE Rest'
    <2>1. pc' \in [Peers -> Labels] /\ rv' \in [Peers -> Int]
      BY <1>1, <1>4, GotoOK, ReturnOK, LabelsOK DEF AllocateBuffer
    <2>2. bufs' \in [Peers -> BufStates]
      BY <1>1, <1>4 DEF AllocateBuffer, BufStates
    <2>2b. nullmr' \in [Peers -> SUBSET Nat]
      <3>1. PICK nulls \in SUBSET Indices(e) : nullmr' = [nullmr EXCEPT ![e] = nulls]
        BY <1>4 DEF AllocateBuffer
      <3>2. nulls \in SUBSET Nat
        BY DEF Indices
      <3> QED
        BY <1>1, <3>1, <3>2 DEF MemTypeOK
    <2>3. [i \in Indices(e) |-> <<e, i>>] \in [Indices(e) -> Values]
      BY DEF Indices, Values
    <2>4. /\ DOMAIN mem' = Peers
          /\ \A d \in Peers : mem'[d] \in [Indices(d) -> Values]
      BY <1>1, <1>4, <2>3 DEF AllocateBuffer, MemTypeOK
    <2>5. \A d \in Peers : Indices(d)' = Indices(d)
      BY <1>4 DEF AllocateBuffer, Indices, Count
    <2>6. MemTypeOK'
      BY <1>1, <1>4, <2>2, <2>2b, <2>4, <2>5 DEF AllocateBuffer, MemTypeOK, Peers
    <2>7. ProcTypeOK' /\ LogTypeOK'
      BY <1>1, <1>4, <2>1, SameProc, SameLog, LogKept DEF AllocateBuffer
    <2> QED
      BY <2>6, <2>7 DEF Rest
  <1>5. CASE GetMrArray
    <2>1. pc' \in [Peers -> Labels] /\ rv' \in [Peers -> Int]
      BY <1>1, <1>2, <1>3, <1>5, GotoOK, ReturnOK, LabelsOK DEF GetMrArray
    <2>2. \A i \in Indices("client") : ntohll(MrInfo(i)) \in Nat \X Nat
      BY DEF ntohll, MrInfo, htonll, Addr, Indices
    <2>3. remote' \in [Indices("client") -> Nat \X Nat]
      BY <1>1, <1>5, <2>2 DEF GetMrArray, MemTypeOK
    <2>4. \A d \in Peers : Indices(d)' = Indices(d)
      BY <1>5 DEF GetMrArray, Indices, Count
    <2>5. MemTypeOK'
      BY <1>1, <1>5, <2>3, <2>4 DEF GetMrArray, MemTypeOK
    <2>6. ProcTypeOK' /\ LogTypeOK'
      BY <1>1, <1>5, <2>1, SameProc, SameLog, PolledOK DEF GetMrArray
    <2> QED
      BY <2>5, <2>6 DEF Rest
  <1>6. CASE SendMrInfo
    <2>1. CASE Crash("server") /\ UNCHANGED rv
      <3>1. pc' \in [Peers -> Labels] /\ MemTypeOK' /\ LogTypeOK'
        BY <1>1, <1>6, <2>1, CrashOK DEF SendMrInfo
      <3> QED
        BY <1>1, <1>6, <2>1, <3>1, SameProc DEF SendMrInfo, Rest
    <2>2. CASE SendControl("server", "count", "send_mr_count") \/ RegisterFails("server")
      <3>1. pc' \in [Peers -> Labels] /\ rv' \in [Peers -> Int]
        BY <1>1, <1>3, <2>2, GotoOK, ReturnOK DEF SendControl, RegisterFails
      <3>2. CASE UNCHANGED <<bufs, listenEp>>
        BY <1>1, <1>6, <3>1, <3>2, SameProc, SameMem, SameLog, LogKept
           DEF SendMrInfo, Rest, memVars
      <3>3. UNCHANGED <<bufs, listenEp>> \/ (Crash("server") /\ UNCHANGED rv)
        BY <1>6 DEF SendMrInfo
      <3> QED
        BY <2>1, <3>2, <3>3
    <2> QED
      BY <1>6, <2>1, <2>2 DEF SendMrInfo
  <1>7. CASE PostRequest
    <2>1. (~CanPost(qp["client"])) \in BOOLEAN /\ params' = params
      BY <1>7 DEF PostRequest
    <2>2. CASE bad' = ~CanPost(qp["client"]) /\ Goto("client", "wait")
               /\ UNCHANGED <<rv, n, failed, lost>>
      BY <1>1, <1>3, <1>7, <2>1, <2>2, GotoOK
         DEF PostRequest, ProcTypeOK, LogTypeOK, MemTypeOK, Rest, memVars, Indices, Count
    <2>3. CASE NextRequest("client", ~CanPost(qp["client"]), "post", "report")
               /\ UNCHANGED bad
      <3>1. /\ n' \in [Peers -> Nat] /\ \A d \in Peers : n'[d] \in Indices(d)'
            /\ failed' \in [Peers -> Nat] /\ rv' \in [Peers -> Int]
            /\ pc' \in [Peers -> Labels] /\ lost' \in [Peers -> BOOLEAN]
        BY <1>1, <1>3, <2>1, <2>3, NextRequestOK
      <3>2. start' \in [Indices("client") -> Nat]
        BY <1>1, <1>7 DEF PostRequest, LogTypeOK
      <3>3. \A d \in Peers : Indices(d)' = Indices(d)
        BY <2>1 DEF Indices, Count
      <3>4. ProcTypeOK'
        BY <1>1, <1>7, <2>3, <3>1 DEF PostRequest, ProcTypeOK
      <3>5. LogTypeOK'
        BY <1>1, <1>7, <3>1, <3>2, <3>3 DEF PostRequest, LogTypeOK
      <3> QED
        BY <1>1, <1>7, <3>4, <3>5, SameMem DEF PostRequest, Rest
    <2> QED
      BY <1>7, <2>2, <2>3 DEF PostRequest
  <1>8. CASE WaitRequest
    <2>1. PICK c \in SendComp("client") :
             /\ NextRequest("client", bad \/ c.rv < 0, "post", "report")
             /\ Polled("client", c)
      BY <1>8 DEF WaitRequest
    <2>2. (bad \/ c.rv < 0) \in BOOLEAN /\ params' = params
      BY <1>8 DEF WaitRequest
    <2>3. /\ n' \in [Peers -> Nat] /\ \A d \in Peers : n'[d] \in Indices(d)'
          /\ failed' \in [Peers -> Nat] /\ rv' \in [Peers -> Int]
          /\ pc' \in [Peers -> Labels] /\ lost' \in [Peers -> BOOLEAN]
      BY <1>1, <1>3, <2>1, <2>2, NextRequestOK
    <2>4. end' \in [Indices("client") -> Nat]
      BY <1>1, <1>8 DEF WaitRequest, EndStamp, LogTypeOK
    <2>5. \A d \in Peers : Indices(d)' = Indices(d)
      BY <2>2 DEF Indices, Count
    <2>6. ProcTypeOK'
      BY <1>1, <1>8, <2>3 DEF WaitRequest, ProcTypeOK
    <2>7. LogTypeOK'
      BY <1>1, <1>8, <2>1, <2>3, <2>4, <2>5, PolledOK DEF WaitRequest, LogTypeOK
    <2> QED
      BY <1>1, <1>8, <2>6, <2>7, SameMem DEF WaitRequest, Rest
  <1>9. CASE RecvPost
    <2>1. pc' \in [Peers -> Labels]
      BY <1>1, <1>3, <1>9, GotoOK DEF RecvPost
    <2>2. failed' \in [Peers -> Nat]
      BY <1>1, <1>9 DEF RecvPost, FailureCount
    <2>3. ProcTypeOK'
      BY <1>1, <1>9, <2>1, <2>2 DEF RecvPost, ProcTypeOK, Indices, Count
    <2> QED
      BY <1>1, <1>9, <2>3, SameMem, SameLog, LogKept DEF RecvPost, Rest
  <1>10. CASE RecvWait
    <2>1. PICK c \in RecvComp("server") :
             /\ NextRequest("server", c.rv < 0, "recv_post", AfterRound("server"))
             /\ Polled("server", c)
      BY <1>10 DEF RecvWait
    <2>2. (c.rv < 0) \in BOOLEAN /\ params' = params
      BY <1>10 DEF RecvWait
    <2>3. /\ n' \in [Peers -> Nat] /\ \A d \in Peers : n'[d] \in Indices(d)'
          /\ failed' \in [Peers -> Nat] /\ rv' \in [Peers -> Int]
          /\ pc' \in [Peers -> Labels] /\ lost' \in [Peers -> BOOLEAN]
      BY <1>1, <1>3, <2>1, <2>2, NextRequestOK, LabelsOK
    <2>4. round' \in [Peers -> Nat]
      BY <1>1, <1>10 DEF RecvWait
    <2>5. \A d \in Peers : Indices(d)' = Indices(d)
      BY <2>2 DEF Indices, Count
    <2>6. ProcTypeOK'
      BY <1>1, <1>10, <2>3, <2>4 DEF RecvWait, ProcTypeOK
    <2>7. LogTypeOK'
      BY <1>1, <1>10, <2>1, <2>3, <2>5, PolledOK DEF RecvWait, LogTypeOK
    <2> QED
      BY <1>1, <1>10, <2>6, <2>7, SameMem DEF RecvWait, Rest
  <1>11. ASSUME NEW e \in Peers, NullMrCrash(e) PROVE Rest'
    <2>1. pc' \in [Peers -> Labels] /\ MemTypeOK' /\ LogTypeOK'
      BY <1>1, <1>11, CrashOK DEF NullMrCrash, procVars
    <2> QED
      BY <1>1, <1>11, <2>1, SameProc DEF NullMrCrash, procVars, Rest
  <1>12. ASSUME NEW e \in Peers, PrintSha1sum(e) PROVE Rest'
    <2>1. pc' \in [Peers -> Labels]
      BY <1>1, <1>3, <1>12, GotoOK DEF PrintSha1sum
    <2>2. \A d \in Peers : Indices(d)' = Indices(d)
      BY <1>12 DEF PrintSha1sum, procVars, Indices, Count
    <2>3. mem[e] \in [Indices(e) -> Values]
      BY <1>1 DEF MemTypeOK
    <2>4. /\ DOMAIN sha' = Peers
          /\ \A d \in Peers : sha'[d] \in {<< >>} \union [Indices(d) -> Values]
      BY <1>1, <1>12, <2>3 DEF PrintSha1sum, LogTypeOK
    <2>5. LogTypeOK'
      BY <1>1, <1>12, <2>2, <2>4 DEF PrintSha1sum, LogTypeOK
    <2> QED
      BY <1>1, <1>12, <2>1, <2>5, SameProc, SameMem DEF PrintSha1sum, Rest, procVars
  <1>13. ASSUME NEW e \in Peers, DeallocateBuffer(e) PROVE Rest'
    <2>1. CASE Crash(e)
      <3>1. pc' \in [Peers -> Labels] /\ MemTypeOK' /\ LogTypeOK'
        BY <1>1, <1>13, <2>1, CrashOK DEF DeallocateBuffer, procVars
      <3> QED
        BY <1>1, <1>13, <3>1, SameProc DEF DeallocateBuffer, procVars, Rest
    <2>2. CASE /\ bufs' = [bufs EXCEPT ![e] = "freed"]
               /\ Goto(e, "disconnect") /\ UNCHANGED <<qp, listenEp>>
      <3>1. pc' \in [Peers -> Labels]
        BY <1>1, <1>3, <2>2, GotoOK
      <3>2. bufs' \in [Peers -> BufStates]
        BY <1>1, <2>2 DEF BufStates
      <3>3. MemTypeOK'
        BY <1>1, <1>13, <3>2 DEF DeallocateBuffer, MemTypeOK, procVars, Indices, Count
      <3> QED
        BY <1>1, <1>13, <2>2, <3>1, <3>3, SameProc, SameLog, LogKept
           DEF DeallocateBuffer, procVars, Rest
    <2> QED
      BY <1>13, <2>1, <2>2 DEF DeallocateBuffer
  <1> QED
    BY <1>4, <1>5, <1>6, <1>7, <1>8, <1>9, <1>10, <1>11, <1>12, <1>13

\* The NICs move data between the buffers, and nothing else.
LEMMA NicKeepsTypes ==
    ASSUME IInv, NEW e \in Peers, Nic(e) \/ FabricFails(e)
    PROVE  Rest'
  <1>1. /\ ProcTypeOK /\ MemTypeOK /\ LogTypeOK
        /\ pc \in [Peers -> Labels] /\ rv \in [Peers -> Int]
        /\ listenEp \in {"none", "open", "gone"}
        /\ Peer(e) \in Peers /\ Peer(e) # e
    BY DEF IInv, Rest, ProcTypeOK, LogTypeOK, Peers, Peer
  <1>2. /\ UNCHANGED <<params, pc, rv, n, round, failed, bad, bufs, nullmr, remote>>
        /\ UNCHANGED <<listenEp, logVars>>
    BY DEF Nic, NicExecute, NicAck, NicTimeout, FabricFails, procVars, memVars
  <1>3. \A d \in Peers : Indices(d)' = Indices(d)
    BY <1>2 DEF Indices, Count
  <1>4. ASSUME DOMAIN mem' = Peers, rcount' \in Nat,
               \A d \in Peers : mem'[d] \in [Indices(d) -> Values]
        PROVE  Rest'
    <2>1. MemTypeOK'
      BY <1>1, <1>2, <1>3, <1>4 DEF MemTypeOK, Peers
    <2> QED
      BY <1>1, <1>2, <2>1, SameProc, SameLog, LogKept DEF Rest
  <1>5. /\ DOMAIN mem = Peers /\ rcount \in Nat
        /\ \A d \in Peers : mem[d] \in [Indices(d) -> Values]
    BY <1>1 DEF MemTypeOK
  <1>6. CASE UNCHANGED <<mem, rcount>>
    BY <1>4, <1>5, <1>6
  <1>7. ASSUME NEW d \in Peers, NEW i, NEW v \in Values,
               mem' = [mem EXCEPT ![d][i] = v]
        PROVE  /\ DOMAIN mem' = Peers
               /\ \A x \in Peers : mem'[x] \in [Indices(x) -> Values]
    <2>1. [mem[d] EXCEPT ![i] = v] \in [Indices(d) -> Values]
      BY <1>5
    <2>2. mem' = [mem EXCEPT ![d] = [mem[d] EXCEPT ![i] = v]]
      BY <1>7
    <2> HIDE DEF Values
    <2> QED
      BY <1>5, <2>1, <2>2
  <1>8. CASE NicExecute(e)
    <2> DEFINE wr == qp[e].sq[qp[e].sent + 1]
               p  == Peer(e)
    <2>1. wr \in Mine(e)
      BY <1>8, ExecutedRequest DEF NicExecute, IInv, QpInv
    <2>2. CASE DeliverSend(e, wr)
      <3>1. Content(e, wr) \in Values
        <4>1. CASE wr.kind = "data"
          BY <1>5, <2>1, <4>1 DEF Content, Mine
        <4>2. CASE wr.kind # "data"
          BY <4>2 DEF Content, Values
        <4> QED
          BY <4>1, <4>2
      <3>2. rcount' \in Nat
        <4>1. Count(e) \in Nat
          BY <1>1, ParamAssumption DEF ProcTypeOK, Params, Count
        <4> QED
          BY <1>5, <2>2, <4>1 DEF DeliverSend
      <3>3. mem' = mem \/ mem' = [mem EXCEPT ![p][Head(qp[p].rq).n] = Content(e, wr)]
        BY <2>2 DEF DeliverSend
      <3> HIDE DEF wr
      <3> QED
        BY <1>1, <1>4, <1>5, <1>7, <3>1, <3>2, <3>3
    <2>3. CASE wr.op # "send" /\ RemoteOk(e, wr) /\ ServeOneSided(e, wr) /\ rcount' = rcount
      <3>1. wr.n \in Indices(e) /\ e = "client"
        BY <2>1, <2>3 DEF Mine
      <3>2. Target(wr) \in Indices(p)
        <4> HIDE DEF wr
        <4>1. remote[wr.n] \in {Addr(i) : i \in Indices(Peer(e))} /\ p = Peer(e)
          BY <2>3 DEF RemoteOk
        <4>2. PICK i \in Indices(Peer(e)) : remote[wr.n] = <<0, i>>
          BY <4>1, Zenon DEF Addr
        <4>3. remote[wr.n][2] = i
          BY <4>2
        <4> QED
          BY <4>1, <4>2, <4>3 DEF Target
      <3>3. mem[e][wr.n] \in Values /\ mem[p][Target(wr)] \in Values
        BY <1>1, <1>5, <3>1, <3>2
      <3>4. \/ mem' = [mem EXCEPT ![p][Target(wr)] = mem[e][wr.n]]
            \/ mem' = [mem EXCEPT ![e][wr.n] = mem[p][Target(wr)]]
        BY <2>3 DEF ServeOneSided
      <3> HIDE DEF wr
      <3> QED
        BY <1>1, <1>4, <1>5, <1>7, <2>3, <3>3, <3>4
    <2> QED
      BY <1>6, <1>8, <2>2, <2>3 DEF NicExecute
  <1>9. CASE NicAck(e) \/ NicTimeout(e) \/ FabricFails(e)
    BY <1>6, <1>9 DEF NicAck, NicTimeout, FabricFails, memVars
  <1> QED
    BY <1>8, <1>9 DEF Nic

-----------------------------------------------------------------------------
\* IInv holds in the initial states.
LEMMA InitIInv == Init => IInv
  <1> SUFFICES ASSUME Init PROVE IInv
    OBVIOUS
  <1>1. params \in Params /\ Count("client") \in Nat \ {0}
        /\ Count("server") \in Nat \ {0}
    BY ParamAssumption DEF Init, Params, Count
  <1>2. ProcTypeOK
    <2>1. pc \in [Peers -> Labels]
      <3>1. "start" \in Labels
        BY DEF Labels
      <3> QED
        BY <3>1 DEF Init
    <2>2. \A e \in Peers : n[e] \in Indices(e)
      BY <1>1 DEF Init, Peers, Indices
    <2>3. bad \in BOOLEAN /\ params \in ParamSet
      BY Zenon DEF Init
    <2>4. /\ rv \in [Peers -> Int] /\ n \in [Peers -> Nat]
          /\ round \in [Peers -> Nat] /\ failed \in [Peers -> Nat]
      BY DEF Init
    <2> QED
      BY <2>1, <2>2, <2>3, <2>4, Zenon DEF ProcTypeOK
  <1>3. MemTypeOK
    BY <1>1 DEF Init, MemTypeOK, Peers, BufStates, Indices, Values, NullAddr
  <1>4. LogTypeOK
    BY <1>1 DEF Init, LogTypeOK, Peers, Indices
  <1>5. QpInv
    <2>1. "none" \in QpStates
      BY DEF QpStates
    <2>2. \A e \in Peers : Good(e, NewQp("none")) /\ qp[e] = NewQp("none")
      BY <2>1, NewQpAccounted, NewQpHolds, NewQpFailuresLast DEF Good, Init
    <2>3. NewQp("none") \in QueuePairs
      BY <2>1, NewQpAccounted DEF Accounted
    <2> QED
      BY <2>2, <2>3 DEF QpInv, Init
  <1> QED
    BY <1>2, <1>3, <1>4, <1>5 DEF IInv, Rest

\* Every step of the processes and of the NICs preserves IInv.
LEMMA NextIInv == IInv /\ [Next]_vars => IInv'
  <1> SUFFICES ASSUME IInv, [Next]_vars PROVE IInv'
    OBVIOUS
  <1>1. CASE ClientStep \/ ServerStep
    <2>1. Rest'
      BY <1>1, SetupKeepsTypes, RoundsKeepTypes
         DEF ClientStep, ServerStep, Teardown, Peers
    <2> QED
      BY <1>1, <2>1, ProcessKeepsQps DEF IInv
  <1>2. CASE \E e \in Peers : Nic(e) \/ FabricFails(e)
    BY <1>2, NicKeepsTypes, NicKeepsQps DEF IInv
  <1>3. CASE UNCHANGED vars
    <2>1. Rest'
      BY <1>3, SameProc, SameMem, SameLog, LogKept
         DEF vars, memVars, logVars, IInv, Rest, ProcTypeOK, LogTypeOK
    <2> QED
      BY <1>3, <2>1, QpSame DEF vars, IInv
  <1> QED
    BY <1>1, <1>2, <1>3 DEF Next, Step, Stopped

\* Every variable keeps its type, whatever the parameters and the faults:
\* TypeOK is an invariant of the session.
THEOREM TypeCorrect == Spec => []TypeOK
  <1>1. IInv => TypeOK
    BY DEF IInv, Rest, QpInv, TypeOK
  <1> QED
    BY <1>1, InitIInv, NextIInv, PTL DEF Spec

-----------------------------------------------------------------------------
(***************************************************************************)
(* What each process can rely on: the completion it takes is that of its    *)
(* own request, nothing is outstanding on memory it gives back, the time    *)
(* stamps it reports are of the round it reports, and no path out of run()  *)
(* leaves an endpoint behind.                                               *)
(*                                                                          *)
(* None of these is inductive.  Here says what the queue pair of a process  *)
(* owes it at each label (the phases of VerbsProofs); it needs no knowledge *)
(* of the peer, because whatever the NICs do to a queue pair keeps its      *)
(* phase.  It is lost with the first ibv_poll_cq that fails: the call gives *)
(* up on a request that is still posted.                                    *)
(***************************************************************************)

Control(kind) == [kind |-> kind, n |-> 0]

\* The send side of e's queue pair q when e is at label l, request k.
SendAt(e, l, q, k) ==
    /\ l \notin SendWaits(e) \union {"post"} => Idle(q)
    /\ l = "post" => Posting(q, "data", k - 1)
    /\ l = "wait" => Awaiting(q, "data")
    /\ l = "send_mr_count" => Awaiting(q, "count")
    /\ l = "send_mr_array" => Awaiting(q, "array")
    /\ l = "end_wait" /\ e = "client" => Awaiting(q, "end")

\* The receive side.
RecvAt(e, l, q, k) ==
    /\ l \notin RecvWaits(e) => RecvIdle(q)
    /\ l = "get_mr_count" => RecvOne(q, Control("count"))
    /\ l = "get_mr_array" => RecvOne(q, Control("array"))
    /\ l = "recv_wait" => RecvOne(q, [kind |-> "data", n |-> k])
    /\ l = "end_wait" /\ e = "server" => RecvOne(q, Control("end"))

At(e, l, q, k) == SendAt(e, l, q, k) /\ RecvAt(e, l, q, k)

Here(e) == At(e, pc[e], qp[e], n[e])

HereAfter(e) == At(e, pc'[e], qp'[e], n'[e])

Locals == \A e \in Peers : At(e, pc[e], qp[e], n[e])

\* It holds of a process until one of its polls fails.
LocalInv == \A e \in Peers : IF blind[e] THEN ~Polls ELSE Here(e)

\* The signaled request the client waits for has been accepted.
SignalInv ==
    /\ ~blind["client"] /\ params.count <= MAX_WR
    /\ pc["client"] = "wait" /\ qp["client"].state = "rts"
    => Signals(qp["client"])

\* Buffers are freed by the last step before the disconnect, or by the end of
\* the process.
BufInv ==
    \A e \in Peers : bufs[e] = "freed" => pc[e] \in {"disconnect", "done", "crashed"}

-----------------------------------------------------------------------------
(* One queue pair at one label.                                             *)

Quiet(q) == Idle(q) /\ RecvIdle(q)

\* A quiet queue pair suits every label where nothing is received.
LEMMA QuietAnywhere ==
    ASSUME NEW e \in Peers, NEW q, Accounted(q), Quiet(q),
           NEW l, l \notin RecvWaits(e), NEW k \in Nat, k > 0
    PROVE  At(e, l, q, k)
  <1>1. /\ Idle(q) /\ RecvIdle(q) /\ k - 1 \in Nat
        /\ ~(l = "end_wait" /\ e = "server")
    BY DEF Quiet, RecvWaits
  <1>2. Posting(q, "data", k - 1)
    BY <1>1, IdlePosts
  <1>3. \A kind : Awaiting(q, kind)
    <2>1. Len(q.sq) = 0
      BY <1>1 DEF Idle
    <2> QED
      BY <1>1, <2>1 DEF Idle, Awaiting
  <1>4. SendAt(e, l, q, k)
    BY <1>1, <1>2, <1>3 DEF SendAt
  <1>5. RecvAt(e, l, q, k)
    BY <1>1 DEF RecvAt, RecvWaits
  <1> QED
    BY <1>4, <1>5 DEF At

\* Where nothing is awaited the queue pair is quiet.
LEMMA QuietBetween ==
    ASSUME NEW e \in Peers, NEW l, NEW q, NEW k, At(e, l, q, k),
           l \notin SendWaits(e) \union {"post"} \union RecvWaits(e)
    PROVE  Quiet(q)
  BY DEF At, SendAt, RecvAt, Quiet

\* The labels where it is.
Settled == {"start", "tos", "connect", "connecting", "get_request", "allocate",
            "get_mr", "send_mr", "report", "recv_post", "end_post", "sha",
            "deallocate", "disconnect", "done", "crashed"}

LEMMA SettledLabels ==
    ASSUME NEW e \in Peers, NEW l \in Settled
    PROVE  l \notin SendWaits(e) \union {"post"} \union RecvWaits(e)
  BY DEF Settled, SendWaits, RecvWaits

LEMMA LandingLabels ==
    ASSUME NEW e \in Peers, NEW l \in Settled \union {"post"}
    PROVE  l \notin RecvWaits(e)
  BY DEF Settled, RecvWaits

\* A receive is posted.
LEMMA RecvPosted ==
    ASSUME NEW e \in Peers, NEW q, Accounted(q), Quiet(q),
           NEW kind \in Kinds, NEW i \in Nat, NEW l, NEW k,
           \/ kind = "count" /\ i = 0 /\ l = "get_mr_count"
           \/ kind = "array" /\ i = 0 /\ l = "get_mr_array"
           \/ kind = "data" /\ i = k /\ l = "recv_wait"
           \/ kind = "end" /\ i = 0 /\ l = "end_wait" /\ e = "server"
    PROVE  At(e, l, PostRecv(q, kind, i), k)
  <1> DEFINE r == PostRecv(q, kind, i)
  <1>1. RecvOne(r, [kind |-> kind, n |-> i])
    BY PostRecvOne DEF Quiet
  <1>2. Idle(r)
    BY SidesKept, SendPhasesSame DEF Quiet
  <1> HIDE DEF r
  <1>3. RecvAt(e, l, r, k)
    BY <1>1 DEF RecvAt, RecvWaits, Control
  <1>4. SendAt(e, l, r, k)
    BY <1>2 DEF SendAt
  <1> QED
    BY <1>3, <1>4 DEF At, r

\* A control message is posted.
LEMMA SendPosted ==
    ASSUME NEW e \in Peers, NEW q, Accounted(q), Quiet(q),
           NEW kind \in Kinds, NEW l, NEW k,
           \/ kind = "count" /\ l = "send_mr_count"
           \/ kind = "array" /\ l = "send_mr_array"
           \/ kind = "end" /\ l = "end_wait" /\ e = "client"
    PROVE  At(e, l, PostSend(q, "send", kind, 0, TRUE), k)
  <1> DEFINE r == PostSend(q, "send", kind, 0, TRUE)
  <1>1. Posting(q, kind, 0)
    BY IdlePosts DEF Quiet
  <1>2. Awaiting(r, kind)
    BY <1>1, PostSignaled
  <1>3. RecvIdle(r)
    BY SidesKept, RecvPhasesSame DEF Quiet
  <1> HIDE DEF r
  <1>4. SendAt(e, l, r, k)
    BY <1>2 DEF SendAt, SendWaits
  <1>5. RecvAt(e, l, r, k)
    BY <1>3 DEF RecvAt
  <1> QED
    BY <1>4, <1>5 DEF At, r

\* A receive has been waited for.
LEMMA RecvPolled ==
    ASSUME NEW e \in Peers, Good(e, qp[e]), NEW k,
           At(e, pc[e], qp[e], k), pc[e] \in RecvWaits(e), NEW c \in RecvComp(e),
           c.polled
    PROVE  /\ Quiet(c.q) /\ Accounted(c.q)
           /\ qp[e].rcq = <<Head(qp[e].rcq)>> /\ c.q = PollRecv(qp[e])
           /\ c.rv = IF Head(qp[e].rcq).ok THEN 1 ELSE -1
  <1>1. Accounted(qp[e])
    BY DEF Good
  <1>2. /\ qp[e].rcq # << >> /\ c.q = PollRecv(qp[e])
        /\ c.rv = IF Head(qp[e].rcq).ok THEN 1 ELSE -1
    BY DEF RecvComp, PollFails
  <1>3. \E b : RecvOne(qp[e], b)
    BY DEF At, RecvAt, RecvWaits
  <1>4. RecvIdle(c.q) /\ qp[e].rcq = <<Head(qp[e].rcq)>>
    BY <1>1, <1>2, <1>3, PollRecvOne
  <1>5. Idle(qp[e])
    BY DEF At, SendAt, SendWaits, RecvWaits, Peers
  <1>6. Idle(c.q)
    BY <1>1, <1>2, <1>5, SidesKept, SendPhasesSame
  <1>7. Accounted(c.q)
    BY <1>1, <1>2, PollRecvAccounted
  <1> QED
    BY <1>2, <1>4, <1>6, <1>7 DEF Quiet

\* A send has been waited for.
LEMMA SendPolled ==
    ASSUME NEW e \in Peers, Good(e, qp[e]), NEW k,
           At(e, pc[e], qp[e], k), pc[e] \in SendWaits(e), NEW c \in SendComp(e),
           c.polled
    PROVE  /\ Quiet(c.q) /\ Accounted(c.q)
           /\ qp[e].scq # << >> /\ c.q = PollSend(qp[e])
           /\ c.rv = IF Head(qp[e].scq).ok THEN 1 ELSE -1
           /\ c.rv > 0 => Unretired(c.q) = 0
  <1>1. Accounted(qp[e]) /\ FailuresLast(qp[e])
    BY DEF Good
  <1>2. /\ qp[e].scq # << >> /\ c.q = PollSend(qp[e])
        /\ c.rv = IF Head(qp[e].scq).ok THEN 1 ELSE -1
    BY DEF SendComp, PollFails
  <1>3. \E kind : Awaiting(qp[e], kind)
    BY DEF At, SendAt, SendWaits
  <1>4. Idle(c.q) /\ (Head(qp[e].scq).ok => Unretired(c.q) = 0)
    BY <1>1, <1>2, <1>3, PollAwaited
  <1>5. RecvIdle(qp[e])
    BY DEF At, RecvAt, SendWaits, RecvWaits, Peers
  <1>6. RecvIdle(c.q)
    BY <1>1, <1>2, <1>5, SidesKept, RecvPhasesSame
  <1>7. Accounted(c.q)
    BY <1>1, <1>2, PollSendAccounted
  <1> QED
    BY <1>2, <1>4, <1>6, <1>7 DEF Quiet

\* Where polling is reliable, it works.
LEMMA PollsWork ==
    ASSUME Polls, NEW e
    PROVE  /\ \A c \in SendComp(e) : c.polled
           /\ \A c \in RecvComp(e) : c.polled
  BY DEF Polls, MayFail, SendComp, RecvComp, PollFails

-----------------------------------------------------------------------------
(* A step of a process.                                                     *)

\* What the steps below start from.
LEMMA StepFacts ==
    ASSUME IInv, Locals
    PROVE  /\ pc \in [Peers -> Labels] /\ n \in [Peers -> Nat]
           /\ qp \in [Peers -> QueuePairs]
           /\ "client" \in Peers /\ "server" \in Peers
           /\ \A e \in Peers : /\ n[e] > 0 /\ n[e] \in Nat
                               /\ Good(e, qp[e]) /\ Accounted(qp[e])
                               /\ At(e, pc[e], qp[e], n[e])
  <1>1. /\ pc \in [Peers -> Labels] /\ n \in [Peers -> Nat]
        /\ \A e \in Peers : n[e] \in Indices(e)
    BY DEF IInv, Rest, ProcTypeOK
  <1>2. \A e \in Peers : n[e] > 0 /\ n[e] \in Nat
    BY <1>1 DEF Indices
  <1>3. qp \in [Peers -> QueuePairs] /\ \A e \in Peers : Good(e, qp[e])
    BY DEF IInv, QpInv
  <1> QED
    BY <1>1, <1>2, <1>3 DEF Good, Locals, Peers

\* The same of one process.
LEMMA ProcFacts ==
    ASSUME IInv, NEW e \in Peers
    PROVE  /\ pc \in [Peers -> Labels] /\ n \in [Peers -> Nat]
           /\ qp \in [Peers -> QueuePairs] /\ DOMAIN blind = Peers
           /\ n[e] > 0 /\ n[e] \in Nat /\ Good(e, qp[e]) /\ Accounted(qp[e])
  <1>1. /\ pc \in [Peers -> Labels] /\ n \in [Peers -> Nat]
        /\ n[e] \in Indices(e) /\ DOMAIN blind = Peers
    BY DEF IInv, Rest, ProcTypeOK, LogTypeOK
  <1>2. n[e] > 0 /\ n[e] \in Nat
    BY <1>1 DEF Indices
  <1>3. qp \in [Peers -> QueuePairs] /\ Good(e, qp[e])
    BY DEF IInv, QpInv
  <1> QED
    BY <1>1, <1>2, <1>3 DEF Good

\* A process moves.
LEMMA ActorStep ==
    ASSUME IInv, NEW e \in Peers, NEW l, NEW q,
           pc' = [pc EXCEPT ![e] = l], qp' = [qp EXCEPT ![e] = q],
           At(e, l, q, n'[e])
    PROVE  HereAfter(e)
  <1>1. pc'[e] = l /\ qp'[e] = q
    BY ProcFacts
  <1> QED
    BY <1>1 DEF HereAfter

\* It moves on without touching its queue pair.
LEMMA MoveOn ==
    ASSUME IInv, NEW e \in Peers, Here(e), NEW l \in Settled \union {"post"},
           pc[e] \in Settled,
           pc' = [pc EXCEPT ![e] = l], qp' = qp, n' = n
    PROVE  HereAfter(e)
  <1>1. l \notin RecvWaits(e)
    BY LandingLabels
  <1>2. Quiet(qp[e]) /\ Accounted(qp[e])
    BY ProcFacts, QuietBetween, SettledLabels DEF Here
  <1>3. At(e, l, qp[e], n[e])
    BY <1>1, <1>2, ProcFacts, QuietAnywhere
  <1>4. qp' = [qp EXCEPT ![e] = qp[e]]
    BY ProcFacts
  <1> QED
    BY <1>3, <1>4, ActorStep

\* It moves on with a quiet queue pair.
LEMMA MoveQuiet ==
    ASSUME IInv, NEW e \in Peers, NEW l \in Settled \union {"post"},
           NEW q, Quiet(q), Accounted(q), n' \in [Peers -> Nat], n'[e] > 0,
           pc' = [pc EXCEPT ![e] = l], qp' = [qp EXCEPT ![e] = q]
    PROVE  HereAfter(e)
  <1>1. l \notin RecvWaits(e)
    BY LandingLabels
  <1>2. At(e, l, q, n'[e])
    BY <1>1, QuietAnywhere
  <1> QED
    BY <1>2, ActorStep

\* The same, when the index stays.
LEMMA MoveQuietSame ==
    ASSUME IInv, NEW e \in Peers, NEW l \in Settled \union {"post"},
           NEW q, Quiet(q), Accounted(q), n' = n,
           pc' = [pc EXCEPT ![e] = l], qp' = [qp EXCEPT ![e] = q]
    PROVE  HereAfter(e)
  <1>1. n' \in [Peers -> Nat] /\ n'[e] > 0
    BY ProcFacts
  <1> QED
    BY <1>1, MoveQuiet

\* The labels control goes to.
LEMMA NextLabels ==
    ASSUME NEW e \in Peers
    PROVE  /\ RoundStart(e) \in Settled \union {"post"}
           /\ AfterAllocate(e) \in Settled \union {"post"}
           /\ AfterRound(e) \in Settled \union {"post"}
  BY DEF RoundStart, AfterAllocate, AfterRound, Settled

\* The end of a request leaves the other process where it is.
LEMMA NextRequestMoves ==
    ASSUME IInv, IInv', NEW e \in Peers, NEW f, NEW again, NEW finished,
           NextRequest(e, f, again, finished)
    PROVE  /\ n' \in [Peers -> Nat] /\ n'[e] > 0
           /\ \A d \in Peers \ {e} : n'[d] = n[d]
           /\ n[e] < Count(e) => n'[e] = n[e] + 1 /\ pc' = [pc EXCEPT ![e] = again]
           /\ ~(n[e] < Count(e)) => n'[e] = 1 /\ pc' = [pc EXCEPT ![e] = finished]
  <1>1. n \in [Peers -> Nat] /\ n' \in [Peers -> Nat] /\ n'[e] \in Indices(e)'
    BY DEF IInv, Rest, ProcTypeOK
  <1>2. n'[e] > 0
    BY <1>1 DEF Indices
  <1>3. CASE n[e] < Count(e)
    BY <1>1, <1>2, <1>3 DEF NextRequest, Goto
  <1>4. CASE ~(n[e] < Count(e))
    BY <1>1, <1>2, <1>4 DEF NextRequest, Goto
  <1> QED
    BY <1>3, <1>4

-----------------------------------------------------------------------------
(* What a process is owed is kept.                                          *)

\* Endpoints that are new or destroyed are quiet.
LEMMA QuietEndpoints ==
    ASSUME IInv, NEW e \in Peers
    PROVE  /\ \A s \in QpStates : Quiet(NewQp(s)) /\ Accounted(NewQp(s))
           /\ Quiet(Destroyed(qp[e])) /\ Accounted(Destroyed(qp[e]))
  <1>1. Accounted(qp[e])
    BY DEF IInv, QpInv, Good
  <1> QED
    BY <1>1, EndpointsIdle, NewQpAccounted, DestroyedAccounted DEF Quiet

\* A process that dies.
LEMMA CrashKeepsLocals ==
    ASSUME IInv, NEW e \in Peers, Crash(e), n' = n
    PROVE  HereAfter(e)
  <1>1. /\ pc' = [pc EXCEPT ![e] = "crashed"]
        /\ qp' = [qp EXCEPT ![e] = Destroyed(qp[e])]
    BY DEF Crash, Goto, SetQp
  <1>2. "crashed" \in Settled \union {"post"}
    BY DEF Settled
  <1>3. Quiet(Destroyed(qp[e])) /\ Accounted(Destroyed(qp[e]))
    BY QuietEndpoints
  <1> QED
    BY <1>1, <1>2, <1>3, MoveQuietSame

\* Connecting leaves both processes with a new queue pair.
LEMMA AcceptKeepsLocals ==
    ASSUME IInv, NEW e \in Peers, Accept
    PROVE  HereAfter(e)
  <1>1. pc'[e] = "allocate" /\ qp'[e] = NewQp("rts") /\ n'[e] = n[e] /\ "rts" \in QpStates
    BY DEF Accept, procVars, QpStates
  <1>2. Quiet(NewQp("rts")) /\ Accounted(NewQp("rts")) /\ n[e] \in Nat /\ n[e] > 0
    BY <1>1, QuietEndpoints, ProcFacts
  <1>3. "allocate" \notin RecvWaits(e)
    BY DEF RecvWaits
  <1>4. At(e, "allocate", NewQp("rts"), n[e])
    BY <1>2, <1>3, QuietAnywhere
  <1> QED
    BY <1>1, <1>4 DEF HereAfter

\* The other steps that set the connection up, and those that only move on.
LEMMA ClientSetupKeepsLocals ==
    ASSUME IInv, Here("client"),
           ClientCreateEp \/ SetTos \/ RdmaConnect \/ Report
    PROVE  HereAfter("client")
  <1>1. "client" \in Peers /\ "server" \in Peers
    BY DEF Peers
  <1>2. {"none", "idle", "rts", "gone"} \subseteq QpStates
    BY DEF QpStates
  <1>3. /\ {"start", "tos", "connect", "connecting", "get_request", "allocate",
            "report", "sha", "deallocate", "disconnect", "done"} \subseteq Settled
        /\ Settled \subseteq Settled \union {"post"}
    BY DEF Settled
  <1>4. CASE ClientCreateEp
    <2>1. pc["client"] = "start" /\ n' = n
      BY <1>4 DEF ClientCreateEp
    <2>2. CASE qp' = [qp EXCEPT !["client"] = NewQp("idle")]
               /\ pc' = [pc EXCEPT !["client"] = "tos"]
      <3>1. Quiet(NewQp("idle")) /\ Accounted(NewQp("idle"))
        BY <1>1, <1>2, QuietEndpoints
      <3> QED
        BY <1>1, <1>3, <2>1, <2>2, <3>1, MoveQuietSame
    <2>3. CASE qp' = qp /\ pc' = [pc EXCEPT !["client"] = "done"]
      BY <1>1, <1>3, <2>1, <2>3, MoveOn
    <2> QED
      BY <1>4, <2>2, <2>3 DEF ClientCreateEp, SetQp, Goto
  <1>5. CASE SetTos
    <2>1. /\ pc["client"] = "tos" /\ n' = n /\ qp' = qp
          /\ \E l \in {"connect", "done"} : pc' = [pc EXCEPT !["client"] = l]
      BY <1>5 DEF SetTos, Goto
    <2> QED
      BY <1>1, <1>3, <2>1, MoveOn
  <1>6. CASE RdmaConnect
    <2>1. n' = n /\ pc["client"] \in {"connect", "connecting"}
      BY <1>6 DEF RdmaConnect
    <2>2. CASE qp' = qp /\ pc' = [pc EXCEPT !["client"] = "connecting"]
      BY <1>1, <1>3, <2>1, <2>2, MoveOn
    <2>3. CASE qp' = [qp EXCEPT !["client"] = Destroyed(qp["client"])]
               /\ pc' = [pc EXCEPT !["client"] = "done"]
      <3>1. Quiet(Destroyed(qp["client"])) /\ Accounted(Destroyed(qp["client"]))
        BY <1>1, QuietEndpoints
      <3> QED
        BY <1>1, <1>3, <2>1, <2>3, <3>1, MoveQuietSame
    <2> QED
      BY <1>6, <2>2, <2>3 DEF RdmaConnect, ConnectFails, SetQp, Goto
  <1>7. CASE Report
    <2>1. /\ pc["client"] = "report" /\ n' = n /\ qp' = qp
          /\ pc' = [pc EXCEPT !["client"] = AfterRound("client")]
      BY <1>7 DEF Report, Goto
    <2>2. AfterRound("client") \in Settled \union {"post"}
      BY <1>1, NextLabels
    <2> QED
      BY <1>1, <1>3, <2>1, <2>2, MoveOn
  <1> QED
    BY <1>4, <1>5, <1>6, <1>7

LEMMA ServerSetupKeepsLocals ==
    ASSUME IInv, Here("server"), Listen \/ AcceptFails
    PROVE  HereAfter("server")
  <1>1. "client" \in Peers /\ "server" \in Peers
    BY DEF Peers
  <1>2. {"none", "idle", "rts", "gone"} \subseteq QpStates
    BY DEF QpStates
  <1>3. /\ {"start", "tos", "connect", "connecting", "get_request", "allocate",
            "report", "sha", "deallocate", "disconnect", "done"} \subseteq Settled
        /\ Settled \subseteq Settled \union {"post"}
    BY DEF Settled
  <1>4. CASE Listen
    <2>1. /\ pc["server"] = "start" /\ n' = n /\ qp' = qp
          /\ \E l \in {"get_request", "done"} : pc' = [pc EXCEPT !["server"] = l]
      BY <1>4 DEF Listen, Goto
    <2> QED
      BY <1>1, <1>3, <2>1, MoveOn
  <1>5. CASE AcceptFails
    <2>1. PICK s \in {"none", "gone"} : qp' = [qp EXCEPT !["server"] = NewQp(s)]
      BY <1>5 DEF AcceptFails, SetQp
    <2>2. n' = n /\ pc' = [pc EXCEPT !["server"] = "done"]
      BY <1>5 DEF AcceptFails, Goto
    <2>3. Quiet(NewQp(s)) /\ Accounted(NewQp(s))
      BY <1>1, <1>2, <2>1, QuietEndpoints
    <2> QED
      BY <1>1, <1>3, <2>1, <2>2, <2>3, MoveQuietSame
  <1> QED
    BY <1>4, <1>5

LEMMA LeavingKeepsLocals ==
    ASSUME IInv, NEW e \in Peers, Here(e),
           \/ AllocateBuffer(e) \/ NullMrCrash(e) \/ PrintSha1sum(e)
           \/ DeallocateBuffer(e) \/ Disconnect(e)
    PROVE  HereAfter(e)
  <1>3. /\ {"allocate", "sha", "deallocate", "disconnect", "done"} \subseteq Settled
        /\ Settled \subseteq Settled \union {"post"}
    BY DEF Settled
  <1>4. CASE AllocateBuffer(e)
    <2>1. /\ pc[e] = "allocate" /\ n' = n /\ qp' = qp
          /\ pc' = [pc EXCEPT ![e] = AfterAllocate(e)]
      BY <1>4 DEF AllocateBuffer, Goto
    <2>2. AfterAllocate(e) \in Settled \union {"post"}
      BY NextLabels
    <2> QED
      BY <1>3, <2>1, <2>2, MoveOn
  <1>5. CASE NullMrCrash(e)
    BY <1>5, CrashKeepsLocals DEF NullMrCrash, procVars
  <1>6. CASE PrintSha1sum(e)
    <2>1. /\ pc[e] = "sha" /\ n' = n /\ qp' = qp
          /\ pc' = [pc EXCEPT ![e] = "deallocate"]
      BY <1>6 DEF PrintSha1sum, Goto, procVars
    <2> QED
      BY <1>3, <2>1, MoveOn
  <1>7. CASE DeallocateBuffer(e)
    <2>1. pc[e] = "deallocate" /\ n' = n
      BY <1>7 DEF DeallocateBuffer, procVars
    <2>2. Crash(e) \/ (qp' = qp /\ pc' = [pc EXCEPT ![e] = "disconnect"])
      BY <1>7 DEF DeallocateBuffer, Goto
    <2>3. CASE Crash(e)
      BY <2>1, <2>3, CrashKeepsLocals
    <2>4. CASE qp' = qp /\ pc' = [pc EXCEPT ![e] = "disconnect"]
      BY <1>3, <2>1, <2>4, MoveOn
    <2> QED
      BY <2>2, <2>3, <2>4
  <1>8. CASE Disconnect(e)
    <2>1. /\ n' = n /\ pc' = [pc EXCEPT ![e] = "done"]
          /\ qp' = [qp EXCEPT ![e] = Destroyed(qp[e])]
      BY <1>8 DEF Disconnect, Goto, SetQp, procVars
    <2>2. Quiet(Destroyed(qp[e])) /\ Accounted(Destroyed(qp[e]))
      BY QuietEndpoints
    <2> QED
      BY <1>3, <2>1, <2>2, MoveQuietSame
  <1> QED
    BY <1>4, <1>5, <1>6, <1>7, <1>8

\* A poll that works finds what was waited for, and leaves the queue quiet.
LEMMA PolledQuiet ==
    ASSUME IInv, NEW e \in Peers, Here(e), NEW c, Polled(e, c), ~blind'[e]
    PROVE  /\ c.polled
           /\ pc[e] \in RecvWaits(e) /\ c \in RecvComp(e)
              => Quiet(c.q) /\ Accounted(c.q)
           /\ pc[e] \in SendWaits(e) /\ c \in SendComp(e)
              => Quiet(c.q) /\ Accounted(c.q)
  <1>1. Good(e, qp[e]) /\ At(e, pc[e], qp[e], n[e])
    BY ProcFacts DEF Here
  <1>2. c.polled
    BY ProcFacts DEF Polled
  <1>3. ASSUME pc[e] \in RecvWaits(e), c \in RecvComp(e)
        PROVE  Quiet(c.q) /\ Accounted(c.q)
    BY <1>1, <1>2, <1>3, RecvPolled
  <1>4. ASSUME pc[e] \in SendWaits(e), c \in SendComp(e)
        PROVE  Quiet(c.q) /\ Accounted(c.q)
    BY <1>1, <1>2, <1>4, SendPolled
  <1> QED
    BY <1>2, <1>3, <1>4

\* A quiet queue pair posts a receive or a control message.
LEMMA PostMoves ==
    ASSUME IInv, NEW e \in Peers, NEW q, Accounted(q), Quiet(q), n' = n,
           NEW l, pc' = [pc EXCEPT ![e] = l],
           \/ \E kind \in Kinds, i \in Nat :
                 /\ \/ kind = "count" /\ i = 0 /\ l = "get_mr_count"
                    \/ kind = "array" /\ i = 0 /\ l = "get_mr_array"
                    \/ kind = "data" /\ i = n[e] /\ l = "recv_wait"
                    \/ kind = "end" /\ i = 0 /\ l = "end_wait" /\ e = "server"
                 /\ qp' = [qp EXCEPT ![e] = PostRecv(q, kind, i)]
           \/ \E kind \in Kinds :
                 /\ \/ kind = "count" /\ l = "send_mr_count"
                    \/ kind = "array" /\ l = "send_mr_array"
                    \/ kind = "end" /\ l = "end_wait" /\ e = "client"
                 /\ qp' = [qp EXCEPT ![e] = PostSend(q, "send", kind, 0, TRUE)]
    PROVE  HereAfter(e)
  <1>1. ASSUME NEW kind \in Kinds, NEW i \in Nat,
               \/ kind = "count" /\ i = 0 /\ l = "get_mr_count"
               \/ kind = "array" /\ i = 0 /\ l = "get_mr_array"
               \/ kind = "data" /\ i = n[e] /\ l = "recv_wait"
               \/ kind = "end" /\ i = 0 /\ l = "end_wait" /\ e = "server",
               qp' = [qp EXCEPT ![e] = PostRecv(q, kind, i)]
        PROVE  HereAfter(e)
    <2>1. At(e, l, PostRecv(q, kind, i), n[e])
      BY <1>1, RecvPosted
    <2> QED
      BY <1>1, <2>1, ActorStep
  <1>2. ASSUME NEW kind \in Kinds,
               \/ kind = "count" /\ l = "send_mr_count"
               \/ kind = "array" /\ l = "send_mr_array"
               \/ kind = "end" /\ l = "end_wait" /\ e = "client",
               qp' = [qp EXCEPT ![e] = PostSend(q, "send", kind, 0, TRUE)]
        PROVE  HereAfter(e)
    <2>1. At(e, l, PostSend(q, "send", kind, 0, TRUE), n[e])
      BY <1>2, SendPosted
    <2> QED
      BY <1>2, <2>1, ActorStep
  <1> QED
    BY <1>1, <1>2

\* The memory-region exchange.
LEMMA GettingKeepsLocals ==
    ASSUME IInv, Here("client"), ~blind'["client"],
           GetMrInfo \/ GetMrCount \/ GetMrArray
    PROVE  HereAfter("client")
  <1>1. "client" \in Peers /\ "server" \in Peers /\ {"count", "array"} \subseteq Kinds
        /\ 0 \in Nat
    BY DEF Peers, Kinds
  <1>2. /\ {"get_mr", "deallocate"} \subseteq Settled
        /\ "deallocate" \in Settled \union {"post"}
        /\ RoundStart("client") \in Settled \union {"post"}
    BY <1>1, NextLabels DEF Settled
  <1>3. CASE GetMrInfo
    <2>1. pc["client"] = "get_mr" /\ n' = n
      BY <1>3 DEF GetMrInfo
    <2>2. CASE /\ pc' = [pc EXCEPT !["client"] = "get_mr_count"]
               /\ qp' = [qp EXCEPT !["client"] = PostRecv(qp["client"], "count", 0)]
      <3>1. Quiet(qp["client"]) /\ Accounted(qp["client"])
        BY <1>1, <1>2, <2>1, ProcFacts, QuietBetween, SettledLabels DEF Here
      <3> QED
        BY <1>1, <2>1, <2>2, <3>1, PostMoves
    <2>3. CASE qp' = qp /\ pc' = [pc EXCEPT !["client"] = "deallocate"]
      BY <1>1, <1>2, <2>1, <2>3, MoveOn
    <2> QED
      BY <1>3, <2>2, <2>3 DEF GetMrInfo, RecvControl, RegisterFails, SetQp, Goto
  <1>4. CASE GetMrCount
    <2>1. PICK c \in RecvComp("client") : Polled("client", c) /\
            (\/ /\ qp' = [qp EXCEPT !["client"] = c.q]
                /\ pc' = [pc EXCEPT !["client"] = "deallocate"]
             \/ /\ qp' = [qp EXCEPT !["client"] = c.q]
                /\ pc' = [pc EXCEPT !["client"] = RoundStart("client")]
             \/ /\ qp' = [qp EXCEPT !["client"] = PostRecv(c.q, "array", 0)]
                /\ pc' = [pc EXCEPT !["client"] = "get_mr_array"])
      BY <1>4 DEF GetMrCount, SetQp, Goto
    <2>2. pc["client"] \in RecvWaits("client") /\ n' = n
      BY <1>4 DEF GetMrCount, RecvWaits
    <2>3. Quiet(c.q) /\ Accounted(c.q)
      BY <1>1, <2>1, <2>2, PolledQuiet
    <2>4. CASE /\ qp' = [qp EXCEPT !["client"] = PostRecv(c.q, "array", 0)]
               /\ pc' = [pc EXCEPT !["client"] = "get_mr_array"]
      BY <1>1, <2>2, <2>3, <2>4, PostMoves
    <2>5. CASE /\ qp' = [qp EXCEPT !["client"] = c.q]
               /\ \E l \in Settled \union {"post"} : pc' = [pc EXCEPT !["client"] = l]
      BY <1>1, <2>2, <2>3, <2>5, MoveQuietSame
    <2> QED
      BY <1>2, <2>1, <2>4, <2>5
  <1>5. CASE GetMrArray
    <2>1. PICK c \in RecvComp("client") :
             /\ Polled("client", c)
             /\ qp' = [qp EXCEPT !["client"] = c.q]
             /\ \/ pc' = [pc EXCEPT !["client"] = "deallocate"]
                \/ pc' = [pc EXCEPT !["client"] = RoundStart("client")]
      BY <1>5 DEF GetMrArray, SetQp, Goto
    <2>2. pc["client"] \in RecvWaits("client") /\ n' = n
      BY <1>5 DEF GetMrArray, RecvWaits
    <2>3. Quiet(c.q) /\ Accounted(c.q)
      BY <1>1, <2>1, <2>2, PolledQuiet
    <2>4. PICK l \in Settled \union {"post"} : pc' = [pc EXCEPT !["client"] = l]
      BY <1>2, <2>1
    <2> QED
      BY <1>1, <2>1, <2>2, <2>3, <2>4, MoveQuietSame
  <1> QED
    BY <1>3, <1>4, <1>5

LEMMA SendingKeepsLocals ==
    ASSUME IInv, Here("server"), ~blind'["server"],
           SendMrInfo \/ SendMrCount \/ SendMrArray
    PROVE  HereAfter("server")
  <1>1. "client" \in Peers /\ "server" \in Peers /\ {"count", "array"} \subseteq Kinds
        /\ 0 \in Nat
    BY DEF Peers, Kinds
  <1>2. /\ {"send_mr", "deallocate"} \subseteq Settled
        /\ "deallocate" \in Settled \union {"post"}
        /\ RoundStart("server") \in Settled \union {"post"}
    BY <1>1, NextLabels DEF Settled
  <1>3. CASE SendMrInfo
    <2>1. pc["server"] = "send_mr" /\ n' = n
      BY <1>3 DEF SendMrInfo
    <2>2. CASE Crash("server")
      BY <1>1, <2>1, <2>2, CrashKeepsLocals
    <2>3. CASE SendControl("server", "count", "send_mr_count")
               /\ CanPost(qp["server"])
      <3>1. /\ pc' = [pc EXCEPT !["server"] = "send_mr_count"]
            /\ qp' = [qp EXCEPT !["server"] =
                         PostSend(qp["server"], "send", "count", 0, TRUE)]
        BY <2>3 DEF SendControl, SetQp, Goto
      <3>2. Quiet(qp["server"]) /\ Accounted(qp["server"])
        BY <1>1, <1>2, <2>1, ProcFacts, QuietBetween, SettledLabels DEF Here
      <3> QED
        BY <1>1, <2>1, <3>1, <3>2, PostMoves
    <2>4. CASE qp' = qp /\ pc' = [pc EXCEPT !["server"] = "deallocate"]
      BY <1>1, <1>2, <2>1, <2>4, MoveOn
    <2> QED
      BY <1>3, <2>2, <2>3, <2>4 DEF SendMrInfo, SendControl, RegisterFails, Goto
  <1>4. CASE SendMrCount
    <2>1. PICK c \in SendComp("server") : Polled("server", c) /\
            (\/ /\ qp' = [qp EXCEPT !["server"] = c.q]
                /\ pc' = [pc EXCEPT !["server"] = "deallocate"]
             \/ /\ qp' = [qp EXCEPT !["server"] =
                             PostSend(c.q, "send", "array", 0, TRUE)]
                /\ pc' = [pc EXCEPT !["server"] = "send_mr_array"])
      BY <1>4 DEF SendMrCount, SetQp, Goto
    <2>2. pc["server"] \in SendWaits("server") /\ n' = n
      BY <1>4 DEF SendMrCount, SendWaits
    <2>3. Quiet(c.q) /\ Accounted(c.q)
      BY <1>1, <2>1, <2>2, PolledQuiet
    <2>4. CASE /\ qp' = [qp EXCEPT !["server"] =
                            PostSend(c.q, "send", "array", 0, TRUE)]
               /\ pc' = [pc EXCEPT !["server"] = "send_mr_array"]
      BY <1>1, <2>2, <2>3, <2>4, PostMoves
    <2>5. CASE /\ qp' = [qp EXCEPT !["server"] = c.q]
               /\ pc' = [pc EXCEPT !["server"] = "deallocate"]
      BY <1>1, <1>2, <2>2, <2>3, <2>5, MoveQuietSame
    <2> QED
      BY <2>1, <2>4, <2>5
  <1>5. CASE SendMrArray
    <2>1. PICK c \in SendComp("server") :
             /\ Polled("server", c)
             /\ qp' = [qp EXCEPT !["server"] = c.q]
             /\ \/ pc' = [pc EXCEPT !["server"] = "deallocate"]
                \/ pc' = [pc EXCEPT !["server"] = RoundStart("server")]
      BY <1>5 DEF SendMrArray, SetQp, Goto
    <2>2. pc["server"] \in SendWaits("server") /\ n' = n
      BY <1>5 DEF SendMrArray, SendWaits
    <2>3. Quiet(c.q) /\ Accounted(c.q)
      BY <1>1, <2>1, <2>2, PolledQuiet
    <2>4. PICK l \in Settled \union {"post"} : pc' = [pc EXCEPT !["server"] = l]
      BY <1>2, <2>1
    <2> QED
      BY <1>1, <2>1, <2>2, <2>3, <2>4, MoveQuietSame
  <1> QED
    BY <1>3, <1>4, <1>5

\* The indices of the client's loop.
LEMMA ClientIndex ==
    ASSUME IInv
    PROVE  /\ n["client"] \in Nat /\ n["client"] > 0 /\ n["client"] <= params.count
           /\ n["client"] - 1 \in Nat /\ params.count \in Nat
           /\ params.verb \in {"send", "read", "write"}
           /\ Count("client") = params.count
  <1>1. params \in Params /\ n["client"] \in Indices("client") /\ n \in [Peers -> Nat]
    BY ParamAssumption DEF IInv, Rest, ProcTypeOK, Peers
  <1>2. params.count \in Nat /\ params.verb \in {"send", "read", "write"}
    BY <1>1 DEF Params
  <1>3. Count("client") = params.count
    BY DEF Count
  <1>4. /\ n["client"] \in 1..params.count
    BY <1>1, <1>3 DEF Indices
  <1> QED
    BY <1>2, <1>3, <1>4

\* A request is posted.
LEMMA PostKeepsLocals ==
    ASSUME IInv, IInv', Here("client"), PostRequest
    PROVE  HereAfter("client")
  <1> DEFINE k == n["client"]
             r == PostSend(qp["client"], params.verb, "data", k, Signaled(k))
  <1>1. /\ "client" \in Peers /\ "data" \in Kinds
        /\ Accounted(qp["client"]) /\ At("client", "post", qp["client"], k)
    BY ProcFacts DEF PostRequest, Peers, Kinds, Here
  <1>2. Posting(qp["client"], "data", k - 1) /\ RecvIdle(qp["client"])
    BY <1>1 DEF At, SendAt, RecvAt, RecvWaits
  <1>3. RecvIdle(r)
    BY <1>1, <1>2, SidesKept, RecvPhasesSame
  <1>4. /\ k \in Nat /\ k - 1 \in Nat /\ k > 0 /\ k <= params.count
        /\ k - 1 + 1 = k /\ k + 1 - 1 = k /\ params.count \in Nat
        /\ params.verb \in {"send", "read", "write"} /\ Count("client") = params.count
    BY ClientIndex
  <1>5. qp' = [qp EXCEPT !["client"] = r]
    BY DEF PostRequest, SetQp
  <1>6. CASE Signaled(k)
    <2>1. r = PostSend(qp["client"], params.verb, "data", k, TRUE)
      BY <1>6 DEF Signaled
    <2>2. Awaiting(r, "data")
      BY <1>1, <1>2, <1>4, <2>1, PostSignaled
    <2>3. pc' = [pc EXCEPT !["client"] = "wait"] /\ n' = n
      BY <1>6 DEF PostRequest, Goto
    <2> HIDE DEF r
    <2>4. At("client", "wait", r, k)
      BY <1>3, <2>2 DEF At, SendAt, RecvAt, SendWaits, RecvWaits
    <2> QED
      BY <1>1, <1>5, <2>3, <2>4, ActorStep
  <1>7. CASE ~Signaled(k)
    <2>1. r = PostSend(qp["client"], params.verb, "data", k, FALSE)
      BY <1>7 DEF Signaled
    <2>2. Posting(r, "data", k)
      BY <1>1, <1>2, <1>4, <2>1, PostUnsignaled
    <2>3. NextRequest("client", ~CanPost(qp["client"]), "post", "report")
      BY <1>7 DEF PostRequest
    <2>4. k < params.count
      BY <1>4, <1>7 DEF Signaled
    <2>5. /\ n'["client"] = k + 1 /\ pc' = [pc EXCEPT !["client"] = "post"]
          /\ \A d \in Peers \ {"client"} : n'[d] = n[d]
      BY <1>1, <1>4, <2>3, <2>4, NextRequestMoves
    <2> HIDE DEF r, k
    <2>6. At("client", "post", r, k + 1)
      BY <1>3, <1>4, <2>2 DEF At, SendAt, RecvAt, SendWaits, RecvWaits
    <2> QED
      BY <1>1, <1>5, <2>5, <2>6, ActorStep
  <1> QED
    BY <1>6, <1>7

\* The end of a request leaves a quiet queue pair.
LEMMA EndOfRequest ==
    ASSUME IInv, IInv', NEW e \in Peers, NEW q, Quiet(q), Accounted(q),
           NEW f, NEW again \in Settled \union {"post"},
           NEW finished \in Settled \union {"post"},
           NextRequest(e, f, again, finished), qp' = [qp EXCEPT ![e] = q]
    PROVE  HereAfter(e)
  <1>1. /\ n' \in [Peers -> Nat] /\ n'[e] > 0
        /\ \E l \in Settled \union {"post"} : pc' = [pc EXCEPT ![e] = l]
    BY NextRequestMoves
  <1> QED
    BY <1>1, MoveQuiet

\* The rest of the rounds.
LEMMA WaitKeepsLocals ==
    ASSUME IInv, IInv', Here("client"), ~blind'["client"], WaitRequest
    PROVE  HereAfter("client")
  <1>1. "client" \in Peers
    BY DEF Peers
  <1>2. {"report", "post"} \subseteq Settled \union {"post"}
    BY DEF Settled
  <1>3. PICK c \in SendComp("client") :
             /\ Polled("client", c)
             /\ qp' = [qp EXCEPT !["client"] = c.q]
             /\ NextRequest("client", bad \/ c.rv < 0, "post", "report")
      BY DEF WaitRequest, SetQp
  <1>4. Quiet(c.q) /\ Accounted(c.q)
      BY <1>1, <1>3, <1>3, PolledQuiet DEF WaitRequest, SendWaits
  <1> QED
      BY <1>1, <1>2, <1>3, <1>4, EndOfRequest

LEMMA RecvKeepsLocals ==
    ASSUME IInv, IInv', Here("server"), ~blind'["server"], RecvPost \/ RecvWait
    PROVE  HereAfter("server")
  <1>1. "client" \in Peers /\ "server" \in Peers /\ {"data", "end"} \subseteq Kinds
        /\ 0 \in Nat
    BY DEF Peers, Kinds
  <1>2. /\ "recv_post" \in Settled /\ "recv_post" \in Settled \union {"post"}
        /\ AfterRound("server") \in Settled \union {"post"}
    BY <1>1, NextLabels DEF Settled
  <1>3. CASE RecvPost
    <2>1. /\ pc["server"] = "recv_post" /\ n' = n
          /\ pc' = [pc EXCEPT !["server"] = "recv_wait"]
          /\ qp' = [qp EXCEPT !["server"] =
                       PostRecv(qp["server"], "data", n["server"])]
      BY <1>3 DEF RecvPost, SetQp, Goto
    <2>2. Quiet(qp["server"]) /\ Accounted(qp["server"]) /\ n["server"] \in Nat
      BY <1>1, <1>2, <2>1, ProcFacts, QuietBetween, SettledLabels DEF Here
    <2> QED
      BY <1>1, <2>1, <2>2, PostMoves
  <1>4. CASE RecvWait
    <2>1. PICK c \in RecvComp("server") :
             /\ Polled("server", c)
             /\ qp' = [qp EXCEPT !["server"] = c.q]
             /\ NextRequest("server", c.rv < 0, "recv_post", AfterRound("server"))
      BY <1>4 DEF RecvWait, SetQp
    <2>2. Quiet(c.q) /\ Accounted(c.q)
      BY <1>1, <1>4, <2>1, PolledQuiet DEF RecvWait, RecvWaits
    <2> QED
      BY <1>1, <1>2, <2>1, <2>2, EndOfRequest
  <1> QED
    BY <1>3, <1>4

\* The terminating message.
LEMMA EndKeepsLocals ==
    ASSUME IInv, NEW e \in Peers, Here(e), ~blind'[e], EndPost(e) \/ EndWait(e)
    PROVE  HereAfter(e)
  <1>1. {"data", "end"} \subseteq Kinds /\ 0 \in Nat
    BY DEF Kinds
  <1>2. /\ {"end_post", "deallocate", "sha"} \subseteq Settled
        /\ {"deallocate", "sha"} \subseteq Settled \union {"post"}
    BY DEF Settled
  <1>3. CASE EndPost(e)
    <2>1. pc[e] = "end_post" /\ n' = n
      BY <1>3 DEF EndPost
    <2>2. Quiet(qp[e]) /\ Accounted(qp[e])
      BY <1>2, <2>1, ProcFacts, QuietBetween, SettledLabels DEF Here
    <2>3. CASE e = "client" /\ pc' = [pc EXCEPT ![e] = "end_wait"]
               /\ qp' = [qp EXCEPT ![e] = PostSend(qp[e], "send", "end", 0, TRUE)]
      BY <1>1, <2>1, <2>2, <2>3, PostMoves
    <2>4. CASE e = "server" /\ pc' = [pc EXCEPT ![e] = "end_wait"]
               /\ qp' = [qp EXCEPT ![e] = PostRecv(qp[e], "end", 0)]
      BY <1>1, <2>1, <2>2, <2>4, PostMoves
    <2>5. CASE qp' = qp /\ pc' = [pc EXCEPT ![e] = "deallocate"]
      BY <1>2, <2>1, <2>5, MoveOn
    <2> QED
      BY <1>3, <2>3, <2>4, <2>5
         DEF EndPost, SendControl, RecvControl, RegisterFails, SetQp, Goto
  <1>4. CASE EndWait(e)
    <2>1. PICK c \in IF e = "client" THEN SendComp(e) ELSE RecvComp(e) :
             /\ Polled(e, c)
             /\ qp' = [qp EXCEPT ![e] = c.q]
             /\ pc' = [pc EXCEPT ![e] = IF c.rv < 0 THEN "deallocate" ELSE "sha"]
      BY <1>4 DEF EndWait, SetQp, Goto
    <2>2. pc[e] = "end_wait" /\ n' = n
      BY <1>4 DEF EndWait
    <2>3. IF e = "client" THEN pc[e] \in SendWaits(e) ELSE pc[e] \in RecvWaits(e)
      BY <2>2 DEF SendWaits, RecvWaits, Peers
    <2>4. Quiet(c.q) /\ Accounted(c.q)
      BY <2>1, <2>3, PolledQuiet
    <2>5. PICK l \in Settled \union {"post"} : pc' = [pc EXCEPT ![e] = l]
      BY <1>2, <2>1
    <2> QED
      BY <2>1, <2>2, <2>4, <2>5, MoveQuietSame
  <1> QED
    BY <1>3, <1>4

\* A step of the NICs moves the queue pairs and nothing a process looks at.
LEMMA NicMoves ==
    ASSUME IInv, NEW e \in Peers, Nic(e) \/ FabricFails(e)
    PROVE  /\ \A d \in Peers : NicMove(qp[d], qp'[d])
           /\ UNCHANGED <<pc, procVars, bufs, nullmr, remote, listenEp, logVars>>
  <1>1. /\ qp \in [Peers -> QueuePairs] /\ Peer(e) \in Peers /\ Peer(e) # e
        /\ \A d \in Peers : Good(d, qp[d])
    BY DEF IInv, QpInv, Peers, Peer
  <1>2. UNCHANGED <<pc, procVars, bufs, nullmr, remote, listenEp, logVars>>
    BY DEF Nic, NicExecute, NicAck, NicTimeout, FabricFails, procVars, memVars, logVars
  <1> SUFFICES \A d \in Peers : NicMove(qp[d], qp'[d])
    BY <1>2
  <1>3. ASSUME NEW q, qp' = [qp EXCEPT ![e] = q], NicMove(qp[e], q)
        PROVE  \A d \in Peers : NicMove(qp[d], qp'[d])
    <2>1. \A d \in Peers : qp'[d] = IF d = e THEN q ELSE qp[d]
      BY <1>1, <1>3
    <2>2. \A d \in Peers : NicMove(qp[d], qp[d])
      BY DEF NicMove
    <2> QED
      BY <1>3, <2>1, <2>2
  <1>4. CASE qp[e].state = "rts" /\ qp' = [qp EXCEPT ![e] = Flushed(qp[e])]
    <2>1. NicMove(qp[e], Flushed(qp[e]))
      BY <1>4 DEF NicMove
    <2> QED
      BY <1>3, <1>4, <2>1
  <1>5. CASE NicExecute(e)
    <2> DEFINE wr == qp[e].sq[qp[e].sent + 1]
    <2>1. /\ qp[e].state = "rts" /\ qp[e].sent < Len(qp[e].sq)
          /\ \/ qp' = [qp EXCEPT ![e] = Flushed(qp[e])]
             \/ /\ qp[Peer(e)].state = "rts"
                /\ DeliverSend(e, wr) \/ ServeOneSided(e, wr) \/ FlushedBoth
      BY <1>5 DEF NicExecute, SetQp
    <2>2. wr \in Mine(e)
      BY <1>1, <2>1, ExecutedRequest
    <2>3. NicMove(qp[e], Executed(qp[e]))
      BY <2>1 DEF NicMove
    <2>4. CASE ServeOneSided(e, wr)
      <3>1. qp' = [qp EXCEPT ![e] = Executed(qp[e])]
        BY <2>4 DEF ServeOneSided, SetQp
      <3> QED
        BY <1>3, <2>3, <3>1
    <2>5. CASE FlushedBoth /\ qp[Peer(e)].state = "rts"
      <3>1. \A d \in Peers : qp[d].state = "rts"
        BY <2>1, <2>5 DEF Peers, Peer
      <3> QED
        BY <2>5, <3>1 DEF FlushedBoth, NicMove
    <2>6. CASE DeliverSend(e, wr) /\ qp[Peer(e)].state = "rts" /\ ~FlushedBoth
      <3> DEFINE p == Peer(e)
                 m == [kind |-> wr.kind, n |-> wr.n]
      <3>1. m \in Buffers
        BY <2>2 DEF Mine, WorkRequests, Buffers
      <3>2. /\ qp[p].rq # << >>
            /\ qp' = [qp EXCEPT ![e] = Executed(@), ![p] = Received(@, m)]
        BY <2>6 DEF DeliverSend
      <3> HIDE DEF m
      <3>3. \A d \in Peers : qp'[d] = IF d = e THEN Executed(qp[e])
                                      ELSE Received(qp[p], m)
        BY <1>1, <3>2 DEF Peers, Peer
      <3>4. NicMove(qp[p], Received(qp[p], m))
        BY <3>1, <3>2 DEF NicMove
      <3>5. \A d \in Peers : d # e => d = p
        BY DEF Peers, Peer
      <3> QED
        BY <2>3, <3>3, <3>4, <3>5
    <2> QED
      BY <1>4, <2>1, <2>4, <2>5, <2>6
  <1>6. CASE NicAck(e)
    <2>1. qp[e].sent > 0 /\ qp' = [qp EXCEPT ![e] = Acknowledged(qp[e])]
      BY <1>6 DEF NicAck, SetQp
    <2>2. NicMove(qp[e], Acknowledged(qp[e]))
      BY <2>1 DEF NicMove
    <2> QED
      BY <1>3, <2>1, <2>2
  <1>7. CASE NicTimeout(e)
    BY <1>4, <1>7 DEF NicTimeout, SetQp
  <1>8. CASE FabricFails(e)
    BY <1>4, <1>8 DEF FabricFails, SetQp
  <1> QED
    BY <1>5, <1>6, <1>7, <1>8 DEF Nic

\* Whatever a NIC does to a queue pair keeps its phase.
LEMMA NicKeepsAt ==
    ASSUME NEW e \in Peers, NEW l, NEW q, NEW r, NEW k, Accounted(q),
           NicMove(q, r), At(e, l, q, k)
    PROVE  At(e, l, r, k)
  <1>1. SendAt(e, l, q, k) /\ RecvAt(e, l, q, k)
    BY DEF At
  <1>2. SendAt(e, l, r, k)
    <2>1. Idle(q) => Idle(r)
      BY NicKeepsIdle
    <2>2. Posting(q, "data", k - 1) => Posting(r, "data", k - 1)
      BY NicKeepsPosting
    <2>3. \A kind : Awaiting(q, kind) => Awaiting(r, kind)
      BY NicKeepsAwaiting
    <2> QED
      BY <1>1, <2>1, <2>2, <2>3 DEF SendAt
  <1>3. RecvAt(e, l, r, k)
    <2>1. /\ RecvIdle(q) => RecvIdle(r)
          /\ \A b : RecvOne(q, b) => RecvOne(r, b)
      BY NicKeepsRecv
    <2> QED
      BY <1>1, <2>1 DEF RecvAt
  <1> QED
    BY <1>2, <1>3 DEF At

LEMMA NicKeepsLocals ==
    ASSUME IInv, NEW d \in Peers, Here(d), NEW e \in Peers, Nic(e) \/ FabricFails(e)
    PROVE  HereAfter(d)
  <1>1. NicMove(qp[d], qp'[d]) /\ pc' = pc /\ n' = n
    BY NicMoves DEF procVars
  <1>2. Accounted(qp[d]) /\ At(d, pc[d], qp[d], n[d])
    BY ProcFacts DEF Here
  <1>3. At(d, pc[d], qp'[d], n[d])
    BY <1>1, <1>2, NicKeepsAt
  <1> QED
    BY <1>1, <1>3 DEF HereAfter

-----------------------------------------------------------------------------
(* What a step of one process leaves alone.                                 *)

\* Everything of process d is as it was.
Kept(d) == /\ pc'[d] = pc[d] /\ rv'[d] = rv[d] /\ n'[d] = n[d]
           /\ round'[d] = round[d] /\ bufs'[d] = bufs[d] /\ mem'[d] = mem[d]
           /\ qp'[d] = qp[d] /\ lost'[d] = lost[d] /\ failed'[d] = failed[d]
           /\ sha'[d] = sha[d] /\ blind'[d] = blind[d] /\ nullmr'[d] = nullmr[d]

LEMMA TypedFunctions ==
    ASSUME IInv
    PROVE  /\ DOMAIN pc = Peers /\ DOMAIN rv = Peers /\ DOMAIN n = Peers
           /\ DOMAIN round = Peers /\ DOMAIN bufs = Peers /\ DOMAIN mem = Peers
           /\ DOMAIN qp = Peers /\ DOMAIN lost = Peers
           /\ DOMAIN failed = Peers /\ DOMAIN sha = Peers
           /\ DOMAIN blind = Peers /\ DOMAIN nullmr = Peers
           /\ "client" \in Peers /\ "server" \in Peers
  BY DEF IInv, Rest, ProcTypeOK, MemTypeOK, LogTypeOK, QpInv, Peers

LEMMA TeardownFrame ==
    ASSUME IInv, NEW e \in Peers, NEW d \in Peers, d # e,
           \/ Teardown(e) \/ AllocateBuffer(e) \/ NullMrCrash(e)
    PROVE  /\ Kept(d) /\ UNCHANGED <<params, remote, rcount, start, end, bad>>
           /\ e = "client" => listenEp' = listenEp
  <1>1. CASE EndPost(e)
    BY <1>1, TypedFunctions, ZenonT(60) DEF EndPost, SendControl, RecvControl, RegisterFails, SetQp,
       Goto, Return, Kept, memVars, logVars
  <1>1b. CASE EndWait(e)
    <2>1. PICK c, l : SetQp(e, c.q) /\ Return(e, c.rv) /\ Goto(e, l) /\ Polled(e, c)
      BY <1>1b DEF EndWait
    <2>2. UNCHANGED <<params, n, round, failed, bad, memVars, listenEp, noteVars>>
      BY <1>1b DEF EndWait
    <2> QED
      BY <2>1, <2>2, TypedFunctions DEF SetQp, Goto, Return, Polled, Kept, memVars, noteVars
  <1>2. CASE PrintSha1sum(e) \/ Disconnect(e)
    BY <1>2, TypedFunctions DEF PrintSha1sum, Disconnect, SetQp, Goto, Return, Kept, memVars,
       logVars, procVars
  <1>3. CASE DeallocateBuffer(e) \/ NullMrCrash(e)
    BY <1>3, TypedFunctions DEF DeallocateBuffer, NullMrCrash, Crash, SetQp, Goto, Return, Kept,
       logVars, procVars
  <1>4. CASE AllocateBuffer(e)
    BY <1>4, TypedFunctions DEF AllocateBuffer, SetQp, Goto, Return, Kept, logVars
  <1> QED
    BY <1>1, <1>1b, <1>2, <1>3, <1>4 DEF Teardown

LEMMA ClientFrame ==
    ASSUME IInv, ClientStep
    PROVE  Kept("server") /\ UNCHANGED <<params, rcount, listenEp>>
  <1>1. "client" \in Peers /\ "server" \in Peers
    BY DEF Peers
  <1>2. CASE ClientCreateEp \/ SetTos \/ RdmaConnect
    BY <1>2, TypedFunctions DEF ClientCreateEp, SetTos, RdmaConnect, ConnectFails, SetQp, Goto,
       Return, Kept, memVars, logVars
  <1>3. CASE GetMrInfo \/ GetMrCount \/ GetMrArray
    BY <1>3, TypedFunctions DEF GetMrInfo, GetMrCount, GetMrArray, RecvControl, RegisterFails, SetQp,
       Goto, Return, Kept, memVars, logVars, noteVars, Polled
  <1>4. CASE PostRequest \/ WaitRequest
    BY <1>4, TypedFunctions DEF PostRequest, WaitRequest, NextRequest, SetQp, Goto, Return, Kept,
       memVars, logVars, Polled
  <1>5. CASE Report
    BY <1>5, TypedFunctions DEF Report, Goto, Kept, memVars, logVars
  <1>6. CASE \/ Teardown("client") \/ AllocateBuffer("client")
             \/ NullMrCrash("client")
    BY <1>1, <1>6, TeardownFrame
  <1> QED
    BY <1>2, <1>3, <1>4, <1>5, <1>6 DEF ClientStep

LEMMA ServerFrame ==
    ASSUME IInv, ServerStep
    PROVE  /\ Accept \/ Kept("client")
           /\ UNCHANGED <<params, remote, rcount, start, end, bad>>
  <1>1. "client" \in Peers /\ "server" \in Peers
    BY DEF Peers
  <1>2. CASE Listen \/ AcceptFails
    BY <1>2, TypedFunctions DEF Listen, AcceptFails, SetQp, Goto, Return, Kept, memVars, logVars
  <1>3. CASE Accept
    BY <1>3 DEF Accept, procVars, memVars, logVars
  <1>4. CASE SendMrInfo \/ SendMrCount \/ SendMrArray
    BY <1>4, TypedFunctions DEF SendMrInfo, SendMrCount, SendMrArray, SendControl, RegisterFails,
       Crash, SetQp, Goto, Return, Kept, memVars, logVars, noteVars, Polled
  <1>5. CASE RecvPost \/ RecvWait
    BY <1>5, TypedFunctions DEF RecvPost, RecvWait, NextRequest, SetQp, Goto, Return, Kept,
       memVars, logVars, procVars, Polled
  <1>6. CASE \/ Teardown("server") \/ AllocateBuffer("server")
             \/ NullMrCrash("server")
    BY <1>1, <1>6, TeardownFrame
  <1> QED
    BY <1>2, <1>3, <1>4, <1>5, <1>6 DEF ServerStep

-----------------------------------------------------------------------------
(* LocalInv is kept.                                                        *)

\* A failed poll stays failed, and takes a session in which polls may fail.
LEMMA BlindGrows ==
    ASSUME IInv, [Next]_vars, NEW e \in Peers, ~blind[e], blind'[e]
    PROVE  ~Polls'
  <1>1. "client" \in Peers /\ "server" \in Peers
    BY DEF Peers
  <1>2. ASSUME NEW c, c \in SendComp(e) \union RecvComp(e), Polled(e, c),
               params' = params
        PROVE  ~Polls'
    <2>1. ~c.polled
      BY <1>2, TypedFunctions DEF Polled
    <2>2. ~Polls
      BY <1>2, <2>1, PollsWork
    <2> QED
      BY <1>2, <2>2 DEF Polls, MayFail
  <1>3. CASE ClientStep
    <2>1. e = "client"
      BY <1>3, ClientFrame DEF Kept, Peers
    <2>2. blind' # blind
      OBVIOUS
    <2>3. PICK c \in SendComp(e) \union RecvComp(e) : Polled(e, c)
      BY <1>3, <2>1, <2>2 DEF ClientStep, ClientCreateEp, SetTos, RdmaConnect,
         AllocateBuffer, GetMrInfo, GetMrCount, GetMrArray, PostRequest, WaitRequest,
         Report, NullMrCrash, Teardown, EndPost, EndWait, PrintSha1sum,
         DeallocateBuffer, Disconnect, logVars
    <2> QED
      BY <1>2, <1>3, <2>3, ClientFrame
  <1>4. CASE ServerStep
    <2>1. blind' # blind
      OBVIOUS
    <2>2. ~Accept
      BY <2>1 DEF Accept, logVars
    <2>3. e = "server"
      BY <1>4, <2>2, ServerFrame DEF Kept, Peers
    <2>4. PICK c \in SendComp(e) \union RecvComp(e) : Polled(e, c)
      BY <1>4, <2>1, <2>3 DEF ServerStep, Listen, Accept, AcceptFails,
         AllocateBuffer, SendMrInfo, SendMrCount, SendMrArray, RecvPost, RecvWait,
         NullMrCrash, Teardown, EndPost, EndWait, PrintSha1sum,
         DeallocateBuffer, Disconnect, logVars
    <2> QED
      BY <1>2, <1>4, <2>4, ServerFrame
  <1>5. CASE \E d \in Peers : Nic(d) \/ FabricFails(d)
    BY <1>5, NicMoves DEF logVars
  <1>6. CASE UNCHANGED vars
    BY <1>6 DEF vars
  <1> QED
    BY <1>3, <1>4, <1>5, <1>6 DEF Next, Step, Stopped

\* A poll that has failed is not forgotten.
LEMMA BlindStays ==
    ASSUME IInv, [Next]_vars, NEW e \in Peers, blind[e]
    PROVE  blind'[e]
  <1>1. \A c : Polled("client", c) \/ Polled("server", c) => blind'[e]
    BY TypedFunctions DEF Polled, Peers
  <1>2. CASE ClientStep \/ ServerStep
    BY <1>1, <1>2 DEF ClientStep, ClientCreateEp, SetTos, RdmaConnect,
       AllocateBuffer, GetMrInfo, GetMrCount, GetMrArray, PostRequest, WaitRequest,
       Report, NullMrCrash, Teardown, EndPost, EndWait, PrintSha1sum,
       DeallocateBuffer, Disconnect, ServerStep, Listen, Accept, AcceptFails,
       SendMrInfo, SendMrCount, SendMrArray, RecvPost, RecvWait, logVars
  <1>3. CASE \E d \in Peers : Nic(d) \/ FabricFails(d)
    BY <1>3, NicMoves DEF logVars
  <1>4. CASE UNCHANGED vars
    BY <1>4 DEF vars
  <1> QED
    BY <1>2, <1>3, <1>4 DEF Next, Step, Stopped

\* A process that has polled without failure keeps what it is owed.
LEMMA NextHere ==
    ASSUME IInv, IInv', [Next]_vars, NEW e \in Peers, Here(e), ~blind'[e]
    PROVE  HereAfter(e)
  <1>1. ASSUME Kept(e) PROVE HereAfter(e)
    BY <1>1 DEF Kept, Here, HereAfter
  <1>2. CASE Accept
    BY <1>2, AcceptKeepsLocals
  <1>3. CASE AllocateBuffer(e) \/ NullMrCrash(e) \/ Teardown(e)
    BY <1>3, LeavingKeepsLocals, EndKeepsLocals DEF Teardown
  <1>4. CASE ClientStep /\ e = "client"
    BY <1>3, <1>4, ClientSetupKeepsLocals, GettingKeepsLocals, PostKeepsLocals,
       WaitKeepsLocals DEF ClientStep
  <1>5. CASE ServerStep /\ e = "server"
    BY <1>2, <1>3, <1>5, ServerSetupKeepsLocals, SendingKeepsLocals,
       RecvKeepsLocals DEF ServerStep
  <1>6. CASE ClientStep /\ e = "server"
    BY <1>1, <1>6, ClientFrame
  <1>7. CASE ServerStep /\ e = "client"
    BY <1>1, <1>2, <1>7, ServerFrame
  <1>8. CASE \E d \in Peers : Nic(d) \/ FabricFails(d)
    BY <1>8, NicKeepsLocals
  <1>9. CASE UNCHANGED vars
    BY <1>9 DEF vars, Here, HereAfter
  <1> QED
    BY <1>4, <1>5, <1>6, <1>7, <1>8, <1>9 DEF Next, Step, Stopped, Peers

LEMMA NextLocals == IInv /\ LocalInv /\ [Next]_vars => LocalInv'
  <1> SUFFICES ASSUME IInv, LocalInv, [Next]_vars PROVE LocalInv'
    OBVIOUS
  <1>1. IInv' /\ params' = params
    <2>1. CASE ClientStep \/ ServerStep
      BY <2>1, ClientFrame, ServerFrame, NextIInv
    <2>2. CASE \E e \in Peers : Nic(e) \/ FabricFails(e)
      BY <2>2, NicMoves, NextIInv DEF procVars
    <2> QED
      BY <2>1, <2>2, NextIInv DEF Next, Step, Stopped, vars
  <1>2. Polls' <=> Polls
    BY <1>1 DEF Polls, MayFail
  <1>3. ASSUME NEW e \in Peers PROVE IF blind'[e] THEN ~Polls' ELSE HereAfter(e)
    <2>1. CASE blind[e]
      BY <1>2, <2>1, BlindStays DEF LocalInv
    <2>2. CASE ~blind[e] /\ blind'[e]
      BY <2>2, BlindGrows
    <2>3. CASE ~blind[e] /\ ~blind'[e]
      BY <1>1, <2>3, NextHere DEF LocalInv
    <2> QED
      BY <2>1, <2>2, <2>3
  <1>4. LocalInv' <=> \A e \in Peers : IF blind'[e] THEN ~Polls' ELSE HereAfter(e)
    BY DEF LocalInv, Here, HereAfter, At, SendAt, RecvAt, RecvWaits, SendWaits
  <1> QED
    BY <1>3, <1>4

LEMMA InitLocals == Init => LocalInv
  <1> SUFFICES ASSUME Init, NEW e \in Peers PROVE ~blind[e] /\ Here(e)
    BY DEF LocalInv
  <1>1. IInv /\ ~blind[e]
    BY InitIInv DEF Init
  <1>2. pc[e] = "start" /\ qp[e] = NewQp("none") /\ n[e] = 1 /\ "none" \in QpStates
    BY DEF Init, QpStates
  <1>3. Quiet(qp[e]) /\ Accounted(qp[e])
    BY <1>1, <1>2, QuietEndpoints
  <1>4. "start" \notin RecvWaits(e) /\ 1 \in Nat /\ 1 > 0
    BY DEF RecvWaits
  <1> QED
    BY <1>1, <1>2, <1>3, <1>4, QuietAnywhere DEF Here

\* Where polling is reliable it holds of both processes throughout.
LEMMA ReliablePolls ==
    ASSUME LocalInv, Polls
    PROVE  Locals
  BY DEF LocalInv, Locals, Here

-----------------------------------------------------------------------------
(* The buffers.                                                             *)

\* What a step of a process does to its own buffers and label.
Released == {"disconnect", "done", "crashed"}

LEMMA BufsOfProcess ==
    ASSUME IInv, BufInv, NEW e \in Peers,
           \/ e = "client" /\ ClientStep
           \/ e = "server" /\ ServerStep
    PROVE  bufs'[e] = "freed" => pc'[e] \in Released
  <1>1. "client" \in Peers /\ "server" \in Peers
    BY DEF Peers
  <1>2. CASE AllocateBuffer(e)
    BY <1>2, TypedFunctions DEF AllocateBuffer
  <1>3. CASE Teardown(e) \/ NullMrCrash(e)
    <2>1. CASE EndPost(e) \/ EndWait(e) \/ PrintSha1sum(e)
      BY <2>1, TypedFunctions DEF EndPost, EndWait, PrintSha1sum, memVars, BufInv
    <2>2. CASE DeallocateBuffer(e) \/ NullMrCrash(e)
      BY <2>2, TypedFunctions DEF DeallocateBuffer, NullMrCrash, Crash, Goto, Released
    <2>3. CASE Disconnect(e)
      BY <2>3, TypedFunctions DEF Disconnect, Goto, Released
    <2> QED
      BY <1>3, <2>1, <2>2, <2>3 DEF Teardown
  <1>4. CASE bufs' = bufs /\ pc[e] \notin Released
    BY <1>4 DEF BufInv, Released
  <1>5. CASE e = "client" /\ ClientStep
    <2>1. \/ AllocateBuffer(e) \/ Teardown(e) \/ NullMrCrash(e)
          \/ bufs' = bufs /\ pc[e] \notin Released
      BY <1>5 DEF ClientStep, ClientCreateEp, SetTos, RdmaConnect, GetMrInfo,
         GetMrCount, GetMrArray, PostRequest, WaitRequest, Report, memVars, Released
    <2> QED
      BY <1>2, <1>3, <1>4, <2>1
  <1>6. CASE e = "server" /\ ServerStep
    <2>1. CASE SendMrInfo
      BY <1>4, <1>6, <2>1, TypedFunctions DEF SendMrInfo, Crash, Goto, Released
    <2>2. \/ AllocateBuffer(e) \/ Teardown(e) \/ NullMrCrash(e) \/ SendMrInfo
          \/ bufs' = bufs /\ pc[e] \notin Released
      BY <1>6 DEF ServerStep, Listen, Accept, AcceptFails, SendMrCount, SendMrArray,
         RecvPost, RecvWait, memVars, Released
    <2> QED
      BY <1>2, <1>3, <1>4, <2>1, <2>2
  <1> QED
    BY <1>5, <1>6

LEMMA NextBufs == IInv /\ BufInv /\ [Next]_vars => BufInv'
  <1> SUFFICES ASSUME IInv, BufInv, [Next]_vars PROVE BufInv'
    OBVIOUS
  <1>1. "client" \in Peers /\ "server" \in Peers
    BY DEF Peers
  <1>2. CASE ClientStep
    <2>1. bufs'["server"] = bufs["server"] /\ pc'["server"] = pc["server"]
      BY <1>2, ClientFrame DEF Kept
    <2>2. bufs'["client"] = "freed" => pc'["client"] \in Released
      BY <1>1, <1>2, BufsOfProcess
    <2> QED
      BY <2>1, <2>2 DEF BufInv, Released, Peers
  <1>3. CASE ServerStep /\ ~Accept
    <2>1. bufs'["client"] = bufs["client"] /\ pc'["client"] = pc["client"]
      BY <1>3, ServerFrame DEF Kept
    <2>2. bufs'["server"] = "freed" => pc'["server"] \in Released
      BY <1>1, <1>3, BufsOfProcess
    <2> QED
      BY <2>1, <2>2 DEF BufInv, Released, Peers
  <1>4. CASE Accept
    BY <1>4 DEF Accept, BufInv, memVars, Peers
  <1>5. CASE \E e \in Peers : Nic(e) \/ FabricFails(e)
    BY <1>5, NicMoves DEF BufInv
  <1>6. CASE UNCHANGED vars
    BY <1>6 DEF vars, BufInv
  <1> QED
    BY <1>2, <1>3, <1>4, <1>5, <1>6 DEF Next, Step, Stopped

-----------------------------------------------------------------------------
(* The signaled request.                                                    *)

\* How the client comes to wait, and what can happen while it does.
LEMMA ComesToWait ==
    ASSUME IInv, [Next]_vars, pc'["client"] = "wait"
    PROVE  \/ PostRequest
           \/ pc["client"] = "wait" /\ NicMove(qp["client"], qp'["client"])
  <1>1. "client" \in Peers /\ "server" \in Peers
    BY DEF Peers
  <1>2. NicMove(qp["client"], qp["client"])
    BY DEF NicMove
  <1>3. CASE ClientStep
    <2>1. CASE ClientCreateEp \/ SetTos \/ RdmaConnect
      BY <1>1, <2>1, TypedFunctions
         DEF ClientCreateEp, SetTos, RdmaConnect, ConnectFails, Goto
    <2>2. CASE GetMrInfo \/ GetMrCount \/ GetMrArray
      BY <1>1, <2>2, TypedFunctions
         DEF GetMrInfo, GetMrCount, GetMrArray, RecvControl, RegisterFails,
             RoundStart, Goto
    <2>3. CASE WaitRequest
      BY <1>1, <2>3, TypedFunctions DEF WaitRequest, NextRequest, Goto
    <2>4. CASE Report \/ AllocateBuffer("client")
      BY <1>1, <2>4, TypedFunctions
         DEF Report, AllocateBuffer, RoundStart, AfterRound, AfterAllocate, Goto
    <2>5. CASE Teardown("client") \/ NullMrCrash("client")
      BY <1>1, <2>5, TypedFunctions
         DEF Teardown, NullMrCrash, EndPost, EndWait, PrintSha1sum, DeallocateBuffer,
             Disconnect, Crash, SendControl, RecvControl, RegisterFails, Goto
    <2> QED
      BY <1>3, <2>1, <2>2, <2>3, <2>4, <2>5 DEF ClientStep
  <1>4. CASE ServerStep /\ ~Accept
    BY <1>2, <1>4, ServerFrame DEF Kept
  <1>5. CASE Accept
    BY <1>1, <1>5 DEF Accept
  <1>6. CASE \E e \in Peers : Nic(e) \/ FabricFails(e)
    BY <1>1, <1>6, NicMoves
  <1>7. CASE UNCHANGED vars
    BY <1>2, <1>7 DEF vars
  <1> QED
    BY <1>3, <1>4, <1>5, <1>6, <1>7 DEF Next, Step, Stopped

\* A queue pair that is connected after a NIC step was so before.
LEMMA NicMoveState ==
    ASSUME NEW q, Accounted(q), NEW r, NicMove(q, r)
    PROVE  r.state = q.state \/ (q.state = "rts" /\ r.state = "err")
  <1>1. CASE SendSame(q, r)
    BY <1>1 DEF SendSame
  <1>2. CASE q.state = "rts" /\ r = Flushed(q)
    BY <1>2, FlushedFields DEF FlushedTo
  <1>3. CASE q.sent > 0 /\ r = Acknowledged(q)
    BY <1>3, AcknowledgedFields DEF AckedTo
  <1> QED
    BY <1>1, <1>2, <1>3, NicMoveSend

LEMMA NextSignals == IInv /\ LocalInv /\ SignalInv /\ [Next]_vars => SignalInv'
  <1> SUFFICES ASSUME IInv, LocalInv, SignalInv, [Next]_vars,
                      ~blind'["client"], params'.count <= MAX_WR, pc'["client"] = "wait",
                      qp'["client"].state = "rts"
               PROVE  Signals(qp'["client"])
    BY DEF SignalInv, Signals
  <1>1. "client" \in Peers /\ "server" \in Peers
    BY DEF Peers
  <1>2. params' = params
    <2>1. CASE ClientStep \/ ServerStep
      BY <2>1, ClientFrame, ServerFrame
    <2>2. CASE \E e \in Peers : Nic(e) \/ FabricFails(e)
      BY <2>2, NicMoves DEF procVars
    <2> QED
      BY <2>1, <2>2 DEF Next, Step, Stopped, vars
  <1>3. ~blind["client"] /\ params.count <= MAX_WR
    BY <1>1, <1>2, BlindStays
  <1>4. Here("client")
    BY <1>1, <1>3 DEF LocalInv
  <1>5. Accounted(qp["client"]) /\ At("client", pc["client"], qp["client"], n["client"])
    BY <1>1, <1>4, ProcFacts DEF Here
  <1>6. CASE PostRequest
    <2> DEFINE k == n["client"]
               r == PostSend(qp["client"], params.verb, "data", k, TRUE)
    <2>1. pc["client"] = "post" /\ Posting(qp["client"], "data", k - 1)
      BY <1>5, <1>6 DEF PostRequest, At, SendAt
    <2>2. /\ k \in Nat /\ k - 1 \in Nat /\ k <= params.count /\ params.count \in Nat
          /\ params.verb \in {"send", "read", "write"} /\ "data" \in Kinds
      BY ClientIndex DEF Kinds
    <2>3. k - 1 < MAX_WR
      BY <1>3, <2>2, MaxWrAssumption
    <2>4. Signaled(k)
      BY <1>1, <1>6, TypedFunctions DEF PostRequest, NextRequest, Goto
    <2>5. qp'["client"] = r
      BY <1>1, <1>6, <2>4, TypedFunctions DEF PostRequest, SetQp, Signaled
    <2>6. r.state = qp["client"].state
      <3>1. TRUE \in BOOLEAN
        OBVIOUS
      <3>2. Posted(qp["client"], r, [op |-> params.verb, kind |-> "data", n |-> k,
                      sig |-> TRUE, idx |-> qp["client"].posted + 1])
        BY <1>5, <2>2, <3>1, PostSendFields
      <3> QED
        BY <3>2 DEF Posted
    <2>7. qp["client"].state = "rts" /\ k - 1 < MAX_WR => Signals(r)
      BY <1>5, <2>1, <2>2, PostSignaled
    <2> QED
      BY <2>3, <2>5, <2>6, <2>7
  <1>7. CASE pc["client"] = "wait" /\ NicMove(qp["client"], qp'["client"])
    <2>1. Awaiting(qp["client"], "data")
      BY <1>5, <1>7 DEF At, SendAt
    <2>2. qp["client"].state = "rts"
      BY <1>5, <1>7, NicMoveState
    <2>3. Signals(qp["client"])
      BY <1>3, <1>7, <2>2 DEF SignalInv
    <2> QED
      BY <1>5, <1>7, <2>1, <2>3, NicKeepsAwaiting
  <1> QED
    BY <1>6, <1>7, ComesToWait

-----------------------------------------------------------------------------
(* The time stamps.                                                         *)

\* What the client has stamped in the round it is in.
StampInv ==
    /\ pc["client"] \notin {"post", "wait", "crashed"} => n["client"] = 1
    /\ pc["client"] \in {"post", "wait"} =>
          \A j \in Indices("client") : j < n["client"] =>
             /\ start[j] = round["client"]
             /\ params.mode = "latency" => end[j] = round["client"]
    /\ pc["client"] = "wait" => /\ start[n["client"]] = round["client"]
                                /\ Signaled(n["client"])
    /\ ReportFresh

\* The definitions StampInv looks at are the same in both states of a step.
LEMMA StampFrame ==
    ASSUME StampInv, UNCHANGED <<params, start, end>>, pc'["client"] = pc["client"],
           n'["client"] = n["client"], round'["client"] = round["client"]
    PROVE  StampInv'
  BY DEF StampInv, ReportFresh, Signaled, Indices, Count

LEMMA StampTypes ==
    ASSUME IInv
    PROVE  /\ params.count \in Nat /\ params.count > 0
           /\ params.warmup \in Nat
           /\ params.mode \in {"latency", "throughput"}
           /\ Indices("client") = 1..params.count
           /\ DOMAIN start = 1..params.count /\ DOMAIN end = 1..params.count
           /\ n["client"] \in 1..params.count
  <1>1. /\ params \in Params
        /\ n["client"] \in Indices("client")
        /\ start \in [Indices("client") -> Nat] /\ end \in [Indices("client") -> Nat]
    BY ParamAssumption DEF IInv, Rest, ProcTypeOK, LogTypeOK, Peers
  <1>2. Indices("client") = 1..params.count
    BY DEF Indices, Count
  <1> QED
    BY <1>1, <1>2 DEF Params

\* Control that reaches the rounds, or leaves them, finds the index at 1.
LEMMA StampElsewhere ==
    ASSUME IInv, StampInv, UNCHANGED <<params, start, end>>,
           pc["client"] \notin {"post", "wait", "crashed"},
           n'["client"] = n["client"], pc'["client"] \notin {"wait", "report"}
    PROVE  StampInv'
  <1>1. n["client"] = 1 /\ n'["client"] = 1
    BY DEF StampInv
  <1>2. Indices("client")' = 1..params.count
    BY DEF Indices, Count
  <1>3. \A j \in 1..params.count : ~(j < 1)
    BY StampTypes
  <1> QED
    BY <1>1, <1>2, <1>3 DEF StampInv, ReportFresh

\* The client posts or waits.
LEMMA StampRequests ==
    ASSUME IInv, IInv', StampInv, PostRequest \/ WaitRequest
    PROVE  StampInv'
  <1> DEFINE k == n["client"]
             rd == round["client"]
  <1>1. /\ params.count \in Nat /\ params.count > 0
        /\ params.warmup \in Nat
        /\ params.mode \in {"latency", "throughput"}
        /\ Indices("client") = 1..params.count
        /\ DOMAIN start = 1..params.count /\ DOMAIN end = 1..params.count
        /\ k \in 1..params.count
    BY StampTypes
  <1>2. /\ "client" \in Peers /\ round'["client"] = rd /\ params' = params
        /\ Count("client") = params.count
    BY DEF PostRequest, WaitRequest, Peers, Count
  <1>3. \A j \in 1..params.count : j < k =>
           start[j] = rd /\ (params.mode = "latency" => end[j] = rd)
    BY <1>1 DEF StampInv, PostRequest, WaitRequest
  <1>4. Indices("client")' = 1..params.count /\ \A i : Signaled(i)' <=> Signaled(i)
    BY <1>2 DEF Indices, Count, Signaled
  <1>5. CASE PostRequest /\ Signaled(k)
    <2>1. /\ pc' = [pc EXCEPT !["client"] = "wait"] /\ n' = n /\ end' = end
          /\ start' = [start EXCEPT ![k] = rd]
      BY <1>5 DEF PostRequest, Goto
    <2>2. pc'["client"] = "wait"
      BY <1>2, <2>1, TypedFunctions
    <2>3. /\ start'[k] = rd
          /\ \A j \in 1..params.count : j < k => start'[j] = start[j]
      BY <1>1, <2>1
    <2> QED
      BY <1>1, <1>2, <1>3, <1>4, <1>5, <2>1, <2>2, <2>3 DEF StampInv, ReportFresh
  <1>6. CASE PostRequest /\ ~Signaled(k)
    <2>1. /\ NextRequest("client", ~CanPost(qp["client"]), "post", "report")
          /\ end' = end /\ start' = [start EXCEPT ![k] = rd]
      BY <1>6 DEF PostRequest
    <2>2. k < params.count /\ params.mode # "latency"
      BY <1>1, <1>6 DEF Signaled
    <2>3. /\ n'["client"] = k + 1 /\ pc' = [pc EXCEPT !["client"] = "post"]
      BY <1>2, <2>1, <2>2, NextRequestMoves
    <2>4. pc'["client"] = "post"
      BY <1>2, <2>3, TypedFunctions
    <2>5. \A j \in 1..params.count : j < k + 1 => start'[j] = rd
      BY <1>1, <1>3, <2>1
    <2> QED
      BY <1>2, <1>4, <2>2, <2>3, <2>4, <2>5 DEF StampInv, ReportFresh
  <1>7. CASE WaitRequest
    <2>1. PICK f : /\ NextRequest("client", f, "post", "report")
                   /\ start' = start /\ end' = [end EXCEPT ![k] = rd]
      BY <1>7 DEF WaitRequest, EndStamp
    <2>2. start[k] = rd /\ Signaled(k)
      BY <1>7 DEF StampInv, WaitRequest
    <2>3. /\ end'[k] = rd
          /\ \A j \in 1..params.count : j # k => end'[j] = end[j]
      BY <1>1, <2>1
    <2>4. CASE k < params.count
      <3>1. /\ n'["client"] = k + 1 /\ pc' = [pc EXCEPT !["client"] = "post"]
        BY <1>2, <2>1, <2>4, NextRequestMoves
      <3>2. pc'["client"] = "post"
        BY <1>2, <3>1, TypedFunctions
      <3>3. params.mode = "latency"
        BY <1>1, <2>2, <2>4 DEF Signaled
      <3>4. \A j \in 1..params.count : j < k + 1 => start'[j] = rd /\ end'[j] = rd
        BY <1>1, <1>3, <2>1, <2>2, <2>3, <3>3
      <3> QED
        BY <1>2, <1>4, <3>1, <3>2, <3>4 DEF StampInv, ReportFresh
    <2>5. CASE ~(k < params.count)
      <3>1. /\ n'["client"] = 1 /\ pc' = [pc EXCEPT !["client"] = "report"]
        BY <1>2, <2>1, <2>5, NextRequestMoves
      <3>2. pc'["client"] = "report" /\ k = params.count
        BY <1>1, <1>2, <2>5, <3>1, TypedFunctions
      <3>3. \A j \in 1..params.count :
               start'[j] = rd /\ (params.mode = "latency" => end'[j] = rd)
        BY <1>1, <1>3, <2>1, <2>2, <2>3, <3>2
      <3>4. /\ params.warmup < params.count => params.warmup + 1 \in 1..params.count
            /\ end'[params.count] = rd
        BY <1>1, <2>3, <3>2
      <3>5. ReportFresh'
        BY <1>2, <1>4, <3>3, <3>4 DEF ReportFresh
      <3> QED
        BY <3>1, <3>2, <3>5 DEF StampInv
    <2> QED
      BY <2>4, <2>5
  <1> QED
    BY <1>5, <1>6, <1>7

LEMMA NextStamps == IInv /\ StampInv /\ [Next]_vars => StampInv'
  <1> SUFFICES ASSUME IInv, StampInv, [Next]_vars PROVE StampInv'
    OBVIOUS
  <1>1. "client" \in Peers /\ "server" \in Peers /\ IInv'
    BY NextIInv DEF Peers
  <1>2. CASE PostRequest \/ WaitRequest
    BY <1>1, <1>2, StampRequests
  <1>3. CASE ClientStep /\ ~(PostRequest \/ WaitRequest)
    <2>1. CASE ClientCreateEp \/ SetTos \/ RdmaConnect
      BY <1>1, <2>1, TypedFunctions, StampElsewhere
         DEF ClientCreateEp, SetTos, RdmaConnect, ConnectFails, Goto, logVars
    <2>2. CASE GetMrInfo \/ GetMrCount \/ GetMrArray
      BY <1>1, <2>2, TypedFunctions, StampElsewhere
         DEF GetMrInfo, GetMrCount, GetMrArray, RecvControl, RegisterFails,
             RoundStart, Goto, logVars, noteVars
    <2>3. CASE Report \/ AllocateBuffer("client")
      BY <1>1, <2>3, TypedFunctions, StampElsewhere
         DEF Report, AllocateBuffer, RoundStart, AfterRound, AfterAllocate, Goto,
             logVars
    <2>4. CASE Teardown("client")
      BY <1>1, <2>4, TypedFunctions, StampElsewhere
         DEF Teardown, EndPost, EndWait, PrintSha1sum, DeallocateBuffer, procVars,
             Disconnect, Crash, SendControl, RecvControl, RegisterFails, Goto, logVars, noteVars
    <2>5. CASE NullMrCrash("client")
      <3>1. pc'["client"] = "crashed"
        BY <1>1, <2>5, TypedFunctions DEF NullMrCrash, Crash, Goto
      <3> QED
        BY <3>1 DEF StampInv, ReportFresh
    <2> QED
      BY <1>3, <2>1, <2>2, <2>3, <2>4, <2>5 DEF ClientStep
  <1>4. CASE ServerStep /\ ~Accept
    BY <1>4, ServerFrame, StampFrame DEF Kept
  <1>5. CASE Accept
    BY <1>1, <1>5, StampElsewhere DEF Accept, procVars, logVars
  <1>6. CASE \E e \in Peers : Nic(e) \/ FabricFails(e)
    BY <1>6, NicMoves, StampFrame DEF procVars, logVars
  <1>7. CASE UNCHANGED vars
    BY <1>7, StampFrame DEF vars
  <1> QED
    BY <1>2, <1>3, <1>4, <1>5, <1>6, <1>7 DEF Next, Step, Stopped

LEMMA InitStamps == Init => StampInv
  BY DEF Init, StampInv, ReportFresh, Peers

-----------------------------------------------------------------------------
(* The endpoints.                                                           *)

EndpointInv ==
    /\ pc["client"] = "start" => qp["client"].state = "none"
    /\ pc["server"] \in {"start", "get_request"} => qp["server"].state = "none"
    /\ pc["server"] = "start" => listenEp = "none"
    /\ NoEndpointLeak

\* The two parts, one per process.
ClientEnds == /\ pc["client"] = "start" => qp["client"].state = "none"
              /\ Regular({"tos"}) /\ Ended("client")
                 => qp["client"].state \in {"none", "gone"}

ServerEnds == /\ pc["server"] \in {"start", "get_request"}
                 => qp["server"].state = "none"
              /\ pc["server"] = "start" => listenEp = "none"
              /\ Regular({"tos"}) /\ Ended("server")
                 => qp["server"].state \in {"none", "gone"} /\ listenEp # "open"

LEMMA EndpointParts == EndpointInv <=> ClientEnds /\ ServerEnds
  BY DEF EndpointInv, NoEndpointLeak, ClientEnds, ServerEnds, Ended, Peers

LEMMA EndpointStates ==
    /\ \A s : NewQp(s).state = s
    /\ \A q : Destroyed(q).state = "gone"
  BY DEF NewQp, Destroyed

LEMMA ClientEndsSame ==
    ASSUME ClientEnds, params' = params, pc'["client"] = pc["client"],
           \/ qp'["client"].state = qp["client"].state
           \/ qp["client"].state = "rts" /\ qp'["client"].state = "err"
    PROVE  ClientEnds'
  BY DEF ClientEnds, Regular, Ended

LEMMA ServerEndsSame ==
    ASSUME ServerEnds, params' = params, pc'["server"] = pc["server"],
           listenEp' = listenEp,
           \/ qp'["server"].state = qp["server"].state
           \/ qp["server"].state = "rts" /\ qp'["server"].state = "err"
    PROVE  ServerEnds'
  BY DEF ServerEnds, Regular, Ended

LEMMA ClientKeepsEnds ==
    ASSUME IInv, ClientEnds, ClientStep
    PROVE  ClientEnds'
  <1>1. /\ "client" \in Peers /\ \A l : pc' = [pc EXCEPT !["client"] = l]
                                        => pc'["client"] = l
        /\ \A q : qp' = [qp EXCEPT !["client"] = q] => qp'["client"] = q
    BY TypedFunctions
  <1>2. /\ AfterRound("client") \notin {"start", "done", "crashed"}
        /\ RoundStart("client") \notin {"start", "done", "crashed"}
        /\ AfterAllocate("client") \notin {"start", "done", "crashed"}
    BY DEF AfterRound, RoundStart, AfterAllocate
  <1>3. CASE pc'["client"] \notin {"start", "done", "crashed"}
    BY <1>3 DEF ClientEnds, Ended
  <1>4. CASE ClientCreateEp
    BY <1>1, <1>3, <1>4, EndpointStates
       DEF ClientCreateEp, SetQp, Goto, ClientEnds, Ended, Regular
  <1>5. CASE SetTos
    <2>1. params' = params
      BY <1>5 DEF SetTos
    <2>2. CASE pc'["client"] = "connect"
      BY <1>3, <2>2
    <2>3. CASE MayFail("tos") /\ pc'["client"] = "done"
      BY <2>1, <2>3 DEF MayFail, Regular, ClientEnds, Ended
    <2> QED
      BY <1>1, <1>5, <2>2, <2>3 DEF SetTos, Goto
  <1>6. ASSUME pc'["client"] # "start", qp'["client"] = Destroyed(qp["client"])
        PROVE  ClientEnds'
    BY <1>6, EndpointStates DEF ClientEnds
  <1>7. CASE RdmaConnect
    BY <1>1, <1>3, <1>6, <1>7 DEF RdmaConnect, ConnectFails, SetQp, Goto
  <1>8. CASE GetMrInfo \/ GetMrCount \/ GetMrArray
    BY <1>1, <1>2, <1>3, <1>8 DEF GetMrInfo, GetMrCount, GetMrArray, RecvControl,
       RegisterFails, Goto
  <1>9. CASE PostRequest \/ WaitRequest
    <2>1. pc'["client"] \in {"post", "wait", "report"}
      BY <1>1, <1>9 DEF PostRequest, WaitRequest, NextRequest, Goto
    <2> QED
      BY <1>3, <2>1
  <1>10. CASE Report \/ AllocateBuffer("client")
    BY <1>1, <1>2, <1>3, <1>10 DEF Report, AllocateBuffer, Goto
  <1>11. CASE EndPost("client") \/ EndWait("client") \/ PrintSha1sum("client")
    BY <1>1, <1>3, <1>11 DEF EndPost, EndWait, PrintSha1sum, SendControl,
       RecvControl, RegisterFails, Goto
  <1>12. CASE \/ DeallocateBuffer("client") \/ Disconnect("client")
              \/ NullMrCrash("client")
    BY <1>1, <1>3, <1>6, <1>12 DEF DeallocateBuffer, Disconnect, NullMrCrash, Crash,
       SetQp, Goto
  <1> QED
    BY <1>4, <1>5, <1>7, <1>8, <1>9, <1>10, <1>11, <1>12 DEF ClientStep, Teardown

LEMMA ServerKeepsEnds ==
    ASSUME IInv, ServerEnds, ServerStep
    PROVE  ServerEnds'
  <1>1. /\ "server" \in Peers /\ \A l : pc' = [pc EXCEPT !["server"] = l]
                                        => pc'["server"] = l
        /\ \A q : qp' = [qp EXCEPT !["server"] = q] => qp'["server"] = q
    BY TypedFunctions
  <1>2. /\ AfterRound("server") \notin {"start", "get_request", "done", "crashed"}
        /\ RoundStart("server") \notin {"start", "get_request", "done", "crashed"}
        /\ AfterAllocate("server") \notin {"start", "get_request", "done", "crashed"}
    BY DEF AfterRound, RoundStart, AfterAllocate
  <1>3. CASE pc'["server"] \notin {"start", "get_request", "done", "crashed"}
    BY <1>3 DEF ServerEnds, Ended
  <1>4. CASE Listen
    <2>1. qp'["server"].state = "none"
      BY <1>4 DEF Listen, ServerEnds
    <2>2. pc'["server"] \in {"get_request", "done"}
          /\ (pc'["server"] = "done" => listenEp' # "open")
      BY <1>1, <1>4 DEF Listen, Goto
    <2> QED
      BY <2>1, <2>2 DEF ServerEnds, Ended
  <1>5. CASE Accept
    BY <1>1, <1>3, <1>5 DEF Accept
  <1>6. ASSUME pc'["server"] \notin {"start", "get_request"}, listenEp' = "gone",
               \/ qp'["server"] = Destroyed(qp["server"])
               \/ \E s \in {"none", "gone"} : qp'["server"] = NewQp(s)
        PROVE  ServerEnds'
    BY <1>6, EndpointStates DEF ServerEnds
  <1>7. CASE AcceptFails
    BY <1>1, <1>6, <1>7 DEF AcceptFails, SetQp, Goto
  <1>8. CASE AllocateBuffer("server")
    BY <1>1, <1>2, <1>3, <1>8 DEF AllocateBuffer, Goto
  <1>9. CASE SendMrInfo \/ SendMrCount \/ SendMrArray
    BY <1>1, <1>2, <1>3, <1>6, <1>9 DEF SendMrInfo, SendMrCount, SendMrArray,
       SendControl, RegisterFails, Crash, SetQp, Goto
  <1>10. CASE RecvPost \/ RecvWait
    BY <1>1, <1>2, <1>3, <1>10 DEF RecvPost, RecvWait, NextRequest, Goto
  <1>11. CASE EndPost("server") \/ EndWait("server") \/ PrintSha1sum("server")
    BY <1>1, <1>3, <1>11 DEF EndPost, EndWait, PrintSha1sum, SendControl,
       RecvControl, RegisterFails, Goto
  <1>12. CASE \/ DeallocateBuffer("server") \/ Disconnect("server")
              \/ NullMrCrash("server")
    BY <1>1, <1>3, <1>6, <1>12 DEF DeallocateBuffer, Disconnect, NullMrCrash, Crash,
       SetQp, Goto
  <1> QED
    BY <1>4, <1>5, <1>7, <1>8, <1>9, <1>10, <1>11, <1>12 DEF ServerStep, Teardown

LEMMA NextEndpoints == IInv /\ EndpointInv /\ [Next]_vars => EndpointInv'
  <1> SUFFICES ASSUME IInv, EndpointInv, [Next]_vars
               PROVE  ClientEnds' /\ ServerEnds'
    BY DEF EndpointInv, NoEndpointLeak, ClientEnds, ServerEnds, Ended, Peers
  <1>1. ClientEnds /\ ServerEnds /\ "client" \in Peers /\ "server" \in Peers
    BY EndpointParts DEF Peers
  <1>2. CASE ClientStep
    BY <1>1, <1>2, ClientKeepsEnds, ServerEndsSame, ClientFrame DEF Kept
  <1>3. CASE ServerStep /\ ~Accept
    BY <1>1, <1>3, ServerKeepsEnds, ClientEndsSame, ServerFrame DEF Kept
  <1>4. CASE Accept
    <2>1. ServerEnds'
      BY <1>1, <1>4, ServerKeepsEnds DEF ServerStep
    <2>2. pc'["client"] = "allocate"
      BY <1>1, <1>4 DEF Accept
    <2> QED
      BY <2>1, <2>2 DEF ClientEnds, Ended
  <1>5. CASE \E e \in Peers : Nic(e) \/ FabricFails(e)
    <2>1. /\ \A d \in Peers : NicMove(qp[d], qp'[d])
          /\ params' = params /\ pc' = pc /\ listenEp' = listenEp
      BY <1>5, NicMoves DEF procVars
    <2>2. \A d \in Peers : Accounted(qp[d])
      BY DEF IInv, QpInv, Good
    <2>3. \A d \in Peers : \/ qp'[d].state = qp[d].state
                           \/ qp[d].state = "rts" /\ qp'[d].state = "err"
      BY <2>1, <2>2, NicMoveState
    <2>4. ClientEnds'
      BY <1>1, <2>1, <2>3, ClientEndsSame
    <2>5. ServerEnds'
      BY <1>1, <2>1, <2>3, ServerEndsSame
    <2> QED
      BY <2>4, <2>5
  <1>6. CASE UNCHANGED vars
    BY <1>1, <1>6, ClientEndsSame, ServerEndsSame DEF vars
  <1> QED
    BY <1>2, <1>3, <1>4, <1>5, <1>6 DEF Next, Step, Stopped

LEMMA InitEndpoints == Init => EndpointInv
  BY EndpointStates DEF Init, EndpointInv, NoEndpointLeak, Ended, Peers

-----------------------------------------------------------------------------
(* The theorems.                                                            *)

SafetyInv == IInv /\ LocalInv /\ SignalInv /\ BufInv

LEMMA InitSafety == Init => SafetyInv
  <1> SUFFICES ASSUME Init PROVE SafetyInv
    OBVIOUS
  <1>1. "client" \in Peers /\ pc["client"] = "start"
        /\ \A e \in Peers : bufs[e] # "freed"
    BY DEF Init, Peers
  <1> QED
    BY <1>1, InitIInv, InitLocals DEF SafetyInv, SignalInv, BufInv

LEMMA NextSafety == SafetyInv /\ [Next]_vars => SafetyInv'
  BY NextIInv, NextLocals, NextSignals, NextBufs DEF SafetyInv

LEMMA SafetyHolds == Spec => []SafetyInv
  BY InitSafety, NextSafety, PTL DEF Spec

\* A successful completion taken by dccs_rdma_send_comp is that of the request
\* posted just before the call, for every depth of the queues, every request
\* count and number of rounds at either side and whatever fails, as long as no
\* ibv_poll_cq of the process itself has failed: CompletionIsMine is an
\* invariant of the session.
THEOREM CompletionsAreMine == Spec => []CompletionIsMine
  <1>1. SafetyInv => CompletionIsMine
    <2> SUFFICES ASSUME SafetyInv, NEW e \in Peers, ~blind[e],
                        pc[e] \in SendWaits(e), qp[e].scq # << >>,
                        Head(qp[e].scq).ok
                 PROVE  Head(qp[e].scq).idx = qp[e].posted
      BY DEF CompletionIsMine
    <2>1. IInv /\ Here(e)
      BY DEF SafetyInv, LocalInv
    <2>2. Accounted(qp[e]) /\ At(e, pc[e], qp[e], n[e])
      BY <2>1, ProcFacts DEF Here
    <2>3. \E kind : Awaiting(qp[e], kind)
      BY <2>2 DEF At, SendAt, SendWaits
    <2>4. 1 \in 1..Len(qp[e].scq) /\ Head(qp[e].scq) = qp[e].scq[1]
      <3>1. qp[e].scq \in Seq(SendCompletions)
        BY <2>2, QpFields
      <3> QED
        BY <3>1
    <2> QED
      BY <2>3, <2>4 DEF Awaiting
  <1> QED
    BY <1>1, SafetyHolds, PTL

\* As long as the requests of a round fit in the send queue, the connected
\* client polls only while a signaled request is outstanding or has completed
\* ("Always signal the last request"), so that the polling can end.  A round
\* of more requests than MAX_WR refutes it: its last request is refused.
THEOREM PollingCanEnd == Spec => [](params.count <= MAX_WR => WaitHasSignaled)
  <1>1. SafetyInv => (params.count <= MAX_WR => WaitHasSignaled)
    BY DEF SafetyInv, SignalInv, Signals, WaitHasSignaled
  <1> QED
    BY <1>1, SafetyHolds, PTL

\* The slots of the connected client's send queue are held by requests of the
\* current round only, for every depth of the queues, every count at either
\* side and whatever fails but an ibv_poll_cq of the client: a round that fits
\* the send queue is never refused a request.  RoundHoldsSlots is an invariant
\* of the session.
THEOREM SlotsOfRound == Spec => []RoundHoldsSlots
  <1>1. SafetyInv => RoundHoldsSlots
    <2> SUFFICES ASSUME SafetyInv, pc["client"] = "post",
                        qp["client"].state = "rts", ~blind["client"]
                 PROVE  qp["client"].posted - qp["client"].retired <= n["client"] - 1
      BY DEF RoundHoldsSlots
    <2>1. IInv /\ Here("client")
      BY DEF SafetyInv, LocalInv, Peers
    <2>2. Posting(qp["client"], "data", n["client"] - 1)
      BY <2>1 DEF Here, At, SendAt
    <2> QED
      BY <2>2 DEF Posting, Unretired
  <1> QED
    BY <1>1, SafetyHolds, PTL

\* No buffer is deregistered, freed or left by its owner while the NIC may
\* still use it, with any counts and on every error path of a process but those
\* behind an ibv_poll_cq of its own that has failed (there the code does free
\* buffers of posted requests): DmaSafe is an invariant of the session.
THEOREM BuffersOutliveRequests == Spec => []DmaSafe
  <1>1. SafetyInv => DmaSafe
    <2> SUFFICES ASSUME SafetyInv, NEW e \in Peers, ~blind[e]
                 PROVE  /\ \A i \in 1..Len(qp[e].sq) : OwnerWaits(e, qp[e].sq[i].kind)
                        /\ \A i \in 1..Len(qp[e].rq) : OwnerWaits(e, qp[e].rq[i].kind)
      BY DEF DmaSafe
    <2>1. IInv /\ Here(e) /\ BufInv
      BY DEF SafetyInv, LocalInv
    <2>2. SendAt(e, pc[e], qp[e], n[e]) /\ RecvAt(e, pc[e], qp[e], n[e])
      BY <2>1 DEF At, Here
    <2>3. bufs[e] = "freed" => pc[e] \in Released
      BY <2>1 DEF BufInv, Released
    <2>4. ASSUME NEW i \in 1..Len(qp[e].sq)
          PROVE  OwnerWaits(e, qp[e].sq[i].kind)
      <3>1. ~Idle(qp[e])
        BY <2>4 DEF Idle
      <3>2. \/ pc[e] \in {"post", "wait"} /\ qp[e].sq[i].kind = "data"
            \/ pc[e] = "send_mr_count" /\ qp[e].sq[i].kind = "count"
            \/ pc[e] = "send_mr_array" /\ qp[e].sq[i].kind = "array"
            \/ pc[e] = "end_wait" /\ qp[e].sq[i].kind = "end"
        BY <2>2, <3>1 DEF SendAt, SendWaits, Posting, Awaiting
      <3> QED
        BY <2>3, <3>2 DEF OwnerWaits, Released
    <2>5. ASSUME NEW i \in 1..Len(qp[e].rq)
          PROVE  OwnerWaits(e, qp[e].rq[i].kind)
      <3>1. ~RecvIdle(qp[e])
        BY <2>5 DEF RecvIdle
      <3>2. \A b : RecvOne(qp[e], b) => qp[e].rq[i] = b
        BY <2>5, UnitSeq DEF RecvOne
      <3>3. \A kind, k : Control(kind).kind = kind /\ [kind |-> kind, n |-> k].kind = kind
        BY DEF Control
      <3>4. \/ pc[e] = "recv_wait" /\ qp[e].rq[i].kind = "data"
            \/ pc[e] = "get_mr_count" /\ qp[e].rq[i].kind = "count"
            \/ pc[e] = "get_mr_array" /\ qp[e].rq[i].kind = "array"
            \/ pc[e] = "end_wait" /\ qp[e].rq[i].kind = "end"
        BY <2>2, <3>1, <3>2, <3>3 DEF RecvAt, RecvWaits
      <3> QED
        BY <2>3, <3>4 DEF OwnerWaits, Released
    <2> QED
      BY <2>4, <2>5
  <1> QED
    BY <1>1, SafetyHolds, PTL

\* The time stamps a report reads were taken in the round it reports, for
\* every count, mode and number of rounds and every warm-up below the count (a
\* longer one makes the throughput report read behind the requests):
\* ReportFresh is an invariant of the session.
THEOREM ReportsAreFresh == Spec => []ReportFresh
  <1>1. Init => IInv /\ StampInv
    BY InitIInv, InitStamps
  <1>2. (IInv /\ StampInv) /\ [Next]_vars => (IInv /\ StampInv)'
    BY NextIInv, NextStamps
  <1>3. IInv /\ StampInv => ReportFresh
    BY DEF StampInv
  <1> QED
    BY <1>1, <1>2, <1>3, PTL DEF Spec

\* Every path out of run() destroys the endpoints it created, on every error
\* path but that of rdma_set_option: NoEndpointLeak is an invariant of the
\* session.
THEOREM EndpointsDestroyed == Spec => []NoEndpointLeak
  <1>1. Init => IInv /\ EndpointInv
    BY InitIInv, InitEndpoints
  <1>2. (IInv /\ EndpointInv) /\ [Next]_vars => (IInv /\ EndpointInv)'
    BY NextIInv, NextEndpoints
  <1>3. IInv /\ EndpointInv => NoEndpointLeak
    BY DEF EndpointInv
  <1> QED
    BY <1>1, <1>2, <1>3, PTL DEF Spec

=============================================================================
