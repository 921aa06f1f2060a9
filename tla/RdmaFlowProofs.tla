--------------------------- MODULE RdmaFlowProofs ---------------------------
(***************************************************************************)
(* What the two processes of RdmaSession know of each other, for every      *)
(* depth MAX_WR, every set of parameters and every set of faults: messages  *)
(* meet the receives they are meant for, the server's memory is registered  *)
(* as long as the client may access it, a result that is not negative means *)
(* that everything was delivered, and the session implements Transfer.      *)
(*                                                                          *)
(* The argument follows one fact, StepInv: as long as both ends are         *)
(* connected, the requests the client's NIC has executed are the messages   *)
(* the server has received, round by round (Sent and Got).  The NIC moves   *)
(* both at once; every step of a process leaves its own count alone, or     *)
(* turns the end of a round into the beginning of the next.  ExchangeInv is *)
(* the same fact for the memory-region exchange, ArrivalInv says what it    *)
(* means for the contents of the buffers, and EndInv keeps the outcome when *)
(* the connection is gone.  At the end, StopInv says what the queue pairs   *)
(* still owe a process that polls, so that the two never wait for each      *)
(* other.                                                                   *)
(***************************************************************************)
EXTENDS RdmaSessionProofs, RdmaTransfer

\* Send and Write move the client's buffers to the server, Read the server's.
Dest == Peer(Source)

\* Requests the peer has executed and no poll has retired.
Done(q) == Unretired(q) - Len(q.sq) + q.sent

\* Requests of the round that were retired before the current one: a round in
\* throughput mode is polled for once.
Base == IF params.mode = "latency" THEN n["client"] - 1 ELSE 0

-----------------------------------------------------------------------------
(* What one process knows, whatever its peer does.                          *)

ClientEarly == {"start", "tos", "connect", "connecting"}
ServerEarly == {"start", "get_request"}
GetMr == {"get_mr", "get_mr_count", "get_mr_array"}
SendMr == {"send_mr", "send_mr_count", "send_mr_array"}
ClientRounds == {"post", "wait", "report"}
ServerRounds == {"recv_post", "recv_wait"}
EndLabels == {"end_post", "end_wait"}
Leaving == {"sha", "deallocate", "disconnect"}
Out == {"done", "crashed"}

\* A request on application memory has the verb of the session, a control
\* message is a send.
Tagged == {wr \in WorkRequests :
              IF wr.kind = "data" THEN wr.op = params.verb
              ELSE wr.op = "send" /\ wr.n = 0}

\* What went wrong on the receive side took the connection with it.
RecvOk(q) == \A j \in 1..Len(q.rcq) : ~q.rcq[j].ok => q.state = "err"

\* The requests of the round, numbered as they were posted, none of them
\* refused as long as the polling can succeed.
Numbered(q) == \A j \in 1..Len(q.sq) : q.sq[j].n = Base + q.sq[j].idx - q.retired

Accepted(q) ==
    /\ pc["client"] = "post" =>
          \/ failed["client"] = 0 /\ Unretired(q) = n["client"] - 1 - Base
          \/ ~CanPost(q)
    /\ pc["client"] = "wait" =>
          \/ failed["client"] = 0 /\ ~bad /\ Unretired(q) = n["client"] - Base
          \/ ~Signals(q)

BurstInv ==
    LET q == qp["client"] IN
    pc["client"] \in {"post", "wait"} /\ q.state = "rts" => Numbered(q) /\ Accepted(q)

QueueInv == \A e \in Peers : Holds(qp[e], Tagged) /\ RecvOk(qp[e])

\* Labels.
LabelInv ==
    /\ pc["client"] \in ClientEarly \union {"allocate"} \union GetMr
          \union ClientRounds \union EndLabels \union Leaving \union Out
    /\ pc["server"] \in ServerEarly \union {"allocate"} \union SendMr
          \union ServerRounds \union EndLabels \union Leaving \union Out
    /\ params.verb = "send" => /\ pc["client"] \notin GetMr
                               /\ pc["server"] \notin SendMr
    /\ params.verb # "send" => pc["server"] \notin ServerRounds
    /\ \A e \in Peers : qp[e].state = "rts"
          => pc[e] \notin ClientEarly \union ServerEarly \union Out

\* Loop indices.
RoundInv ==
    /\ pc["client"] \in {"allocate"} \union GetMr => round["client"] = 1
    /\ pc["client"] \in ClientEarly => round["client"] = 1
    /\ pc["client"] \in ClientRounds => round["client"] \in 1..params.repeat
    /\ pc["client"] \in EndLabels => round["client"] = params.repeat + 1
    /\ pc["server"] \in {"allocate"} \union ServerEarly => round["server"] = 1
    /\ pc["server"] \in ServerRounds => round["server"] \in 1..params.repeat
    /\ params.verb = "send" /\ pc["server"] \in EndLabels
          => round["server"] = params.repeat + 1
    /\ pc["server"] \notin ServerRounds \union {"crashed"} => n["server"] = 1

\* A failure is counted only on a broken connection.
ClientLoss ==
    /\ qp["client"].state = "rts" \/ pc["client"] \in ClientEarly => ~lost["client"]
    /\ \/ qp["client"].state = "rts" /\ pc["client"] \notin {"post", "wait"}
       \/ pc["client"] \in ClientEarly
       => failed["client"] = 0

ServerLoss ==
    qp["server"].state = "rts" \/ pc["server"] \in ServerEarly
    => ~lost["server"] /\ failed["server"] = 0

\* One control message is sent at a time.
ControlWaits == {"send_mr_count", "send_mr_array", "end_wait"}

ControlInv ==
    \A e \in Peers : pc[e] \in ControlWaits \intersect SendWaits(e)
                     /\ qp[e].state = "rts" => Unretired(qp[e]) = 1

\* Buffers.
Unallocated == ClientEarly \union ServerEarly \union {"allocate"}

MemOf(e) ==
    /\ pc[e] \in Unallocated => bufs[e] = "none"
    /\ pc[e] \notin Unallocated \union Out => bufs[e] # "none"
    /\ bufs[e] = "null" => MayFail("reg")
    /\ bufs[e] = "none" => \A i \in Indices(e) : mem[e][i] = <<e, 0>>
    /\ e = Source /\ bufs[e] # "none" => \A i \in Indices(e) : mem[e][i] = <<e, i>>

MemInv == \A e \in Peers : MemOf(e)

\* run()'s result.
ResultOf(e) ==
    /\ pc[e] = "sha" => rv[e] >= 0
    /\ sha[e] # << >> => pc[e] \in {"deallocate", "disconnect", "done", "crashed"}
    /\ pc[e] \in {"deallocate", "disconnect", "done"} /\ rv[e] >= 0 => sha[e] # << >>
    /\ pc[e] \in {"deallocate", "disconnect"} /\ rv[e] < 0 /\ qp[e].state = "rts"
       => MayFail("reg")

ResultInv == \A e \in Peers : ResultOf(e)

-----------------------------------------------------------------------------
(* What the two know of each other.                                         *)

\* Both are connected and nothing went wrong.
Live == Promised /\ \A e \in Peers : qp[e].state = "rts"

\* How far the round is, by the requests executed and by the messages
\* received.
Sent == IF pc["client"] = "report" THEN params.count
        ELSE IF pc["client"] \in {"post", "wait"} THEN Base + Done(qp["client"])
        ELSE Done(qp["client"])

Got == n["server"] - 1 + Len(qp["server"].rcq)

ClientActive == {"allocate"} \union GetMr \union ClientRounds \union EndLabels
ServerActive == {"allocate"} \union SendMr \union ServerRounds \union EndLabels

InStep(rc, x, rs, y) ==
    \/ rc = rs /\ x = y
    \/ rs = rc + 1 /\ x = params.count /\ y = 0
    \/ rc = rs + 1 /\ x = 0 /\ y = params.count

StepInv ==
    /\ Live /\ params.verb = "send"
    /\ pc["client"] \in ClientActive /\ pc["server"] \in ServerActive
    => InStep(round["client"], Sent, round["server"], Got)

\* The memory-region exchange.
MrGot == IF pc["client"] \in {"allocate", "get_mr"} THEN 0
         ELSE IF pc["client"] = "get_mr_count" THEN Len(qp["client"].rcq)
         ELSE IF pc["client"] = "get_mr_array" THEN 1 + Len(qp["client"].rcq)
         ELSE 2

MrSent == IF pc["server"] \in {"allocate", "send_mr"} THEN 0
          ELSE IF pc["server"] = "send_mr_count" THEN Done(qp["server"])
          ELSE IF pc["server"] = "send_mr_array" THEN 1 + Done(qp["server"])
          ELSE 2

ExchangeInv ==
    Live /\ params.verb # "send" /\ pc["client"] \in ClientActive =>
        /\ pc["server"] \in ServerActive => MrGot = MrSent
        /\ MrGot > 0 => rcount = params.scount
        /\ MrGot = 2 /\ pc["client"] \notin GetMr
           => \A i \in Indices("client") : remote[i] = Addr(i)

\* What has arrived.
Landed(i) == mem[Dest][i] = <<Source, i>>

ArrivalInv ==
    Live /\ pc["client"] \in ClientActive =>
        \A i \in Indices("client") : Landed(i) <=> round["client"] > 1 \/ i <= Sent

\* The terminating message has been executed, as each side sees it.
ServerGot ==
    \/ pc["server"] = "end_wait"
       /\ \E j \in 1..Len(qp["server"].rcq) : qp["server"].rcq[j].ok
    \/ pc["server"] = "sha" \/ sha["server"] # << >>

ClientSent ==
    \/ pc["client"] = "end_wait"
       /\ \/ qp["client"].sent > 0
          \/ \E j \in 1..Len(qp["client"].scq) : qp["client"].scq[j].ok
    \/ pc["client"] = "sha" \/ sha["client"] # << >>

Late == {"end_wait", "sha", "deallocate", "disconnect", "done", "crashed"}

Complete ==
    /\ \A e \in Peers : pc[e] \in Late /\ ~lost[e] /\ bufs[e] # "none"
    /\ \A i \in Indices("client") : Landed(i)

EndInv == Promised /\ (ServerGot \/ ClientSent) => Complete

-----------------------------------------------------------------------------
(* Steps of a process.                                                      *)

\* Where a step of process e takes it.
LEMMA Moved ==
    ASSUME IInv, NEW e \in Peers
    PROVE  /\ \A l : Goto(e, l) => pc'[e] = l
           /\ \A q : SetQp(e, q) => qp'[e] = q
           /\ \A v : Return(e, v) => rv'[e] = v
  BY TypedFunctions DEF Goto, SetQp, Return

\* The polling of process e.
LEMMA Results ==
    ASSUME IInv, NEW e \in Peers
    PROVE  /\ \A c \in SendComp(e) : c.rv = 1 \/ c.rv = -1
           /\ \A c \in RecvComp(e) : c.rv = 1 \/ c.rv = -1
  BY DEF SendComp, RecvComp, PollFails

\* The state of a queue pair changes where the connection does.
LEMMA StatesKept ==
    ASSUME NEW q, Accounted(q)
    PROVE  /\ PollSend(q).state = q.state /\ PollRecv(q).state = q.state
           /\ \A kind, i : PostRecv(q, kind, i).state = q.state
           /\ \A op, kind, i, sig : PostSend(q, op, kind, i, sig).state = q.state
           /\ Destroyed(q).state = "gone"
           /\ \A s : NewQp(s).state = s
  <1>1. q \in QueuePairs
    BY DEF Accounted
  <1>2. PollSend(q).state = q.state /\ PollRecv(q).state = q.state
    BY <1>1 DEF PollSend, PollRecv, QueuePairs
  <1>3. \A kind, i : PostRecv(q, kind, i).state = q.state
    BY <1>1 DEF PostRecv, QueuePairs
  <1>4. \A op, kind, i, sig : PostSend(q, op, kind, i, sig).state = q.state
    BY <1>1 DEF PostSend, QueuePairs
  <1> QED
    BY <1>2, <1>3, <1>4 DEF Destroyed, NewQp

\* A process that polls or posts stays connected, or stays disconnected.
LEMMA CompStates ==
    ASSUME IInv, NEW e \in Peers
    PROVE  /\ \A c \in SendComp(e) : c.q.state = qp[e].state /\ Accounted(c.q)
           /\ \A c \in RecvComp(e) : c.q.state = qp[e].state /\ Accounted(c.q)
  <1>1. Good(e, qp[e]) /\ Accounted(qp[e])
    BY DEF IInv, QpInv, Good
  <1>2. \A c \in SendComp(e) \union RecvComp(e) : Accounted(c.q)
    BY <1>1, CompGood DEF Good
  <1>3. /\ \A c \in SendComp(e) : c.q.state = qp[e].state
        /\ \A c \in RecvComp(e) : c.q.state = qp[e].state
    BY <1>1, StatesKept DEF SendComp, RecvComp, PollFails
  <1> QED
    BY <1>2, <1>3

-----------------------------------------------------------------------------
(* Labels.                                                                  *)

ClientLabels == ClientEarly \union ClientActive \union Leaving \union Out
ServerLabels == ServerEarly \union ServerActive \union Leaving \union Out

ClientAt ==
    /\ pc["client"] \in ClientLabels
    /\ params.verb = "send" => pc["client"] \notin GetMr
    /\ qp["client"].state = "rts" => pc["client"] \notin ClientEarly \union Out

ServerAt ==
    /\ pc["server"] \in ServerLabels
    /\ params.verb = "send" => pc["server"] \notin SendMr
    /\ params.verb # "send" => pc["server"] \notin ServerRounds
    /\ qp["server"].state = "rts" => pc["server"] \notin ServerEarly \union Out

LEMMA LabelParts == LabelInv <=> ClientAt /\ ServerAt
  <1> USE DEF ClientEarly, ServerEarly, GetMr, SendMr, ClientRounds, ServerRounds,
              EndLabels, Leaving, Out, ClientActive, ServerActive
  <1>1. LabelInv => ClientAt /\ ServerAt
    BY DEF LabelInv, ClientAt, ServerAt, ClientLabels, ServerLabels, Peers
  <1>2. ClientAt /\ ServerAt => LabelInv
    BY DEF LabelInv, ClientAt, ServerAt, ClientLabels, ServerLabels, Peers
  <1> QED
    BY <1>1, <1>2

LEMMA ClientKeepsLabels ==
    ASSUME IInv, ClientAt, ClientStep
    PROVE  ClientAt'
  <1>1. "client" \in Peers /\ Accounted(qp["client"]) /\ params' = params
    BY ClientFrame DEF Peers, IInv, QpInv, Good
  <1>2. CASE ClientCreateEp \/ SetTos \/ RdmaConnect
    <2>1. /\ pc'["client"] \in {"tos", "connect", "connecting", "done"}
          /\ pc["client"] \in ClientEarly
      BY <1>1, <1>2, Moved DEF ClientCreateEp, SetTos, RdmaConnect, ConnectFails,
         ClientEarly
    <2>2. qp'["client"].state # "rts"
      <3>1. qp["client"].state # "rts"
        BY <2>1 DEF ClientAt
      <3>2. \/ qp'["client"] = qp["client"]
            \/ qp'["client"] = NewQp("idle")
            \/ qp'["client"] = Destroyed(qp["client"])
        BY <1>1, <1>2, Moved DEF ClientCreateEp, SetTos, RdmaConnect, ConnectFails
      <3> QED
        BY <1>1, <3>1, <3>2, StatesKept
    <2> QED
      BY <2>1, <2>2 DEF ClientAt, ClientLabels, ClientEarly, Out, GetMr
  <1>3. CASE pc'["client"] \in ClientActive \union Leaving
             /\ (params.verb = "send" => pc'["client"] \notin GetMr)
    BY <1>1, <1>3 DEF ClientAt, ClientLabels, ClientActive, Leaving, ClientEarly,
       Out, GetMr, ClientRounds, EndLabels
  <1>4. CASE AllocateBuffer("client") \/ Report
    <2>1. pc'["client"] \in {"post", "end_post"}
          \/ (params.verb # "send" /\ pc'["client"] = "get_mr")
      BY <1>1, <1>4, Moved DEF AllocateBuffer, Report, AfterAllocate, AfterRound,
         RoundStart
    <2> QED
      BY <1>3, <2>1 DEF ClientActive, GetMr, ClientRounds, EndLabels
  <1>5. CASE GetMrInfo \/ GetMrCount \/ GetMrArray
    <2>1. /\ pc'["client"] \in {"get_mr_count", "get_mr_array", "post", "deallocate"}
          /\ pc["client"] \in GetMr
      BY <1>1, <1>5, Moved DEF GetMrInfo, GetMrCount, GetMrArray, RecvControl,
         RegisterFails, RoundStart, GetMr
    <2> QED
      BY <1>3, <2>1 DEF ClientAt, ClientActive, GetMr, ClientRounds, Leaving
  <1>6. CASE PostRequest \/ WaitRequest
    <2>1. pc'["client"] \in {"post", "wait", "report"}
      BY <1>1, <1>6, Moved DEF PostRequest, WaitRequest, NextRequest
    <2> QED
      BY <1>3, <2>1 DEF ClientActive, GetMr, ClientRounds
  <1>7. CASE \/ EndPost("client") \/ EndWait("client") \/ PrintSha1sum("client")
    <2>1. pc'["client"] \in {"end_wait", "sha", "deallocate"}
      BY <1>1, <1>7, Moved DEF EndPost, EndWait, PrintSha1sum, SendControl,
         RecvControl, RegisterFails
    <2> QED
      BY <1>3, <2>1 DEF ClientActive, GetMr, EndLabels, Leaving
  <1>8. CASE \/ DeallocateBuffer("client") \/ Disconnect("client")
             \/ NullMrCrash("client")
    <2>1. \/ pc'["client"] = "disconnect"
          \/ /\ pc'["client"] \in {"done", "crashed"}
             /\ qp'["client"] = Destroyed(qp["client"])
      BY <1>1, <1>8, Moved DEF DeallocateBuffer, Disconnect, NullMrCrash, Crash
    <2>2. CASE pc'["client"] = "disconnect"
      BY <1>3, <2>2 DEF GetMr, Leaving
    <2>3. CASE /\ pc'["client"] \in {"done", "crashed"}
               /\ qp'["client"] = Destroyed(qp["client"])
      BY <1>1, <2>3, StatesKept DEF ClientAt, ClientLabels, Out, GetMr
    <2> QED
      BY <2>1, <2>2, <2>3
  <1> QED
    BY <1>2, <1>4, <1>5, <1>6, <1>7, <1>8 DEF ClientStep, Teardown

LEMMA ServerKeepsLabels ==
    ASSUME IInv, ServerAt, ServerStep
    PROVE  ServerAt'
  <1>1. "server" \in Peers /\ Accounted(qp["server"]) /\ params' = params
    BY ServerFrame DEF Peers, IInv, QpInv, Good
  <1>2. CASE pc'["server"] \in ServerActive \union Leaving
             /\ (params.verb = "send" => pc'["server"] \notin SendMr)
             /\ (params.verb # "send" => pc'["server"] \notin ServerRounds)
    BY <1>1, <1>2 DEF ServerAt, ServerLabels, ServerActive, Leaving, ServerEarly,
       Out, SendMr, ServerRounds, EndLabels
  <1>3. CASE Listen
    <2>1. /\ pc'["server"] \in {"get_request", "done"} /\ qp' = qp
          /\ pc["server"] = "start"
      BY <1>1, <1>3, Moved DEF Listen
    <2> QED
      BY <2>1 DEF ServerAt, ServerLabels, ServerEarly, Out, SendMr, ServerRounds
  <1>4. CASE Accept
    BY <1>1, <1>2, <1>4 DEF Accept, ServerActive, SendMr, ServerRounds
  <1>5. CASE AcceptFails
    <2>1. /\ pc'["server"] = "done"
          /\ \E s \in {"none", "gone"} : qp'["server"] = NewQp(s)
      BY <1>1, <1>5, Moved DEF AcceptFails
    <2>2. qp'["server"].state # "rts"
      BY <1>1, <2>1, StatesKept
    <2> QED
      BY <2>1, <2>2 DEF ServerAt, ServerLabels, Out, SendMr, ServerRounds
  <1>6. CASE AllocateBuffer("server")
    <2>1. \/ params.verb = "send" /\ pc'["server"] = "recv_post"
          \/ params.verb # "send" /\ pc'["server"] = "send_mr"
      BY <1>1, <1>6, Moved DEF AllocateBuffer, AfterAllocate, RoundStart
    <2> QED
      BY <1>2, <2>1 DEF ServerActive, SendMr, ServerRounds
  <1>7. CASE Crash("server")
    <2>1. pc'["server"] = "crashed" /\ qp'["server"] = Destroyed(qp["server"])
      BY <1>1, <1>7, Moved DEF Crash
    <2> QED
      BY <1>1, <2>1, StatesKept DEF ServerAt, ServerLabels, Out, SendMr, ServerRounds
  <1>8. CASE (SendMrInfo /\ ~Crash("server")) \/ SendMrCount \/ SendMrArray
    <2>1. /\ \/ pc'["server"] \in {"send_mr_count", "send_mr_array", "deallocate"}
             \/ pc'["server"] = RoundStart("server")
          /\ pc["server"] \in SendMr
      BY <1>1, <1>8, Moved DEF SendMrInfo, SendMrCount, SendMrArray, SendControl,
         RegisterFails, SendMr
    <2>2. params.verb # "send"
      BY <2>1 DEF ServerAt
    <2> QED
      BY <1>2, <2>1, <2>2 DEF RoundStart, ServerActive, SendMr, ServerRounds, Leaving,
         EndLabels
  <1>9. CASE RecvPost \/ RecvWait
    <2>1. pc["server"] \in ServerRounds
      BY <1>9 DEF RecvPost, RecvWait, ServerRounds
    <2>2. params.verb = "send"
      BY <2>1 DEF ServerAt
    <2>3. pc'["server"] \in {"recv_post", "recv_wait", "end_post"}
      BY <1>1, <1>9, <2>2, Moved DEF RecvPost, RecvWait, NextRequest, AfterRound,
         RoundStart
    <2> QED
      BY <1>2, <2>2, <2>3 DEF ServerActive, SendMr, ServerRounds, EndLabels
  <1>10. CASE EndPost("server") \/ EndWait("server") \/ PrintSha1sum("server")
    <2>1. pc'["server"] \in {"end_wait", "sha", "deallocate"}
      BY <1>1, <1>10, Moved DEF EndPost, EndWait, PrintSha1sum, SendControl,
         RecvControl, RegisterFails
    <2> QED
      BY <1>2, <2>1 DEF ServerActive, SendMr, ServerRounds, EndLabels, Leaving
  <1>11. CASE DeallocateBuffer("server") /\ ~Crash("server")
    <2>1. pc'["server"] = "disconnect"
      BY <1>1, <1>11, Moved DEF DeallocateBuffer
    <2> QED
      BY <1>2, <2>1 DEF SendMr, ServerRounds, Leaving
  <1>12. CASE Disconnect("server")
    <2>1. pc'["server"] = "done" /\ qp'["server"] = Destroyed(qp["server"])
      BY <1>1, <1>12, Moved DEF Disconnect
    <2> QED
      BY <1>1, <2>1, StatesKept DEF ServerAt, ServerLabels, Out, SendMr, ServerRounds
  <1>13. NullMrCrash("server") => Crash("server")
    BY DEF NullMrCrash
  <1> QED
    BY <1>3, <1>4, <1>5, <1>6, <1>7, <1>8, <1>9, <1>10, <1>11, <1>12, <1>13
       DEF ServerStep, Teardown

\* Only a NIC step is left.
LEMMA NextLabelInv == IInv /\ LabelInv /\ [Next]_vars => LabelInv'
  <1> SUFFICES ASSUME IInv, LabelInv, [Next]_vars PROVE ClientAt' /\ ServerAt'
    <2>1. ClientAt' /\ ServerAt' => LabelInv'
      BY LabelParts, PTL
    <2> QED
      BY <2>1
  <1>1. ClientAt /\ ServerAt /\ "client" \in Peers /\ "server" \in Peers
    BY LabelParts DEF Peers
  <1>2. CASE ClientStep
    <2>1. ServerAt'
      BY <1>1, <1>2, ClientFrame DEF Kept, ServerAt
    <2> QED
      BY <1>1, <1>2, <2>1, ClientKeepsLabels
  <1>3. CASE ServerStep /\ ~Accept
    <2>1. ClientAt'
      BY <1>1, <1>3, ServerFrame DEF Kept, ClientAt
    <2> QED
      BY <1>1, <1>3, <2>1, ServerKeepsLabels
  <1>4. CASE Accept
    <2>1. ServerAt'
      BY <1>1, <1>4, ServerKeepsLabels DEF ServerStep
    <2>2. pc'["client"] = "allocate"
      BY <1>1, <1>4 DEF Accept
    <2> QED
      BY <2>1, <2>2 DEF ClientAt, ClientLabels, ClientActive, ClientEarly, Out, GetMr
  <1>5. CASE \E e \in Peers : Nic(e) \/ FabricFails(e)
    <2>1. /\ \A d \in Peers : NicMove(qp[d], qp'[d])
          /\ params' = params /\ pc' = pc
      BY <1>5, NicMoves DEF procVars
    <2>2. \A d \in Peers : Accounted(qp[d])
      BY DEF IInv, QpInv, Good
    <2>3. \A d \in Peers : \/ qp'[d].state = qp[d].state
                           \/ qp[d].state = "rts" /\ qp'[d].state = "err"
      BY <2>1, <2>2, NicMoveState
    <2> QED
      BY <1>1, <2>1, <2>3 DEF ClientAt, ServerAt
  <1>6. CASE UNCHANGED vars
    BY <1>1, <1>6 DEF vars, ClientAt, ServerAt
  <1> QED
    BY <1>2, <1>3, <1>4, <1>5, <1>6 DEF Next, Step, Stopped

-----------------------------------------------------------------------------
(* Loop indices.                                                            *)

ClientRound ==
    /\ pc["client"] \in ClientEarly \union {"allocate"} \union GetMr
       => round["client"] = 1
    /\ pc["client"] \in ClientRounds => round["client"] \in 1..params.repeat
    /\ pc["client"] \in EndLabels => round["client"] = params.repeat + 1

ServerRound ==
    /\ pc["server"] \in ServerEarly \union {"allocate"} => round["server"] = 1
    /\ pc["server"] \in ServerRounds => round["server"] \in 1..params.repeat
    /\ params.verb = "send" /\ pc["server"] \in EndLabels
       => round["server"] = params.repeat + 1
    /\ pc["server"] \notin ServerRounds \union {"crashed"} => n["server"] = 1

LEMMA RoundParts == RoundInv <=> ClientRound /\ ServerRound
  BY DEF RoundInv, ClientRound, ServerRound

LEMMA RoundTypes ==
    ASSUME IInv
    PROVE  /\ params.repeat \in Nat /\ 1 \in 1..params.repeat
           /\ params.count \in Nat /\ params.scount \in Nat /\ params.count > 0
           /\ params.scount > 0
           /\ params.verb \in {"send", "read", "write"}
           /\ params.mode \in {"latency", "throughput"}
           /\ Count("client") = params.count /\ Count("server") = params.scount
           /\ \A e \in Peers : round[e] \in Nat /\ n[e] \in 1..Count(e)
           /\ DOMAIN round = Peers
  <1>1. params \in Params /\ round \in [Peers -> Nat]
    BY ParamAssumption DEF IInv, Rest, ProcTypeOK
  <1>2. /\ params.repeat \in Nat /\ params.repeat > 0 /\ params.count \in Nat
        /\ params.scount \in Nat /\ params.count > 0 /\ params.scount > 0
        /\ params.verb \in {"send", "read", "write"}
        /\ params.mode \in {"latency", "throughput"}
    BY <1>1 DEF Params
  <1>3. Count("client") = params.count /\ Count("server") = params.scount
    BY DEF Count
  <1>4. \A e \in Peers : round[e] \in Nat /\ n[e] \in 1..Count(e)
    BY <1>1 DEF IInv, Rest, ProcTypeOK, Indices
  <1>5. DOMAIN round = Peers /\ 1 \in 1..params.repeat
    BY <1>1, <1>2
  <1> QED
    BY <1>2, <1>3, <1>4, <1>5

LEMMA ClientKeepsRound ==
    ASSUME IInv, ClientAt, ClientRound, ClientStep
    PROVE  ClientRound'
  <1> USE DEF ClientEarly, GetMr, ClientRounds, EndLabels
  <1>1. /\ "client" \in Peers /\ params' = params /\ params.repeat \in Nat
        /\ 1 \in 1..params.repeat /\ round["client"] \in Nat /\ DOMAIN round = Peers
    BY ClientFrame, RoundTypes DEF Peers
  <1>2. CASE ClientCreateEp \/ SetTos \/ RdmaConnect
    <2>1. /\ pc'["client"] \in {"tos", "connect", "connecting", "done"}
          /\ pc["client"] \in {"start", "tos", "connect", "connecting"}
          /\ round' = round
      BY <1>1, <1>2, Moved DEF ClientCreateEp, SetTos, RdmaConnect, ConnectFails
    <2> QED
      BY <2>1 DEF ClientRound
  <1>3. CASE AllocateBuffer("client")
    <2>1. /\ pc'["client"] \in {"post", "get_mr"} /\ pc["client"] = "allocate"
          /\ round' = round
      BY <1>1, <1>3, Moved DEF AllocateBuffer, AfterAllocate, RoundStart
    <2> QED
      BY <1>1, <2>1 DEF ClientRound
  <1>4. CASE GetMrInfo \/ GetMrCount \/ GetMrArray
    <2>1. /\ pc'["client"] \in {"get_mr_count", "get_mr_array", "post", "deallocate"}
          /\ pc["client"] \in {"get_mr", "get_mr_count", "get_mr_array"}
          /\ round' = round
      BY <1>1, <1>4, Moved DEF GetMrInfo, GetMrCount, GetMrArray, RecvControl,
         RegisterFails, RoundStart
    <2> QED
      BY <1>1, <2>1 DEF ClientRound
  <1>5. CASE PostRequest \/ WaitRequest
    <2>1. /\ pc'["client"] \in {"post", "wait", "report"}
          /\ pc["client"] \in {"post", "wait"} /\ round' = round
      BY <1>1, <1>5, Moved DEF PostRequest, WaitRequest, NextRequest
    <2> QED
      BY <1>1, <2>1 DEF ClientRound
  <1>6. CASE Report
    <2>1. /\ pc["client"] = "report" /\ round'["client"] = round["client"] + 1
          /\ pc'["client"] = IF round["client"] < params.repeat THEN "post"
                             ELSE "end_post"
      BY <1>1, <1>6, Moved DEF Report, AfterRound, RoundStart
    <2>2. round["client"] \in 1..params.repeat
      BY <2>1 DEF ClientRound
    <2> QED
      BY <1>1, <2>1, <2>2 DEF ClientRound
  <1>7. CASE EndPost("client") \/ EndWait("client") \/ PrintSha1sum("client")
    <2>1. /\ pc'["client"] \in {"end_wait", "sha", "deallocate"} /\ round' = round
          /\ pc'["client"] = "end_wait" => pc["client"] = "end_post"
      BY <1>1, <1>7, Moved DEF EndPost, EndWait, PrintSha1sum, SendControl,
         RecvControl, RegisterFails, procVars
    <2> QED
      BY <1>1, <2>1 DEF ClientRound
  <1>8. CASE \/ DeallocateBuffer("client") \/ Disconnect("client")
             \/ NullMrCrash("client")
    <2>1. pc'["client"] \in {"disconnect", "done", "crashed"}
      BY <1>1, <1>8, Moved DEF DeallocateBuffer, Disconnect, NullMrCrash, Crash
    <2> QED
      BY <2>1 DEF ClientRound
  <1> QED
    BY <1>2, <1>3, <1>4, <1>5, <1>6, <1>7, <1>8 DEF ClientStep, Teardown

LEMMA ServerKeepsRound ==
    ASSUME IInv, IInv', ServerAt, ServerRound, ServerStep
    PROVE  ServerRound'
  <1> USE DEF ServerEarly, SendMr, ServerRounds, EndLabels
  <1>1. /\ "server" \in Peers /\ params' = params /\ params.repeat \in Nat
        /\ 1 \in 1..params.repeat /\ round["server"] \in Nat /\ DOMAIN round = Peers
        /\ Count("server") = params.scount /\ n["server"] \in 1..params.scount
        /\ params.scount \in Nat
    BY ServerFrame, RoundTypes DEF Peers
  <1>2. CASE pc'["server"] = "crashed"
    BY <1>2 DEF ServerRound
  <1>3. CASE Listen \/ AcceptFails
    <2>1. /\ pc'["server"] \in {"get_request", "done"} /\ round' = round /\ n' = n
          /\ pc["server"] \in {"start", "get_request"}
      BY <1>1, <1>3, Moved DEF Listen, AcceptFails
    <2> QED
      BY <2>1 DEF ServerRound
  <1>4. CASE Accept
    <2>1. /\ pc'["server"] = "allocate" /\ round' = round /\ n' = n
          /\ pc["server"] = "get_request"
      BY <1>1, <1>4 DEF Accept, procVars
    <2> QED
      BY <2>1 DEF ServerRound
  <1>5. CASE AllocateBuffer("server")
    <2>1. /\ \/ pc'["server"] = "recv_post"
             \/ params.verb # "send" /\ pc'["server"] = "send_mr"
          /\ pc["server"] = "allocate" /\ round' = round /\ n' = n
      BY <1>1, <1>5, Moved DEF AllocateBuffer, AfterAllocate, RoundStart
    <2> QED
      BY <1>1, <2>1 DEF ServerRound
  <1>6. CASE (SendMrInfo /\ ~Crash("server")) \/ SendMrCount \/ SendMrArray
    <2>1. /\ \/ pc'["server"] \in {"send_mr_count", "send_mr_array", "deallocate"}
             \/ pc'["server"] = RoundStart("server")
          /\ pc["server"] \in SendMr /\ round' = round /\ n' = n
      BY <1>1, <1>6, Moved DEF SendMrInfo, SendMrCount, SendMrArray, SendControl,
         RegisterFails, SendMr
    <2>2. params.verb # "send"
      BY <2>1 DEF ServerAt
    <2>3. pc'["server"] \in {"send_mr_count", "send_mr_array", "deallocate", "end_post"}
      BY <2>1, <2>2 DEF RoundStart
    <2> QED
      BY <1>1, <2>1, <2>2, <2>3 DEF ServerRound
  <1>7. CASE RecvPost
    <2>1. /\ pc'["server"] = "recv_wait" /\ pc["server"] = "recv_post"
          /\ round' = round /\ n' = n
      BY <1>1, <1>7, Moved DEF RecvPost, procVars
    <2> QED
      BY <1>1, <2>1 DEF ServerRound
  <1>8. CASE RecvWait
    <2>1. pc["server"] = "recv_wait" /\ params.verb = "send"
      BY <1>8 DEF RecvWait, ServerAt
    <2>2. PICK f : NextRequest("server", f, "recv_post", AfterRound("server"))
      BY <1>8 DEF RecvWait
    <2>3. /\ n["server"] < params.scount
             => n'["server"] = n["server"] + 1 /\ pc' = [pc EXCEPT !["server"] = "recv_post"]
          /\ ~(n["server"] < params.scount)
             => /\ n'["server"] = 1
                /\ pc' = [pc EXCEPT !["server"] = AfterRound("server")]
      BY <1>1, <2>2, NextRequestMoves
    <2>4. round'["server"] = round["server"] + IF n["server"] = params.scount THEN 1 ELSE 0
      BY <1>1, <1>8 DEF RecvWait
    <2>5. round["server"] \in 1..params.repeat
      BY <2>1 DEF ServerRound
    <2>6. CASE n["server"] < params.scount
      <3>1. pc'["server"] = "recv_post" /\ round'["server"] = round["server"]
        BY <1>1, <2>3, <2>4, <2>6, TypedFunctions
      <3> QED
        BY <1>1, <2>5, <3>1 DEF ServerRound
    <2>7. CASE ~(n["server"] < params.scount)
      <3>1. /\ pc'["server"] = AfterRound("server")
            /\ round'["server"] = round["server"] + 1 /\ n'["server"] = 1
        BY <1>1, <2>3, <2>4, <2>7, TypedFunctions
      <3>2. pc'["server"] = IF round["server"] < params.repeat THEN "recv_post"
                            ELSE "end_post"
        BY <2>1, <3>1 DEF AfterRound, RoundStart
      <3> QED
        BY <1>1, <2>5, <3>1, <3>2 DEF ServerRound
    <2> QED
      BY <2>6, <2>7
  <1>9. CASE EndPost("server") \/ EndWait("server") \/ PrintSha1sum("server")
    <2>1. /\ pc'["server"] \in {"end_wait", "sha", "deallocate"}
          /\ round' = round /\ n' = n
          /\ pc'["server"] = "end_wait" => pc["server"] = "end_post"
          /\ pc["server"] \in {"end_post", "end_wait", "sha"}
      BY <1>1, <1>9, Moved DEF EndPost, EndWait, PrintSha1sum, SendControl,
         RecvControl, RegisterFails, procVars
    <2> QED
      BY <1>1, <2>1 DEF ServerRound
  <1>10. CASE (DeallocateBuffer("server") /\ ~Crash("server")) \/ Disconnect("server")
    <2>1. /\ pc'["server"] \in {"disconnect", "done"} /\ round' = round /\ n' = n
          /\ pc["server"] \in {"deallocate", "disconnect"}
      BY <1>1, <1>10, Moved DEF DeallocateBuffer, Disconnect, procVars
    <2> QED
      BY <1>1, <2>1 DEF ServerRound
  <1>11. /\ NullMrCrash("server") => Crash("server")
         /\ Crash("server") => pc'["server"] = "crashed"
    BY <1>1, Moved DEF NullMrCrash, Crash
  <1> QED
    BY <1>2, <1>3, <1>4, <1>5, <1>6, <1>7, <1>8, <1>9, <1>10, <1>11
       DEF ServerStep, Teardown

LEMMA NextRoundInv == IInv /\ LabelInv /\ RoundInv /\ [Next]_vars => RoundInv'
  <1> SUFFICES ASSUME IInv, LabelInv, RoundInv, [Next]_vars
               PROVE  ClientRound' /\ ServerRound'
    <2>1. ClientRound' /\ ServerRound' => RoundInv'
      BY RoundParts, PTL
    <2> QED
      BY <2>1
  <1>1. /\ ClientAt /\ ServerAt /\ ClientRound /\ ServerRound /\ IInv'
        /\ "client" \in Peers /\ "server" \in Peers
    BY LabelParts, RoundParts, NextIInv DEF Peers
  <1>2. CASE ClientStep
    BY <1>1, <1>2, ClientKeepsRound, ClientFrame DEF Kept, ServerRound
  <1>3. CASE ServerStep /\ ~Accept
    BY <1>1, <1>3, ServerKeepsRound, ServerFrame DEF Kept, ClientRound
  <1>4. CASE Accept
    <2>1. ServerRound'
      BY <1>1, <1>4, ServerKeepsRound DEF ServerStep
    <2>2. pc'["client"] = "allocate" /\ pc["client"] = "connecting" /\ round' = round
      BY <1>1, <1>4 DEF Accept, procVars
    <2> QED
      BY <1>1, <2>1, <2>2 DEF ClientRound, ClientEarly, ClientRounds, EndLabels
  <1>5. CASE \E e \in Peers : Nic(e) \/ FabricFails(e)
    <2>1. params' = params /\ pc' = pc /\ round' = round /\ n' = n
      BY <1>5, NicMoves DEF procVars
    <2> QED
      BY <1>1, <2>1 DEF ClientRound, ServerRound
  <1>6. CASE UNCHANGED vars
    BY <1>1, <1>6 DEF vars, ClientRound, ServerRound
  <1> QED
    BY <1>2, <1>3, <1>4, <1>5, <1>6 DEF Next, Step, Stopped

-----------------------------------------------------------------------------
(* What is on the queues.                                                   *)

Tidy(q) == Holds(q, Tagged) /\ RecvOk(q)

\* The receive side of a queue pair stays as it is.
LEMMA RecvOkSame ==
    ASSUME NEW q, NEW r, RecvOk(q), r.state = q.state, RecvSame(q, r)
    PROVE  RecvOk(r)
  BY DEF RecvOk, RecvSame

LEMMA WrappersTidy ==
    ASSUME NEW q, Accounted(q), Tidy(q), params \in Params
    PROVE  /\ \A s : Tidy(NewQp(s))
           /\ Tidy(Destroyed(q)) /\ Tidy(PollSend(q))
           /\ q.rcq # << >> => Tidy(PollRecv(q))
           /\ \A kind \in Kinds, i \in Nat : Tidy(PostRecv(q, kind, i))
           /\ \A kind \in Kinds \ {"data"} : Tidy(PostSend(q, "send", kind, 0, TRUE))
           /\ \A i \in Nat, sig \in BOOLEAN :
                 Tidy(PostSend(q, params.verb, "data", i, sig))
  <1>1. /\ q \in QueuePairs /\ q.posted + 1 \in Nat /\ q.rcq \in Seq(RecvCompletions)
        /\ Holds(q, Tagged) /\ RecvOk(q)
    BY QpFields DEF Tidy
  <1>2. \A s : Tidy(NewQp(s))
    BY NewQpHolds DEF Tidy, RecvOk, NewQp
  <1>3. Tidy(Destroyed(q))
    <2>1. Holds(Destroyed(q), Tagged)
      BY <1>1, OthersHold
    <2>2. Len(Destroyed(q).rcq) = 0
      BY DEF Destroyed
    <2> QED
      BY <2>1, <2>2 DEF Tidy, RecvOk
  <1>4. Tidy(PollSend(q))
    BY <1>1, OthersHold, SidesKept, StatesKept, RecvOkSame DEF Tidy
  <1>5. ASSUME q.rcq # << >> PROVE Tidy(PollRecv(q))
    <2>1. PollRecv(q).rcq = Tail(q.rcq) /\ PollRecv(q).state = q.state
      BY <1>1, StatesKept DEF PollRecv, QueuePairs
    <2>2. /\ Len(Tail(q.rcq)) = Len(q.rcq) - 1
          /\ \A j \in 1..Len(Tail(q.rcq)) :
                j + 1 \in 1..Len(q.rcq) /\ Tail(q.rcq)[j] = q.rcq[j + 1]
      BY <1>1, <1>5
    <2>3. RecvOk(PollRecv(q))
      BY <1>1, <2>1, <2>2 DEF RecvOk
    <2> QED
      BY <1>1, <2>3, OthersHold DEF Tidy
  <1>6. ASSUME NEW kind \in Kinds, NEW i \in Nat PROVE Tidy(PostRecv(q, kind, i))
    <2> DEFINE b == [kind |-> kind, n |-> i]
               c == [ok |-> FALSE, buf |-> b, msg |-> b]
               r == PostRecv(q, kind, i)
    <2>1. b \in Buffers
      BY DEF Buffers
    <2>2. c \in RecvCompletions
      BY <2>1 DEF RecvCompletions
    <2>3. /\ r.state = q.state
          /\ \/ q.state = "err" /\ r.rcq = Append(q.rcq, c)
             \/ r.rcq = q.rcq
      BY <1>1, StatesKept DEF PostRecv, QueuePairs
    <2> HIDE DEF r, c
    <2>4. RecvOk(r)
      BY <1>1, <2>2, <2>3 DEF RecvOk
    <2> QED
      BY <1>1, <2>4, OthersHold DEF Tidy, r
  <1>7. ASSUME NEW kind \in Kinds \ {"data"}
        PROVE  Tidy(PostSend(q, "send", kind, 0, TRUE))
    <2>1. [op |-> "send", kind |-> kind, n |-> 0, sig |-> TRUE,
           idx |-> q.posted + 1] \in Tagged
      BY <1>1 DEF Tagged, WorkRequests
    <2>2. Holds(PostSend(q, "send", kind, 0, TRUE), Tagged)
      BY <1>1, <2>1, PostSendHolds
    <2> DEFINE r == PostSend(q, "send", kind, 0, TRUE)
    <2>3. r.state = q.state /\ r.rq = q.rq /\ r.rcq = q.rcq
      BY <1>1 DEF PostSend, QueuePairs
    <2> HIDE DEF r
    <2>4. RecvOk(r)
      BY <1>1, <2>3, RecvOkSame DEF RecvSame
    <2> QED
      BY <2>2, <2>4 DEF Tidy, r
  <1>8. ASSUME NEW i \in Nat, NEW sig \in BOOLEAN
        PROVE  Tidy(PostSend(q, params.verb, "data", i, sig))
    <2>1. params.verb \in {"send", "read", "write"} /\ "data" \in Kinds
      BY DEF Params, Kinds
    <2>2. [op |-> params.verb, kind |-> "data", n |-> i, sig |-> sig,
           idx |-> q.posted + 1] \in Tagged
      BY <1>1, <2>1 DEF Tagged, WorkRequests
    <2>3. Holds(PostSend(q, params.verb, "data", i, sig), Tagged)
      BY <1>1, <2>2, PostSendHolds
    <2>4. RecvOk(PostSend(q, params.verb, "data", i, sig))
      BY <1>1, SidesKept, StatesKept, RecvOkSame
    <2> QED
      BY <2>3, <2>4 DEF Tidy
  <1> QED
    BY <1>2, <1>3, <1>4, <1>5, <1>6, <1>7, <1>8

LEMMA NicTidy ==
    ASSUME NEW q, Accounted(q), Tidy(q), NEW r, NicMove(q, r)
    PROVE  Tidy(r)
  <1>1. /\ q \in QueuePairs /\ q.rcq \in Seq(RecvCompletions) /\ q.rq \in Seq(Buffers)
        /\ Holds(q, Tagged) /\ RecvOk(q)
    BY QpFields DEF Tidy
  <1>2. Holds(r, Tagged)
    BY <1>1, OthersHold, AcknowledgedHolds DEF NicMove
  <1>3. CASE r = q
    BY <1>3
  <1>4. CASE q.state = "rts" /\ r = Flushed(q)
    <2>1. r.state = "err"
      BY <1>4, FlushedFields DEF FlushedTo
    <2> QED
      BY <1>2, <2>1 DEF Tidy, RecvOk
  <1>5. CASE r = Executed(q)
    <2>1. r.state = q.state /\ RecvSame(q, r)
      BY <1>5, SidesKept DEF SendSame
    <2> QED
      BY <1>1, <1>2, <2>1, RecvOkSame DEF Tidy
  <1>6. CASE q.sent > 0 /\ r = Acknowledged(q)
    <2>1. r.state = q.state /\ RecvSame(q, r)
      BY <1>6, SidesKept, AcknowledgedFields DEF AckedTo
    <2> QED
      BY <1>1, <1>2, <2>1, RecvOkSame DEF Tidy
  <1>7. ASSUME q.rq # << >>, NEW m \in Buffers, r = Received(q, m) PROVE Tidy(r)
    <2> DEFINE c == [ok |-> TRUE, buf |-> Head(q.rq), msg |-> m]
    <2>1. c \in RecvCompletions /\ c.ok = TRUE
      BY <1>1, <1>7 DEF RecvCompletions
    <2>2. r.state = q.state /\ r.rcq = Append(q.rcq, c)
      BY <1>1, <1>7 DEF Received, QueuePairs
    <2> HIDE DEF c
    <2>3. \A j \in 1..Len(r.rcq) : \/ j \in 1..Len(q.rcq) /\ r.rcq[j] = q.rcq[j]
                                   \/ r.rcq[j] = c
      BY <1>1, <2>1, <2>2, AppendEntries
    <2>4. RecvOk(r)
      BY <1>1, <2>1, <2>2, <2>3 DEF RecvOk
    <2> QED
      BY <1>2, <2>4 DEF Tidy
  <1> QED
    BY <1>3, <1>4, <1>5, <1>6, <1>7 DEF NicMove

LEMMA CompTidy ==
    ASSUME IInv, NEW e \in Peers, Tidy(qp[e])
    PROVE  /\ \A c \in SendComp(e) : Tidy(c.q)
           /\ \A c \in RecvComp(e) : Tidy(c.q)
  <1>1. Accounted(qp[e]) /\ params \in Params
    BY ParamAssumption DEF IInv, QpInv, Good, Rest, ProcTypeOK
  <1>2. Tidy(PollSend(qp[e])) /\ (qp[e].rcq # << >> => Tidy(PollRecv(qp[e])))
    BY <1>1, WrappersTidy
  <1>3. ASSUME NEW c \in SendComp(e) PROVE Tidy(c.q)
    BY <1>2 DEF SendComp, PollFails
  <1>4. ASSUME NEW c \in RecvComp(e) PROVE Tidy(c.q)
    BY <1>2 DEF RecvComp, PollFails
  <1> QED
    BY <1>3, <1>4

LEMMA ProcessTidy ==
    ASSUME IInv, NEW e \in Peers, Tidy(qp[e]),
           \/ e = "client" /\ ClientStep
           \/ e = "server" /\ ServerStep
    PROVE  Tidy(qp'[e])
  <1>1. /\ Accounted(qp[e]) /\ params \in Params /\ n[e] \in Nat
        /\ Tidy(qp[e])
    BY ParamAssumption DEF IInv, QpInv, Good, Rest, ProcTypeOK
  <1>2. /\ {"count", "array", "end"} \subseteq Kinds \ {"data"}
        /\ {"count", "array", "end", "data"} \subseteq Kinds /\ 0 \in Nat
        /\ "client" \in Peers /\ "server" \in Peers
    BY DEF Kinds, Peers
  <1>3. /\ \A s : Tidy(NewQp(s)) /\ Tidy(Destroyed(qp[e]))
    BY <1>1, WrappersTidy
  <1>4. CASE qp'[e] = qp[e]
    BY <1>1, <1>4
  <1>5. CASE Crash(e)
    BY <1>3, <1>5, Moved DEF Crash
  <1>6. CASE \/ AllocateBuffer(e) \/ PrintSha1sum(e) \/ Disconnect(e)
             \/ DeallocateBuffer(e) \/ NullMrCrash(e)
    BY <1>3, <1>4, <1>5, <1>6, Moved DEF AllocateBuffer, PrintSha1sum, Disconnect,
       DeallocateBuffer, NullMrCrash
  <1>7. CASE EndPost(e)
    <2>1. \/ qp'[e] = qp[e] \/ qp'[e] = PostSend(qp[e], "send", "end", 0, TRUE)
          \/ qp'[e] = PostRecv(qp[e], "end", 0)
      BY <1>7, Moved DEF EndPost, SendControl, RecvControl, RegisterFails
    <2> QED
      BY <1>1, <1>2, <2>1, WrappersTidy
  <1>8. CASE EndWait(e)
    <2>1. \E c \in SendComp(e) \union RecvComp(e) : qp'[e] = c.q
      BY <1>8, Moved DEF EndWait
    <2> QED
      BY <1>1, <2>1, CompTidy
  <1>9. CASE e = "client" /\ ClientStep
    <2>1. CASE ClientCreateEp \/ SetTos \/ RdmaConnect \/ Report
      BY <1>3, <1>4, <1>9, <2>1, Moved DEF ClientCreateEp, SetTos, RdmaConnect,
         ConnectFails, Report
    <2>2. CASE GetMrInfo
      <3>1. qp'[e] = qp[e] \/ qp'[e] = PostRecv(qp[e], "count", 0)
        BY <1>9, <2>2, Moved DEF GetMrInfo, RecvControl, RegisterFails
      <3> QED
        BY <1>1, <1>2, <3>1, WrappersTidy
    <2>3. CASE GetMrCount
      <3>1. PICK c \in RecvComp(e) :
               qp'[e] = c.q \/ qp'[e] = PostRecv(c.q, "array", 0)
        BY <1>9, <2>3, Moved DEF GetMrCount
      <3>2. Tidy(c.q) /\ Accounted(c.q)
        BY <1>1, CompTidy, CompStates
      <3> QED
        BY <1>1, <1>2, <3>1, <3>2, WrappersTidy
    <2>4. CASE GetMrArray \/ WaitRequest
      <3>1. \E c \in SendComp(e) \union RecvComp(e) : qp'[e] = c.q
        BY <1>9, <2>4, Moved DEF GetMrArray, WaitRequest
      <3> QED
        BY <1>1, <3>1, CompTidy
    <2>5. CASE PostRequest
      <3>1. /\ qp'[e] = PostSend(qp[e], params.verb, "data", n[e], Signaled(n[e]))
            /\ Signaled(n[e]) \in BOOLEAN
        BY <1>9, <2>5, Moved DEF PostRequest, Signaled
      <3> QED
        BY <1>1, <3>1, WrappersTidy
    <2> QED
      BY <1>6, <1>7, <1>8, <1>9, <2>1, <2>2, <2>3, <2>4, <2>5 DEF ClientStep, Teardown
  <1>10. CASE e = "server" /\ ServerStep
    <2>1. CASE Listen \/ AcceptFails
      BY <1>3, <1>4, <1>10, <2>1, Moved DEF Listen, AcceptFails
    <2>2. CASE Accept
      BY <1>2, <1>3, <1>10, <2>2 DEF Accept
    <2>3. CASE SendMrInfo
      <3>1. \/ Crash(e) \/ qp'[e] = qp[e]
            \/ qp'[e] = PostSend(qp[e], "send", "count", 0, TRUE)
        BY <1>10, <2>3, Moved DEF SendMrInfo, SendControl, RegisterFails
      <3> QED
        BY <1>1, <1>2, <1>5, <3>1, WrappersTidy
    <2>4. CASE SendMrCount
      <3>1. PICK c \in SendComp(e) :
               qp'[e] = c.q \/ qp'[e] = PostSend(c.q, "send", "array", 0, TRUE)
        BY <1>10, <2>4, Moved DEF SendMrCount
      <3>2. Tidy(c.q) /\ Accounted(c.q)
        BY <1>1, CompTidy, CompStates
      <3> QED
        BY <1>1, <1>2, <3>1, <3>2, WrappersTidy
    <2>5. CASE SendMrArray \/ RecvWait
      <3>1. \E c \in SendComp(e) \union RecvComp(e) : qp'[e] = c.q
        BY <1>10, <2>5, Moved DEF SendMrArray, RecvWait
      <3> QED
        BY <1>1, <3>1, CompTidy
    <2>6. CASE RecvPost
      <3>1. qp'[e] = PostRecv(qp[e], "data", n[e])
        BY <1>10, <2>6, Moved DEF RecvPost
      <3> QED
        BY <1>1, <1>2, <3>1, WrappersTidy
    <2> QED
      BY <1>6, <1>7, <1>8, <1>10, <2>1, <2>2, <2>3, <2>4, <2>5, <2>6
         DEF ServerStep, Teardown
  <1> QED
    BY <1>9, <1>10

LEMMA NextQueues == IInv /\ QueueInv /\ [Next]_vars => QueueInv'
  <1> SUFFICES ASSUME IInv, QueueInv, [Next]_vars PROVE QueueInv'
    OBVIOUS
  <1>1. "client" \in Peers /\ "server" \in Peers /\ \A e \in Peers : Tidy(qp[e])
    BY DEF Peers, QueueInv, Tidy
  <1>2. /\ params' = params
        /\ \A e \in Peers : Tidy(qp'[e])
    <2>1. CASE ClientStep
      BY <1>1, <2>1, ProcessTidy, ClientFrame DEF Kept, Peers
    <2>2. CASE ServerStep /\ ~Accept
      BY <1>1, <2>2, ProcessTidy, ServerFrame DEF Kept, Peers
    <2>3. CASE Accept
      <3>1. \A e \in Peers : qp'[e] = NewQp("rts") /\ params' = params
        BY <2>3 DEF Accept, procVars
      <3>2. Accounted(qp["client"]) /\ params \in Params
        BY <1>1, ParamAssumption DEF IInv, QpInv, Good, Rest, ProcTypeOK
      <3> QED
        BY <1>1, <3>1, <3>2, WrappersTidy
    <2>4. CASE \E e \in Peers : Nic(e) \/ FabricFails(e)
      <3>1. params' = params /\ \A d \in Peers : NicMove(qp[d], qp'[d])
        BY <2>4, NicMoves DEF procVars
      <3>2. \A d \in Peers : Accounted(qp[d])
        BY DEF IInv, QpInv, Good
      <3> QED
        BY <1>1, <3>1, <3>2, NicTidy
    <2>5. CASE UNCHANGED vars
      BY <1>1, <2>5 DEF vars
    <2> QED
      BY <2>1, <2>2, <2>3, <2>4, <2>5 DEF Next, Step, Stopped
  <1>3. Tagged' = Tagged
    BY <1>2 DEF Tagged
  <1>4. \A e \in Peers : Holds(qp'[e], Tagged) /\ RecvOk(qp'[e])
    BY <1>2 DEF Tidy
  <1> QED
    BY <1>3, <1>4 DEF QueueInv, RecvOk

-----------------------------------------------------------------------------
(* A process that is connected.                                             *)

LEMMA ConnectedPolls ==
    ASSUME IInv, QueueInv, Polls, NEW e \in Peers, qp[e].state = "rts"
    PROVE  /\ \A c \in SendComp(e) : /\ c.rv = 1 /\ c.q = PollSend(qp[e])
                                     /\ qp[e].scq # << >>
           /\ \A c \in RecvComp(e) : /\ c.rv = 1 /\ c.q = PollRecv(qp[e])
                                     /\ qp[e].rcq # << >>
           /\ \A j \in 1..Len(qp[e].scq) : qp[e].scq[j].ok
           /\ \A j \in 1..Len(qp[e].rcq) : qp[e].rcq[j].ok
  <1>1. /\ Accounted(qp[e]) /\ FailuresLast(qp[e]) /\ RecvOk(qp[e])
        /\ params.faults \intersect {"poll"} = {}
    BY DEF IInv, QpInv, Good, QueueInv, Polls, MayFail
  <1>2. /\ qp[e].scq \in Seq(SendCompletions) /\ qp[e].rcq \in Seq(RecvCompletions)
    BY <1>1, QpFields
  <1>3. /\ \A j \in 1..Len(qp[e].scq) : qp[e].scq[j].ok
        /\ \A j \in 1..Len(qp[e].rcq) : qp[e].rcq[j].ok
    BY <1>1 DEF FailuresLast, RecvOk
  <1>4. /\ qp[e].scq # << >> => Head(qp[e].scq).ok
        /\ qp[e].rcq # << >> => Head(qp[e].rcq).ok
    BY <1>2, <1>3
  <1>5. ASSUME NEW c \in SendComp(e)
        PROVE  c.rv = 1 /\ c.q = PollSend(qp[e]) /\ qp[e].scq # << >>
    BY <1>1, <1>4 DEF SendComp, PollFails
  <1>6. ASSUME NEW c \in RecvComp(e)
        PROVE  c.rv = 1 /\ c.q = PollRecv(qp[e]) /\ qp[e].rcq # << >>
    BY <1>1, <1>4 DEF RecvComp, PollFails
  <1> QED
    BY <1>3, <1>5, <1>6

\* A process does not reconnect.
LEMMA StillConnected ==
    ASSUME IInv, NEW e \in Peers, qp'[e].state = "rts",
           \/ e = "client" /\ ClientStep
           \/ e = "server" /\ ServerStep /\ ~Accept
    PROVE  qp[e].state = "rts" /\ ~Crash(e) /\ ~Disconnect(e)
  <1>1. Accounted(qp[e])
    BY DEF IInv, QpInv, Good
  <1>2. Destroyed(qp[e]).state # "rts" /\ \A s : NewQp(s).state = s
    BY <1>1, StatesKept
  <1>3. ~Crash(e) /\ ~Disconnect(e)
    BY <1>2, Moved DEF Crash, Disconnect
  <1>4. CASE qp'[e] = qp[e]
    BY <1>3, <1>4
  <1>5. CASE \E c \in SendComp(e) \union RecvComp(e) :
                \/ qp'[e] = c.q \/ qp'[e] = PostRecv(c.q, "array", 0)
                \/ qp'[e] = PostSend(c.q, "send", "array", 0, TRUE)
    <2>1. PICK c \in SendComp(e) \union RecvComp(e) :
                \/ qp'[e] = c.q \/ qp'[e] = PostRecv(c.q, "array", 0)
                \/ qp'[e] = PostSend(c.q, "send", "array", 0, TRUE)
      BY <1>5
    <2>2. c.q.state = qp[e].state /\ Accounted(c.q)
      BY CompStates
    <2>3. PostRecv(c.q, "array", 0).state = c.q.state
      BY <2>2, StatesKept
    <2>4. PostSend(c.q, "send", "array", 0, TRUE).state = c.q.state
      BY <2>2 DEF PostSend, Accounted, QueuePairs
    <2> QED
      BY <1>3, <2>1, <2>2, <2>3, <2>4
  <1>6. CASE \/ \E kind, i : qp'[e] = PostRecv(qp[e], kind, i)
             \/ \E op, kind, i, sig : qp'[e] = PostSend(qp[e], op, kind, i, sig)
    <2>1. /\ \A kind, i : PostRecv(qp[e], kind, i).state = qp[e].state
          /\ \A op, kind, i, sig : PostSend(qp[e], op, kind, i, sig).state = qp[e].state
      BY <1>1, StatesKept
    <2> QED
      BY <1>3, <1>6, <2>1
  <1>7. CASE AllocateBuffer(e) \/ PrintSha1sum(e) \/ DeallocateBuffer(e) \/ NullMrCrash(e)
    BY <1>3, <1>4, <1>7 DEF AllocateBuffer, PrintSha1sum, DeallocateBuffer, NullMrCrash
  <1>8. CASE EndPost(e) \/ EndWait(e)
    BY <1>4, <1>5, <1>6, <1>8, Moved DEF EndPost, EndWait, SendControl, RecvControl,
       RegisterFails
  <1>9. CASE e = "client" /\ ClientStep
    <2>1. CASE ClientCreateEp \/ SetTos \/ RdmaConnect \/ Report
      BY <1>2, <1>4, <1>9, <2>1, Moved DEF ClientCreateEp, SetTos, RdmaConnect,
         ConnectFails, Report
    <2>2. CASE GetMrInfo \/ PostRequest
      BY <1>4, <1>6, <1>9, <2>2, Moved DEF GetMrInfo, PostRequest, RecvControl,
         RegisterFails
    <2>3. CASE GetMrCount \/ GetMrArray \/ WaitRequest
      BY <1>5, <1>9, <2>3, Moved DEF GetMrCount, GetMrArray, WaitRequest
    <2> QED
      BY <1>3, <1>7, <1>8, <1>9, <2>1, <2>2, <2>3 DEF ClientStep, Teardown
  <1>10. CASE e = "server" /\ ServerStep /\ ~Accept
    <2>1. CASE Listen \/ AcceptFails
      BY <1>2, <1>4, <1>10, <2>1, Moved DEF Listen, AcceptFails
    <2>2. CASE SendMrInfo
      BY <1>3, <1>4, <1>6, <1>10, <2>2, Moved DEF SendMrInfo, SendControl,
         RegisterFails
    <2>4. CASE RecvPost
      BY <1>6, <1>10, <2>4, Moved DEF RecvPost
    <2>3. CASE SendMrCount \/ SendMrArray \/ RecvWait
      BY <1>5, <1>10, <2>3, Moved DEF SendMrCount, SendMrArray, RecvWait
    <2> QED
      BY <1>3, <1>7, <1>8, <1>10, <2>1, <2>2, <2>3, <2>4 DEF ServerStep, Teardown
  <1> QED
    BY <1>9, <1>10

\* A connected sender takes its completion when everything has been executed.
LEMMA PolledDone ==
    ASSUME NEW q, Accounted(q), FailuresLast(q), q.state = "rts", q.scq # << >>,
           NEW kind, Awaiting(q, kind)
    PROVE  /\ q.sq = << >> /\ q.sent = 0 /\ Done(q) = Unretired(q)
           /\ Unretired(PollSend(q)) = 0 /\ Done(PollSend(q)) = 0
           /\ PollSend(q).sq = << >>
  <1>1. /\ q.scq \in Seq(SendCompletions) /\ q.sq \in Seq(WorkRequests)
        /\ Len(q.sq) \in Nat /\ q.posted \in Nat /\ q.retired \in Nat /\ q.sent \in Nat
        /\ q.sent <= Len(q.sq) /\ q \in QueuePairs
        /\ Ordered(q.scq, q.retired, q.posted - Len(q.sq))
    BY QpFields DEF SendAccounting
  <1>2. 1 \in 1..Len(q.scq) /\ Head(q.scq) = q.scq[1] /\ q.scq[1].ok
    BY <1>1 DEF FailuresLast
  <1>3. q.scq[1].idx = q.posted /\ q.scq[1].idx <= q.posted - Len(q.sq)
    BY <1>1, <1>2 DEF Awaiting, Ordered
  <1>4. Len(q.sq) = 0 /\ q.sq = << >> /\ q.sent = 0
    BY <1>1, <1>3
  <1>5. /\ PollSend(q).sq = q.sq /\ PollSend(q).sent = q.sent
        /\ PollSend(q).posted = q.posted /\ PollSend(q).retired = q.posted
    BY <1>1, <1>2, <1>3 DEF PollSend, QueuePairs
  <1> QED
    BY <1>1, <1>4, <1>5 DEF Done, Unretired

\* A queue pair with at most no request outstanding has none.
LEMMA NothingPosted ==
    ASSUME NEW q, Accounted(q), Unretired(q) <= 0
    PROVE  Unretired(q) = 0 /\ q.sq = << >> /\ q.sent = 0 /\ Done(q) = 0
  <1>1. /\ q.sq \in Seq(WorkRequests) /\ Len(q.sq) \in Nat
        /\ q.posted \in Nat /\ q.retired \in Nat /\ q.sent \in Nat
        /\ q.sent <= Len(q.sq) /\ q.retired <= q.posted - Len(q.sq)
    BY QpFields DEF SendAccounting
  <1>2. Len(q.sq) = 0 /\ q.sent = 0 /\ q.posted = q.retired
    BY <1>1 DEF Unretired
  <1> QED
    BY <1>1, <1>2 DEF Done, Unretired

-----------------------------------------------------------------------------
(* The requests of a round.                                                 *)

\* What a step of a process starts from.
Known == /\ IInv /\ LocalInv /\ Polls /\ QueueInv /\ LabelInv /\ RoundInv /\ StampInv
         /\ BurstInv /\ ClientLoss /\ ServerLoss /\ ControlInv

LEMMA KnownFacts ==
    ASSUME Known
    PROVE  /\ IInv /\ LocalInv /\ Locals /\ Polls /\ QueueInv /\ LabelInv
           /\ RoundInv /\ StampInv
           /\ ClientAt /\ ServerAt
           /\ \A e \in Peers : /\ Accounted(qp[e]) /\ FailuresLast(qp[e])
                               /\ Good(e, qp[e]) /\ At(e, pc[e], qp[e], n[e])
           /\ "client" \in Peers /\ "server" \in Peers
  BY StepFacts, LabelParts, ReliablePolls DEF Known, Good

\* As long as polling works no receive is refused: every one is posted where
\* the one before it has been polled for.
LEMMA Unrefused ==
    ASSUME IInv, Locals, Polls, NEW e \in Peers
    PROVE  /\ pc[e] \in {"get_mr", "recv_post"} => CanRecv(qp[e])
           /\ pc[e] = "end_post" => CanRecv(qp[e])
           /\ pc[e] = "get_mr_count" => \A c \in RecvComp(e) : CanRecv(c.q)
  <1>1. Good(e, qp[e]) /\ At(e, pc[e], qp[e], n[e])
    BY StepFacts
  <1>2. ASSUME pc[e] \in {"get_mr", "recv_post", "end_post"} PROVE CanRecv(qp[e])
    BY <1>1, <1>2, IdleReceives DEF At, RecvAt, RecvWaits
  <1>3. ASSUME pc[e] = "get_mr_count", NEW c \in RecvComp(e) PROVE CanRecv(c.q)
    <2>1. c.polled /\ pc[e] \in RecvWaits(e)
      BY <1>3, PollsWork DEF RecvWaits
    <2>2. Quiet(c.q)
      BY <1>1, <2>1, RecvPolled
    <2> QED
      BY <2>2, IdleReceives DEF Quiet
  <1> QED
    BY <1>2, <1>3

\* The first request of a round finds nothing outstanding.
LEMMA RoundBegins ==
    ASSUME IInv', Locals', pc'["client"] = "post", n'["client"] = 1,
           qp'["client"].state = "rts", failed'["client"] = 0
    PROVE  BurstInv'
  <1> DEFINE q == qp'["client"]
  <1>1. Accounted(q) /\ Posting(q, "data", n'["client"] - 1)
    <2>1. \A e \in Peers : Accounted(qp[e])'
      BY DEF IInv, QpInv, Good
    <2>2. \A e \in Peers : At(e, pc[e], qp[e], n[e])'
      BY DEF Locals
    <2>3. "client" \in Peers
      BY DEF Peers
    <2> QED
      BY <2>1, <2>2, <2>3 DEF At, SendAt
  <1>2. Unretired(q) <= 0
    BY <1>1 DEF Posting
  <1> HIDE DEF q
  <1>3. Unretired(q) = 0 /\ q.sq = << >> /\ Base' = 0
    BY <1>1, <1>2, NothingPosted DEF Base
  <1>4. Len(q.sq) = 0
    BY <1>3
  <1>5. Numbered(qp["client"])'
    BY <1>4 DEF Numbered, q
  <1>6. Accepted(qp["client"])'
    BY <1>3 DEF Accepted, q
  <1> QED
    BY <1>5, <1>6 DEF BurstInv, q

LEMMA PostKeepsBurst ==
    ASSUME Known, IInv', PostRequest, qp'["client"].state = "rts"
    PROVE  ClientLoss' /\ BurstInv'
  <1> DEFINE q == qp["client"]
             r == qp'["client"]
             k == n["client"]
             wr == [op |-> params.verb, kind |-> "data", n |-> k,
                    sig |-> Signaled(k), idx |-> q.posted + 1]
  <1>1. /\ "client" \in Peers /\ Accounted(q) /\ FailuresLast(q)
        /\ Posting(q, "data", k - 1) /\ pc["client"] = "post" /\ params' = params
        /\ r = PostSend(q, params.verb, "data", k, Signaled(k))
    BY KnownFacts, Moved DEF PostRequest, At, SendAt
  <1>2. /\ k \in Nat /\ k > 0 /\ k <= params.count /\ params.count \in Nat
        /\ params.verb \in {"send", "read", "write"} /\ "data" \in Kinds
        /\ Signaled(k) \in BOOLEAN /\ Count("client") = params.count
        /\ params.mode \in {"latency", "throughput"}
    BY KnownFacts, ClientIndex, StampTypes DEF Kinds, Signaled
  <1>3. Posted(q, r, wr)
    BY <1>1, <1>2, PostSendFields
  <1>4. q.state = "rts"
    BY KnownFacts, StillConnected DEF ClientStep
  <1>5. /\ Numbered(q) /\ ~lost["client"]
        /\ \/ failed["client"] = 0 /\ Unretired(q) = k - 1 - Base
           \/ ~CanPost(q)
    BY <1>1, <1>4 DEF Known, BurstInv, Accepted, ClientLoss
  <1>6. /\ q.posted \in Nat /\ q.retired \in Nat /\ Len(q.sq) \in Nat
        /\ q.sq \in Seq(WorkRequests) /\ q.scq \in Seq(SendCompletions)
        /\ r.posted \in Nat /\ r.retired \in Nat
    <2>1. Accounted(r)
      BY <1>1 DEF IInv, QpInv, Good
    <2> QED
      BY <1>1, <2>1, QpFields
  <1> DEFINE b == Base
  <1>7. /\ b \in Nat /\ (params.mode = "latency" => b = k - 1)
        /\ (params.mode # "latency" => b = 0)
    BY <1>2 DEF Base
  <1> HIDE DEF b, k, q, r, wr
  <1>8. CASE CanPost(q)
    <2>1. failed["client"] = 0 /\ q.posted - q.retired = k - 1 - b
      BY <1>5, <1>8 DEF Unretired, b
    <2>2. /\ r.posted = q.posted + 1 /\ r.retired = q.retired
          /\ Len(r.sq) = Len(q.sq) + 1
          /\ \A j \in 1..Len(r.sq) : \/ j \in 1..Len(q.sq) /\ r.sq[j] = q.sq[j]
                                     \/ r.sq[j] = wr
      BY <1>3, <1>4, <1>8 DEF Posted
    <2>3. Unretired(r) = k - b
      <3> DEFINE x == q.posted
                 y == q.retired
      <3>1. Unretired(r) = (x + 1) - y /\ x - y = (k - 1) - b
        BY <2>1, <2>2 DEF Unretired
      <3>2. x \in Nat /\ y \in Nat /\ k \in Nat /\ b \in Nat
        BY <1>2, <1>6, <1>7
      <3> HIDE DEF x, y
      <3>3. (x + 1) - y = k - b
        BY <3>1, <3>2
      <3> QED
        BY <3>1, <3>3
    <2>4. \A j \in 1..Len(r.sq) : r.sq[j].n = b + r.sq[j].idx - r.retired
      <3>1. wr.n = b + wr.idx - r.retired
        <4>1. wr.n = k /\ wr.idx = q.posted + 1
          BY DEF wr
        <4> QED
          BY <1>2, <1>6, <1>7, <2>1, <2>2, <4>1, SMTT(60)
      <3> QED
        BY <1>5, <2>2, <3>1 DEF Numbered, b
    <2>5. CASE Signaled(k)
      <3>1. /\ pc'["client"] = "wait" /\ bad' = FALSE
            /\ n' = n /\ failed' = failed /\ lost' = lost
        BY <1>1, <1>8, <2>5, Moved, KnownFacts DEF PostRequest, q, k
      <3>2. Base' = b
        BY <1>1, <3>1 DEF Base, b
      <3>3. Numbered(qp["client"])'
        BY <2>4, <3>2 DEF Numbered, r
      <3>4. Accepted(qp["client"])'
        BY <2>1, <2>3, <3>1, <3>2 DEF Accepted, r, k
      <3>5. ClientLoss'
        BY <1>5, <2>1, <3>1 DEF ClientLoss, ClientEarly
      <3> QED
        BY <3>3, <3>4, <3>5 DEF BurstInv, r
    <2>6. CASE ~Signaled(k)
      <3>1. /\ k < params.count /\ b = 0 /\ params.mode # "latency"
        BY <1>2, <1>7, <2>6 DEF Signaled
      <3>2. /\ pc'["client"] = "post" /\ n'["client"] = k + 1
            /\ failed'["client"] = FailureCount("client", ~CanPost(q))
            /\ lost' = lost
        BY <1>1, <1>2, <2>6, <3>1, Moved, TypedFunctions, KnownFacts
           DEF PostRequest, NextRequest, k, q
      <3>3. failed'["client"] = 0
        BY <1>8, <2>1, <3>2 DEF FailureCount
      <3>4. Base' = 0
        BY <1>1, <3>1 DEF Base
      <3>5. Numbered(qp["client"])'
        BY <2>4, <3>1, <3>4 DEF Numbered, r
      <3>6. Unretired(r) = n'["client"] - 1 - Base'
        BY <1>2, <2>3, <3>1, <3>2, <3>4
      <3>7. Accepted(qp["client"])'
        BY <3>2, <3>3, <3>6 DEF Accepted, r
      <3>8. ClientLoss'
        BY <1>5, <3>2, <3>3 DEF ClientLoss, ClientEarly
      <3> QED
        BY <3>5, <3>7, <3>8 DEF BurstInv, r
    <2> QED
      BY <2>5, <2>6
  <1>9. CASE ~CanPost(q)
    <2>1. r = q
      BY <1>3, <1>9 DEF Posted
    <2>2. ~Signals(q)
      <3>1. \A j \in 1..Len(q.scq) : q.scq[j].ok /\ ~q.scq[j].ok
        BY <1>1, <1>4 DEF FailuresLast, Posting
      <3>2. q.scq = << >>
        BY <1>6, <3>1
      <3> QED
        BY <1>1, <3>2 DEF Signals, Posting
    <2>3. CASE Signaled(k)
      <3>1. /\ pc'["client"] = "wait" /\ n' = n /\ lost' = lost
        BY <1>1, <2>3, Moved, KnownFacts DEF PostRequest, q, k
      <3>2. Base' = b
        BY <1>1, <3>1 DEF Base, b
      <3>3. Numbered(qp["client"])'
        BY <1>5, <2>1, <3>2 DEF Numbered, r, b
      <3>4. Accepted(qp["client"])'
        BY <2>1, <2>2, <3>1 DEF Accepted, r
      <3>5. ClientLoss'
        BY <1>5, <3>1 DEF ClientLoss, ClientEarly
      <3> QED
        BY <3>3, <3>4, <3>5 DEF BurstInv, r
    <2>4. CASE ~Signaled(k)
      <3>1. k < params.count /\ b = 0 /\ params.mode # "latency"
        BY <1>2, <1>7, <2>4 DEF Signaled
      <3>2. pc'["client"] = "post" /\ lost' = lost
        BY <1>1, <1>2, <2>4, <3>1, Moved, KnownFacts DEF PostRequest, NextRequest, k, q
      <3>3. Base' = b
        BY <1>1, <3>1 DEF Base
      <3>4. Numbered(qp["client"])'
        BY <1>5, <2>1, <3>3 DEF Numbered, r, b
      <3>5. Accepted(qp["client"])'
        BY <1>9, <2>1, <3>2 DEF Accepted, r
      <3>6. ClientLoss'
        BY <1>5, <3>2 DEF ClientLoss, ClientEarly
      <3> QED
        BY <3>4, <3>5, <3>6 DEF BurstInv, r
    <2> QED
      BY <2>3, <2>4
  <1> QED
    BY <1>8, <1>9

LEMMA WaitKeepsBurst ==
    ASSUME Known, IInv', Locals', WaitRequest, qp'["client"].state = "rts"
    PROVE  /\ ClientLoss' /\ BurstInv'
           /\ failed["client"] = 0 /\ Unretired(qp["client"]) = n["client"] - Base
           /\ qp'["client"] = PollSend(qp["client"]) /\ qp["client"].scq # << >>
           /\ qp["client"].state = "rts"
           /\ n["client"] < params.count => /\ pc'["client"] = "post"
                                            /\ n'["client"] = n["client"] + 1
                                            /\ params.mode = "latency"
           /\ ~(n["client"] < params.count) => /\ pc'["client"] = "report"
                                               /\ n'["client"] = 1
  <1> DEFINE q == qp["client"]
             k == n["client"]
  <1>1. /\ "client" \in Peers /\ Accounted(q) /\ FailuresLast(q)
        /\ Awaiting(q, "data") /\ pc["client"] = "wait" /\ params' = params
        /\ Signaled(k)
    BY KnownFacts DEF WaitRequest, At, SendAt, StampInv
  <1>2. /\ k \in Nat /\ k > 0 /\ k <= params.count /\ params.count \in Nat
        /\ Count("client") = params.count
        /\ params.mode \in {"latency", "throughput"}
    BY KnownFacts, ClientIndex, StampTypes
  <1>3. q.state = "rts"
    BY KnownFacts, StillConnected DEF ClientStep
  <1>4. PICK c \in SendComp("client") :
           /\ qp' = [qp EXCEPT !["client"] = c.q]
           /\ NextRequest("client", bad \/ c.rv < 0, "post", "report")
    BY DEF WaitRequest, SetQp
  <1>5. c.rv = 1 /\ c.q = PollSend(q) /\ q.scq # << >> /\ qp'["client"] = c.q
    BY <1>1, <1>3, <1>4, KnownFacts, ConnectedPolls, TypedFunctions
  <1>6. Signals(q) /\ ~lost["client"]
    BY <1>1, <1>3, <1>5 DEF Signals, Known, ClientLoss
  <1>7. failed["client"] = 0 /\ ~bad /\ Unretired(q) = k - Base
    BY <1>1, <1>3, <1>6 DEF Known, BurstInv, Accepted
  <1>8. Unretired(PollSend(q)) = 0 /\ PollSend(q).sq = << >>
    BY <1>1, <1>3, <1>5, PolledDone
  <1>9. FailureCount("client", bad \/ c.rv < 0) = 0
    BY <1>5, <1>7 DEF FailureCount
  <1>10. /\ k < params.count => /\ pc'["client"] = "post" /\ n'["client"] = k + 1
                                /\ failed'["client"] = 0 /\ lost' = lost
         /\ ~(k < params.count) => /\ pc'["client"] = "report" /\ n'["client"] = 1
                                   /\ failed'["client"] = 0
                                   /\ lost'["client"] = lost["client"]
    <2>1. CASE k < params.count
      <3>1. n["client"] < Count("client")
        BY <1>2, <2>1
      <3>2. /\ n' = [n EXCEPT !["client"] = @ + 1] /\ failed' = [failed EXCEPT !["client"] = 0]
            /\ Goto("client", "post") /\ lost' = lost
        BY <1>4, <1>9, <3>1 DEF NextRequest
      <3> QED
        BY <1>1, <2>1, <3>2, Moved, TypedFunctions, KnownFacts
    <2>2. CASE ~(k < params.count)
      <3>1. ~(n["client"] < Count("client"))
        BY <1>2, <2>2
      <3>2. /\ n' = [n EXCEPT !["client"] = 1] /\ failed' = [failed EXCEPT !["client"] = 0]
            /\ Goto("client", "report")
            /\ lost' = [lost EXCEPT !["client"] = @ \/ 0 > 0]
        BY <1>4, <1>9, <3>1 DEF NextRequest
      <3>3. lost'["client"] = (lost["client"] \/ 0 > 0) /\ lost["client"] \in BOOLEAN
        BY <1>1, <3>2, TypedFunctions, KnownFacts DEF IInv, Rest, LogTypeOK
      <3>4. lost'["client"] = lost["client"]
        BY <3>3
      <3> QED
        BY <1>1, <2>2, <3>2, <3>4, Moved, TypedFunctions, KnownFacts
    <2> QED
      BY <2>1, <2>2
  <1>11. ~lost'["client"] /\ failed'["client"] = 0
    BY <1>6, <1>10
  <1>12. ClientLoss'
    BY <1>11 DEF ClientLoss
  <1>13. k < params.count => params.mode = "latency"
    BY <1>1, <1>2 DEF Signaled
  <1>14. BurstInv'
    <2>1. CASE k < params.count
      <3>1. /\ Base' = n'["client"] - 1 /\ n'["client"] \in Nat
            /\ pc'["client"] = "post" /\ failed'["client"] = 0
        BY <1>1, <1>2, <1>10, <1>13, <2>1 DEF Base
      <3>2. Unretired(qp'["client"]) = n'["client"] - 1 - Base'
        BY <1>5, <1>8, <3>1
      <3>3. Accepted(qp["client"])'
        BY <3>1, <3>2 DEF Accepted
      <3>4. Len(qp'["client"].sq) = 0
        BY <1>5, <1>8
      <3>5. Numbered(qp["client"])'
        BY <3>4 DEF Numbered
      <3> QED
        BY <3>3, <3>5 DEF BurstInv
    <2>2. CASE ~(k < params.count)
      BY <1>10, <2>2 DEF BurstInv
    <2> QED
      BY <2>1, <2>2
  <1> QED
    BY <1>3, <1>5, <1>7, <1>10, <1>12, <1>13, <1>14

LEMMA ClientKeepsLoss ==
    ASSUME Known, IInv', Locals', StampInv', ClientStep
    PROVE  ClientLoss' /\ BurstInv'
  <1>1. /\ "client" \in Peers /\ params' = params /\ ClientAt /\ IInv
    BY KnownFacts, ClientFrame
  <1>2. CASE ClientCreateEp \/ SetTos \/ RdmaConnect
    <2>1. /\ pc'["client"] \in {"tos", "connect", "connecting", "done"}
          /\ pc["client"] \in ClientEarly /\ failed' = failed /\ lost' = lost
      BY <1>1, <1>2, Moved DEF ClientCreateEp, SetTos, RdmaConnect, ConnectFails,
         ClientEarly, logVars, noteVars
    <2>2. qp["client"].state # "rts"
      BY <1>1, <2>1 DEF ClientAt
    <2>3. qp'["client"].state # "rts"
      BY <1>1, <2>2, StillConnected
    <2> QED
      BY <2>1, <2>3 DEF Known, ClientLoss, BurstInv
  <1>3. CASE qp'["client"].state # "rts" /\ pc'["client"] \notin ClientEarly
    BY <1>3 DEF ClientLoss, BurstInv
  <1>4. CASE PostRequest
    <2>1. pc'["client"] \in {"post", "wait", "report"}
      BY <1>1, <1>4, Moved DEF PostRequest, NextRequest
    <2> QED
      BY <1>3, <1>4, <2>1, PostKeepsBurst DEF ClientEarly
  <1>5. CASE WaitRequest
    <2>1. pc'["client"] \in {"post", "wait", "report"}
      BY <1>1, <1>5, Moved DEF WaitRequest, NextRequest
    <2> QED
      BY <1>3, <1>5, <2>1, WaitKeepsBurst DEF ClientEarly
  <1>6. CASE /\ pc["client"] \notin {"post", "wait"}
             /\ pc'["client"] \notin ClientEarly \union {"wait"}
             /\ failed' = failed /\ lost' = lost
    <2> SUFFICES ASSUME qp'["client"].state = "rts" PROVE ClientLoss' /\ BurstInv'
      BY <1>3, <1>6
    <2>1. qp["client"].state = "rts"
      BY <1>1, StillConnected
    <2>2. ~lost'["client"] /\ failed'["client"] = 0
      BY <1>6, <2>1 DEF Known, ClientLoss
    <2>3. ClientLoss'
      BY <2>2 DEF ClientLoss
    <2>4. CASE pc'["client"] = "post"
      <3>1. n'["client"] = 1
        <4>1. CASE PostRequest \/ WaitRequest
          BY <1>6, <4>1 DEF PostRequest, WaitRequest
        <4>2. CASE n' = n
          BY <1>1, <1>6, <2>1, <4>2 DEF Known, StampInv, ClientAt, Out
        <4>3. PostRequest \/ WaitRequest \/ n' = n
          BY DEF ClientStep, ClientCreateEp, SetTos, RdmaConnect, AllocateBuffer,
             GetMrInfo, GetMrCount, GetMrArray, Report, NullMrCrash, Teardown, EndPost,
             EndWait, PrintSha1sum, DeallocateBuffer, Disconnect, procVars
        <4> QED
          BY <4>1, <4>2, <4>3
      <3>2. BurstInv'
        BY <2>2, <2>4, <3>1, RoundBegins
      <3> QED
        BY <2>3, <3>2
    <2>5. CASE pc'["client"] # "post"
      BY <1>6, <2>3, <2>5 DEF BurstInv
    <2> QED
      BY <2>4, <2>5
  <1>7. CASE AllocateBuffer("client") \/ Report
    <2>1. /\ pc["client"] \in {"allocate", "report"} /\ failed' = failed /\ lost' = lost
          /\ pc'["client"] \in {"post", "end_post", "get_mr"}
      BY <1>1, <1>7, Moved DEF AllocateBuffer, Report, AfterAllocate, AfterRound,
         RoundStart, logVars, noteVars
    <2> QED
      BY <1>6, <2>1 DEF ClientEarly
  <1>8. CASE GetMrInfo \/ GetMrCount \/ GetMrArray
    <2>1. /\ pc["client"] \in {"get_mr", "get_mr_count", "get_mr_array"}
          /\ failed' = failed /\ lost' = lost
          /\ pc'["client"] \in {"get_mr_count", "get_mr_array", "post", "deallocate"}
      BY <1>1, <1>8, Moved DEF GetMrInfo, GetMrCount, GetMrArray, RecvControl,
         RegisterFails, RoundStart, logVars, noteVars
    <2> QED
      BY <1>6, <2>1 DEF ClientEarly
  <1>9. CASE EndPost("client") \/ EndWait("client") \/ PrintSha1sum("client")
    <2>1. /\ pc["client"] \in {"end_post", "end_wait", "sha"}
          /\ failed' = failed /\ lost' = lost
          /\ pc'["client"] \in {"end_wait", "sha", "deallocate"}
      BY <1>1, <1>9, Moved DEF EndPost, EndWait, PrintSha1sum, SendControl,
         RecvControl, RegisterFails, logVars, noteVars, procVars
    <2> QED
      BY <1>6, <2>1 DEF ClientEarly
  <1>10. CASE Crash("client") \/ Disconnect("client")
    <2>1. pc'["client"] \in {"done", "crashed"} /\ qp'["client"].state # "rts"
      BY <1>1, <1>10, Moved, StillConnected DEF Crash, Disconnect
    <2> QED
      BY <1>3, <2>1 DEF ClientEarly
  <1>11. CASE DeallocateBuffer("client") /\ ~Crash("client")
    <2>1. /\ pc["client"] = "deallocate" /\ failed' = failed /\ lost' = lost
          /\ pc'["client"] = "disconnect"
      BY <1>1, <1>11, Moved DEF DeallocateBuffer, logVars, noteVars, procVars
    <2> QED
      BY <1>6, <2>1 DEF ClientEarly
  <1>12. NullMrCrash("client") => Crash("client")
    BY DEF NullMrCrash
  <1> QED
    BY <1>2, <1>4, <1>5, <1>7, <1>8, <1>9, <1>10, <1>11, <1>12 DEF ClientStep, Teardown

LEMMA ServerKeepsLoss ==
    ASSUME Known, ServerStep
    PROVE  ServerLoss'
  <1>1. /\ "server" \in Peers /\ params' = params /\ ServerAt /\ IInv
    BY KnownFacts, ServerFrame
  <1>2. CASE Listen \/ Accept \/ AcceptFails
    <2>1. pc["server"] \in ServerEarly /\ failed' = failed /\ lost' = lost
      BY <1>2 DEF Listen, Accept, AcceptFails, ServerEarly, logVars, noteVars, procVars
    <2> QED
      BY <2>1 DEF Known, ServerLoss
  <1>3. pc["server"] \notin {"start", "get_request"} => pc'["server"] \notin ServerEarly
    BY <1>1, Moved DEF ServerStep, Listen, Accept, AcceptFails, AllocateBuffer,
       AfterAllocate, SendMrInfo, SendControl, RegisterFails, SendMrCount, SendMrArray,
       RoundStart, RecvPost, RecvWait, NextRequest, AfterRound, NullMrCrash, Crash,
       Teardown, EndPost, RecvControl, EndWait, PrintSha1sum, DeallocateBuffer,
       Disconnect, ServerEarly
  <1>4. CASE ~(Listen \/ Accept \/ AcceptFails)
    <2>1. pc["server"] \notin {"start", "get_request"}
      BY <1>4 DEF ServerStep, AllocateBuffer, SendMrInfo, SendMrCount, SendMrArray,
         RecvPost, RecvWait, NullMrCrash, Teardown, EndPost, EndWait, PrintSha1sum,
         DeallocateBuffer, Disconnect
    <2> SUFFICES ASSUME qp'["server"].state = "rts"
                 PROVE  ~lost'["server"] /\ failed'["server"] = 0
      BY <1>3, <2>1 DEF ServerLoss
    <2>2. qp["server"].state = "rts"
      BY <1>1, <1>4, StillConnected
    <2>3. ~lost["server"] /\ failed["server"] = 0
      BY <2>2 DEF Known, ServerLoss
    <2>4. CASE RecvWait
      <3>1. PICK c \in RecvComp("server") :
               NextRequest("server", c.rv < 0, "recv_post", AfterRound("server"))
        BY <2>4 DEF RecvWait
      <3>2. FailureCount("server", c.rv < 0) = 0
        BY <1>1, <2>2, <2>3, KnownFacts, ConnectedPolls DEF FailureCount
      <3>3. /\ failed' = [failed EXCEPT !["server"] = 0]
            /\ lost' = lost \/ lost' = [lost EXCEPT !["server"] = @ \/ 0 > 0]
        BY <3>1, <3>2 DEF NextRequest
      <3>4. failed'["server"] = 0
        BY <1>1, <3>3, TypedFunctions
      <3>5. lost'["server"] = lost["server"] \/ lost'["server"] = (lost["server"] \/ 0 > 0)
        BY <1>1, <3>3, TypedFunctions
      <3>6. lost["server"] \in BOOLEAN /\ ~(0 > 0)
        BY <1>1 DEF IInv, Rest, LogTypeOK
      <3>7. lost'["server"] = lost["server"]
        BY <3>5, <3>6
      <3> QED
        BY <2>3, <3>4, <3>7
    <2>6. CASE RecvPost
      <3>1. CanRecv(qp["server"]) /\ failed["server"] \in Nat
        BY <1>1, <2>6, Unrefused, KnownFacts DEF RecvPost, IInv, Rest, ProcTypeOK
      <3>2. FailureCount("server", ~CanRecv(qp["server"])) = failed["server"]
        BY <3>1 DEF FailureCount
      <3>3. failed'["server"] = failed["server"] /\ lost' = lost
        BY <1>1, <2>6, <3>2, TypedFunctions DEF RecvPost, logVars
      <3> QED
        BY <2>3, <3>3
    <2>5. CASE ~RecvWait /\ ~RecvPost
      <3>1. failed' = failed /\ lost' = lost
        BY <1>4, <2>5 DEF ServerStep, AllocateBuffer, SendMrInfo, SendMrCount,
           SendMrArray, RecvPost, NullMrCrash, Teardown, EndPost, EndWait, PrintSha1sum,
           DeallocateBuffer, Disconnect, logVars, noteVars, procVars
      <3> QED
        BY <2>3, <3>1
    <2> QED
      BY <2>4, <2>5, <2>6
  <1> QED
    BY <1>2, <1>4

\* A control message on an idle connection.
LEMMA OnePosted ==
    ASSUME NEW q, Accounted(q), q.state = "rts", Unretired(q) = 0, NEW kind \in Kinds
    PROVE  /\ CanPost(q)
           /\ Unretired(PostSend(q, "send", kind, 0, TRUE)) = 1
           /\ Done(PostSend(q, "send", kind, 0, TRUE)) = 0
           /\ PostSend(q, "send", kind, 0, TRUE).sent = 0
           /\ PostSend(q, "send", kind, 0, TRUE).scq = q.scq
  <1> DEFINE r == PostSend(q, "send", kind, 0, TRUE)
             wr == [op |-> "send", kind |-> kind, n |-> 0, sig |-> TRUE,
                    idx |-> q.posted + 1]
  <1>1. /\ q.posted \in Nat /\ q.retired \in Nat /\ Len(q.sq) \in Nat /\ q.sent \in Nat
    BY QpFields
  <1>2. CanPost(q)
    BY <1>1, MaxWrAssumption DEF CanPost, Unretired
  <1>3. q.sq = << >> /\ q.sent = 0 /\ Len(q.sq) = 0
    BY NothingPosted
  <1>4. Posted(q, r, wr)
    <2> DEFINE s == TRUE
    <2>1. s \in BOOLEAN /\ 0 \in Nat /\ "send" \in {"send", "read", "write"}
      OBVIOUS
    <2> HIDE DEF s
    <2>2. Posted(q, PostSend(q, "send", kind, 0, s),
                 [op |-> "send", kind |-> kind, n |-> 0, sig |-> s,
                  idx |-> q.posted + 1])
      BY <2>1, PostSendFields
    <2> QED
      BY <2>2 DEF s
  <1> HIDE DEF r, wr
  <1>5. /\ r.posted = q.posted + 1 /\ r.retired = q.retired /\ r.sent = 0
        /\ Len(r.sq) = Len(q.sq) + 1 /\ r.scq = q.scq
    BY <1>2, <1>3, <1>4 DEF Posted
  <1>6. Unretired(r) = 1 /\ Done(r) = 0
    BY <1>1, <1>3, <1>5 DEF Unretired, Done
  <1> QED
    BY <1>2, <1>5, <1>6 DEF r

LEMMA ClientControl ==
    ASSUME Known, IInv', ClientStep, qp'["client"].state = "rts",
           pc'["client"] = "end_wait"
    PROVE  /\ pc["client"] = "end_post" /\ EndPost("client")
           /\ qp["client"].state = "rts" /\ Unretired(qp["client"]) = 0
           /\ qp'["client"] = PostSend(qp["client"], "send", "end", 0, TRUE)
           /\ Unretired(qp'["client"]) = 1
  <1>1. /\ "client" \in Peers /\ IInv /\ ClientAt /\ Accounted(qp["client"])
        /\ At("client", pc["client"], qp["client"], n["client"])
        /\ "end" \in Kinds
    BY KnownFacts DEF Kinds
  <1>2. qp["client"].state = "rts"
    BY <1>1, StillConnected
  <1>3. EndPost("client")
    BY <1>1, Moved DEF ClientStep, ClientCreateEp, SetTos, RdmaConnect, ConnectFails,
       AllocateBuffer, AfterAllocate, GetMrInfo, RecvControl, RegisterFails, GetMrCount,
       GetMrArray, RoundStart, PostRequest, WaitRequest, NextRequest, Report, AfterRound,
       NullMrCrash, Crash, Teardown, EndWait, PrintSha1sum, DeallocateBuffer, Disconnect
  <1>4. /\ pc["client"] = "end_post"
        /\ qp'["client"] = PostSend(qp["client"], "send", "end", 0, TRUE)
    BY <1>1, <1>3, Moved DEF EndPost, SendControl, RegisterFails
  <1>5. Unretired(qp["client"]) = 0
    BY <1>1, <1>2, <1>4 DEF At, SendAt, SendWaits, Idle
  <1> QED
    BY <1>1, <1>2, <1>3, <1>4, <1>5, OnePosted

LEMMA ServerControl ==
    ASSUME Known, IInv', ServerStep, qp'["server"].state = "rts",
           pc'["server"] \in {"send_mr_count", "send_mr_array"}
    PROVE  /\ qp["server"].state = "rts"
           /\ \/ /\ pc["server"] = "send_mr" /\ pc'["server"] = "send_mr_count"
                 /\ SendMrInfo /\ Unretired(qp["server"]) = 0
                 /\ qp'["server"] = PostSend(qp["server"], "send", "count", 0, TRUE)
              \/ /\ pc["server"] = "send_mr_count" /\ pc'["server"] = "send_mr_array"
                 /\ SendMrCount /\ qp["server"].scq # << >>
                 /\ Unretired(PollSend(qp["server"])) = 0
                 /\ Done(qp["server"]) = Unretired(qp["server"])
                 /\ qp'["server"]
                       = PostSend(PollSend(qp["server"]), "send", "array", 0, TRUE)
           /\ Unretired(qp'["server"]) = 1 /\ Done(qp'["server"]) = 0
  <1>1. /\ "server" \in Peers /\ IInv /\ Accounted(qp["server"])
        /\ FailuresLast(qp["server"])
        /\ At("server", pc["server"], qp["server"], n["server"])
        /\ "count" \in Kinds /\ "array" \in Kinds
    BY KnownFacts DEF Kinds
  <1>2. ~Accept
    BY <1>1 DEF Accept
  <1>3. qp["server"].state = "rts"
    BY <1>1, <1>2, StillConnected
  <1>4. \/ SendMrInfo /\ pc'["server"] = "send_mr_count"
        \/ SendMrCount /\ pc'["server"] = "send_mr_array"
    BY <1>1, <1>2, Moved DEF ServerStep, Listen, AcceptFails, AllocateBuffer,
       AfterAllocate, SendMrInfo, SendControl, RegisterFails, SendMrCount, SendMrArray,
       RoundStart, RecvPost, RecvWait, NextRequest, AfterRound, NullMrCrash, Crash,
       Teardown, EndPost, RecvControl, EndWait, PrintSha1sum, DeallocateBuffer,
       Disconnect
  <1>5. CASE SendMrInfo /\ pc'["server"] = "send_mr_count"
    <2>1. /\ pc["server"] = "send_mr"
          /\ qp'["server"] = PostSend(qp["server"], "send", "count", 0, TRUE)
      BY <1>1, <1>5, Moved DEF SendMrInfo, SendControl, RegisterFails, Crash
    <2>2. Unretired(qp["server"]) = 0
      BY <1>1, <1>3, <2>1 DEF At, SendAt, SendWaits, Idle
    <2> QED
      BY <1>1, <1>3, <1>5, <2>1, <2>2, OnePosted, ZenonT(60)
  <1>6. CASE SendMrCount /\ pc'["server"] = "send_mr_array"
    <2>1. PICK c \in SendComp("server") :
             qp'["server"] = PostSend(c.q, "send", "array", 0, TRUE)
      BY <1>1, <1>6, Moved DEF SendMrCount
    <2>2. /\ c.q = PollSend(qp["server"]) /\ qp["server"].scq # << >>
          /\ c.q.state = "rts" /\ Accounted(c.q)
      BY <1>1, <1>3, KnownFacts, ConnectedPolls, CompStates
    <2>3. pc["server"] = "send_mr_count" /\ Awaiting(qp["server"], "count")
      BY <1>1, <1>6 DEF SendMrCount, At, SendAt
    <2>4. Unretired(c.q) = 0 /\ Done(qp["server"]) = Unretired(qp["server"])
      BY <1>1, <1>3, <2>2, <2>3, PolledDone
    <2>5. /\ Unretired(PostSend(c.q, "send", "array", 0, TRUE)) = 1
          /\ Done(PostSend(c.q, "send", "array", 0, TRUE)) = 0
      <3> DEFINE q == c.q
      <3>1. Accounted(q) /\ q.state = "rts" /\ Unretired(q) = 0
        BY <2>2, <2>4
      <3> HIDE DEF q
      <3>2. /\ Unretired(PostSend(q, "send", "array", 0, TRUE)) = 1
            /\ Done(PostSend(q, "send", "array", 0, TRUE)) = 0
        BY <1>1, <3>1, OnePosted
      <3> QED
        BY <3>2 DEF q
    <2> QED
      BY <1>3, <1>6, <2>1, <2>2, <2>3, <2>4, <2>5
  <1> QED
    BY <1>4, <1>5, <1>6

\* What the NIC does to the send side of a queue pair that stays connected.
LEMMA NicKeepsCounts ==
    ASSUME NEW q, Accounted(q), NEW r, NicMove(q, r), r.state = "rts"
    PROVE  /\ q.state = "rts" /\ Unretired(r) = Unretired(q)
           /\ CanPost(r) <=> CanPost(q)
           /\ r.posted = q.posted /\ r.retired = q.retired
           /\ \/ SendSame(q, r)
              \/ q.sent > 0 /\ AckedTo(q, r)
  <1>1. q.state = "rts"
    BY NicMoveState
  <1>2. SendSame(q, r) \/ (q.sent > 0 /\ AckedTo(q, r))
    <2>1. Flushed(q).state = "err" /\ (q.sent > 0 => AckedTo(q, Acknowledged(q)))
      BY FlushedFields, AcknowledgedFields DEF FlushedTo
    <2>2. \/ SendSame(q, r)
          \/ q.state = "rts" /\ r = Flushed(q)
          \/ q.sent > 0 /\ r = Acknowledged(q)
      BY NicMoveSend
    <2> QED
      BY <2>1, <2>2
  <1>3. r.posted = q.posted /\ r.retired = q.retired
    BY <1>2 DEF SendSame, AckedTo
  <1> QED
    BY <1>1, <1>2, <1>3 DEF Unretired, CanPost

LEMMA NicKeepsBurst ==
    ASSUME Known, NEW e \in Peers, Nic(e) \/ FabricFails(e)
    PROVE  BurstInv' /\ ClientLoss' /\ ServerLoss' /\ ControlInv'
  <1>1. /\ \A d \in Peers : NicMove(qp[d], qp'[d])
        /\ params' = params /\ pc' = pc /\ n' = n /\ failed' = failed /\ bad' = bad
        /\ lost' = lost
    BY KnownFacts, NicMoves DEF procVars, logVars, noteVars
  <1>2. \A d \in Peers : qp'[d].state = "rts" =>
           /\ qp[d].state = "rts" /\ Unretired(qp'[d]) = Unretired(qp[d])
           /\ CanPost(qp'[d]) <=> CanPost(qp[d])
           /\ qp'[d].posted = qp[d].posted /\ qp'[d].retired = qp[d].retired
           /\ \/ SendSame(qp[d], qp'[d])
              \/ qp[d].sent > 0 /\ AckedTo(qp[d], qp'[d])
    BY <1>1, KnownFacts, NicKeepsCounts
  <1>3. "client" \in Peers /\ "server" \in Peers
    BY DEF Peers
  <1>4. ClientLoss' /\ ServerLoss'
    BY <1>1, <1>2, <1>3 DEF Known, ClientLoss, ServerLoss
  <1>5. ControlInv'
    BY <1>1, <1>2, <1>3 DEF Known, ControlInv, SendWaits
  <1>6. BurstInv'
    <2> DEFINE q == qp["client"]
               r == qp'["client"]
    <2> SUFFICES ASSUME pc["client"] \in {"post", "wait"}, r.state = "rts"
                 PROVE  Numbered(qp["client"])' /\ Accepted(qp["client"])'
      BY <1>1 DEF BurstInv
    <2>1. Numbered(q) /\ Accepted(q) /\ Base' = Base
      BY <1>1, <1>2, <1>3 DEF Known, BurstInv, Base
    <2>2. q.retired = r.retired /\ Unretired(r) = Unretired(q) /\ (CanPost(r) <=> CanPost(q))
      BY <1>2, <1>3
    <2>3. \A j \in 1..Len(r.sq) : \E i \in 1..Len(q.sq) : r.sq[j] = q.sq[i]
      BY <1>2, <1>3 DEF SendSame, AckedTo
    <2>4. ~Signals(q) => ~Signals(r)
      <3>1. CASE SendSame(q, r)
        BY <3>1 DEF SendSame, Signals
      <3>2. CASE AckedTo(q, r)
        <4>1. 1 \in 1..Len(q.sq)
          BY <1>3, <3>2, KnownFacts, QpFields DEF AckedTo
        <4>2. ~Signals(q) => q.scq = << >> /\ ~q.sq[1].sig
          BY <4>1 DEF Signals
        <4>3. ~q.sq[1].sig => r.scq = q.scq
          BY <3>2 DEF AckedTo
        <4> QED
          BY <2>3, <4>2, <4>3 DEF Signals
      <3> QED
        BY <1>2, <1>3, <3>1, <3>2
    <2>5. Numbered(qp["client"])'
      BY <2>1, <2>2, <2>3 DEF Numbered
    <2>6. Accepted(qp["client"])'
      BY <1>1, <2>1, <2>2, <2>4 DEF Accepted
    <2> QED
      BY <2>5, <2>6
  <1> QED
    BY <1>4, <1>5, <1>6

LEMMA NextKnown == Known /\ [Next]_vars => Known'
  <1> SUFFICES ASSUME Known, [Next]_vars PROVE Known'
    OBVIOUS
  <1>1. /\ IInv /\ Polls /\ LocalInv /\ QueueInv /\ LabelInv /\ RoundInv /\ StampInv
        /\ "client" \in Peers /\ "server" \in Peers
    BY KnownFacts
  <1>2. /\ IInv' /\ QueueInv' /\ LabelInv' /\ RoundInv' /\ StampInv' /\ LocalInv'
    BY <1>1, NextIInv, NextQueues, NextLabelInv, NextRoundInv, NextStamps, NextLocals
  <1>3. params' = params
    <2>1. CASE ClientStep \/ ServerStep
      BY <1>1, <2>1, ClientFrame, ServerFrame
    <2>2. CASE \E e \in Peers : Nic(e) \/ FabricFails(e)
      BY <1>1, <2>2, NicMoves DEF procVars
    <2>3. CASE UNCHANGED vars
      BY <2>3 DEF vars
    <2> QED
      BY <2>1, <2>2, <2>3 DEF Next, Step, Stopped
  <1>11. Polls'
    BY <1>1, <1>3 DEF Polls, MayFail
  <1>4. Polls' /\ Locals'
    BY <1>2, <1>11 DEF LocalInv, Locals, Here
  <1>5. ClientAt' /\ ServerAt'
    BY <1>2, LabelParts, PTL
  <1> SUFFICES BurstInv' /\ ClientLoss' /\ ServerLoss' /\ ControlInv'
    BY <1>2, <1>4 DEF Known
  <1>6. CASE ClientStep
    <2>1. Kept("server")
      BY <1>1, <1>6, ClientFrame
    <2>2. ServerLoss'
      BY <2>1 DEF Kept, Known, ServerLoss
    <2>3. ClientLoss' /\ BurstInv'
      BY <1>2, <1>4, <1>6, ClientKeepsLoss
    <2>4. ControlInv'
      <3>1. ASSUME pc'["client"] \in ControlWaits \intersect SendWaits("client"),
                   qp'["client"].state = "rts"
            PROVE  Unretired(qp'["client"]) = 1
        <4>1. pc'["client"] = "end_wait"
          BY <1>5, <3>1 DEF ControlWaits, ClientAt, ClientLabels, ClientEarly,
             ClientActive, GetMr, ClientRounds, EndLabels, Leaving, Out
        <4> QED
          BY <1>2, <1>6, <3>1, <4>1, ClientControl
      <3>2. ASSUME pc'["server"] \in ControlWaits \intersect SendWaits("server"),
                   qp'["server"].state = "rts"
            PROVE  Unretired(qp'["server"]) = 1
        BY <1>1, <2>1, <3>2 DEF Kept, Known, ControlInv
      <3> QED
        BY <3>1, <3>2 DEF ControlInv, Peers, SendWaits
    <2> QED
      BY <2>2, <2>3, <2>4
  <1>7. CASE ServerStep /\ ~Accept
    <2>1. Kept("client") /\ bad' = bad
      BY <1>1, <1>7, ServerFrame
    <2>2. ServerLoss'
      BY <1>7, ServerKeepsLoss
    <2>3. ClientLoss'
      BY <2>1 DEF Kept, Known, ClientLoss
    <2>4. BurstInv'
      BY <1>3, <2>1 DEF Kept, Known, BurstInv, Numbered, Accepted, Base
    <2>5. ControlInv'
      <3>1. ASSUME pc'["server"] \in ControlWaits \intersect SendWaits("server"),
                   qp'["server"].state = "rts"
            PROVE  Unretired(qp'["server"]) = 1
        BY <1>2, <1>7, <3>1, ServerControl DEF ControlWaits, SendWaits
      <3>2. ASSUME pc'["client"] \in ControlWaits \intersect SendWaits("client"),
                   qp'["client"].state = "rts"
            PROVE  Unretired(qp'["client"]) = 1
        BY <1>1, <2>1, <3>2 DEF Kept, Known, ControlInv
      <3> QED
        BY <3>1, <3>2 DEF ControlInv, Peers, SendWaits
    <2> QED
      BY <2>2, <2>3, <2>4, <2>5
  <1>8. CASE Accept
    <2>1. /\ \A e \in Peers : pc'[e] = "allocate"
          /\ failed' = failed /\ lost' = lost /\ pc["client"] = "connecting"
      BY <1>8 DEF Accept, procVars, logVars, noteVars
    <2>2. ServerLoss'
      BY <1>8, ServerKeepsLoss DEF ServerStep
    <2>3. ClientLoss'
      BY <1>1, <2>1 DEF Known, ClientLoss, ClientEarly
    <2> QED
      BY <1>1, <2>1, <2>2, <2>3 DEF BurstInv, ControlInv, ControlWaits
  <1>9. CASE \E e \in Peers : Nic(e) \/ FabricFails(e)
    BY <1>9, NicKeepsBurst
  <1>10. CASE UNCHANGED vars
    BY <1>10 DEF vars, Known, BurstInv, ClientLoss, ServerLoss, ControlInv, Numbered,
       Accepted, Base, SendWaits
  <1> QED
    BY <1>6, <1>7, <1>8, <1>9, <1>10 DEF Next, Step, Stopped

-----------------------------------------------------------------------------
(* What a NIC executes.                                                     *)

\* The request the NIC of e executes next.
Front(e) == qp[e].sq[qp[e].sent + 1]

Message(e) == [kind |-> Front(e).kind, n |-> Front(e).n]

\* It ends up in the buffer the peer posted.
Delivered(e) ==
    /\ qp'[e] = Executed(qp[e])
    /\ qp'[Peer(e)] = Received(qp[Peer(e)], Message(e))
    /\ qp[Peer(e)].rq # << >>

\* The connection breaks.
Breaks(e) == qp'[e].state = "err" /\ mem' = mem /\ rcount' = rcount

\* The count or the array of the memory-region exchange arrives.
MrArrives ==
    /\ params.verb # "send" /\ mem' = mem /\ Delivered("server")
    /\ \/ pc["server"] = "send_mr_count" /\ Message("server") = Control("count")
          /\ rcount' = params.scount
       \/ pc["server"] = "send_mr_array" /\ Message("server") = Control("array")
          /\ rcount' = rcount

\* The terminating message arrives.
EndArrives ==
    /\ Delivered("client") /\ mem' = mem /\ rcount' = rcount
    /\ Message("client") = Control("end")
    /\ pc["client"] = "end_wait" /\ pc["server"] = "end_wait"

\* A message arrives where another one was expected.
Misplaced ==
    /\ Delivered("client") /\ rcount' = rcount
    /\ \/ /\ Front("client").kind = "end"
          /\ pc["client"] = "end_wait" /\ pc["server"] = "recv_wait"
       \/ /\ Front("client").kind = "data" /\ params.verb = "send"
          /\ pc["client"] \in {"post", "wait"} /\ pc["server"] = "end_wait"
    /\ \/ mem' = mem
       \/ /\ params.verb = "send" /\ pc["server"] = "recv_wait"
          /\ mem' = [mem EXCEPT !["server"][n["server"]] = <<"client", 0>>]

\* The contents of a buffer arrive by a send.
DataArrives ==
    /\ Delivered("client") /\ rcount' = rcount
    /\ Front("client").kind = "data" /\ params.verb = "send"
    /\ pc["client"] \in {"post", "wait"} /\ pc["server"] = "recv_wait"
    /\ bufs["client"] # "freed"
    /\ mem' = [mem EXCEPT !["server"][n["server"]] = mem["client"][Front("client").n]]

\* The contents of a buffer move by a read or a write.
Moves ==
    /\ qp'["client"] = Executed(qp["client"]) /\ qp'["server"] = qp["server"]
    /\ rcount' = rcount /\ Front("client").kind = "data"
    /\ params.verb # "send" /\ pc["client"] \in {"post", "wait"}
    /\ bufs["client"] # "freed" /\ bufs["server"] = "reg"
    /\ remote[Front("client").n] \in {Addr(i) : i \in Indices("server")}
    /\ mem' = IF params.verb = "write"
              THEN [mem EXCEPT !["server"][Target(Front("client"))]
                                  = mem["client"][Front("client").n]]
              ELSE [mem EXCEPT !["client"][Front("client").n]
                                  = mem["server"][Target(Front("client"))]]

\* Who may have what on its queues.
LEMMA Outstanding ==
    ASSUME Known
    PROVE  /\ \A j \in 1..Len(qp["client"].sq) :
                 \/ qp["client"].sq[j].kind = "data" /\ pc["client"] \in {"post", "wait"}
                 \/ qp["client"].sq[j].kind = "end" /\ pc["client"] = "end_wait"
           /\ \A j \in 1..Len(qp["server"].sq) :
                 \/ qp["server"].sq[j].kind = "count" /\ pc["server"] = "send_mr_count"
                 \/ qp["server"].sq[j].kind = "array" /\ pc["server"] = "send_mr_array"
           /\ qp["client"].rq # << >> =>
                 /\ qp["client"].rcq = << >>
                 /\ \/ /\ pc["client"] = "get_mr_count"
                       /\ qp["client"].rq = <<Control("count")>>
                    \/ /\ pc["client"] = "get_mr_array"
                       /\ qp["client"].rq = <<Control("array")>>
           /\ qp["server"].rq # << >> =>
                 /\ qp["server"].rcq = << >>
                 /\ \/ /\ pc["server"] = "recv_wait" /\ params.verb = "send"
                       /\ qp["server"].rq = <<[kind |-> "data", n |-> n["server"]]>>
                    \/ /\ pc["server"] = "end_wait"
                       /\ qp["server"].rq = <<Control("end")>>
  <1>1. /\ SendAt("client", pc["client"], qp["client"], n["client"])
        /\ SendAt("server", pc["server"], qp["server"], n["server"])
        /\ RecvAt("client", pc["client"], qp["client"], n["client"])
        /\ RecvAt("server", pc["server"], qp["server"], n["server"])
        /\ ClientAt /\ ServerAt
    BY KnownFacts DEF At
  <1>2. /\ pc["client"] \notin {"send_mr_count", "send_mr_array", "recv_wait"}
        /\ pc["server"] \notin {"post", "wait", "get_mr_count", "get_mr_array"}
        /\ pc["server"] = "recv_wait" => params.verb = "send"
    BY <1>1 DEF ClientAt, ServerAt, ClientLabels, ServerLabels, ClientEarly, ServerEarly,
       ClientActive, ServerActive, GetMr, SendMr, ClientRounds, ServerRounds, EndLabels,
       Leaving, Out
  <1>3. \A e \in Peers : \A j \in 1..Len(qp[e].sq) : ~Idle(qp[e])
    BY DEF Idle
  <1>4. \A e \in Peers : qp[e].rq # << >> => ~RecvIdle(qp[e])
    BY DEF RecvIdle
  <1>5. "client" \in Peers /\ "server" \in Peers
    BY DEF Peers
  <1>6. \A j \in 1..Len(qp["client"].sq) :
                 \/ qp["client"].sq[j].kind = "data" /\ pc["client"] \in {"post", "wait"}
                 \/ qp["client"].sq[j].kind = "end" /\ pc["client"] = "end_wait"
    BY <1>1, <1>2, <1>3, <1>5 DEF SendAt, SendWaits, Posting, Awaiting
  <1>7. \A j \in 1..Len(qp["server"].sq) :
                 \/ qp["server"].sq[j].kind = "count" /\ pc["server"] = "send_mr_count"
                 \/ qp["server"].sq[j].kind = "array" /\ pc["server"] = "send_mr_array"
    BY <1>1, <1>2, <1>3, <1>5 DEF SendAt, SendWaits, Posting, Awaiting
  <1>8. ASSUME qp["client"].rq # << >>
        PROVE  /\ qp["client"].rcq = << >>
               /\ \/ /\ pc["client"] = "get_mr_count"
                     /\ qp["client"].rq = <<Control("count")>>
                  \/ /\ pc["client"] = "get_mr_array"
                     /\ qp["client"].rq = <<Control("array")>>
    BY <1>1, <1>2, <1>4, <1>5, <1>8 DEF RecvAt, RecvWaits, RecvOne
  <1>9. ASSUME qp["server"].rq # << >>
        PROVE  /\ qp["server"].rcq = << >>
               /\ \/ /\ pc["server"] = "recv_wait" /\ params.verb = "send"
                     /\ qp["server"].rq = <<[kind |-> "data", n |-> n["server"]]>>
                  \/ /\ pc["server"] = "end_wait"
                     /\ qp["server"].rq = <<Control("end")>>
    BY <1>1, <1>2, <1>4, <1>5, <1>9 DEF RecvAt, RecvWaits, RecvOne
  <1> QED
    BY <1>6, <1>7, <1>8, <1>9

LEMMA FrontFacts ==
    ASSUME Known, NEW e \in Peers, NicExecute(e)
    PROVE  /\ qp[e].state = "rts" /\ qp[e].sent + 1 \in 1..Len(qp[e].sq)
           /\ qp[e].sent < Len(qp[e].sq)
           /\ Front(e) \in Mine(e) /\ Front(e) \in WorkRequests
           /\ IF Front(e).kind = "data" THEN Front(e).op = params.verb
              ELSE Front(e).op = "send" /\ Front(e).n = 0
           /\ Message(e) \in Buffers
  <1>1. /\ qp[e].state = "rts" /\ qp[e].sent < Len(qp[e].sq)
        /\ Good(e, qp[e]) /\ qp[e].sent \in Nat /\ Len(qp[e].sq) \in Nat
    BY KnownFacts, QpFields DEF NicExecute
  <1>2. qp[e].sent + 1 \in 1..Len(qp[e].sq)
    BY <1>1
  <1>3. Front(e) \in Mine(e)
    BY <1>1, ExecutedRequest DEF Front
  <1>4. Front(e) \in Tagged
    BY <1>2 DEF Known, QueueInv, Holds, Front
  <1>5. Front(e) \in WorkRequests
    BY <1>4 DEF Tagged
  <1>6. Message(e) \in Buffers
    BY <1>5 DEF Message, WorkRequests, Buffers
  <1> QED
    BY <1>1, <1>2, <1>3, <1>4, <1>5, <1>6 DEF Tagged

LEMMA ServerExecutes ==
    ASSUME Known, NicExecute("server")
    PROVE  MrArrives \/ Breaks("server")
  <1> DEFINE wr == Front("server")
  <1>1. /\ "server" \in Peers /\ "client" \in Peers /\ Peer("server") = "client"
        /\ DOMAIN qp = Peers /\ Accounted(qp["server"]) /\ Accounted(qp["client"])
        /\ Count("server") = params.scount
    BY KnownFacts, TypedFunctions DEF Peer, Count
  <1>2. /\ wr.op = "send" /\ wr.n = 0 /\ wr.kind \in {"count", "array"}
        /\ \/ wr.kind = "count" /\ pc["server"] = "send_mr_count"
           \/ wr.kind = "array" /\ pc["server"] = "send_mr_array"
        /\ wr \in WorkRequests
    BY <1>1, FrontFacts, Outstanding DEF Front
  <1>3. params.verb # "send"
    BY <1>2, KnownFacts DEF ServerAt, SendMr
  <1>4. Flushed(qp["server"]).state = "err" /\ Flushed(qp["client"]).state = "err"
    BY <1>1, FlushedFields DEF FlushedTo
  <1>5. LocalOk("server", wr)
    BY <1>2 DEF LocalOk
  <1>6. DeliverSend("server", wr)
    BY <1>1, <1>2, <1>5 DEF NicExecute, Front
  <1> HIDE DEF wr
  <1>7. CASE FlushedBoth /\ UNCHANGED <<mem, rcount>>
    BY <1>1, <1>4, <1>7 DEF FlushedBoth, Breaks
  <1>8. CASE ~(FlushedBoth /\ UNCHANGED <<mem, rcount>>)
    <2>1. /\ qp["client"].rq # << >>
          /\ qp' = [qp EXCEPT !["server"] = Executed(@),
                              !["client"] = Received(@, [kind |-> wr.kind, n |-> wr.n])]
          /\ mem' = IF Head(qp["client"].rq).kind = "data"
                    THEN [mem EXCEPT !["client"][Head(qp["client"].rq).n]
                                        = Content("server", wr)] ELSE mem
          /\ rcount' = IF wr.kind = "count" THEN Count("server") ELSE rcount
      BY <1>1, <1>6, <1>8 DEF DeliverSend
    <2>2. Head(qp["client"].rq).kind # "data"
      BY <2>1, Outstanding, UnitSeq DEF Control
    <2>3. Delivered("server") /\ mem' = mem
      BY <1>1, <2>1, <2>2 DEF Delivered, Message, wr
    <2>4. Message("server") = Control(wr.kind)
      BY <1>2 DEF Message, Control, wr
    <2> QED
      BY <1>1, <1>2, <1>3, <2>1, <2>3, <2>4 DEF MrArrives
  <1> QED
    BY <1>7, <1>8

LEMMA ClientExecutes ==
    ASSUME Known, NicExecute("client")
    PROVE  EndArrives \/ Misplaced \/ DataArrives \/ Moves \/ Breaks("client")
  <1> DEFINE wr == Front("client")
  <1>1. /\ "server" \in Peers /\ "client" \in Peers /\ Peer("client") = "server"
        /\ DOMAIN qp = Peers /\ Accounted(qp["server"]) /\ Accounted(qp["client"])
        /\ IInv
    BY KnownFacts, TypedFunctions DEF Peer
  <1>2. /\ \/ wr.kind = "data" /\ pc["client"] \in {"post", "wait"}
           \/ wr.kind = "end" /\ pc["client"] = "end_wait"
        /\ IF wr.kind = "data" THEN wr.op = params.verb ELSE wr.op = "send" /\ wr.n = 0
        /\ wr \in WorkRequests /\ wr.kind # "count"
    BY <1>1, FrontFacts, Outstanding DEF Front
  <1>3. Flushed(qp["server"]).state = "err" /\ Flushed(qp["client"]).state = "err"
    BY <1>1, FlushedFields DEF FlushedTo
  <1>4. \/ /\ ~LocalOk("client", wr)
           /\ SetQp("client", Flushed(qp["client"])) /\ UNCHANGED <<mem, rcount>>
        \/ /\ LocalOk("client", wr)
           /\ \/ wr.op = "send" /\ DeliverSend("client", wr)
              \/ /\ wr.op # "send" /\ RemoteOk("client", wr)
                 /\ ServeOneSided("client", wr) /\ UNCHANGED rcount
              \/ /\ FlushedBoth /\ UNCHANGED <<mem, rcount>>
    BY DEF NicExecute, Front
  <1>5. \A a : Control(a).kind = a /\ [kind |-> "data", n |-> a].kind = "data"
               /\ [kind |-> "data", n |-> a].n = a
    BY DEF Control
  <1> HIDE DEF wr
  <1>6. CASE FlushedBoth /\ UNCHANGED <<mem, rcount>>
    BY <1>1, <1>3, <1>6 DEF FlushedBoth, Breaks
  <1>7. CASE SetQp("client", Flushed(qp["client"])) /\ UNCHANGED <<mem, rcount>>
    BY <1>1, <1>3, <1>7, Moved DEF Breaks
  <1>8. CASE /\ wr.op = "send" /\ DeliverSend("client", wr) /\ LocalOk("client", wr)
             /\ ~(FlushedBoth /\ UNCHANGED <<mem, rcount>>)
    <2>1. /\ qp["server"].rq # << >>
          /\ qp' = [qp EXCEPT !["client"] = Executed(@),
                              !["server"] = Received(@, [kind |-> wr.kind, n |-> wr.n])]
          /\ mem' = IF Head(qp["server"].rq).kind = "data"
                    THEN [mem EXCEPT !["server"][Head(qp["server"].rq).n]
                                        = Content("client", wr)] ELSE mem
          /\ rcount' = IF wr.kind = "count" THEN Count("client") ELSE rcount
      BY <1>1, <1>8 DEF DeliverSend
    <2>2. Delivered("client") /\ rcount' = rcount
      BY <1>1, <1>2, <2>1 DEF Delivered, Message, wr
    <2>3. \/ /\ pc["server"] = "recv_wait" /\ params.verb = "send"
             /\ Head(qp["server"].rq).kind = "data"
             /\ Head(qp["server"].rq).n = n["server"]
          \/ /\ pc["server"] = "end_wait"
             /\ Head(qp["server"].rq).kind = "end"
      BY <1>5, <2>1, Outstanding, UnitSeq
    <2>4. CASE wr.kind = "end" /\ pc["server"] = "end_wait"
      <3>1. mem' = mem /\ pc["client"] = "end_wait"
        BY <1>2, <2>1, <2>3, <2>4
      <3>2. Message("client") = Control("end")
        BY <1>2, <2>4 DEF Message, Control, wr
      <3> QED
        BY <2>2, <2>4, <3>1, <3>2 DEF EndArrives
    <2>5. CASE wr.kind = "end" /\ pc["server"] = "recv_wait"
      <3>1. Content("client", wr) = <<"client", 0>>
        BY <2>5 DEF Content
      <3>2. /\ params.verb = "send"
            /\ mem' = [mem EXCEPT !["server"][n["server"]] = <<"client", 0>>]
        BY <2>1, <2>3, <2>5, <3>1
      <3> QED
        BY <1>2, <2>2, <2>5, <3>2 DEF Misplaced, wr
    <2>6. CASE wr.kind = "data" /\ pc["server"] = "end_wait"
      <3>1. mem' = mem /\ params.verb = "send"
        BY <1>2, <1>8, <2>1, <2>3, <2>6
      <3> QED
        BY <1>2, <2>2, <2>6, <3>1 DEF Misplaced, wr
    <2>7. CASE wr.kind = "data" /\ pc["server"] = "recv_wait"
      <3>1. bufs["client"] # "freed" /\ Content("client", wr) = mem["client"][wr.n]
        BY <1>8, <2>7 DEF LocalOk, Content
      <3>2. mem' = [mem EXCEPT !["server"][n["server"]] = mem["client"][wr.n]]
        BY <2>1, <2>3, <2>7, <3>1
      <3> QED
        BY <1>2, <2>2, <2>3, <2>7, <3>1, <3>2 DEF DataArrives, wr
    <2> QED
      BY <1>2, <2>3, <2>4, <2>5, <2>6, <2>7
  <1>9. CASE /\ wr.op # "send" /\ RemoteOk("client", wr) /\ LocalOk("client", wr)
             /\ ServeOneSided("client", wr) /\ UNCHANGED rcount
    <2>1. wr.kind = "data" /\ wr.op = params.verb /\ params.verb # "send"
      BY <1>2, <1>9
    <2>2. /\ bufs["client"] # "freed" /\ bufs["server"] = "reg"
          /\ remote[wr.n] \in {Addr(i) : i \in Indices("server")}
      BY <1>1, <1>9, <2>1 DEF LocalOk, RemoteOk
    <2>3. /\ qp'["client"] = Executed(qp["client"]) /\ qp'["server"] = qp["server"]
      BY <1>1, <1>9 DEF ServeOneSided, SetQp
    <2>4. mem' = IF params.verb = "write"
              THEN [mem EXCEPT !["server"][Target(wr)] = mem["client"][wr.n]]
              ELSE [mem EXCEPT !["client"][wr.n] = mem["server"][Target(wr)]]
      BY <1>1, <1>9, <2>1 DEF ServeOneSided
    <2> QED
      BY <1>2, <1>9, <2>1, <2>2, <2>3, <2>4 DEF Moves, wr
  <1> QED
    BY <1>4, <1>6, <1>7, <1>8, <1>9

-----------------------------------------------------------------------------
(* The buffers.                                                             *)

LEMMA SourceDest ==
    /\ Source \in Peers /\ Dest \in Peers /\ Dest # Source
    /\ \A e \in Peers : e # Source => e = Dest
    /\ params.verb = "read" => Source = "server" /\ Dest = "client"
    /\ params.verb # "read" => Source = "client" /\ Dest = "server"
  BY DEF Source, Dest, Peer, Peers

\* The NIC writes to the buffers of the receiving side only.
LEMMA NicMemory ==
    ASSUME Known, MemInv, NEW e \in Peers, Nic(e) \/ FabricFails(e)
    PROVE  \A d \in Peers : mem'[d] # mem[d] => d = Dest /\ bufs[d] # "none"
  <1>1. /\ "client" \in Peers /\ "server" \in Peers /\ DOMAIN mem = Peers
    BY KnownFacts, TypedFunctions
  <1>2. pc["server"] = "recv_wait" => bufs["server"] # "none"
    BY <1>1 DEF MemInv, MemOf, Unallocated, ClientEarly, ServerEarly, Out
  <1>7. pc["client"] \in {"post", "wait"} => bufs["client"] # "none"
    BY <1>1 DEF MemInv, MemOf, Unallocated, ClientEarly, ServerEarly, Out
  <1>3. CASE mem' = mem
    BY <1>3
  <1>4. CASE NicExecute(e) /\ e = "client"
    <2>1. EndArrives \/ Misplaced \/ DataArrives \/ Moves \/ Breaks("client")
      BY <1>4, ClientExecutes
    <2>2. CASE EndArrives \/ Breaks("client")
      BY <1>3, <2>2 DEF EndArrives, Breaks
    <2>3. CASE Misplaced \/ DataArrives
      <3>1. \/ mem' = mem
            \/ /\ params.verb = "send" /\ pc["server"] = "recv_wait"
               /\ \A d \in Peers : d # "server" => mem'[d] = mem[d]
        BY <1>1, <2>3 DEF Misplaced, DataArrives
      <3> QED
        BY <1>2, <1>3, <3>1, SourceDest
    <2>4. CASE Moves
      <3>1. /\ pc["client"] \in {"post", "wait"} /\ bufs["server"] = "reg"
            /\ params.verb = "write" => \A d \in Peers : d # "server" => mem'[d] = mem[d]
            /\ params.verb = "read" => \A d \in Peers : d # "client" => mem'[d] = mem[d]
            /\ params.verb \in {"read", "write"}
        BY <1>1, <2>4, ClientIndex, KnownFacts DEF Moves
      <3> QED
        BY <1>7, <3>1, SourceDest DEF Peers
    <2> QED
      BY <2>1, <2>2, <2>3, <2>4
  <1>5. CASE NicExecute(e) /\ e = "server"
    BY <1>3, <1>5, ServerExecutes DEF MrArrives, Breaks
  <1>6. CASE NicAck(e) \/ NicTimeout(e) \/ FabricFails(e)
    BY <1>3, <1>6 DEF NicAck, NicTimeout, FabricFails, memVars
  <1> QED
    BY <1>4, <1>5, <1>6 DEF Nic, Peers

\* A process that moves on without touching its buffers.
LEMMA MemMoves ==
    ASSUME NEW e \in Peers, MemOf(e), params' = params, bufs'[e] = bufs[e],
           mem'[e] = mem[e],
           \/ pc[e] \in Unallocated /\ pc'[e] \in Unallocated \union {"done"}
           \/ pc[e] \notin Unallocated \union Out /\ pc'[e] \notin Unallocated
           \/ pc'[e] = pc[e]
    PROVE  MemOf(e)'
  <1>1. Indices(e)' = Indices(e) /\ Source' = Source /\ (MayFail("reg")' <=> MayFail("reg"))
    BY DEF Indices, Count, Source, MayFail
  <1>2. "done" \in Out /\ Unallocated \intersect Out = {}
    BY DEF Out, Unallocated, ClientEarly, ServerEarly
  <1> QED
    BY <1>1, <1>2 DEF MemOf

LEMMA CrashNull ==
    ASSUME Known, NEW e \in Peers, Crash(e),
           \/ e = "client" /\ ClientStep
           \/ e = "server" /\ ServerStep
    PROVE  pc'[e] = "crashed" /\ bufs'[e] = "freed" /\ qp'[e].state = "gone"
  BY Moved, TypedFunctions, KnownFacts, StatesKept DEF Crash

\* How the steps of a process move it and treat its buffers.
LEMMA ProcessMoves ==
    ASSUME Known, NEW e \in Peers,
           \/ e = "client" /\ ClientStep
           \/ e = "server" /\ ServerStep
    PROVE  \/ AllocateBuffer(e)
           \/ /\ Crash(e) /\ mem' = mem /\ sha' = sha /\ rv' = rv
              /\ pc[e] \notin Unallocated \union Out
           \/ DeallocateBuffer(e) /\ ~Crash(e)
           \/ /\ bufs' = bufs /\ mem' = mem
              /\ \/ pc[e] \in Unallocated /\ pc'[e] \in Unallocated \union {"done"}
                 \/ pc[e] \notin Unallocated \union Out /\ pc'[e] \notin Unallocated
  <1> USE DEF Unallocated, ClientEarly, ServerEarly, Out
  <1>1. IInv /\ "client" \in Peers /\ "server" \in Peers
    BY KnownFacts
  <1>2. CASE AllocateBuffer(e) \/ DeallocateBuffer(e) \/ NullMrCrash(e)
    <2>1. CASE AllocateBuffer(e)
      BY <2>1
    <2>2. CASE DeallocateBuffer(e)
      <3>1. /\ pc[e] = "deallocate" /\ mem' = mem /\ sha' = sha /\ rv' = rv
            /\ (Crash(e) => pc'[e] = "crashed")
            /\ \/ Crash(e)
               \/ pc'[e] = "disconnect"
        BY <1>1, <2>2, Moved DEF DeallocateBuffer, procVars, logVars, noteVars, Crash
      <3> QED
        BY <2>2, <3>1
    <2>3. CASE NullMrCrash(e)
      <3>1. /\ pc[e] \in {"post", "recv_post"} /\ mem' = mem /\ sha' = sha /\ rv' = rv
            /\ Crash(e)
        BY <2>3 DEF NullMrCrash, procVars, logVars, noteVars
      <3> QED
        BY <3>1
    <2> QED
      BY <1>2, <2>1, <2>2, <2>3
  <1>3. CASE EndPost(e) \/ EndWait(e) \/ PrintSha1sum(e) \/ Disconnect(e)
    <2>1. /\ bufs' = bufs /\ mem' = mem
          /\ pc[e] \in {"end_post", "end_wait", "sha", "disconnect"}
          /\ pc'[e] \in {"end_wait", "sha", "deallocate", "done"}
      BY <1>1, <1>3, Moved DEF EndPost, EndWait, PrintSha1sum, Disconnect, SendControl,
         RecvControl, RegisterFails, memVars
    <2> QED
      BY <2>1
  <1>4. CASE e = "client" /\ ClientStep
    <2>1. CASE ClientCreateEp \/ SetTos \/ RdmaConnect
      <3>1. /\ bufs' = bufs /\ mem' = mem
            /\ pc[e] \in {"start", "tos", "connect", "connecting"}
            /\ pc'[e] \in {"tos", "connect", "connecting", "done"}
        BY <1>1, <1>4, <2>1, Moved DEF ClientCreateEp, SetTos, RdmaConnect,
           ConnectFails, memVars
      <3> QED
        BY <3>1
    <2>2. CASE GetMrInfo \/ GetMrCount \/ GetMrArray
      <3>1. /\ bufs' = bufs /\ mem' = mem
            /\ pc[e] \in {"get_mr", "get_mr_count", "get_mr_array"}
            /\ pc'[e] \in {"get_mr_count", "get_mr_array", "post", "deallocate"}
        BY <1>1, <1>4, <2>2, Moved DEF GetMrInfo, GetMrCount, GetMrArray, RecvControl,
           RegisterFails, RoundStart, memVars
      <3> QED
        BY <3>1
    <2>3. CASE PostRequest \/ WaitRequest \/ Report
      <3>1. /\ bufs' = bufs /\ mem' = mem
            /\ pc[e] \in {"post", "wait", "report"}
            /\ pc'[e] \in {"post", "wait", "report", "end_post"}
        BY <1>1, <1>4, <2>3, Moved DEF PostRequest, WaitRequest, Report, NextRequest,
           AfterRound, RoundStart, memVars
      <3> QED
        BY <3>1
    <2> QED
      BY <1>2, <1>3, <1>4, <2>1, <2>2, <2>3 DEF ClientStep, Teardown
  <1>5. CASE e = "server" /\ ServerStep
    <2>1. CASE Listen \/ Accept \/ AcceptFails
      <3>1. /\ bufs' = bufs /\ mem' = mem
            /\ pc[e] \in {"start", "get_request"}
            /\ pc'[e] \in {"get_request", "allocate", "done"}
        BY <1>1, <1>5, <2>1, Moved DEF Listen, Accept, AcceptFails, memVars
      <3> QED
        BY <3>1
    <2>2. CASE SendMrInfo /\ Crash(e)
      BY <1>5, <2>2, CrashNull DEF SendMrInfo, Crash, logVars, noteVars,
         RegisterFails, SendControl
    <2>3. CASE (SendMrInfo /\ ~Crash(e)) \/ SendMrCount \/ SendMrArray
      <3>1. /\ bufs' = bufs /\ mem' = mem
            /\ pc[e] \in {"send_mr", "send_mr_count", "send_mr_array"}
            /\ pc'[e] \in {"send_mr_count", "send_mr_array", "recv_post", "end_post",
                           "deallocate"}
        BY <1>1, <1>5, <2>3, Moved DEF SendMrInfo, SendMrCount, SendMrArray,
           SendControl, RegisterFails, RoundStart, memVars
      <3> QED
        BY <3>1
    <2>4. CASE RecvPost \/ RecvWait
      <3>1. /\ bufs' = bufs /\ mem' = mem
            /\ pc[e] \in {"recv_post", "recv_wait"}
            /\ pc'[e] \in {"recv_post", "recv_wait", "end_post"}
        BY <1>1, <1>5, <2>4, Moved DEF RecvPost, RecvWait, NextRequest,
           AfterRound, RoundStart, memVars
      <3> QED
        BY <3>1
    <2> QED
      BY <1>2, <1>3, <1>5, <2>1, <2>2, <2>3, <2>4 DEF ServerStep, Teardown
  <1> QED
    BY <1>4, <1>5

LEMMA ProcessMem ==
    ASSUME Known, NEW e \in Peers, MemOf(e),
           \/ e = "client" /\ ClientStep
           \/ e = "server" /\ ServerStep
    PROVE  MemOf(e)'
  <1>1. /\ IInv /\ "client" \in Peers /\ "server" \in Peers /\ params' = params
        /\ DOMAIN bufs = Peers /\ DOMAIN mem = Peers
    BY KnownFacts, ClientFrame, ServerFrame, TypedFunctions
  <1>2. Indices(e)' = Indices(e) /\ Source' = Source /\ (MayFail("reg")' <=> MayFail("reg"))
    BY <1>1 DEF Indices, Count, Source, MayFail
  <1>3. CASE AllocateBuffer(e)
    <2>3. PICK nulls \in SUBSET IF MayFail("reg") THEN Indices(e) ELSE {} :
             bufs' = [bufs EXCEPT ![e] = IF nulls = {} THEN "reg" ELSE "null"]
      BY <1>3 DEF AllocateBuffer
    <2>4. nulls # {} => MayFail("reg")
      OBVIOUS
    <2>1. /\ bufs'[e] \in {"reg", "null"} /\ (bufs'[e] = "null" => MayFail("reg"))
          /\ mem'[e] = [i \in Indices(e) |-> <<e, i>>]
      BY <1>1, <1>3, <2>3, <2>4 DEF AllocateBuffer
    <2>2. pc'[e] \notin Unallocated
      BY <1>1, <1>3, Moved DEF AllocateBuffer, AfterAllocate, RoundStart, Unallocated,
         ClientEarly, ServerEarly
    <2> QED
      BY <1>2, <2>1, <2>2 DEF MemOf
  <1>4. CASE Crash(e) /\ mem' = mem /\ pc[e] \notin Unallocated \union Out
    <2>1. pc'[e] = "crashed" /\ bufs'[e] = "freed"
      BY <1>4, CrashNull
    <2> QED
      BY <1>2, <1>4, <2>1 DEF MemOf, Unallocated, ClientEarly, ServerEarly, Out
  <1>5. CASE DeallocateBuffer(e) /\ ~Crash(e)
    <2>1. /\ pc[e] = "deallocate" /\ pc'[e] = "disconnect" /\ bufs'[e] = "freed"
          /\ mem' = mem
      BY <1>1, <1>5, Moved DEF DeallocateBuffer
    <2> QED
      BY <1>2, <2>1 DEF MemOf, Unallocated, ClientEarly, ServerEarly, Out
  <1> QED
    BY <1>1, <1>3, <1>4, <1>5, MemMoves, ProcessMoves

LEMMA NextMem == Known /\ MemInv /\ [Next]_vars => MemInv'
  <1> SUFFICES ASSUME Known, MemInv, [Next]_vars, NEW d \in Peers PROVE MemOf(d)'
    BY DEF MemInv
  <1>1. IInv /\ "client" \in Peers /\ "server" \in Peers /\ MemOf(d)
    BY KnownFacts DEF MemInv
  <1>2. CASE ClientStep
    <2>1. CASE d = "client"
      BY <1>1, <1>2, <2>1, ProcessMem
    <2>2. CASE d = "server"
      BY <1>1, <1>2, <2>2, ClientFrame, MemMoves DEF Kept
    <2> QED
      BY <2>1, <2>2 DEF Peers
  <1>3. CASE ServerStep /\ ~Accept
    <2>1. CASE d = "server"
      BY <1>1, <1>3, <2>1, ProcessMem
    <2>2. CASE d = "client"
      BY <1>1, <1>3, <2>2, ServerFrame, MemMoves DEF Kept
    <2> QED
      BY <2>1, <2>2 DEF Peers
  <1>4. CASE Accept
    <2>1. /\ pc[d] \in Unallocated /\ pc'[d] \in Unallocated /\ params' = params
          /\ bufs' = bufs /\ mem' = mem
      BY <1>4 DEF Accept, Unallocated, ClientEarly, ServerEarly, memVars, procVars, Peers
    <2> QED
      BY <1>1, <2>1, MemMoves
  <1>5. CASE \E e \in Peers : Nic(e) \/ FabricFails(e)
    <2>1. pc' = pc /\ params' = params /\ bufs' = bufs
      BY <1>1, <1>5, NicMoves DEF procVars
    <2>2. CASE mem'[d] = mem[d]
      BY <1>1, <2>1, <2>2, MemMoves
    <2>3. CASE mem'[d] # mem[d]
      <3>1. d # Source /\ bufs[d] # "none"
        BY <1>5, <2>3, NicMemory, SourceDest
      <3>2. Source' = Source /\ (MayFail("reg")' <=> MayFail("reg"))
        BY <2>1 DEF Source, MayFail
      <3> QED
        BY <1>1, <2>1, <3>1, <3>2 DEF MemOf
    <2> QED
      BY <2>2, <2>3
  <1>6. CASE UNCHANGED vars
    BY <1>1, <1>6, MemMoves DEF vars
  <1> QED
    BY <1>2, <1>3, <1>4, <1>5, <1>6 DEF Next, Step, Stopped


-----------------------------------------------------------------------------
(* run()'s result.                                                          *)

Ending == {"deallocate", "disconnect", "done", "crashed"}

\* A polling that fails, or a send the queue refuses, is not met on a working
\* connection: what ends the set-up early there is a registration.
LEMMA LeavesEarly ==
    ASSUME Known, NEW e \in Peers, pc'[e] = "deallocate", pc[e] # "sha",
           \/ e = "client" /\ ClientStep
           \/ e = "server" /\ ServerStep
    PROVE  /\ rv'[e] = -1 /\ sha'[e] = sha[e] /\ pc[e] \notin Ending
           /\ qp'[e].state = "rts" => MayFail("reg")
  <1>1. /\ IInv /\ QueueInv /\ Polls /\ "client" \in Peers /\ "server" \in Peers
        /\ SendAt(e, pc[e], qp[e], n[e]) /\ Accounted(qp[e]) /\ "end" \in Kinds
    BY KnownFacts DEF At, Kinds
  <1>2. qp'[e].state = "rts" => qp[e].state = "rts"
    <2>1. ~Accept
      BY <1>1 DEF Accept
    <2> QED
      BY <1>1, <2>1, StillConnected
  <1>3. /\ (qp[e].state = "rts" => \A c \in SendComp(e) : c.rv = 1)
        /\ (qp[e].state = "rts" => \A c \in RecvComp(e) : c.rv = 1)
        /\ \A c \in SendComp(e) : c.rv = 1 \/ c.rv = -1
        /\ \A c \in RecvComp(e) : c.rv = 1 \/ c.rv = -1
    BY <1>1, ConnectedPolls, Results
  <1>4. pc[e] \in {"send_mr", "end_post"} /\ qp[e].state = "rts" => CanPost(qp[e])
    <2>1. pc[e] \in {"send_mr", "end_post"} /\ qp[e].state = "rts" => Unretired(qp[e]) = 0
      BY <1>1 DEF SendAt, SendWaits, Idle
    <2> QED
      BY <1>1, <2>1, OnePosted
  <1>10. /\ pc[e] \in {"get_mr", "end_post"} => CanRecv(qp[e])
         /\ pc[e] = "get_mr_count" => \A c \in RecvComp(e) : CanRecv(c.q)
    BY <1>1, Unrefused, KnownFacts
  <1>5. CASE EndPost(e)
    <2>1. /\ pc[e] = "end_post" /\ sha' = sha /\ qp' = qp /\ Return(e, -1)
          /\ MayFail("reg") \/ ~CanPost(qp[e])
      BY <1>1, <1>5, <1>10, Moved DEF EndPost, SendControl, RecvControl,
         RegisterFails, logVars
    <2> QED
      BY <1>1, <1>4, <2>1, Moved DEF Ending
  <1>6. CASE EndWait(e)
    <2>1. PICK c \in IF e = "client" THEN SendComp(e) ELSE RecvComp(e) :
             /\ SetQp(e, c.q) /\ Return(e, c.rv)
             /\ Goto(e, IF c.rv < 0 THEN "deallocate" ELSE "sha")
      BY <1>6 DEF EndWait
    <2>2. rv'[e] = c.rv /\ pc'[e] = (IF c.rv < 0 THEN "deallocate" ELSE "sha")
      BY <1>1, <2>1, Moved
    <2>3. c.rv = -1
      BY <1>3, <2>2
    <2>4. pc[e] = "end_wait" /\ sha' = sha
      BY <1>6 DEF EndWait, logVars, noteVars
    <2> QED
      BY <1>2, <1>3, <2>2, <2>3, <2>4 DEF Ending
  <1>7. CASE \/ PrintSha1sum(e) \/ DeallocateBuffer(e) \/ Disconnect(e)
             \/ NullMrCrash(e) \/ AllocateBuffer(e)
    <2>1. pc[e] = "sha" \/ pc'[e] # "deallocate"
      BY <1>1, <1>7, Moved DEF PrintSha1sum, DeallocateBuffer, Disconnect, NullMrCrash,
         Crash, AllocateBuffer, AfterAllocate, RoundStart
    <2> QED
      BY <2>1
  <1>8. CASE e = "client" /\ ClientStep
    <2>1. CASE \/ ClientCreateEp \/ SetTos \/ RdmaConnect \/ PostRequest \/ WaitRequest
               \/ Report
      <3>1. pc'["client"] # "deallocate"
        BY <1>1, <2>1, Moved DEF ClientCreateEp, SetTos, RdmaConnect, ConnectFails,
           PostRequest, WaitRequest, Report, NextRequest, AfterRound, RoundStart
      <3> QED
        BY <1>8, <3>1
    <2>2. CASE GetMrInfo
      <3>1. pc[e] = "get_mr" /\ sha' = sha /\ rv'[e] = -1 /\ MayFail("reg")
        BY <1>1, <1>8, <1>10, <2>2, Moved DEF GetMrInfo, RecvControl, RegisterFails,
           logVars
      <3> QED
        BY <3>1 DEF Ending
    <2>3. CASE GetMrCount \/ GetMrArray
      <3>1. /\ pc[e] \in {"get_mr_count", "get_mr_array"} /\ sha' = sha
            /\ \E c \in RecvComp(e) : c.rv < 0 /\ (rv'[e] = -1 \/ rv'[e] = c.rv)
        BY <1>1, <1>8, <1>10, <2>3, Moved DEF GetMrCount, GetMrArray, RoundStart,
           noteVars
      <3> QED
        BY <1>2, <1>3, <3>1 DEF Ending
    <2> QED
      BY <1>5, <1>6, <1>7, <1>8, <2>1, <2>2, <2>3 DEF ClientStep, Teardown
  <1>9. CASE e = "server" /\ ServerStep
    <2>1. CASE Listen \/ Accept \/ AcceptFails \/ RecvPost \/ RecvWait
      <3>1. pc'["server"] # "deallocate"
        BY <1>1, <2>1, Moved DEF Listen, Accept, AcceptFails, RecvPost, RecvWait,
           NextRequest, AfterRound, RoundStart
      <3> QED
        BY <1>9, <3>1
    <2>2. CASE SendMrInfo
      <3>1. /\ pc[e] = "send_mr" /\ sha' = sha /\ rv'[e] = -1 /\ qp' = qp
            /\ MayFail("reg") \/ ~CanPost(qp[e])
        BY <1>1, <1>9, <2>2, Moved DEF SendMrInfo, SendControl, RegisterFails, Crash,
           logVars, noteVars
      <3> QED
        BY <1>4, <3>1 DEF Ending
    <2>3. CASE SendMrCount \/ SendMrArray
      <3>1. /\ pc[e] \in {"send_mr_count", "send_mr_array"} /\ sha' = sha
            /\ \E c \in SendComp(e) : c.rv < 0 /\ (rv'[e] = -1 \/ rv'[e] = c.rv)
        BY <1>1, <1>9, <2>3, Moved DEF SendMrCount, SendMrArray, RoundStart,
           noteVars
      <3> QED
        BY <1>2, <1>3, <3>1 DEF Ending
    <2> QED
      BY <1>5, <1>6, <1>7, <1>9, <2>1, <2>2, <2>3 DEF ServerStep, Teardown
  <1> QED
    BY <1>8, <1>9


\* How a step moves a process towards the end of run().
GoesOn(e) == /\ {pc[e], pc'[e]} \intersect (Ending \union {"sha"}) = {}
             /\ sha'[e] = sha[e]

Ends(e) == pc[e] = "end_wait" /\ pc'[e] = "sha" /\ rv'[e] = 1 /\ sha'[e] = sha[e]

GivesUp(e) == /\ pc'[e] = "done" /\ rv'[e] = -1 /\ sha'[e] = sha[e]
              /\ pc[e] \in Unallocated

LEMMA Exits ==
    ASSUME Known, NEW e \in Peers,
           \/ e = "client" /\ ClientStep
           \/ e = "server" /\ ServerStep
    PROVE  \/ GoesOn(e) \/ Ends(e) \/ GivesUp(e) \/ PrintSha1sum(e)
           \/ pc[e] # "sha" /\ pc'[e] = "deallocate"
           \/ DeallocateBuffer(e) /\ pc'[e] = "disconnect"
           \/ Disconnect(e)
           \/ Crash(e) /\ sha' = sha /\ rv' = rv /\ mem' = mem
  <1> USE DEF Ending, Unallocated, ClientEarly, ServerEarly
  <1>1. IInv /\ "client" \in Peers /\ "server" \in Peers
    BY KnownFacts
  <1>2. \A c \in RecvComp(e) \union SendComp(e) : c.rv = 1 \/ c.rv = -1
    BY <1>1, Results
  <1>3. CASE EndPost(e) \/ EndWait(e) \/ AllocateBuffer(e)
    <2>1. CASE EndPost(e) \/ AllocateBuffer(e)
      <3>1. /\ pc[e] \in {"end_post", "allocate"} /\ sha' = sha
            /\ pc'[e] \in {"end_wait", "deallocate", "post", "recv_post", "end_post",
                           "get_mr", "send_mr"}
        BY <1>1, <2>1, Moved DEF EndPost, SendControl, RecvControl, RegisterFails,
           AllocateBuffer, AfterAllocate, RoundStart, logVars, noteVars
      <3> QED
        BY <3>1 DEF GoesOn
    <2>2. CASE EndWait(e)
      <3>1. PICK c \in IF e = "client" THEN SendComp(e) ELSE RecvComp(e) :
               /\ SetQp(e, c.q) /\ Return(e, c.rv)
               /\ Goto(e, IF c.rv < 0 THEN "deallocate" ELSE "sha")
        BY <2>2 DEF EndWait
      <3>2. rv'[e] = c.rv /\ pc'[e] = (IF c.rv < 0 THEN "deallocate" ELSE "sha")
        BY <1>1, <3>1, Moved
      <3>3. pc[e] = "end_wait" /\ sha' = sha
        BY <2>2 DEF EndWait, logVars, noteVars
      <3>4. c.rv = 1 \/ c.rv = -1
        BY <1>2
      <3> QED
        BY <3>2, <3>3, <3>4 DEF Ends
    <2> QED
      BY <1>3, <2>1, <2>2
  <1>4. CASE PrintSha1sum(e) \/ DeallocateBuffer(e) \/ Disconnect(e) \/ NullMrCrash(e)
    BY <1>1, <1>4, Moved DEF DeallocateBuffer, NullMrCrash, procVars, logVars, noteVars
  <1>5. CASE e = "client" /\ ClientStep
    <2>1. CASE ClientCreateEp \/ SetTos \/ RdmaConnect
      <3>1. /\ pc[e] \in {"start", "tos", "connect", "connecting"} /\ sha' = sha
            /\ \/ pc'[e] \in {"tos", "connect", "connecting"}
               \/ pc'[e] = "done" /\ rv'[e] = -1
        BY <1>1, <1>5, <2>1, Moved DEF ClientCreateEp, SetTos, RdmaConnect,
           ConnectFails, logVars, noteVars
      <3> QED
        BY <3>1 DEF GoesOn, GivesUp
    <2>2. CASE GetMrInfo \/ GetMrCount \/ GetMrArray
      <3>1. /\ pc[e] \in {"get_mr", "get_mr_count", "get_mr_array"} /\ sha' = sha
            /\ pc'[e] \in {"get_mr_count", "get_mr_array", "post", "deallocate"}
        BY <1>1, <1>5, <2>2, Moved DEF GetMrInfo, GetMrCount, GetMrArray, RecvControl,
           RegisterFails, RoundStart, logVars, noteVars
      <3> QED
        BY <3>1 DEF GoesOn
    <2>3. CASE PostRequest \/ WaitRequest \/ Report
      <3>1. /\ pc[e] \in {"post", "wait", "report"} /\ sha' = sha
            /\ pc'[e] \in {"post", "wait", "report", "end_post"}
        BY <1>1, <1>5, <2>3, Moved DEF PostRequest, WaitRequest, Report, NextRequest,
           AfterRound, RoundStart, logVars, noteVars
      <3> QED
        BY <3>1 DEF GoesOn
    <2> QED
      BY <1>3, <1>4, <1>5, <2>1, <2>2, <2>3 DEF ClientStep, Teardown
  <1>6. CASE e = "server" /\ ServerStep
    <2>1. CASE Listen \/ Accept \/ AcceptFails
      <3>1. /\ pc[e] \in {"start", "get_request"} /\ sha' = sha
            /\ \/ pc'[e] \in {"get_request", "allocate"}
               \/ pc'[e] = "done" /\ rv'[e] = -1
        BY <1>1, <1>6, <2>1, Moved DEF Listen, Accept, AcceptFails, logVars, noteVars
      <3> QED
        BY <3>1 DEF GoesOn, GivesUp
    <2>2. CASE SendMrInfo \/ SendMrCount \/ SendMrArray
      <3>1. CASE SendMrInfo /\ bufs[e] = "null"
        BY <1>6, <3>1 DEF SendMrInfo, logVars, noteVars
      <3>2. CASE ~(SendMrInfo /\ bufs[e] = "null")
        <4>1. /\ pc[e] \in {"send_mr", "send_mr_count", "send_mr_array"} /\ sha' = sha
              /\ pc'[e] \in {"send_mr_count", "send_mr_array", "recv_post", "end_post",
                             "deallocate"}
          BY <1>1, <1>6, <2>2, <3>2, Moved DEF SendMrInfo, SendMrCount, SendMrArray,
             SendControl, RegisterFails, RoundStart, logVars, noteVars
        <4> QED
          BY <4>1 DEF GoesOn
      <3> QED
        BY <3>1, <3>2
    <2>3. CASE RecvPost \/ RecvWait
      <3>1. /\ pc[e] \in {"recv_post", "recv_wait"} /\ sha' = sha
            /\ pc'[e] \in {"recv_post", "recv_wait", "end_post"}
        BY <1>1, <1>6, <2>3, Moved DEF RecvPost, RecvWait, NextRequest, AfterRound,
           RoundStart, logVars, noteVars
      <3> QED
        BY <3>1 DEF GoesOn
    <2> QED
      BY <1>3, <1>4, <1>6, <2>1, <2>2, <2>3 DEF ServerStep, Teardown
  <1> QED
    BY <1>5, <1>6

LEMMA ResultMoves ==
    ASSUME NEW e \in Peers, ResultOf(e), params' = params, sha'[e] = sha[e],
           rv'[e] = rv[e], pc'[e] = pc[e],
           qp'[e].state = "rts" => qp[e].state = "rts"
    PROVE  ResultOf(e)'
  BY DEF ResultOf, MayFail

LEMMA ProcessResult ==
    ASSUME Known, NEW e \in Peers, ResultOf(e), rv' \in [Peers -> Int],
           \/ e = "client" /\ ClientStep
           \/ e = "server" /\ ServerStep
    PROVE  ResultOf(e)'
  <1>1. /\ IInv /\ params' = params /\ DOMAIN sha = Peers /\ DOMAIN rv = Peers
        /\ rv[e] \in Int /\ rv'[e] \in Int /\ ~(-1 >= 0) /\ 1 >= 0
        /\ MayFail("reg")' <=> MayFail("reg")
    BY KnownFacts, ClientFrame, ServerFrame, TypedFunctions
       DEF MayFail, IInv, Rest, ProcTypeOK
  <1>2. CASE GoesOn(e)
    BY <1>1, <1>2 DEF GoesOn, ResultOf, Ending
  <1>3. CASE Ends(e)
    BY <1>1, <1>3 DEF Ends, ResultOf, Ending
  <1>4. CASE GivesUp(e)
    BY <1>1, <1>4 DEF GivesUp, ResultOf, Ending
  <1>5. CASE PrintSha1sum(e)
    <2>1. /\ pc[e] = "sha" /\ sha'[e] = mem[e] /\ pc'[e] = "deallocate" /\ rv' = rv
      BY <1>1, <1>5, Moved DEF PrintSha1sum, procVars
    <2>2. mem[e] # << >>
      <3>1. mem[e] \in [Indices(e) -> Values] /\ n[e] \in Indices(e)
        BY <1>1 DEF IInv, Rest, MemTypeOK, ProcTypeOK
      <3>2. DOMAIN mem[e] # {}
        BY <3>1
      <3> QED
        BY <3>2
    <2> QED
      BY <1>1, <2>1, <2>2 DEF ResultOf
  <1>6. CASE pc[e] # "sha" /\ pc'[e] = "deallocate"
    <2>1. /\ rv'[e] = -1 /\ sha'[e] = sha[e] /\ pc[e] \notin Ending
          /\ qp'[e].state = "rts" => MayFail("reg")
      BY <1>6, LeavesEarly
    <2> QED
      BY <1>1, <1>6, <2>1 DEF ResultOf, Ending
  <1>7. CASE DeallocateBuffer(e) /\ pc'[e] = "disconnect"
    <2>1. /\ pc[e] = "deallocate" /\ rv' = rv /\ sha' = sha
          /\ ~Crash(e)
      BY <1>1, <1>7, Moved DEF DeallocateBuffer, procVars, logVars, noteVars, Crash
    <2>2. qp' = qp
      BY <1>7, <2>1 DEF DeallocateBuffer
    <2> QED
      BY <1>1, <1>7, <2>1, <2>2 DEF ResultOf
  <1>8. CASE Disconnect(e)
    <2>1. pc[e] = "disconnect" /\ pc'[e] = "done" /\ rv' = rv /\ sha' = sha
      BY <1>1, <1>8, Moved DEF Disconnect, procVars, logVars, noteVars
    <2> QED
      BY <1>1, <2>1 DEF ResultOf
  <1>9. CASE Crash(e) /\ sha' = sha
    <2>1. pc'[e] = "crashed"
      BY <1>1, <1>9, Moved DEF Crash
    <2> QED
      BY <1>9, <2>1 DEF ResultOf
  <1> QED
    BY <1>2, <1>3, <1>4, <1>5, <1>6, <1>7, <1>8, <1>9, Exits

LEMMA NextResult == Known /\ ResultInv /\ [Next]_vars => ResultInv'
  <1> SUFFICES ASSUME Known, ResultInv, [Next]_vars, NEW d \in Peers PROVE ResultOf(d)'
    BY DEF ResultInv
  <1>1. /\ IInv /\ "client" \in Peers /\ "server" \in Peers /\ ResultOf(d)
        /\ rv' \in [Peers -> Int]
    BY KnownFacts, NextIInv DEF ResultInv, IInv, Rest, ProcTypeOK
  <1>2. CASE ClientStep
    <2>1. CASE d = "client"
      BY <1>1, <1>2, <2>1, ProcessResult
    <2>2. CASE d = "server"
      BY <1>1, <1>2, <2>2, ClientFrame, ResultMoves DEF Kept
    <2> QED
      BY <2>1, <2>2 DEF Peers
  <1>3. CASE ServerStep
    <2>1. CASE d = "server"
      BY <1>1, <1>3, <2>1, ProcessResult
    <2>2. CASE d = "client" /\ Kept("client")
      BY <1>1, <1>3, <2>2, ServerFrame, ResultMoves DEF Kept
    <2>3. CASE d = "client" /\ Accept
      <3>1. pc'[d] = "allocate" /\ pc[d] = "connecting" /\ sha' = sha
        BY <1>1, <2>3 DEF Accept, logVars, noteVars
      <3> QED
        BY <1>1, <3>1 DEF ResultOf
    <2> QED
      BY <1>1, <1>3, <2>1, <2>2, <2>3, ServerFrame DEF Peers
  <1>4. CASE \E e \in Peers : Nic(e) \/ FabricFails(e)
    <2>1. /\ pc' = pc /\ params' = params /\ rv' = rv /\ sha' = sha
          /\ NicMove(qp[d], qp'[d]) /\ Accounted(qp[d])
      BY <1>1, <1>4, NicMoves, KnownFacts DEF procVars, logVars, noteVars
    <2>2. qp'[d].state = "rts" => qp[d].state = "rts"
      BY <2>1, NicKeepsCounts
    <2> QED
      BY <1>1, <2>1, <2>2, ResultMoves
  <1>5. CASE UNCHANGED vars
    BY <1>1, <1>5, ResultMoves DEF vars
  <1> QED
    BY <1>2, <1>3, <1>4, <1>5 DEF Next, Step, Stopped


-----------------------------------------------------------------------------
(* Counting what has been executed.                                         *)

LEMMA DoneSums ==
    ASSUME NEW q, Accounted(q)
    PROVE  /\ (q.posted + 1) - q.retired - (Len(q.sq) + 1) + q.sent = Done(q)
           /\ q.posted - q.retired - (Len(q.sq) - 1) + (q.sent - 1) = Done(q)
           /\ \A b \in Int : b + (q.posted - Len(q.sq) + (q.sent + 1)) - q.retired
                             = (b + Done(q)) + 1
  <1> DEFINE p == q.posted
             t == q.retired
             l == Len(q.sq)
             s == q.sent
  <1>1. p \in Nat /\ t \in Nat /\ l \in Nat /\ s \in Nat
    BY QpFields
  <1>2. Done(q) = p - t - l + s
    BY DEF Done, Unretired
  <1> HIDE DEF p, t, l, s
  <1>3. /\ (p + 1) - t - (l + 1) + s = p - t - l + s
        /\ p - t - (l - 1) + (s - 1) = p - t - l + s
        /\ \A b \in Int : b + (p - l + (s + 1)) - t = (b + (p - t - l + s)) + 1
    BY <1>1
  <1> QED
    BY <1>2, <1>3 DEF p, t, l, s

LEMMA DoneKept ==
    ASSUME NEW q, Accounted(q)
    PROVE  /\ Done(q) \in Int /\ Unretired(q) \in Int
           /\ Done(Executed(q)) = Done(q) + 1
           /\ q.sent > 0 => Done(Acknowledged(q)) = Done(q)
           /\ \A r : SendSame(q, r) /\ r.sent = q.sent => Done(r) = Done(q)
  <1>1. /\ q.posted \in Nat /\ q.retired \in Nat /\ q.sent \in Nat /\ Len(q.sq) \in Nat
    BY QpFields
  <1>2. /\ SendSame(q, Executed(q)) /\ Executed(q).sent = q.sent + 1
    BY SidesKept
  <1>3. Done(Executed(q)) = Done(q) + 1
    BY <1>1, <1>2 DEF Done, Unretired, SendSame
  <1>4. q.sent > 0 => Done(Acknowledged(q)) = Done(q)
    <2>1. q.sent > 0 => AckedTo(q, Acknowledged(q))
      BY AcknowledgedFields
    <2>2. q.sent > 0 => /\ Len(Acknowledged(q).sq) = Len(q.sq) - 1
                        /\ Acknowledged(q).sent = q.sent - 1
                        /\ Acknowledged(q).posted = q.posted
                        /\ Acknowledged(q).retired = q.retired
      BY <2>1 DEF AckedTo
    <2>3. q.sent > 0 => Done(Acknowledged(q))
                        = q.posted - q.retired - (Len(q.sq) - 1) + (q.sent - 1)
      BY <2>2 DEF Done, Unretired
    <2>4. q.posted - q.retired - (Len(q.sq) - 1) + (q.sent - 1) = Done(q)
      BY DoneSums
    <2> QED
      BY <2>3, <2>4
  <1>5. \A r : SendSame(q, r) /\ r.sent = q.sent => Done(r) = Done(q)
    BY DEF Done, Unretired, SendSame
  <1>6. Done(q) \in Int /\ Unretired(q) \in Int
    BY <1>1 DEF Done, Unretired
  <1> QED
    BY <1>3, <1>4, <1>5, <1>6

\* Posting changes what is outstanding, not what has been executed.
LEMMA PostDone ==
    ASSUME NEW q, Accounted(q), q.state = "rts", NEW op, NEW kind, NEW k, NEW sig
    PROVE  Done(PostSend(q, op, kind, k, sig)) = Done(q)
  <1> DEFINE wr == [op |-> op, kind |-> kind, n |-> k, sig |-> sig,
                    idx |-> q.posted + 1]
             r == PostSend(q, op, kind, k, sig)
  <1>1. /\ q.posted \in Nat /\ q.retired \in Nat /\ q.sent \in Nat /\ Len(q.sq) \in Nat
        /\ q \in QueuePairs /\ q.sq \in Seq(WorkRequests)
    BY QpFields
  <1>2. CASE ~CanPost(q)
    BY <1>2 DEF PostSend
  <1>3. CASE CanPost(q)
    <2>1. r = [q EXCEPT !.posted = @ + 1, !.sq = Append(@, wr)]
      BY <1>3 DEF PostSend
    <2> HIDE DEF wr
    <2>2. /\ r.posted = q.posted + 1 /\ r.sq = Append(q.sq, wr)
          /\ r.sent = q.sent /\ r.retired = q.retired
      BY <1>1, <2>1 DEF QueuePairs
    <2>3. Len(r.sq) = Len(q.sq) + 1
      BY <1>1, <2>2
    <2> HIDE DEF r
    <2>4. Done(r) = (q.posted + 1) - q.retired - (Len(q.sq) + 1) + q.sent
      BY <2>2, <2>3 DEF Done, Unretired
    <2>5. (q.posted + 1) - q.retired - (Len(q.sq) + 1) + q.sent = Done(q)
      BY DoneSums
    <2> QED
      BY <2>4, <2>5 DEF r
  <1> QED
    BY <1>2, <1>3

\* A connection is never repaired.
LEMMA LiveBefore ==
    ASSUME Known, [Next]_vars, ~Accept, Live'
    PROVE  Live
  <1>1. IInv /\ "client" \in Peers /\ "server" \in Peers
    BY KnownFacts
  <1>2. Promised' /\ qp'["client"].state = "rts" /\ qp'["server"].state = "rts"
    BY <1>1 DEF Live
  <1> SUFFICES params' = params /\ qp["client"].state = "rts" /\ qp["server"].state = "rts"
    BY <1>2 DEF Live, Promised, Regular, Peers
  <1>3. CASE ClientStep
    BY <1>1, <1>2, <1>3, ClientFrame, StillConnected DEF Kept
  <1>4. CASE ServerStep
    BY <1>1, <1>2, <1>4, ServerFrame, StillConnected DEF Kept
  <1>5. CASE \E e \in Peers : Nic(e) \/ FabricFails(e)
    <2>1. /\ params' = params
          /\ \A d \in Peers : NicMove(qp[d], qp'[d]) /\ Accounted(qp[d])
      BY <1>1, <1>5, NicMoves, KnownFacts DEF procVars
    <2> QED
      BY <1>1, <1>2, <2>1, NicKeepsCounts
  <1>6. CASE UNCHANGED vars
    BY <1>2, <1>6 DEF vars
  <1> QED
    BY <1>3, <1>4, <1>5, <1>6 DEF Next, Step, Stopped

LEMMA ExecuteConnected ==
    ASSUME Known, NEW e \in Peers, NicExecute(e)
    PROVE  qp[Peer(e)].state = "rts" \/ Breaks(e)
  <1>1. Flushed(qp[e]).state = "err"
    BY KnownFacts, FlushedFields DEF FlushedTo
  <1>2. \/ qp[Peer(e)].state = "rts"
        \/ SetQp(e, Flushed(qp[e])) /\ UNCHANGED <<mem, rcount>>
    BY DEF NicExecute
  <1> QED
    BY <1>1, <1>2, KnownFacts, Moved DEF Breaks

\* Where nothing is outstanding.
Fresh == {"allocate", "end_post"} \union GetMr

Begins == pc["client"] \in Fresh \/ (pc["client"] = "post" /\ n["client"] = 1)

LEMMA SentZero == Known /\ qp["client"].state = "rts" /\ Begins => Sent = 0
  <1> SUFFICES ASSUME Known, qp["client"].state = "rts",
                      pc["client"] \in Fresh \/ (pc["client"] = "post" /\ n["client"] = 1)
               PROVE  Sent = 0
    BY DEF Begins
  <1>1. /\ SendAt("client", pc["client"], qp["client"], n["client"])
        /\ Accounted(qp["client"])
    BY KnownFacts DEF At
  <1>2. pc["client"] \in Fresh
        => pc["client"] \notin SendWaits("client") \union {"post", "wait", "report"}
    BY DEF Fresh, GetMr, SendWaits
  <1>3. Unretired(qp["client"]) <= 0
    <2>1. CASE pc["client"] \in Fresh
      BY <1>1, <1>2, <2>1 DEF SendAt, Idle
    <2>2. CASE pc["client"] = "post" /\ n["client"] = 1
      BY <1>1, <2>2 DEF SendAt, Posting
    <2> QED
      BY <2>1, <2>2
  <1>4. Done(qp["client"]) = 0
    BY <1>1, <1>3, NothingPosted
  <1>5. pc["client"] = "post" /\ n["client"] = 1 => Base = 0
    BY DEF Base
  <1> QED
    BY <1>2, <1>4, <1>5 DEF Sent

\* The request executed next is the one after those executed.
LEMMA FrontNumber ==
    ASSUME Known, NicExecute("client"), Front("client").kind = "data"
    PROVE  /\ Front("client").n = Sent + 1 /\ Sent + 1 \in 1..params.count
           /\ pc["client"] \in {"post", "wait"}
  <1> DEFINE q == qp["client"]
  <1>1. /\ q.state = "rts" /\ q.sent + 1 \in 1..Len(q.sq) /\ Front("client") \in Mine("client")
        /\ Accounted(q) /\ "client" \in Peers /\ IInv
    BY KnownFacts, FrontFacts
  <1>2. pc["client"] \in {"post", "wait"}
    BY <1>1, Outstanding DEF Front
  <1>3. Front("client").n = Base + Front("client").idx - q.retired
    BY <1>1, <1>2 DEF Known, BurstInv, Numbered, Front
  <1>4. Front("client").idx = q.posted - Len(q.sq) + (q.sent + 1)
    <2>1. Consecutive(q.sq, q.posted - Len(q.sq))
      BY <1>1, QpFields DEF SendAccounting
    <2> QED
      BY <1>1, <2>1 DEF Consecutive, Front
  <1>5. Sent = Base + Done(q)
    BY <1>2 DEF Sent
  <1>6. /\ q.posted \in Nat /\ q.retired \in Nat /\ q.sent \in Nat /\ Len(q.sq) \in Nat
        /\ Base \in Int
    <2>1. n["client"] \in Nat
      BY <1>1 DEF IInv, Rest, ProcTypeOK
    <2> QED
      BY <1>1, <2>1, QpFields DEF Base
  <1>7. Front("client").n = Sent + 1
    <2>1. Front("client").n = Base + (q.posted - Len(q.sq) + (q.sent + 1)) - q.retired
      BY <1>3, <1>4
    <2>2. @ = (Base + Done(q)) + 1
      BY <1>1, <1>6, DoneSums
    <2> QED
      BY <1>5, <2>1, <2>2
  <1>8. Front("client").n \in 1..params.count
    BY <1>1 DEF Mine, Indices, Count
  <1> QED
    BY <1>2, <1>7, <1>8


\* The next round begins where all requests of this one have been executed.
SameCount(r, rr, x, xx) == rr = r /\ xx = x
TurnsOver(r, rr, x, xx, total) == rr = r + 1 /\ x = total /\ xx = 0

LEMMA ClientCounts ==
    ASSUME Known, Known', ClientStep, qp'["client"].state = "rts",
           pc'["client"] \in ClientActive
    PROVE  /\ pc["client"] \in ClientActive /\ qp["client"].state = "rts"
           /\ \/ SameCount(round["client"], round'["client"], Sent, Sent')
              \/ TurnsOver(round["client"], round'["client"], Sent, Sent', params.count)
  <1> USE DEF ClientActive, GetMr, ClientRounds, EndLabels, Fresh
  <1>1. /\ IInv /\ IInv' /\ Locals' /\ "client" \in Peers /\ params' = params
        /\ qp["client"].state = "rts" /\ ~Crash("client") /\ ~Disconnect("client")
        /\ Accounted(qp["client"]) /\ StampInv
        /\ At("client", pc["client"], qp["client"], n["client"])
    <2>1. Locals'
      BY DEF Known, LocalInv, Locals, Here, Polls
    <2> QED
      BY <2>1, KnownFacts, StillConnected, ClientFrame DEF Known
  <1>fresh. Begins' => Sent' = 0
    <2>1. (qp["client"].state = "rts")'
      OBVIOUS
    <2>2. Begins' => (Sent = 0)'
      BY <2>1, SentZero, PTL
    <2> QED
      BY <2>2
  <1>2. ASSUME pc["client"] \in Fresh, pc'["client"] \in Fresh \union {"post"},
               n'["client"] = 1 \/ pc'["client"] # "post",
               round'["client"] = round["client"]
        PROVE  SameCount(round["client"], round'["client"], Sent, Sent')
    <2>1. Sent = 0
      BY <1>1, <1>2, SentZero DEF Begins
    <2>2. Sent' = 0
      <3>1. Begins'
        BY <1>2 DEF Begins
      <3> QED
        BY <1>fresh, <3>1
    <2> QED
      BY <1>2, <2>1, <2>2 DEF SameCount
  <1>3. pc["client"] \in Fresh => n["client"] = 1
    BY <1>1 DEF StampInv
  <1>4. CASE ClientCreateEp \/ SetTos \/ RdmaConnect
    <2>1. pc'["client"] \in {"tos", "connect", "connecting", "done"}
      BY <1>1, <1>4, Moved DEF ClientCreateEp, SetTos, RdmaConnect, ConnectFails
    <2> QED
      BY <2>1
  <1>5. CASE AllocateBuffer("client")
    <2>1. /\ pc["client"] = "allocate" /\ n' = n /\ round' = round
          /\ pc'["client"] \in {"post", "get_mr"}
      BY <1>1, <1>5, Moved DEF AllocateBuffer, AfterAllocate, RoundStart
    <2> QED
      BY <1>1, <1>2, <1>3, <2>1
  <1>6. CASE GetMrInfo \/ GetMrCount \/ GetMrArray
    <2>1. /\ pc["client"] \in {"get_mr", "get_mr_count", "get_mr_array"}
          /\ pc'["client"] \in {"get_mr_count", "get_mr_array", "post", "deallocate"}
          /\ n' = n /\ round' = round
      BY <1>1, <1>6, Moved DEF GetMrInfo, GetMrCount, GetMrArray, RecvControl,
         RegisterFails, RoundStart
    <2> QED
      BY <1>1, <1>2, <1>3, <2>1
  <1>7. CASE PostRequest
    <2>1. /\ pc["client"] = "post" /\ round' = round
          /\ qp'["client"] = PostSend(qp["client"], params.verb, "data", n["client"],
                                      Signaled(n["client"]))
      BY <1>1, <1>7, Moved DEF PostRequest
    <2>2. Done(qp'["client"]) = Done(qp["client"])
      <3> DEFINE s == Signaled(n["client"])
      <3> HIDE DEF s
      <3>1. Done(PostSend(qp["client"], params.verb, "data", n["client"], s))
            = Done(qp["client"])
        BY <1>1, PostDone
      <3> QED
        BY <2>1, <3>1 DEF s
    <2>3. /\ pc'["client"] \in {"post", "wait"}
          /\ params.mode = "latency" => n' = n
      <3>1. n["client"] \in 1..params.count /\ params.count \in Nat
            /\ Count("client") = params.count
        BY <1>1, RoundTypes
      <3>2. ~Signaled(n["client"]) => n["client"] < params.count /\ params.mode # "latency"
        BY <3>1 DEF Signaled
      <3> QED
        BY <1>1, <1>7, <3>1, <3>2, Moved DEF PostRequest, NextRequest
    <2>4. Sent' = Sent
      BY <1>1, <2>1, <2>2, <2>3 DEF Sent, Base
    <2> QED
      BY <1>1, <2>1, <2>4 DEF SameCount
  <1>8. CASE WaitRequest
    <2>1. /\ Unretired(qp["client"]) = n["client"] - Base
          /\ qp'["client"] = PollSend(qp["client"]) /\ qp["client"].scq # << >>
          /\ n["client"] < params.count => /\ pc'["client"] = "post"
                                           /\ n'["client"] = n["client"] + 1
                                           /\ params.mode = "latency"
          /\ ~(n["client"] < params.count) => /\ pc'["client"] = "report"
                                              /\ n'["client"] = 1
      BY <1>1, <1>8, WaitKeepsBurst
    <2>2. /\ pc["client"] = "wait" /\ round' = round /\ n["client"] \in 1..params.count
          /\ params.count \in Nat /\ Base \in Int
      BY <1>1, <1>8, RoundTypes DEF WaitRequest, Base
    <2>3. /\ Done(qp["client"]) = Unretired(qp["client"])
          /\ Done(PollSend(qp["client"])) = 0
      <3>1. Awaiting(qp["client"], "data") /\ FailuresLast(qp["client"])
        BY <1>1, <2>2, KnownFacts DEF At, SendAt
      <3> QED
        BY <1>1, <2>1, <3>1, PolledDone
    <2>4. Sent = n["client"]
      <3>1. Sent = Base + (n["client"] - Base)
        BY <2>1, <2>2, <2>3 DEF Sent
      <3> QED
        BY <2>2, <3>1
    <2>5. Sent' = n["client"]
      <3>1. CASE n["client"] < params.count
        <4>1. Base' = n'["client"] - 1
          BY <1>1, <2>1, <3>1 DEF Base
        <4>2. Sent' = Base' + Done(qp'["client"])
          BY <2>1, <3>1 DEF Sent
        <4>3. Done(qp'["client"]) = 0
          BY <2>1, <2>3
        <4>4. n'["client"] = n["client"] + 1
          BY <2>1, <3>1
        <4> QED
          BY <2>2, <4>1, <4>2, <4>3, <4>4
      <3>2. CASE ~(n["client"] < params.count)
        <4>1. Sent' = params.count /\ n["client"] = params.count
          BY <1>1, <2>1, <2>2, <3>2 DEF Sent
        <4> QED
          BY <4>1
      <3> QED
        BY <3>1, <3>2
    <2> QED
      BY <1>1, <2>2, <2>4, <2>5 DEF SameCount
  <1>9. CASE Report
    <2>1. /\ pc["client"] = "report" /\ pc'["client"] \in {"post", "end_post"}
          /\ n' = n /\ round'["client"] = round["client"] + 1
      BY <1>1, <1>9, Moved, TypedFunctions DEF Report, AfterRound, RoundStart
    <2>2. Sent = params.count
      BY <2>1 DEF Sent
    <2>3. n["client"] = 1
      BY <1>1, <2>1 DEF StampInv
    <2>4. Sent' = 0
      <3>1. Begins'
        BY <2>1, <2>3 DEF Begins
      <3> QED
        BY <1>fresh, <3>1
    <2> QED
      BY <1>1, <2>1, <2>2, <2>4 DEF TurnsOver
  <1>10. CASE EndPost("client")
    <2>1. pc["client"] = "end_post" /\ round' = round
          /\ pc'["client"] \in {"end_wait", "deallocate"}
      BY <1>1, <1>10, Moved DEF EndPost, SendControl, RecvControl, RegisterFails
    <2>2. /\ Unretired(qp["client"]) = 0
          /\ qp'["client"] = PostSend(qp["client"], "send", "end", 0, TRUE)
      BY <1>1, <2>1, ClientControl
    <2>3. "end" \in Kinds
      BY DEF Kinds
    <2>4. Done(PostSend(qp["client"], "send", "end", 0, TRUE)) = 0
      BY <1>1, <2>2, <2>3, OnePosted
    <2>5. Sent' = 0
      BY <2>1, <2>2, <2>4 DEF Sent
    <2>6. Sent = 0
      BY <1>1, <2>1, SentZero DEF Begins
    <2> QED
      BY <1>1, <2>1, <2>5, <2>6 DEF SameCount
  <1>11. CASE \/ EndWait("client") \/ PrintSha1sum("client") \/ DeallocateBuffer("client")
              \/ NullMrCrash("client")
    <2>1. pc'["client"] \in {"sha", "deallocate", "disconnect", "crashed"}
      BY <1>1, <1>11, Moved DEF EndWait, PrintSha1sum, DeallocateBuffer, NullMrCrash, Crash
    <2> QED
      BY <2>1
  <1> QED
    BY <1>1, <1>4, <1>5, <1>6, <1>7, <1>8, <1>9, <1>10, <1>11 DEF ClientStep, Teardown


\* Nothing is received outside the calls that wait for a message, and no call
\* waits for more than one.
LEMMA OneReceived ==
    ASSUME Known, NEW e \in Peers
    PROVE  /\ pc[e] \notin RecvWaits(e) => Len(qp[e].rcq) = 0
           /\ Len(qp[e].rcq) \in {0, 1}
           /\ qp[e].rcq # << >> => Len(qp[e].rcq) = 1
           /\ qp[e].rq # << >> => Len(qp[e].rcq) = 0
  <1>1. RecvAt(e, pc[e], qp[e], n[e])
    BY KnownFacts DEF At
  <1>2. \A c : Len(<<c>>) = 1
    OBVIOUS
  <1>3. pc[e] \notin RecvWaits(e) => qp[e].rcq = << >> /\ qp[e].rq = << >>
    BY <1>1 DEF RecvAt, RecvIdle
  <1>4. pc[e] \in RecvWaits(e) => \E b : RecvOne(qp[e], b)
    BY <1>1 DEF RecvAt, RecvWaits
  <1>5. pc[e] \in RecvWaits(e)
        => \/ qp[e].rcq = << >>
           \/ qp[e].rq = << >> /\ Len(qp[e].rcq) = 1
    BY <1>2, <1>4 DEF RecvOne
  <1>6. Len(<< >>) = 0
    OBVIOUS
  <1> QED
    BY <1>3, <1>5, <1>6

LEMMA ServerCounts ==
    ASSUME Known, Known', ServerStep, ~Accept, qp'["server"].state = "rts",
           pc'["server"] \in ServerActive
    PROVE  /\ pc["server"] \in ServerActive /\ qp["server"].state = "rts"
           /\ \/ SameCount(round["server"], round'["server"], Got, Got')
              \/ TurnsOver(round["server"], round'["server"], Got, Got', params.scount)
  <1> USE DEF ServerActive, SendMr, ServerRounds, EndLabels
  <1>1. /\ IInv /\ IInv' /\ "server" \in Peers /\ params' = params
        /\ qp["server"].state = "rts" /\ ~Crash("server") /\ ~Disconnect("server")
        /\ Accounted(qp["server"]) /\ RoundInv /\ QueueInv /\ Polls
    BY KnownFacts, StillConnected, ServerFrame DEF Known
  <1>2. /\ Len(qp["server"].rcq) \in {0, 1}
        /\ qp["server"].rcq # << >> => Len(qp["server"].rcq) = 1
        /\ pc["server"] \notin {"recv_wait", "end_wait"} => Len(qp["server"].rcq) = 0
    <2>1. /\ pc["server"] \notin RecvWaits("server") => Len(qp["server"].rcq) = 0
          /\ Len(qp["server"].rcq) \in {0, 1}
          /\ qp["server"].rcq # << >> => Len(qp["server"].rcq) = 1
      BY <1>1, OneReceived
    <2>2. pc["server"] \notin {"get_mr_count", "get_mr_array"}
      BY KnownFacts DEF ServerAt, ServerLabels, ServerEarly, Leaving, Out
    <2> QED
      BY <2>1, <2>2 DEF RecvWaits
  <1>3. /\ n["server"] \in 1..params.scount /\ Count("server") = params.scount
        /\ params.scount \in Nat /\ DOMAIN n = Peers /\ DOMAIN round = Peers
        /\ round["server"] \in Nat
    BY <1>1, RoundTypes, TypedFunctions
  <1>4. ASSUME n'["server"] = n["server"], round'["server"] = round["server"],
               Len(qp'["server"].rcq) = 0, Len(qp["server"].rcq) = 0
        PROVE  SameCount(round["server"], round'["server"], Got, Got')
    BY <1>4 DEF SameCount, Got
  <1>5. Len(Tail(qp["server"].rcq)) = 0 \/ qp["server"].rcq = << >>
    <2>1. qp["server"].rcq \in Seq(RecvCompletions)
      BY <1>1, QpFields
    <2> QED
      BY <1>2, <2>1
  <1>6. CASE Listen \/ AcceptFails
    <2>1. pc'["server"] \in {"get_request", "done"}
      BY <1>1, <1>6, Moved DEF Listen, AcceptFails
    <2> QED
      BY <2>1
  <1>7. CASE \/ AllocateBuffer("server") \/ SendMrInfo \/ SendMrCount \/ SendMrArray
             \/ RecvPost \/ EndPost("server")
    <2>1. /\ pc["server"] \in {"allocate", "send_mr", "send_mr_count", "send_mr_array",
                               "recv_post", "end_post"}
          /\ n' = n /\ round' = round
      BY <1>7 DEF AllocateBuffer, SendMrInfo, SendMrCount, SendMrArray, RecvPost, EndPost,
         procVars
    <2>2. RecvSame(qp["server"], qp'["server"])
          \/ \E kind, i : qp'["server"] = PostRecv(qp["server"], kind, i)
      <3>1. CASE AllocateBuffer("server") \/ RecvPost \/ EndPost("server")
        BY <1>1, <3>1, Moved DEF AllocateBuffer, RecvPost, EndPost, SendControl,
           RecvControl, RegisterFails, RecvSame
      <3>2. CASE SendMrInfo
        <4>1. \/ qp'["server"] = qp["server"]
              \/ qp'["server"] = PostSend(qp["server"], "send", "count", 0, TRUE)
          BY <1>1, <3>2, Moved DEF SendMrInfo, SendControl, RegisterFails
        <4>2. RecvSame(qp["server"], PostSend(qp["server"], "send", "count", 0, TRUE))
          BY <1>1, SidesKept
        <4> QED
          BY <4>1, <4>2 DEF RecvSame
      <3>3. CASE SendMrCount \/ SendMrArray
        <4>1. \A c \in SendComp("server") : c.q = PollSend(qp["server"])
          BY <1>1, ConnectedPolls
        <4>2. \/ qp'["server"] = PollSend(qp["server"])
              \/ qp'["server"] = PostSend(PollSend(qp["server"]), "send", "array", 0, TRUE)
          BY <1>1, <3>3, <4>1, Moved DEF SendMrCount, SendMrArray
        <4>3. Accounted(PollSend(qp["server"]))
          <5>1. \E c \in SendComp("server") : TRUE
            BY <3>3 DEF SendMrCount, SendMrArray
          <5> QED
            BY <1>1, <4>1, <5>1, CompStates
        <4>4. RecvSame(qp["server"], PollSend(qp["server"]))
          BY <1>1, SidesKept
        <4>5. RecvSame(PollSend(qp["server"]),
                       PostSend(PollSend(qp["server"]), "send", "array", 0, TRUE))
          BY <4>3, SidesKept
        <4> QED
          BY <4>2, <4>4, <4>5 DEF RecvSame
      <3> QED
        BY <1>7, <3>1, <3>2, <3>3
    <2>3. qp'["server"].rcq = qp["server"].rcq
      <3>1. qp["server"] \in QueuePairs
        BY <1>1, QpFields
      <3>2. \A kind, i : PostRecv(qp["server"], kind, i).rcq = qp["server"].rcq
        BY <1>1, <3>1 DEF PostRecv, QueuePairs
      <3> QED
        BY <2>2, <3>2 DEF RecvSame
    <2>4. SameCount(round["server"], round'["server"], Got, Got')
      BY <1>2, <1>4, <2>1, <2>3
    <2> QED
      BY <1>1, <2>1, <2>4
  <1>8. CASE RecvWait
    <2>1. PICK c \in RecvComp("server") :
             /\ SetQp("server", c.q)
             /\ NextRequest("server", c.rv < 0, "recv_post", AfterRound("server"))
      BY <1>8 DEF RecvWait
    <2>2. c.q = PollRecv(qp["server"]) /\ qp["server"].rcq # << >>
      BY <1>1, <2>1, ConnectedPolls
    <2>3. Len(qp'["server"].rcq) = 0 /\ Len(qp["server"].rcq) = 1
      <3>1. qp["server"] \in QueuePairs
        BY <1>1, QpFields
      <3>2. qp'["server"].rcq = Tail(qp["server"].rcq)
        BY <1>1, <2>1, <2>2, <3>1, Moved DEF PollRecv, QueuePairs
      <3> QED
        BY <1>2, <1>5, <2>2, <3>2
    <2>4. Got = n["server"]
      BY <1>3, <2>3 DEF Got
    <2>5. /\ pc["server"] = "recv_wait"
          /\ round'["server"] = round["server"] + (IF n["server"] = Count("server") THEN 1 ELSE 0)
      BY <1>1, <1>3, <1>8 DEF RecvWait
    <2>6. CASE n["server"] < params.scount
      <3>1. n'["server"] = n["server"] + 1
        BY <1>1, <1>3, <2>1, <2>6 DEF NextRequest
      <3>2. Got' = n["server"]
        BY <1>3, <2>3, <3>1 DEF Got
      <3>3. round'["server"] = round["server"]
        BY <1>3, <2>5, <2>6
      <3> QED
        BY <1>1, <2>4, <2>5, <3>2, <3>3 DEF SameCount
    <2>7. CASE ~(n["server"] < params.scount)
      <3>1. n'["server"] = 1 /\ n["server"] = params.scount
        BY <1>1, <1>3, <2>1, <2>7 DEF NextRequest
      <3>2. Got' = 0
        BY <2>3, <3>1 DEF Got
      <3>3. round'["server"] = round["server"] + 1
        BY <1>3, <2>5, <3>1
      <3> QED
        BY <1>1, <2>4, <2>5, <3>1, <3>2, <3>3 DEF TurnsOver
    <2> QED
      BY <2>6, <2>7
  <1>9. CASE \/ EndWait("server") \/ PrintSha1sum("server") \/ DeallocateBuffer("server")
             \/ NullMrCrash("server")
    <2>1. pc'["server"] \in {"sha", "deallocate", "disconnect", "crashed"}
      BY <1>1, <1>9, Moved DEF EndWait, PrintSha1sum, DeallocateBuffer, NullMrCrash, Crash
    <2> QED
      BY <2>1
  <1> QED
    BY <1>1, <1>6, <1>7, <1>8, <1>9 DEF ServerStep, Teardown


\* The NICs, as long as the connection stays: an acknowledgement changes no
\* count, a delivery one of each side.
Acks == /\ \A d \in Peers : /\ Done(qp'[d]) = Done(qp[d])
                            /\ qp'[d].rcq = qp[d].rcq
        /\ mem' = mem /\ rcount' = rcount

LEMMA NicLive ==
    ASSUME Known, NEW e \in Peers, Nic(e) \/ FabricFails(e),
           qp'["client"].state = "rts", qp'["server"].state = "rts"
    PROVE  \/ Acks
           \/ NicExecute("server") /\ MrArrives
           \/ /\ NicExecute("client") /\ qp["server"].state = "rts"
              /\ EndArrives \/ Misplaced \/ DataArrives \/ Moves
  <1>1. /\ IInv /\ "client" \in Peers /\ "server" \in Peers /\ DOMAIN qp = Peers
        /\ \A d \in Peers : qp'[d].state = "rts" /\ Accounted(qp[d])
    BY KnownFacts, TypedFunctions DEF Peers
  <1>2. CASE NicAck(e)
    <2>1. /\ qp[e].sent > 0 /\ qp' = [qp EXCEPT ![e] = Acknowledged(qp[e])]
          /\ mem' = mem /\ rcount' = rcount
      BY <1>2 DEF NicAck, SetQp, memVars
    <2>2. /\ Done(Acknowledged(qp[e])) = Done(qp[e])
          /\ Acknowledged(qp[e]).rcq = qp[e].rcq
      <3>1. Done(Acknowledged(qp[e])) = Done(qp[e])
        BY <1>1, <2>1, DoneKept
      <3>2. RecvSame(qp[e], Acknowledged(qp[e]))
        BY <1>1, SidesKept
      <3> QED
        BY <3>1, <3>2 DEF RecvSame
    <2>3. Acks
      BY <1>1, <2>1, <2>2 DEF Acks
    <2> QED
      BY <2>3
  <1>3. CASE NicTimeout(e) \/ FabricFails(e)
    <2>1. qp'[e] = Flushed(qp[e])
      BY <1>1, <1>3, Moved DEF NicTimeout, FabricFails
    <2>2. Flushed(qp[e]).state = "err"
      BY <1>1, FlushedFields DEF FlushedTo
    <2> QED
      BY <1>1, <2>1, <2>2
  <1>4. CASE NicExecute(e)
    <2>1. ~Breaks(e)
      BY <1>1 DEF Breaks
    <2>2. qp[Peer(e)].state = "rts"
      BY <1>4, <2>1, ExecuteConnected
    <2>3. e = "server" => MrArrives
      BY <1>4, <2>1, ServerExecutes
    <2>4. e = "client" => EndArrives \/ Misplaced \/ DataArrives \/ Moves
      BY <1>4, <2>1, ClientExecutes
    <2> QED
      BY <1>4, <2>2, <2>3, <2>4 DEF Peers, Peer
  <1> QED
    BY <1>2, <1>3, <1>4 DEF Nic

LEMMA DeliveredCounts ==
    ASSUME Known, NEW e \in Peers, Delivered(e)
    PROVE  /\ Done(qp'[e]) = Done(qp[e]) + 1 /\ qp'[e].rcq = qp[e].rcq
           /\ Done(qp'[Peer(e)]) = Done(qp[Peer(e)])
           /\ Len(qp'[Peer(e)].rcq) = Len(qp[Peer(e)].rcq) + 1
           /\ Len(qp[Peer(e)].rcq) = 0
  <1>1. Peer(e) \in Peers /\ Accounted(qp[e]) /\ Accounted(qp[Peer(e)])
    BY KnownFacts DEF Peer, Peers
  <1> DEFINE q == qp[Peer(e)]
             r == Received(q, Message(e))
  <1>2. /\ q.rcq \in Seq(RecvCompletions) /\ q \in QueuePairs
    BY <1>1, QpFields
  <1>3. SendSame(q, r) /\ r.sent = q.sent
    BY <1>1, SidesKept
  <1>4. Done(r) = Done(q)
    BY <1>1, <1>3, DoneKept
  <1>5. r.rcq = Append(q.rcq, [ok |-> TRUE, buf |-> Head(q.rq), msg |-> Message(e)])
    BY <1>2 DEF Received, QueuePairs
  <1>6. Len(r.rcq) = Len(q.rcq) + 1
    BY <1>2, <1>5
  <1>7. Len(q.rcq) = 0
    BY <1>1, OneReceived DEF Delivered
  <1>8. /\ Done(Executed(qp[e])) = Done(qp[e]) + 1
        /\ RecvSame(qp[e], Executed(qp[e]))
    BY <1>1, DoneKept, SidesKept
  <1> QED
    BY <1>4, <1>6, <1>7, <1>8 DEF Delivered, RecvSame

LEMMA SentShift ==
    ASSUME Known, pc' = pc, n' = n, params' = params
    PROVE  /\ Done(qp'["client"]) = Done(qp["client"]) => Sent' = Sent
           /\ Done(qp'["client"]) = Done(qp["client"]) + 1 /\ pc["client"] # "report"
              => Sent' = Sent + 1
           /\ Len(qp'["server"].rcq) = Len(qp["server"].rcq) => Got' = Got
           /\ Len(qp'["server"].rcq) = Len(qp["server"].rcq) + 1 => Got' = Got + 1
           /\ Sent \in Int /\ Got \in Int
  <1>1. /\ n["client"] \in Nat /\ n["server"] \in Nat /\ Len(qp["server"].rcq) \in Nat
        /\ Done(qp["client"]) \in Int /\ params.count \in Nat
    <2>1. Accounted(qp["client"]) /\ Accounted(qp["server"]) /\ IInv
      BY KnownFacts
    <2>2. qp["server"].rcq \in Seq(RecvCompletions)
      BY <2>1, QpFields
    <2>3. n["client"] \in Nat /\ n["server"] \in Nat
      BY <2>1 DEF IInv, Rest, ProcTypeOK, Peers
    <2> QED
      BY <2>1, <2>2, <2>3, DoneKept, RoundTypes
  <1>2. Base' = Base /\ Base \in Int
    BY <1>1 DEF Base
  <1>3. /\ Done(qp'["client"]) = Done(qp["client"]) => Sent' = Sent
    BY <1>2 DEF Sent
  <1>4. Done(qp'["client"]) = Done(qp["client"]) + 1 /\ pc["client"] # "report"
              => Sent' = Sent + 1
    <2>1. CASE pc["client"] \in {"post", "wait"}
      <3>1. Sent = Base + Done(qp["client"]) /\ Sent' = Base' + Done(qp'["client"])
        BY <2>1 DEF Sent
      <3> QED
        BY <1>1, <1>2, <3>1
    <2>2. CASE pc["client"] \notin {"post", "wait"} /\ pc["client"] # "report"
      BY <2>2 DEF Sent
    <2> QED
      BY <2>1, <2>2
  <1>5. /\ Len(qp'["server"].rcq) = Len(qp["server"].rcq) => Got' = Got
        /\ Len(qp'["server"].rcq) = Len(qp["server"].rcq) + 1 => Got' = Got + 1
        /\ Got \in Int
    <2> DEFINE k == Len(qp["server"].rcq)
               kk == Len(qp'["server"].rcq)
    <2>1. /\ Got = n["server"] - 1 + k /\ Got' = n["server"] - 1 + kk
          /\ k \in Nat
      BY <1>1 DEF Got
    <2> HIDE DEF k, kk
    <2>2. (kk = k => Got' = Got) /\ (kk = k + 1 => Got' = Got + 1) /\ Got \in Int
      BY <1>1, <2>1, SMTT(30)
    <2> QED
      BY <2>2 DEF k, kk
  <1>6. Sent \in Int
    BY <1>1, <1>2 DEF Sent
  <1> QED
    BY <1>3, <1>4, <1>5, <1>6


-----------------------------------------------------------------------------
(* Sender and receiver are in step.                                         *)

LEMMA StepNumbers ==
    ASSUME Known
    PROVE  /\ Sent \in Int /\ Got \in Int /\ params.count \in Nat /\ params.count > 0
           /\ params.repeat \in Nat /\ round["client"] \in Nat /\ round["server"] \in Nat
           /\ n["server"] \in 1..params.scount /\ params.scount \in Nat
  <1>1. /\ n["client"] \in Nat /\ Len(qp["server"].rcq) \in Nat
        /\ Done(qp["client"]) \in Int /\ params.count \in Nat
        /\ n["server"] \in 1..params.scount /\ params.scount \in Nat
        /\ params.count > 0
        /\ params.repeat \in Nat /\ round["client"] \in Nat /\ round["server"] \in Nat
    <2>1. Accounted(qp["client"]) /\ Accounted(qp["server"]) /\ IInv
      BY KnownFacts
    <2>2. qp["server"].rcq \in Seq(RecvCompletions)
      BY <2>1, QpFields
    <2>3. n["client"] \in Nat
      BY <2>1 DEF IInv, Rest, ProcTypeOK, Peers
    <2>4. Done(qp["client"]) \in Int
      BY <2>1, DoneKept
    <2>5. /\ params.count \in Nat /\ n["server"] \in 1..params.scount
          /\ params.scount \in Nat /\ params.count > 0
          /\ params.repeat \in Nat /\ round["client"] \in Nat /\ round["server"] \in Nat
      BY <2>1, RoundTypes, KnownFacts
    <2> QED
      BY <2>2, <2>3, <2>4, <2>5
  <1>2. Sent \in Int
    BY <1>1 DEF Sent, Base
  <1>3. Got \in Int
    BY <1>1 DEF Got
  <1> QED
    BY <1>1, <1>2, <1>3

LEMMA EndFront ==
    ASSUME Known, NicExecute("client"), pc["client"] = "end_wait"
    PROVE  Sent = 0 /\ qp["client"].sent = 0 /\ Len(qp["client"].sq) = 1
  <1> DEFINE q == qp["client"]
  <1>1. /\ Accounted(q) /\ q.state = "rts" /\ q.sent < Len(q.sq)
    BY KnownFacts, FrontFacts
  <1>2. Unretired(q) = 1
    BY <1>1 DEF Known, ControlInv, ControlWaits, SendWaits, Peers
  <1>3. /\ q.posted \in Nat /\ q.retired \in Nat /\ q.sent \in Nat /\ Len(q.sq) \in Nat
        /\ q.retired <= q.posted - Len(q.sq)
    BY <1>1, QpFields
  <1>4. q.sent = 0 /\ Len(q.sq) = 1
    <2> DEFINE l == Len(q.sq)
    <2>1. /\ q.posted \in Nat /\ q.retired \in Nat /\ q.sent \in Nat /\ l \in Nat
          /\ q.retired <= q.posted - l /\ q.sent < l /\ q.posted - q.retired = 1
      BY <1>1, <1>2, <1>3 DEF Unretired
    <2> HIDE DEF l, q
    <2>2. q.sent = 0 /\ l = 1
      BY <2>1
    <2> QED
      BY <2>2 DEF l
  <1>5. Done(q) = 0
    BY <1>2, <1>4 DEF Done
  <1> QED
    BY <1>4, <1>5 DEF Sent

\* A message meets the receive it is meant for.
LEMMA InPlace ==
    ASSUME Known, Live, StepInv, NicExecute("client"), Delivered("client"),
           params.verb = "send"
    PROVE  /\ ~Misplaced
           /\ DataArrives => /\ n["server"] = Sent + 1 /\ Got = Sent
                             /\ round["server"] = round["client"]
                             /\ Front("client").n = Sent + 1
                             /\ Sent + 1 \in 1..params.count
           /\ EndArrives => /\ Got = Sent /\ round["server"] = round["client"]
  <1>1. /\ Sent \in Int /\ Got \in Int /\ params.count \in Nat /\ params.count > 0
        /\ params.repeat \in Nat /\ round["client"] \in Nat /\ round["server"] \in Nat
        /\ n["server"] \in 1..params.scount /\ params.scount = params.count
    BY StepNumbers DEF Live, Promised, Regular
  <1>2. Got = n["server"] - 1
    BY <1>1, DeliveredCounts DEF Got, Peers, Peer
  <1>3. pc["client"] \in {"post", "wait"} /\ Front("client").kind = "data"
        => Sent + 1 \in 1..params.count /\ Front("client").n = Sent + 1
    BY FrontNumber
  <1>4. pc["client"] = "end_wait" => Sent = 0
    BY EndFront
  <1>5. RoundInv
    BY KnownFacts
  <1>6. /\ pc["client"] \in {"post", "wait"} => round["client"] \in 1..params.repeat
        /\ pc["client"] = "end_wait" => round["client"] = params.repeat + 1
        /\ pc["server"] = "recv_wait" => round["server"] \in 1..params.repeat
        /\ pc["server"] = "end_wait" => /\ round["server"] = params.repeat + 1
                                        /\ n["server"] = 1
    BY <1>5 DEF RoundInv, ClientRounds, ServerRounds, EndLabels
  <1>7. ASSUME pc["client"] \in {"post", "wait", "end_wait"},
               pc["server"] \in {"recv_wait", "end_wait"}
        PROVE  InStep(round["client"], Sent, round["server"], Got)
    BY <1>7 DEF StepInv, ClientActive, ServerActive, ClientRounds, ServerRounds, EndLabels
  <1>8. ~Misplaced
    <2>1. ASSUME pc["client"] = "end_wait", pc["server"] = "recv_wait" PROVE FALSE
      <3>1. /\ Sent = 0 /\ round["client"] = params.repeat + 1
            /\ round["server"] \in 1..params.repeat
            /\ InStep(round["client"], Sent, round["server"], Got)
        BY <1>4, <1>6, <1>7, <2>1
      <3> QED
        BY <1>1, <1>2, <3>1 DEF InStep
    <2>2. ASSUME pc["client"] \in {"post", "wait"}, pc["server"] = "end_wait",
                 Front("client").kind = "data"
          PROVE  FALSE
      <3>1. /\ Sent + 1 \in 1..params.count /\ round["client"] \in 1..params.repeat
            /\ round["server"] = params.repeat + 1
            /\ InStep(round["client"], Sent, round["server"], Got)
        BY <1>3, <1>6, <1>7, <2>2
      <3> QED
        BY <1>1, <1>2, <3>1 DEF InStep
    <2> QED
      BY <2>1, <2>2 DEF Misplaced
  <1>9. ASSUME DataArrives
        PROVE  /\ n["server"] = Sent + 1 /\ Got = Sent
               /\ round["server"] = round["client"]
               /\ Front("client").n = Sent + 1
               /\ Sent + 1 \in 1..params.count
    <2>1. /\ Sent + 1 \in 1..params.count /\ Front("client").n = Sent + 1
          /\ InStep(round["client"], Sent, round["server"], Got)
      BY <1>3, <1>7, <1>9 DEF DataArrives
    <2>2. Got = Sent /\ round["server"] = round["client"]
      BY <1>1, <1>2, <2>1 DEF InStep
    <2> QED
      BY <1>1, <1>2, <2>1, <2>2
  <1>10. ASSUME EndArrives
         PROVE  Got = Sent /\ round["server"] = round["client"]
    BY <1>1, <1>2, <1>4, <1>6, <1>10 DEF EndArrives
  <1> QED
    BY <1>8, <1>9, <1>10

LEMMA AcceptBegins ==
    ASSUME Known, Known', Accept
    PROVE  /\ Sent' = 0 /\ Got' = 0 /\ params' = params
           /\ round'["client"] = 1 /\ round'["server"] = 1
           /\ pc'["client"] = "allocate" /\ pc'["server"] = "allocate"
           /\ qp'["client"].state = "rts"
           /\ mem' = mem /\ bufs' = bufs /\ rcount' = rcount
  <1>1. /\ pc'["client"] = "allocate" /\ pc'["server"] = "allocate"
        /\ qp'["client"] = NewQp("rts") /\ qp'["server"] = NewQp("rts")
        /\ params' = params /\ mem' = mem /\ bufs' = bufs /\ rcount' = rcount
    BY DEF Accept, Peers, procVars, memVars
  <1>2. qp'["client"].state = "rts" /\ qp'["server"].rcq = << >>
    BY <1>1 DEF NewQp
  <1>3. Begins'
    BY <1>1 DEF Begins, Fresh
  <1>4. (Sent = 0)'
    <2>1. (qp["client"].state = "rts")'
      BY <1>2
    <2> QED
      BY <1>3, <2>1, SentZero, PTL
  <1>5. RoundInv'
    BY DEF Known
  <1>6. n'["server"] = 1 /\ round'["client"] = 1 /\ round'["server"] = 1
    BY <1>1, <1>5 DEF RoundInv, ServerRounds
  <1>7. Got' = 0
    BY <1>2, <1>6 DEF Got
  <1> QED
    BY <1>1, <1>2, <1>4, <1>6, <1>7

LEMMA NextStep == Known /\ Known' /\ StepInv /\ [Next]_vars => StepInv'
  <1> SUFFICES ASSUME Known, Known', StepInv, [Next]_vars, Live', params'.verb = "send",
                      pc'["client"] \in ClientActive, pc'["server"] \in ServerActive
               PROVE  InStep(round["client"], Sent, round["server"], Got)'
    BY DEF StepInv, ClientActive, ServerActive, GetMr, SendMr, ClientRounds, ServerRounds,
       EndLabels
  <1>1. /\ IInv /\ "client" \in Peers /\ "server" \in Peers
        /\ qp'["client"].state = "rts" /\ qp'["server"].state = "rts"
    BY KnownFacts DEF Live
  <1>2. /\ Sent \in Int /\ Got \in Int /\ params.count \in Nat /\ params.count > 0
        /\ round["client"] \in Nat /\ round["server"] \in Nat
    BY StepNumbers
  <1>3. CASE Accept
    BY <1>3, AcceptBegins DEF InStep
  <1>4. CASE ~Accept
    <2>1. Live
      BY <1>4, LiveBefore
    <2>2. params.count = params.scount
      BY <2>1 DEF Live, Promised, Regular
    <2>3. CASE ClientStep
      <3>1. /\ params' = params /\ pc'["server"] = pc["server"]
            /\ round'["server"] = round["server"] /\ Got' = Got
        BY <1>1, <2>3, ClientFrame DEF Kept, Got
      <3>2. /\ pc["client"] \in ClientActive
            /\ \/ SameCount(round["client"], round'["client"], Sent, Sent')
               \/ TurnsOver(round["client"], round'["client"], Sent, Sent', params.count)
        BY <1>1, <2>3, ClientCounts
      <3>3. InStep(round["client"], Sent, round["server"], Got)
        BY <2>1, <3>1, <3>2 DEF StepInv
      <3>4. CASE SameCount(round["client"], round'["client"], Sent, Sent')
        BY <3>1, <3>3, <3>4 DEF InStep, SameCount
      <3>5. CASE TurnsOver(round["client"], round'["client"], Sent, Sent', params.count)
        BY <1>2, <3>1, <3>3, <3>5 DEF InStep, TurnsOver
      <3> QED
        BY <3>2, <3>4, <3>5
    <2>4. CASE ServerStep
      <3>1. /\ params' = params /\ pc'["client"] = pc["client"]
            /\ round'["client"] = round["client"] /\ Sent' = Sent
        BY <1>1, <1>4, <2>4, ServerFrame DEF Kept, Sent, Base
      <3>2. /\ pc["server"] \in ServerActive
            /\ \/ SameCount(round["server"], round'["server"], Got, Got')
               \/ TurnsOver(round["server"], round'["server"], Got, Got', params.count)
        BY <1>1, <1>4, <2>2, <2>4, ServerCounts
      <3>3. InStep(round["client"], Sent, round["server"], Got)
        BY <2>1, <3>1, <3>2 DEF StepInv
      <3>4. CASE SameCount(round["server"], round'["server"], Got, Got')
        BY <3>1, <3>3, <3>4 DEF InStep, SameCount
      <3>5. CASE TurnsOver(round["server"], round'["server"], Got, Got', params.count)
        BY <1>2, <3>1, <3>3, <3>5 DEF InStep, TurnsOver
      <3> QED
        BY <3>2, <3>4, <3>5
    <2>5. CASE \E e \in Peers : Nic(e) \/ FabricFails(e)
      <3>1. PICK e \in Peers : Nic(e) \/ FabricFails(e)
        BY <2>5
      <3>2. pc' = pc /\ n' = n /\ params' = params /\ round' = round
        BY <1>1, <3>1, NicMoves DEF procVars
      <3>3. InStep(round["client"], Sent, round["server"], Got)
        BY <2>1, <3>2 DEF StepInv
      <3>4. CASE Acks
        <4>1. Sent' = Sent /\ Got' = Got
          BY <1>1, <3>2, <3>4, SentShift DEF Acks
        <4> QED
          BY <3>2, <3>3, <4>1 DEF InStep
      <3>5. CASE NicExecute("client") /\ Delivered("client")
        <4>1. ~Misplaced /\ (DataArrives \/ EndArrives => Got = Sent
                                             /\ round["server"] = round["client"])
          BY <2>1, <3>2, <3>5, InPlace
        <4>2. DataArrives \/ EndArrives \/ Moves
          BY <1>1, <3>5, <4>1, ClientExecutes DEF Breaks
        <4>3. DataArrives \/ EndArrives
          BY <3>2, <4>2 DEF Moves
        <4>4. /\ Done(qp'["client"]) = Done(qp["client"]) + 1
              /\ Len(qp'["server"].rcq) = Len(qp["server"].rcq) + 1
          BY <1>1, <3>5, DeliveredCounts DEF Peer
        <4>5. Sent' = Sent + 1 /\ Got' = Got + 1
          BY <3>2, <4>3, <4>4, SentShift DEF DataArrives, EndArrives
        <4> QED
          BY <3>2, <4>1, <4>3, <4>5 DEF InStep
      <3> QED
        <4>1. MrArrives => FALSE
          BY <3>2 DEF MrArrives
        <4>2. Moves => FALSE
          BY <3>2 DEF Moves
        <4>3. EndArrives \/ Misplaced \/ DataArrives => Delivered("client")
          BY DEF EndArrives, Misplaced, DataArrives
        <4> QED
          BY <1>1, <3>1, <3>4, <3>5, <4>1, <4>2, <4>3, NicLive
    <2>6. CASE UNCHANGED vars
      <3>1. /\ pc' = pc /\ n' = n /\ params' = params /\ round' = round
            /\ Done(qp'["client"]) = Done(qp["client"]) /\ qp' = qp
        BY <2>6 DEF vars
      <3>2. Sent' = Sent /\ Got' = Got
        BY <3>1, SentShift
      <3> QED
        BY <2>1, <3>1, <3>2 DEF StepInv, InStep
    <2> QED
      BY <2>3, <2>4, <2>5, <2>6 DEF Next, Step, Stopped
  <1> QED
    BY <1>3, <1>4


-----------------------------------------------------------------------------
(* The memory-region exchange.                                              *)

AddressesKnown == \A i \in Indices("client") : remote[i] = Addr(i)

LEMMA ClientExchange ==
    ASSUME Known, Known', Live, ExchangeInv, ClientStep, params.verb # "send",
           qp'["client"].state = "rts", pc'["client"] \in ClientActive
    PROVE  /\ MrGot' = MrGot /\ pc["client"] \in ClientActive
           /\ MrGot' = 2 /\ pc'["client"] \notin GetMr => AddressesKnown'
  <1> USE DEF ClientActive, GetMr, ClientRounds, EndLabels
  <1>1. /\ IInv /\ "client" \in Peers /\ params' = params /\ QueueInv /\ Polls
        /\ qp["client"].state = "rts" /\ ~Crash("client") /\ ~Disconnect("client")
        /\ Accounted(qp["client"]) /\ pc["client"] \in ClientActive
        /\ rcount' = rcount /\ Indices("client")' = Indices("client")
        /\ "client" \in Peers
    BY KnownFacts, StillConnected, ClientFrame, ClientCounts DEF Indices, Count
  <1>2. /\ MrGot > 0 => rcount = params.scount
        /\ MrGot = 2 /\ pc["client"] \notin GetMr => AddressesKnown
        /\ params.scount = params.count
    BY <1>1 DEF ExchangeInv, Live, Promised, Regular, AddressesKnown
  <1>3. /\ qp["client"].rcq # << >> => Len(qp["client"].rcq) = 1
        /\ pc["client"] \in {"allocate", "get_mr"} => Len(qp["client"].rcq) = 0
        /\ Len(Tail(qp["client"].rcq)) = 0 \/ qp["client"].rcq = << >>
        /\ qp["client"] \in QueuePairs
    <2>1. qp["client"].rcq \in Seq(RecvCompletions) /\ qp["client"] \in QueuePairs
      BY <1>1, QpFields
    <2>2. /\ pc["client"] \notin RecvWaits("client") => Len(qp["client"].rcq) = 0
          /\ qp["client"].rcq # << >> => Len(qp["client"].rcq) = 1
      BY <1>1, OneReceived
    <2> QED
      BY <2>1, <2>2 DEF RecvWaits
  <1>4. \A q, kind : q.state = "rts" /\ q \in QueuePairs => PostRecv(q, kind, 0).rcq = q.rcq
    BY DEF PostRecv, QueuePairs
  <1>5. \A c \in RecvComp("client") : c.rv = 1 /\ c.q = PollRecv(qp["client"])
                                      /\ qp["client"].rcq # << >>
    BY <1>1, ConnectedPolls
  <1>6. qp["client"].rcq # << >> => /\ Len(PollRecv(qp["client"]).rcq) = 0
                                    /\ PollRecv(qp["client"]).state = "rts"
                                    /\ PollRecv(qp["client"]) \in QueuePairs
    <2>1. PollRecv(qp["client"]).rcq = Tail(qp["client"].rcq)
      BY <1>3 DEF PollRecv, QueuePairs
    <2>2. PollRecv(qp["client"]).state = "rts"
      BY <1>1, <1>3 DEF PollRecv, QueuePairs
    <2>3. ASSUME qp["client"].rcq # << >> PROVE PollRecv(qp["client"]) \in QueuePairs
      BY <1>1, <2>3, PollRecvAccounted, QpFields
    <2> QED
      BY <1>3, <2>1, <2>2, <2>3
  <1>7. CASE AllocateBuffer("client") \/ GetMrInfo
    <2>1. /\ pc["client"] \in {"allocate", "get_mr"}
          /\ \/ pc'["client"] = "get_mr"
             \/ /\ pc'["client"] = "get_mr_count"
                /\ qp'["client"] = PostRecv(qp["client"], "count", 0)
      BY <1>1, <1>7, Moved DEF AllocateBuffer, GetMrInfo, AfterAllocate, RecvControl,
         RegisterFails
    <2>2. Len(qp'["client"].rcq) = 0 \/ pc'["client"] = "get_mr"
      BY <1>1, <1>3, <1>4, <2>1
    <2>3. MrGot = 0 /\ MrGot' = 0
      BY <2>1, <2>2 DEF MrGot
    <2> QED
      BY <1>1, <2>3
  <1>8. CASE GetMrCount
    <2>1. pc["client"] = "get_mr_count" /\ qp["client"].rcq # << >>
      BY <1>5, <1>8 DEF GetMrCount
    <2>2. MrGot = 1
      BY <1>3, <2>1 DEF MrGot
    <2>3. rcount = params.count
      BY <1>2, <2>2
    <2>4. /\ pc'["client"] = "get_mr_array"
          /\ qp'["client"] = PostRecv(PollRecv(qp["client"]), "array", 0)
      BY <1>1, <1>5, <1>8, <2>3, Moved DEF GetMrCount
    <2>5. Len(qp'["client"].rcq) = 0
      BY <1>4, <1>6, <2>1, <2>4
    <2>6. MrGot' = 1
      BY <2>4, <2>5 DEF MrGot
    <2> QED
      BY <1>1, <2>2, <2>6
  <1>9. CASE GetMrArray
    <2>1. /\ pc["client"] = "get_mr_array" /\ qp["client"].rcq # << >>
          /\ pc'["client"] = "post"
          /\ remote' = [i \in Indices("client") |-> ntohll(MrInfo(i))]
      BY <1>1, <1>5, <1>9, Moved DEF GetMrArray, RoundStart
    <2>2. MrGot = 2 /\ MrGot' = 2
      <3>1. Len(qp["client"].rcq) = 1
        BY <1>3, <2>1
      <3>2. MrGot = 1 + 1
        BY <2>1, <3>1 DEF MrGot
      <3>3. MrGot' = 2
        BY <2>1 DEF MrGot
      <3> QED
        BY <3>2, <3>3
    <2>3. \A i : ntohll(MrInfo(i)) = Addr(i)
      BY DEF ntohll, MrInfo, htonll, Addr
    <2>4. AddressesKnown'
      BY <1>1, <2>1, <2>3 DEF AddressesKnown, Addr
    <2> QED
      BY <1>1, <2>2, <2>4
  <1>10. CASE PostRequest \/ WaitRequest \/ Report \/ EndPost("client")
    <2>1. /\ pc["client"] \in {"post", "wait", "report", "end_post"} /\ remote' = remote
          /\ pc'["client"] \in {"post", "wait", "report", "end_post", "end_wait",
                                "deallocate"}
      BY <1>1, <1>10, Moved DEF PostRequest, WaitRequest, Report, NextRequest, AfterRound,
         RoundStart, memVars, EndPost, SendControl, RecvControl, RegisterFails
    <2>2. MrGot = 2 /\ MrGot' = 2
      BY <2>1 DEF MrGot
    <2>3. AddressesKnown'
      BY <1>1, <1>2, <2>1, <2>2 DEF AddressesKnown, Addr
    <2> QED
      BY <1>1, <2>2, <2>3
  <1>11. CASE \/ ClientCreateEp \/ SetTos \/ RdmaConnect
              \/ EndWait("client") \/ PrintSha1sum("client") \/ DeallocateBuffer("client")
              \/ NullMrCrash("client")
    <2>1. pc'["client"] \notin ClientActive
      BY <1>1, <1>11, Moved DEF EndWait, PrintSha1sum, DeallocateBuffer, NullMrCrash, Crash,
         ClientCreateEp, SetTos, RdmaConnect, ConnectFails
    <2> QED
      BY <2>1
  <1> QED
    BY <1>1, <1>7, <1>8, <1>9, <1>10, <1>11 DEF ClientStep, Teardown

LEMMA ServerExchange ==
    ASSUME Known, Known', ServerStep, ~Accept, params.verb # "send",
           qp'["server"].state = "rts", pc'["server"] \in ServerActive
    PROVE  MrSent' = MrSent /\ pc["server"] \in ServerActive
  <1> USE DEF ServerActive, SendMr, ServerRounds, EndLabels
  <1>1. /\ IInv /\ IInv' /\ "server" \in Peers /\ params' = params /\ QueueInv /\ Polls
        /\ qp["server"].state = "rts" /\ ~Crash("server") /\ ~Disconnect("server")
        /\ Accounted(qp["server"]) /\ pc["server"] \in ServerActive
        /\ FailuresLast(qp["server"])
        /\ At("server", pc["server"], qp["server"], n["server"])
    BY KnownFacts, StillConnected, ServerFrame, ServerCounts DEF Known
  <1>2. pc["server"] \in {"send_mr_count", "send_mr_array"} => Unretired(qp["server"]) = 1
    BY <1>1 DEF Known, ControlInv, ControlWaits, SendWaits
  <1>3. CASE pc'["server"] \in {"send_mr_count", "send_mr_array"}
    <2>1. /\ \/ pc["server"] = "send_mr" /\ pc'["server"] = "send_mr_count"
             \/ /\ pc["server"] = "send_mr_count" /\ pc'["server"] = "send_mr_array"
                /\ Done(qp["server"]) = Unretired(qp["server"])
          /\ Done(qp'["server"]) = 0
      BY <1>1, <1>3, ServerControl
    <2> QED
      BY <1>1, <1>2, <2>1 DEF MrSent
  <1>4. CASE pc'["server"] \notin {"send_mr_count", "send_mr_array"}
    <2>1. CASE AllocateBuffer("server")
      <3>1. pc["server"] = "allocate" /\ pc'["server"] = "send_mr"
        BY <1>1, <2>1, Moved DEF AllocateBuffer, AfterAllocate
      <3> QED
        BY <1>1, <3>1 DEF MrSent
    <2>2. CASE SendMrInfo \/ SendMrCount
      <3>1. pc'["server"] \in {"send_mr_count", "send_mr_array", "deallocate"}
        BY <1>1, <2>2, Moved DEF SendMrInfo, SendMrCount, SendControl, RegisterFails
      <3> QED
        BY <1>4, <3>1
    <2>3. CASE SendMrArray
      <3>1. /\ pc["server"] = "send_mr_array" /\ qp["server"].scq # << >>
            /\ pc'["server"] \in {"end_post", "deallocate"}
        <4>1. \A c \in SendComp("server") : qp["server"].scq # << >>
          BY <1>1, ConnectedPolls
        <4> QED
          BY <1>1, <2>3, <4>1, Moved DEF SendMrArray, RoundStart
      <3>2. Awaiting(qp["server"], "array")
        BY <1>1, <3>1 DEF At, SendAt
      <3>3. Done(qp["server"]) = Unretired(qp["server"])
        BY <1>1, <3>1, <3>2, PolledDone
      <3>4. MrSent = 2 /\ MrSent' = 2
        BY <1>2, <3>1, <3>3 DEF MrSent
      <3> QED
        BY <1>1, <3>4
    <2>4. CASE EndPost("server")
      <3>1. pc["server"] = "end_post" /\ pc'["server"] \in {"end_wait", "deallocate"}
        BY <1>1, <2>4, Moved DEF EndPost, SendControl, RecvControl, RegisterFails
      <3> QED
        BY <1>1, <3>1 DEF MrSent
    <2>5. CASE RecvPost \/ RecvWait
      <3>1. pc["server"] \in ServerRounds
        BY <2>5 DEF RecvPost, RecvWait
      <3> QED
        BY <3>1, KnownFacts DEF ServerAt
    <2>6. CASE \/ Listen \/ AcceptFails
               \/ EndWait("server") \/ PrintSha1sum("server") \/ DeallocateBuffer("server")
               \/ NullMrCrash("server")
      <3>1. pc'["server"] \notin ServerActive
        BY <1>1, <2>6, Moved DEF EndWait, PrintSha1sum, DeallocateBuffer, NullMrCrash,
           Crash, Listen, AcceptFails
      <3> QED
        BY <3>1
    <2> QED
      BY <1>1, <2>1, <2>2, <2>3, <2>4, <2>5, <2>6 DEF ServerStep, Teardown
  <1> QED
    BY <1>3, <1>4


LEMMA MrFront ==
    ASSUME Known, NicExecute("server")
    PROVE  Done(qp["server"]) = 0
  <1> DEFINE q == qp["server"]
  <1>1. /\ Accounted(q) /\ q.state = "rts" /\ q.sent < Len(q.sq)
        /\ q.sent + 1 \in 1..Len(q.sq)
    BY KnownFacts, FrontFacts
  <1>2. Unretired(q) = 1
    <2>1. pc["server"] \in {"send_mr_count", "send_mr_array"}
      BY <1>1, Outstanding
    <2> QED
      BY <1>1, <2>1 DEF Known, ControlInv, ControlWaits, SendWaits, Peers
  <1>3. /\ q.posted \in Nat /\ q.retired \in Nat /\ q.sent \in Nat /\ Len(q.sq) \in Nat
        /\ q.retired <= q.posted - Len(q.sq)
    BY <1>1, QpFields
  <1>4. q.sent = 0 /\ Len(q.sq) = 1
    <2> DEFINE l == Len(q.sq)
    <2>1. /\ q.posted \in Nat /\ q.retired \in Nat /\ q.sent \in Nat /\ l \in Nat
          /\ q.retired <= q.posted - l /\ q.sent < l /\ q.posted - q.retired = 1
      BY <1>1, <1>2, <1>3 DEF Unretired
    <2> HIDE DEF l, q
    <2>2. q.sent = 0 /\ l = 1
      BY <2>1
    <2> QED
      BY <2>2 DEF l
  <1> QED
    BY <1>2, <1>4 DEF Done

\* A message of the exchange is the one the client waits for.
LEMMA MrInPlace ==
    ASSUME Known, Live, ExchangeInv, NicExecute("server"), MrArrives
    PROVE  /\ pc["client"] \in {"get_mr_count", "get_mr_array"}
           /\ pc["client"] = "get_mr_count" <=> pc["server"] = "send_mr_count"
           /\ Len(qp["client"].rcq) = 0
           /\ Head(qp["client"].rq) = Message("server")
           /\ pc["client"] = "get_mr_array" => rcount = params.scount
  <1>1. /\ qp["client"].rq # << >> /\ Len(qp["client"].rcq) = 0
        /\ "client" \in Peers /\ "server" \in Peers
    BY DeliveredCounts DEF MrArrives, Delivered, Peer, Peers
  <1>2. /\ \/ /\ pc["client"] = "get_mr_count"
              /\ qp["client"].rq = <<Control("count")>>
           \/ /\ pc["client"] = "get_mr_array"
              /\ qp["client"].rq = <<Control("array")>>
    BY <1>1, Outstanding
  <1>3. /\ \/ /\ pc["server"] = "send_mr_count"
              /\ Message("server") = Control("count")
           \/ /\ pc["server"] = "send_mr_array"
              /\ Message("server") = Control("array")
        /\ params.verb # "send"
    BY DEF MrArrives
  <1>4. /\ MrGot = MrSent
        /\ MrGot > 0 => rcount = params.scount
    BY <1>2, <1>3 DEF ExchangeInv, ClientActive, GetMr, ServerActive, SendMr
  <1>5. Done(qp["server"]) = 0
    BY MrFront
  <1>6. /\ pc["client"] = "get_mr_count" => MrGot = 0
        /\ pc["client"] = "get_mr_array" => MrGot = 1
        /\ pc["server"] = "send_mr_count" => MrSent = 0
        /\ pc["server"] = "send_mr_array" => MrSent = 1
    BY <1>1, <1>5 DEF MrGot, MrSent
  <1>7. pc["client"] = "get_mr_count" <=> pc["server"] = "send_mr_count"
    BY <1>2, <1>3, <1>4, <1>6
  <1> QED
    BY <1>1, <1>2, <1>3, <1>4, <1>6, <1>7, UnitSeq

LEMMA NextExchange == Known /\ Known' /\ ExchangeInv /\ [Next]_vars => ExchangeInv'
  <1> SUFFICES ASSUME Known, Known', ExchangeInv, [Next]_vars, Live',
                      params'.verb # "send", (pc["client"] \in ClientActive)'
               PROVE  /\ (pc["server"] \in ServerActive)' => (MrGot = MrSent)'
                      /\ MrGot' > 0 => rcount' = params'.scount
                      /\ MrGot' = 2 /\ (pc["client"] \notin GetMr)' => AddressesKnown'
    BY DEF ExchangeInv, AddressesKnown
  <1>1. /\ IInv /\ "client" \in Peers /\ "server" \in Peers
        /\ qp'["client"].state = "rts" /\ qp'["server"].state = "rts"
        /\ pc'["client"] \in ClientActive
        /\ (pc["server"] \in ServerActive)' <=> pc'["server"] \in ServerActive
        /\ (pc["client"] \notin GetMr)' <=> pc'["client"] \notin GetMr
    BY KnownFacts DEF Live, ClientActive, GetMr, ClientRounds, EndLabels, ServerActive,
       SendMr, ServerRounds
  <1>2. CASE Accept
    BY <1>2, AcceptBegins DEF MrGot, MrSent
  <1>3. CASE ~Accept
    <2>1. Live
      BY <1>3, LiveBefore
    <2>2. ASSUME params' = params, pc["client"] \in ClientActive
          PROVE  /\ pc["server"] \in ServerActive => MrGot = MrSent
                 /\ MrGot > 0 => rcount = params.scount
                 /\ MrGot = 2 /\ pc["client"] \notin GetMr => AddressesKnown
      BY <2>1, <2>2 DEF ExchangeInv, AddressesKnown
    <2>3. CASE ClientStep
      <3>1. /\ params' = params /\ pc'["server"] = pc["server"] /\ rcount' = rcount
            /\ MrSent' = MrSent
        BY <1>1, <2>3, ClientFrame DEF Kept, MrSent
      <3>2. /\ MrGot' = MrGot /\ pc["client"] \in ClientActive
            /\ MrGot' = 2 /\ pc'["client"] \notin GetMr => AddressesKnown'
        BY <1>1, <2>1, <2>3, <3>1, ClientExchange
      <3> QED
        BY <1>1, <2>2, <3>1, <3>2
    <2>4. CASE ServerStep
      <3>1. /\ params' = params /\ pc'["client"] = pc["client"] /\ rcount' = rcount
            /\ MrGot' = MrGot /\ remote' = remote
        BY <1>1, <1>3, <2>4, ServerFrame DEF Kept, MrGot
      <3>2. pc'["server"] \in ServerActive => MrSent' = MrSent /\ pc["server"] \in ServerActive
        BY <1>1, <1>3, <2>4, <3>1, ServerExchange
      <3>3. AddressesKnown' <=> AddressesKnown
        BY <3>1 DEF AddressesKnown, Addr, Indices, Count
      <3> QED
        BY <1>1, <2>2, <3>1, <3>2, <3>3
    <2>5. CASE \E e \in Peers : Nic(e) \/ FabricFails(e)
      <3>1. PICK e \in Peers : Nic(e) \/ FabricFails(e)
        BY <2>5
      <3>2. pc' = pc /\ params' = params /\ remote' = remote
        BY <1>1, <3>1, NicMoves DEF procVars
      <3>3. AddressesKnown' <=> AddressesKnown
        BY <3>2 DEF AddressesKnown, Addr, Indices, Count
      <3>4. /\ pc["server"] \in ServerActive => MrGot = MrSent
            /\ MrGot > 0 => rcount = params.scount
            /\ MrGot = 2 /\ pc["client"] \notin GetMr => AddressesKnown
        BY <1>1, <2>2, <3>2
      <3>5. CASE Acks
        <4>1. MrGot' = MrGot /\ MrSent' = MrSent /\ rcount' = rcount
          BY <1>1, <3>2, <3>5 DEF Acks, MrGot, MrSent
        <4> QED
          BY <1>1, <3>2, <3>3, <3>4, <4>1
      <3>6. CASE NicExecute("server") /\ MrArrives
        <4>1. /\ pc["client"] \in {"get_mr_count", "get_mr_array"}
              /\ pc["client"] = "get_mr_count" <=> pc["server"] = "send_mr_count"
              /\ Len(qp["client"].rcq) = 0
              /\ pc["client"] = "get_mr_array" => rcount = params.scount
          BY <2>1, <3>6, MrInPlace
        <4>2. /\ Done(qp'["server"]) = Done(qp["server"]) + 1
              /\ Len(qp'["client"].rcq) = Len(qp["client"].rcq) + 1
          BY <1>1, <3>6, DeliveredCounts DEF MrArrives, Peer
        <4>3. Done(qp["server"]) = 0
          BY <3>6, MrFront
        <4>4. CASE pc["client"] = "get_mr_count"
          <5>1. rcount' = params.scount
            BY <3>6, <4>1, <4>4 DEF MrArrives
          <5>2. MrGot' = 1 /\ MrSent' = 1
            BY <3>2, <4>1, <4>2, <4>3, <4>4 DEF MrGot, MrSent
          <5> QED
            BY <3>2, <5>1, <5>2
        <4>5. CASE pc["client"] = "get_mr_array"
          <5>1. rcount' = rcount /\ pc["server"] = "send_mr_array"
            BY <3>6, <4>1, <4>5 DEF MrArrives
          <5>2. MrGot' = 2 /\ MrSent' = 2
            BY <3>2, <4>1, <4>2, <4>3, <4>5, <5>1 DEF MrGot, MrSent
          <5>3. pc'["client"] \in GetMr
            BY <3>2, <4>5 DEF GetMr
          <5> QED
            BY <1>1, <3>2, <4>1, <4>5, <5>1, <5>2, <5>3
        <4> QED
          BY <4>1, <4>4, <4>5
      <3>7. CASE EndArrives \/ Moves
        <4>1. rcount' = rcount /\ pc["client"] \in {"post", "wait", "end_wait"}
          BY <3>7 DEF EndArrives, Moves
        <4>2. MrGot' = MrGot
          BY <3>2, <4>1 DEF MrGot
        <4>3. MrSent' = MrSent
          <5>1. Done(qp'["server"]) = Done(qp["server"])
            BY <1>1, <3>7, DeliveredCounts DEF EndArrives, Moves, Peer
          <5> QED
            BY <3>2, <5>1 DEF MrSent
        <4> QED
          BY <1>1, <3>2, <3>3, <3>4, <4>1, <4>2, <4>3
      <3> QED
        <4>1. ~DataArrives
          BY <3>2 DEF DataArrives
        <4>2. ~Misplaced
          BY <3>2, KnownFacts DEF Misplaced, ServerAt, ServerRounds
        <4> QED
          BY <1>1, <3>1, <3>5, <3>6, <3>7, <4>1, <4>2, NicLive
    <2>6. CASE UNCHANGED vars
      <3>1. /\ pc' = pc /\ params' = params /\ rcount' = rcount /\ qp' = qp
            /\ remote' = remote
        BY <2>6 DEF vars
      <3>2. MrGot' = MrGot /\ MrSent' = MrSent /\ (AddressesKnown' <=> AddressesKnown)
        BY <3>1 DEF MrGot, MrSent, AddressesKnown, Addr, Indices, Count
      <3> QED
        BY <1>1, <2>2, <3>1, <3>2
    <2> QED
      BY <2>3, <2>4, <2>5, <2>6 DEF Next, Step, Stopped
  <1> QED
    BY <1>2, <1>3


-----------------------------------------------------------------------------
(* What has arrived.                                                        *)

ArrivesNext == /\ mem' = [mem EXCEPT ![Dest][Sent + 1] = <<Source, Sent + 1>>]
               /\ Sent + 1 \in 1..params.count

\* The contents of the next buffer arrive in their place.
LEMMA Arrives ==
    ASSUME Known, Live, StepInv, ExchangeInv, MemInv, NicExecute("client"),
           DataArrives \/ Moves
    PROVE  ArrivesNext
  <1>1. /\ Front("client").n = Sent + 1 /\ Sent + 1 \in 1..params.count
        /\ pc["client"] \in {"post", "wait"}
    BY FrontNumber DEF DataArrives, Moves
  <1>2. /\ "client" \in Peers /\ "server" \in Peers
        /\ params.scount = params.count
        /\ Indices("client") = 1..params.count /\ Indices("server") = 1..params.count
    BY KnownFacts DEF Live, Promised, Regular, Indices, Count
  <1>3. bufs[Source] # "none" => mem[Source][Sent + 1] = <<Source, Sent + 1>>
    <2>1. MemOf(Source) /\ Sent + 1 \in Indices(Source)
      BY <1>1, <1>2, SourceDest DEF MemInv, Peers
    <2> QED
      BY <2>1 DEF MemOf
  <1>6. bufs["client"] # "none"
    BY <1>1, <1>2 DEF MemInv, MemOf, Unallocated, ClientEarly, ServerEarly, Out
  <1>4. CASE DataArrives
    <2>1. /\ params.verb = "send" /\ Delivered("client")
          /\ mem' = [mem EXCEPT !["server"][n["server"]] = mem["client"][Front("client").n]]
      BY <1>4 DEF DataArrives
    <2>2. n["server"] = Sent + 1
      BY <1>4, <2>1, InPlace
    <2>3. Source = "client" /\ Dest = "server"
      BY <2>1, SourceDest
    <2> QED
      BY <1>1, <1>3, <1>6, <2>1, <2>2, <2>3 DEF ArrivesNext
  <1>5. CASE Moves
    <2>1. /\ params.verb # "send" /\ bufs["server"] = "reg"
          /\ mem' = IF params.verb = "write"
                    THEN [mem EXCEPT !["server"][Target(Front("client"))]
                                        = mem["client"][Front("client").n]]
                    ELSE [mem EXCEPT !["client"][Front("client").n]
                                        = mem["server"][Target(Front("client"))]]
      BY <1>5 DEF Moves
    <2>2. Target(Front("client")) = Sent + 1
      <3>1. MrGot = 2 /\ pc["client"] \notin GetMr /\ pc["client"] \in ClientActive
        BY <1>1 DEF MrGot, GetMr, ClientActive, ClientRounds
      <3>2. remote[Sent + 1] = Addr(Sent + 1)
        BY <1>1, <1>2, <2>1, <3>1 DEF ExchangeInv
      <3> QED
        BY <1>1, <3>2 DEF Target, Addr
    <2>3. params.verb \in {"read", "write"}
      BY <2>1, KnownFacts, RoundTypes
    <2>4. CASE params.verb = "write"
      <3>1. Source = "client" /\ Dest = "server"
        BY <2>4, SourceDest
      <3> QED
        BY <1>1, <1>3, <1>6, <2>1, <2>2, <2>4, <3>1 DEF ArrivesNext
    <2>5. CASE params.verb = "read"
      <3>1. Source = "server" /\ Dest = "client"
        BY <2>5, SourceDest
      <3> QED
        BY <1>1, <1>3, <2>1, <2>2, <2>5, <3>1 DEF ArrivesNext
    <2> QED
      BY <2>3, <2>4, <2>5
  <1> QED
    BY <1>4, <1>5

LEMMA HereKept ==
    ASSUME params' = params, mem'[Dest] = mem[Dest]
    PROVE  \A i : Landed(i)' <=> Landed(i)
  <1>1. Source' = Source /\ Dest' = Dest
    BY DEF Source, Dest, Peer
  <1> QED
    BY <1>1 DEF Landed

LEMMA HereArrives ==
    ASSUME Known, ArrivesNext, params' = params, params.scount = params.count
    PROVE  \A i \in Indices("client") : Landed(i)' <=> Landed(i) \/ i = Sent + 1
  <1>1. Source' = Source /\ Dest' = Dest /\ Dest \in Peers
    BY SourceDest DEF Source, Dest, Peer
  <1>2. DOMAIN mem = Peers /\ mem[Dest] \in [Indices(Dest) -> Values]
    BY <1>1, KnownFacts DEF IInv, Rest, MemTypeOK
  <1>3. Indices("client") = 1..params.count /\ Indices(Dest) = 1..params.count
    BY DEF Indices, Count
  <1>4. mem'[Dest] = [mem[Dest] EXCEPT ![Sent + 1] = <<Source, Sent + 1>>]
    BY <1>1, <1>2 DEF ArrivesNext
  <1>5. \A i \in Indices("client") :
           mem'[Dest][i] = IF i = Sent + 1 THEN <<Source, Sent + 1>> ELSE mem[Dest][i]
    BY <1>2, <1>3, <1>4
  <1> QED
    BY <1>1, <1>5 DEF Landed

\* A buffer that was not allocated, or was just filled with its own contents,
\* holds nothing of the other side.
LEMMA NothingHere ==
    ASSUME Known, Promised, MemInv
    PROVE  /\ bufs[Dest] = "none" => \A i \in Indices("client") : ~Landed(i)
           /\ AllocateBuffer(Dest) /\ params' = params
              => \A i \in Indices("client") : ~Landed(i)'
  <1>1. Dest \in Peers /\ Source # Dest /\ DOMAIN mem = Peers
    BY SourceDest, KnownFacts, TypedFunctions
  <1>2. Indices(Dest) = Indices("client")
    BY DEF Promised, Regular, Indices, Count
  <1>3. \A i, j : <<Dest, i>> # <<Source, j>>
    BY <1>1
  <1>4. bufs[Dest] = "none" => \A i \in Indices("client") : ~Landed(i)
    BY <1>1, <1>2, <1>3 DEF MemInv, MemOf, Landed
  <1>5. ASSUME AllocateBuffer(Dest), params' = params, NEW i \in Indices("client")
        PROVE  ~Landed(i)'
    <2>1. mem'[Dest] = [j \in Indices(Dest) |-> <<Dest, j>>]
      BY <1>1, <1>5 DEF AllocateBuffer
    <2>2. mem'[Dest][i] = <<Dest, i>>
      BY <1>2, <2>1
    <2>3. Source' = Source /\ Dest' = Dest
      BY <1>5 DEF Source, Dest, Peer
    <2> QED
      BY <1>3, <2>2, <2>3 DEF Landed
  <1> QED
    BY <1>4, <1>5


LEMMA ProcessWrites ==
    ASSUME Known, NEW e \in Peers,
           \/ e = "client" /\ ClientStep
           \/ e = "server" /\ ServerStep
    PROVE  \/ AllocateBuffer(e) /\ e = Dest
           \/ mem'[Dest] = mem[Dest]
  <1>1. \/ AllocateBuffer(e) \/ mem' = mem \/ DeallocateBuffer(e)
    BY ProcessMoves
  <1>2. CASE AllocateBuffer(e) /\ e # Dest
    BY <1>2, KnownFacts, TypedFunctions, SourceDest DEF AllocateBuffer
  <1>3. CASE DeallocateBuffer(e)
    BY <1>3 DEF DeallocateBuffer
  <1> QED
    BY <1>1, <1>2, <1>3

LEMMA NextArrival ==
    /\ Known /\ Known' /\ MemInv /\ StepInv /\ ExchangeInv /\ ArrivalInv /\ [Next]_vars
    => ArrivalInv'
  <1> SUFFICES ASSUME Known, Known', MemInv, StepInv, ExchangeInv, ArrivalInv, [Next]_vars,
                      Live', (pc["client"] \in ClientActive)', NEW i \in Indices("client")'
               PROVE  Landed(i)' <=> (round'["client"] > 1 \/ i <= Sent')
    BY DEF ArrivalInv
  <1>1. /\ IInv /\ "client" \in Peers /\ "server" \in Peers
        /\ qp'["client"].state = "rts" /\ qp'["server"].state = "rts"
        /\ pc'["client"] \in ClientActive
    BY KnownFacts DEF Live, ClientActive, GetMr, ClientRounds, EndLabels
  <1>2. /\ Sent \in Int /\ params.count \in Nat /\ round["client"] \in Nat
    BY StepNumbers
  <1>3. Promised'
    BY DEF Live
  <1>4. CASE Accept
    <2>1. /\ Sent' = 0 /\ round'["client"] = 1 /\ params' = params /\ mem' = mem
      BY <1>4, AcceptBegins
    <2>2. i \in Indices("client") /\ i \in 1..params.count /\ Promised
      BY <1>3, <2>1 DEF Indices, Count, Promised, Regular
    <2>3. bufs[Dest] = "none"
      <3>1. pc[Dest] \in Unallocated
        BY <1>4, SourceDest DEF Accept, Peers, Unallocated, ClientEarly, ServerEarly
      <3> QED
        BY <3>1, SourceDest DEF MemInv, MemOf
    <2>4. ~Landed(i)
      BY <2>2, <2>3, NothingHere
    <2>5. ~Landed(i)'
      BY <2>1, <2>4, HereKept
    <2> QED
      BY <1>2, <2>1, <2>2, <2>5
  <1>5. CASE ~Accept
    <2>1. Live /\ Promised
      BY <1>5, LiveBefore DEF Live
    <2>2. CASE ClientStep
      <3>1. params' = params
        BY <1>1, <2>2, ClientFrame
      <3>2. i \in Indices("client") /\ i \in 1..params.count
        BY <3>1 DEF Indices, Count
      <3>3. /\ pc["client"] \in ClientActive
            /\ \/ SameCount(round["client"], round'["client"], Sent, Sent')
               \/ TurnsOver(round["client"], round'["client"], Sent, Sent', params.count)
        BY <1>1, <2>2, ClientCounts
      <3>4. Landed(i) <=> (round["client"] > 1 \/ i <= Sent)
        BY <2>1, <3>2, <3>3 DEF ArrivalInv
      <3>5. CASE AllocateBuffer("client") /\ "client" = Dest
        <4>1. ~Landed(i)'
          BY <2>1, <3>1, <3>2, <3>5, NothingHere
        <4>2. pc["client"] = "allocate" /\ round' = round
          BY <3>5 DEF AllocateBuffer
        <4>3. bufs["client"] = "none"
          BY <1>1, <4>2 DEF MemInv, MemOf, Unallocated
        <4>4. ~Landed(i)
          BY <2>1, <3>2, <3>5, <4>3, NothingHere
        <4>5. SameCount(round["client"], round'["client"], Sent, Sent')
          BY <1>2, <3>3, <4>2 DEF TurnsOver
        <4> QED
          BY <3>4, <4>1, <4>4, <4>5 DEF SameCount
      <3>6. CASE mem'[Dest] = mem[Dest]
        <4>1. Landed(i)' <=> Landed(i)
          BY <3>1, <3>6, HereKept
        <4>2. CASE SameCount(round["client"], round'["client"], Sent, Sent')
          BY <3>4, <4>1, <4>2 DEF SameCount
        <4>3. CASE TurnsOver(round["client"], round'["client"], Sent, Sent', params.count)
          <5>1. Landed(i)
            BY <1>2, <3>2, <3>4, <4>3 DEF TurnsOver
          <5>2. round["client"] # 0
            <6>1. RoundInv /\ params.repeat \in Nat
              BY KnownFacts, RoundTypes
            <6> QED
              BY <3>3, <6>1 DEF RoundInv, ClientActive, EndLabels
          <5> QED
            BY <1>2, <4>1, <4>3, <5>1, <5>2 DEF TurnsOver
        <4> QED
          BY <3>3, <4>2, <4>3
      <3> QED
        BY <1>1, <2>2, <3>5, <3>6, ProcessWrites
    <2>3. CASE ServerStep
      <3>1. /\ params' = params /\ pc'["client"] = pc["client"]
            /\ round'["client"] = round["client"] /\ Sent' = Sent
        BY <1>1, <1>5, <2>3, ServerFrame DEF Kept, Sent, Base
      <3>2. i \in Indices("client")
        BY <3>1 DEF Indices, Count
      <3>3. Landed(i) <=> (round["client"] > 1 \/ i <= Sent)
        BY <1>1, <2>1, <3>1, <3>2 DEF ArrivalInv
      <3>4. CASE AllocateBuffer("server") /\ "server" = Dest
        <4>1. ~Landed(i)'
          BY <2>1, <3>1, <3>2, <3>4, NothingHere
        <4>2. bufs["server"] = "none"
          BY <1>1, <3>4 DEF MemInv, MemOf, Unallocated, AllocateBuffer
        <4>3. ~Landed(i)
          BY <2>1, <3>2, <3>4, <4>2, NothingHere
        <4> QED
          BY <3>1, <3>3, <4>1, <4>3
      <3>5. CASE mem'[Dest] = mem[Dest]
        BY <3>1, <3>3, <3>5, HereKept
      <3> QED
        BY <1>1, <2>3, <3>4, <3>5, ProcessWrites
    <2>4. CASE \E e \in Peers : Nic(e) \/ FabricFails(e)
      <3>1. PICK e \in Peers : Nic(e) \/ FabricFails(e)
        BY <2>4
      <3>2. pc' = pc /\ n' = n /\ params' = params /\ round' = round
        BY <1>1, <3>1, NicMoves DEF procVars
      <3>3. i \in Indices("client")
        BY <3>2 DEF Indices, Count
      <3>4. Landed(i) <=> (round["client"] > 1 \/ i <= Sent)
        BY <1>1, <2>1, <3>2, <3>3 DEF ArrivalInv
      <3>5. mem' = mem => (Landed(i)' <=> Landed(i))
        BY <3>2, HereKept
      <3>6. CASE Acks \/ MrArrives
        <4>1. Done(qp'["client"]) = Done(qp["client"]) /\ mem' = mem
          BY <1>1, <3>6, DeliveredCounts DEF Acks, MrArrives, Peer
        <4>2. Sent' = Sent
          BY <3>2, <4>1, SentShift
        <4> QED
          BY <3>2, <3>4, <3>5, <4>1, <4>2
      <3>7. CASE EndArrives
        <4>1. pc["client"] = "end_wait" /\ mem' = mem
          BY <3>7 DEF EndArrives
        <4>2. round["client"] > 1
          <5>1. /\ RoundInv /\ params.repeat \in Nat /\ 1 \in 1..params.repeat
            BY KnownFacts, RoundTypes
          <5>2. round["client"] = params.repeat + 1
            BY <4>1, <5>1 DEF RoundInv, EndLabels
          <5> QED
            BY <5>1, <5>2
        <4> QED
          BY <3>2, <3>4, <3>5, <4>1, <4>2
      <3>8. CASE NicExecute("client") /\ (DataArrives \/ Moves)
        <4>1. ArrivesNext
          BY <2>1, <3>8, Arrives
        <4>2. params.scount = params.count
          BY <2>1 DEF Promised, Regular
        <4>3. Landed(i)' <=> (Landed(i) \/ i = Sent + 1)
          BY <3>2, <3>3, <4>1, <4>2, HereArrives
        <4>4. Done(qp'["client"]) = Done(qp["client"]) + 1
          <5>1. CASE DataArrives
            BY <1>1, <5>1, DeliveredCounts DEF DataArrives
          <5>2. CASE Moves
            <6>1. Accounted(qp["client"]) /\ qp'["client"] = Executed(qp["client"])
              BY <5>2, KnownFacts DEF Moves
            <6> QED
              BY <6>1, DoneKept
          <5> QED
            BY <3>8, <5>1, <5>2
        <4>5. Sent' = Sent + 1
          BY <3>2, <3>8, <4>4, SentShift DEF DataArrives, Moves
        <4>6. i \in 1..params.count
          BY <3>3 DEF Indices, Count
        <4> QED
          BY <1>2, <3>2, <3>4, <4>3, <4>5, <4>6
      <3>9. CASE NicExecute("client") /\ Misplaced
        <4>1. params.verb = "send"
          BY <3>9, KnownFacts DEF Misplaced, ServerAt, ServerRounds
        <4>2. ~Misplaced
          BY <2>1, <3>9, <4>1, InPlace DEF Misplaced
        <4> QED
          BY <3>9, <4>2
      <3> QED
        BY <1>1, <3>1, <3>6, <3>7, <3>8, <3>9, NicLive
    <2>5. CASE UNCHANGED vars
      <3>1. /\ pc' = pc /\ n' = n /\ params' = params /\ round' = round /\ mem' = mem
            /\ Done(qp'["client"]) = Done(qp["client"])
        BY <2>5 DEF vars
      <3>2. Sent' = Sent /\ (Landed(i)' <=> Landed(i)) /\ i \in Indices("client")
        BY <3>1, SentShift, HereKept DEF Indices, Count
      <3> QED
        BY <1>1, <2>1, <3>1, <3>2 DEF ArrivalInv
    <2> QED
      BY <2>2, <2>3, <2>4, <2>5 DEF Next, Step, Stopped
  <1> QED
    BY <1>4, <1>5


-----------------------------------------------------------------------------
(* What a process finds when it begins to wait.                             *)

Successes(cq) == \E j \in 1..Len(cq) : cq[j].ok

\* A receive that is posted has not succeeded yet.
LEMMA PostRecvFresh ==
    ASSUME NEW q, Accounted(q), RecvIdle(q), NEW kind \in Kinds, NEW i \in Nat
    PROVE  ~Successes(PostRecv(q, kind, i).rcq)
  <1> DEFINE b == [kind |-> kind, n |-> i]
             c == [ok |-> FALSE, buf |-> b, msg |-> b]
             r == PostRecv(q, kind, i)
  <1>1. q \in QueuePairs /\ q.rcq = << >>
    BY QpFields DEF RecvIdle
  <1>2. r.rcq = Append(q.rcq, c) \/ r.rcq = q.rcq
    BY <1>1 DEF PostRecv, QueuePairs
  <1>3. c.ok = FALSE
    OBVIOUS
  <1> HIDE DEF r, c
  <1>4. r.rcq = <<c>> \/ r.rcq = << >>
    BY <1>1, <1>2
  <1> QED
    BY <1>3, <1>4 DEF Successes, r

\* Every receive a process waits for was posted with nothing left to poll.
LEMMA RecvFresh ==
    ASSUME Known, NEW e \in Peers, pc'[e] \in RecvWaits(e),
           \/ e = "client" /\ ClientStep
           \/ e = "server" /\ ServerStep
    PROVE  ~Successes(qp'[e].rcq)
  <1>1. /\ IInv /\ Polls /\ Accounted(qp[e]) /\ Good(e, qp[e])
        /\ At(e, pc[e], qp[e], n[e]) /\ "client" \in Peers /\ "server" \in Peers
        /\ n[e] \in Nat
    BY KnownFacts, StepFacts DEF Known
  <1>2. {"count", "array", "end", "data"} \subseteq Kinds /\ 0 \in Nat
    BY DEF Kinds
  <1>3. pc[e] \in Settled => RecvIdle(qp[e])
    BY <1>1, QuietBetween, SettledLabels DEF Quiet
  <1>4. CASE e = "client" /\ ClientStep
    <2>1. pc'[e] \in {"get_mr_count", "get_mr_array", "recv_wait"}
      BY <1>4 DEF RecvWaits
    <2>2. GetMrInfo \/ GetMrCount
      <3>1. ~(ClientCreateEp \/ SetTos \/ RdmaConnect \/ AllocateBuffer(e) \/ Report)
        BY <1>1, <1>4, <2>1, Moved DEF ClientCreateEp, SetTos, RdmaConnect,
           ConnectFails, AllocateBuffer, Report, AfterAllocate, AfterRound, RoundStart
      <3>2. ~(PostRequest \/ WaitRequest \/ NullMrCrash(e) \/ GetMrArray)
        BY <1>1, <1>4, <2>1, Moved DEF PostRequest, WaitRequest, NextRequest,
           NullMrCrash, Crash, GetMrArray, RoundStart
      <3>3. ~Teardown(e)
        BY <1>1, <1>4, <2>1, Moved DEF Teardown, EndPost, EndWait, PrintSha1sum,
           DeallocateBuffer, Disconnect, Crash, SendControl, RegisterFails, RecvControl
      <3> QED
        BY <1>4, <3>1, <3>2, <3>3 DEF ClientStep
    <2>3. CASE GetMrInfo
      <3>1. pc[e] = "get_mr" /\ qp'[e] = PostRecv(qp[e], "count", 0)
        BY <1>1, <1>4, <2>1, <2>3, Moved DEF GetMrInfo, RecvControl, RegisterFails
      <3> QED
        BY <1>1, <1>2, <1>3, <3>1, PostRecvFresh DEF Settled
    <2>4. CASE GetMrCount
      <3>1. PICK c \in RecvComp(e) : qp'[e] = PostRecv(c.q, "array", 0)
        BY <1>1, <1>4, <2>1, <2>4, Moved DEF GetMrCount, RoundStart
      <3>2. pc[e] \in RecvWaits(e)
        BY <1>4, <2>4 DEF GetMrCount, RecvWaits
      <3>3. RecvIdle(c.q) /\ Accounted(c.q)
        BY <1>1, <3>2, RecvPolled, PollsWork DEF Quiet
      <3> QED
        BY <1>2, <3>1, <3>3, PostRecvFresh
    <2> QED
      BY <2>2, <2>3, <2>4
  <1>5. CASE e = "server" /\ ServerStep
    <2>1. pc'[e] \in {"get_mr_count", "get_mr_array", "recv_wait", "end_wait"}
      BY <1>5 DEF RecvWaits
    <2>2. RecvPost \/ EndPost(e)
      <3>1. ~(Listen \/ Accept \/ AcceptFails \/ AllocateBuffer(e))
        BY <1>1, <1>5, <2>1, Moved DEF Listen, Accept, AcceptFails, AllocateBuffer,
           AfterAllocate, RoundStart
      <3>2. ~(SendMrInfo \/ SendMrCount \/ SendMrArray)
        BY <1>1, <1>5, <2>1, Moved DEF SendMrInfo, SendMrCount, SendMrArray,
           SendControl, RegisterFails, Crash, RoundStart
      <3>3. ~(RecvWait \/ NullMrCrash(e))
        BY <1>1, <1>5, <2>1, Moved DEF RecvWait, NextRequest, NullMrCrash, Crash,
           AfterRound, RoundStart
      <3>4. ~(EndWait(e) \/ PrintSha1sum(e) \/ DeallocateBuffer(e) \/ Disconnect(e))
        BY <1>1, <1>5, <2>1, Moved DEF EndWait, PrintSha1sum,
           DeallocateBuffer, Disconnect, Crash
      <3> QED
        BY <1>5, <3>1, <3>2, <3>3, <3>4 DEF ServerStep, Teardown
    <2>3. CASE RecvPost
      <3>1. pc[e] = "recv_post" /\ qp'[e] = PostRecv(qp[e], "data", n[e])
        BY <1>1, <1>5, <2>3, Moved DEF RecvPost
      <3> QED
        BY <1>1, <1>2, <1>3, <3>1, PostRecvFresh DEF Settled
    <2>4. CASE EndPost(e)
      <3>1. pc[e] = "end_post" /\ qp'[e] = PostRecv(qp[e], "end", 0)
        BY <1>1, <1>5, <2>1, <2>4, Moved DEF EndPost, RecvControl, RegisterFails
      <3> QED
        BY <1>1, <1>2, <1>3, <3>1, PostRecvFresh DEF Settled
    <2> QED
      BY <2>2, <2>3, <2>4
  <1> QED
    BY <1>4, <1>5

\* The client's terminating message is posted on an idle queue.
LEMMA EndFresh ==
    ASSUME Known, ClientStep, pc'["client"] = "end_wait"
    PROVE  qp'["client"].sent = 0 /\ ~Successes(qp'["client"].scq)
  <1> DEFINE e == "client"
             q == qp[e]
             r == qp'[e]
             c == [ok |-> FALSE, idx |-> q.posted + 1]
  <1>1. /\ IInv /\ Accounted(q) /\ At(e, pc[e], q, n[e]) /\ e \in Peers
        /\ q \in QueuePairs /\ q.scq \in Seq(SendCompletions) /\ q.posted \in Nat
        /\ q.sent \in Nat /\ q.sent <= Len(q.sq)
    BY KnownFacts, QpFields DEF SendAccounting
  <1>2. EndPost(e)
    <2>1. ~(ClientCreateEp \/ SetTos \/ RdmaConnect \/ AllocateBuffer(e) \/ Report)
      BY <1>1, Moved DEF ClientCreateEp, SetTos, RdmaConnect,
         ConnectFails, AllocateBuffer, Report, AfterAllocate, AfterRound, RoundStart
    <2>2. ~(PostRequest \/ WaitRequest \/ NullMrCrash(e))
      BY <1>1, Moved DEF PostRequest, WaitRequest, NextRequest, NullMrCrash, Crash
    <2>3. ~(GetMrInfo \/ GetMrCount \/ GetMrArray)
      BY <1>1, Moved DEF GetMrInfo, GetMrCount, GetMrArray, RoundStart, RecvControl,
         RegisterFails
    <2>4. ~(EndWait(e) \/ PrintSha1sum(e) \/ DeallocateBuffer(e) \/ Disconnect(e))
      BY <1>1, Moved DEF EndWait, PrintSha1sum, DeallocateBuffer, Disconnect, Crash
    <2> QED
      BY <2>1, <2>2, <2>3, <2>4 DEF ClientStep, Teardown
  <1>3. pc[e] = "end_post" /\ r = PostSend(q, "send", "end", 0, TRUE)
    BY <1>1, <1>2, Moved DEF EndPost, SendControl, RegisterFails
  <1>4. Idle(q)
    BY <1>1, <1>3, QuietBetween, SettledLabels DEF Settled, Quiet
  <1>5. ~Successes(q.scq) /\ q.sent = 0
    BY <1>1, <1>4 DEF Idle, Successes
  <1>6. r.sent = q.sent /\ (r.scq = q.scq \/ r.scq = Append(q.scq, c))
    BY <1>1, <1>3 DEF PostSend, QueuePairs
  <1>7. c \in SendCompletions /\ c.ok = FALSE
    BY <1>1 DEF SendCompletions
  <1> HIDE DEF q, r, c
  <1>8. ~Successes(r.scq)
    <2>1. CASE r.scq = q.scq
      BY <1>5, <2>1
    <2>2. CASE r.scq = Append(q.scq, c)
      <3>1. \A j \in 1..Len(r.scq) : \/ j \in 1..Len(q.scq) /\ r.scq[j] = q.scq[j]
                                     \/ r.scq[j] = c
        BY <1>1, <1>7, <2>2, AppendEntries
      <3> QED
        BY <1>5, <1>7, <3>1 DEF Successes
    <2> QED
      BY <1>6, <2>1, <2>2
  <1> QED
    BY <1>5, <1>6, <1>8 DEF q, r

-----------------------------------------------------------------------------
(* The end of the session.                                                  *)

\* A success at the terminating message, as each side sees it.
GotNow(e) == IF e = "server" THEN ServerGot ELSE ClientSent

\* No step of a process makes it see the success: it was there before.
LEMMA ProcessSees ==
    ASSUME Known, NEW e \in Peers, GotNow(e)',
           \/ e = "client" /\ ClientStep
           \/ e = "server" /\ ServerStep
    PROVE  GotNow(e)
  <1>1. IInv /\ DOMAIN sha = Peers /\ DOMAIN pc = Peers /\ Polls
        /\ "client" \in Peers /\ "server" \in Peers
    BY KnownFacts, TypedFunctions DEF Known
  <1>2. CASE sha[e] # << >> \/ pc[e] = "sha"
    BY <1>2 DEF GotNow, ServerGot, ClientSent, Peers
  <1>3. ASSUME sha[e] = << >>, pc[e] # "sha" PROVE GotNow(e)
    <2>1. pc'[e] = "end_wait" \/ pc'[e] = "sha" \/ sha'[e] # sha[e]
      BY <1>3 DEF GotNow, ServerGot, ClientSent, Peers
    <2>2. pc'[e] # "end_wait"
      <3>1. SUFFICES ASSUME pc'[e] = "end_wait" PROVE FALSE
        OBVIOUS
      <3>2. sha'[e] = sha[e]
        BY <1>1, <1>3, <3>1, Exits, Moved DEF GoesOn, Ends, GivesUp, PrintSha1sum,
           Disconnect, Crash
      <3>3. CASE e = "client"
        <4>1. qp'[e].sent > 0 \/ Successes(qp'[e].scq)
          BY <1>3, <3>1, <3>2, <3>3 DEF GotNow, ClientSent, Successes
        <4> QED
          BY <3>1, <3>3, <4>1, EndFresh
      <3>4. CASE e = "server"
        <4>1. Successes(qp'[e].rcq)
          BY <1>3, <3>1, <3>2, <3>4 DEF GotNow, ServerGot, Successes
        <4> QED
          BY <3>1, <3>4, <4>1, RecvFresh DEF RecvWaits
      <3> QED
        BY <3>3, <3>4 DEF Peers
    <2>3. CASE pc'[e] = "sha"
      <3>1. Ends(e)
        BY <1>1, <1>3, <2>3, Exits, Moved DEF GoesOn, Ends, GivesUp, PrintSha1sum,
           Disconnect, Crash
      <3>2. EndWait(e)
        <4>1. CASE e = "client" /\ ClientStep
          BY <3>1, <4>1 DEF Ends, ClientStep, Teardown, ClientCreateEp, SetTos,
             RdmaConnect, AllocateBuffer, GetMrInfo, GetMrCount, GetMrArray,
             PostRequest, WaitRequest, Report, NullMrCrash, EndPost, PrintSha1sum,
             DeallocateBuffer, Disconnect
        <4>2. CASE e = "server" /\ ServerStep
          BY <3>1, <4>2 DEF Ends, ServerStep, Teardown, Listen, Accept, AcceptFails,
             AllocateBuffer, SendMrInfo, SendMrCount, SendMrArray, RecvPost, RecvWait,
             NullMrCrash, EndPost, PrintSha1sum, DeallocateBuffer, Disconnect
        <4> QED
          BY <4>1, <4>2
      <3>3. PICK c \in IF e = "client" THEN SendComp(e) ELSE RecvComp(e) : c.rv = 1
        BY <1>1, <3>1, <3>2, Moved DEF EndWait, Ends
      <3>4. pc[e] = "end_wait"
        BY <3>1 DEF Ends
      <3>5. Accounted(qp[e])
        BY KnownFacts
      <3>6. CASE e = "client"
        <4>1. qp[e].scq # << >> /\ Head(qp[e].scq).ok
          BY <3>3, <3>6 DEF SendComp, PollFails
        <4>2. 1 \in 1..Len(qp[e].scq) /\ Head(qp[e].scq) = qp[e].scq[1]
          BY <3>5, <4>1, QpFields
        <4> QED
          BY <3>4, <3>6, <4>1, <4>2 DEF GotNow, ClientSent
      <3>7. CASE e = "server"
        <4>1. qp[e].rcq # << >> /\ Head(qp[e].rcq).ok
          BY <3>3, <3>7 DEF RecvComp, PollFails
        <4>2. 1 \in 1..Len(qp[e].rcq) /\ Head(qp[e].rcq) = qp[e].rcq[1]
          BY <3>5, <4>1, QpFields
        <4> QED
          BY <3>4, <3>7, <4>1, <4>2 DEF GotNow, ServerGot
      <3> QED
        BY <3>6, <3>7 DEF Peers
    <2>4. ASSUME pc'[e] # "sha", sha'[e] # sha[e] PROVE FALSE
      <3>1. CASE pc'[e] = "deallocate"
        BY <1>3, <2>4, <3>1, LeavesEarly
      <3>2. CASE pc'[e] # "deallocate"
        <4>1. CASE DeallocateBuffer(e) \/ Disconnect(e)
          BY <2>4, <4>1 DEF DeallocateBuffer, Disconnect, logVars, noteVars
        <4> QED
          BY <1>3, <2>4, <3>2, <4>1, Exits DEF GoesOn, Ends, GivesUp, PrintSha1sum
      <3> QED
        BY <3>1, <3>2
    <2> QED
      BY <2>1, <2>2, <2>3, <2>4
  <1> QED
    BY <1>2, <1>3

\* What is complete stays so: the late steps of a process write nothing.
CompleteFor(e) == pc[e] \in Late /\ ~lost[e] /\ bufs[e] # "none"

LEMMA LateSteps ==
    ASSUME Known, NEW e \in Peers, CompleteFor(e),
           \/ e = "client" /\ ClientStep
           \/ e = "server" /\ ServerStep
    PROVE  CompleteFor(e)' /\ mem' = mem /\ ~Accept
  <1>1. IInv /\ DOMAIN bufs = Peers
    BY KnownFacts, TypedFunctions
  <1>2. EndWait(e) \/ PrintSha1sum(e) \/ DeallocateBuffer(e) \/ Disconnect(e)
    <2>1. CASE e = "client" /\ ClientStep
      BY <2>1 DEF CompleteFor, Late, ClientStep, Teardown, ClientCreateEp, SetTos,
         RdmaConnect, AllocateBuffer, GetMrInfo, GetMrCount, GetMrArray,
         PostRequest, WaitRequest, Report, NullMrCrash, EndPost
    <2>2. CASE e = "server" /\ ServerStep
      BY <2>2 DEF CompleteFor, Late, ServerStep, Teardown, Listen, Accept, AcceptFails,
         AllocateBuffer, SendMrInfo, SendMrCount, SendMrArray, RecvPost, RecvWait,
         NullMrCrash, EndPost
    <2> QED
      BY <2>1, <2>2
  <1>3. ASSUME EndWait(e) \/ PrintSha1sum(e) \/ Disconnect(e)
        PROVE  CompleteFor(e)' /\ mem' = mem
    BY <1>1, <1>3, Moved DEF EndWait, PrintSha1sum, Disconnect, CompleteFor, Late,
       memVars, logVars, noteVars
  <1>4. ASSUME DeallocateBuffer(e) PROVE CompleteFor(e)' /\ mem' = mem
    BY <1>1, <1>4, Moved DEF DeallocateBuffer, Crash, CompleteFor, Late, logVars, noteVars
  <1>5. ~Accept
    BY <1>2 DEF Accept, EndWait, PrintSha1sum, DeallocateBuffer, Disconnect, Peers
  <1> QED
    BY <1>2, <1>3, <1>4, <1>5

\* What a NIC step shows the sender is that its request was executed, and the
\* receiver that a message came in.
LEMMA SendShown ==
    ASSUME NEW q, Accounted(q), NEW r, NicMove(q, r), ~(q.sent > 0),
           ~Successes(q.scq), r.sent > 0 \/ Successes(r.scq)
    PROVE  r.sent = q.sent + 1 /\ r.state = q.state
  <1>1. r # Flushed(q)
    <2>1. FlushedTo(q, Flushed(q))
      BY FlushedFields
    <2> QED
      BY <2>1 DEF FlushedTo, Successes
  <1>2. ~ \E m \in Buffers : r = Received(q, m)
    BY SidesKept DEF SendSame
  <1>3. r = Executed(q)
    BY <1>1, <1>2 DEF NicMove
  <1> QED
    BY <1>3, SidesKept DEF SendSame

LEMMA RecvShown ==
    ASSUME NEW q, Accounted(q), NEW r, NicMove(q, r),
           ~Successes(q.rcq), Successes(r.rcq)
    PROVE  /\ Len(r.rcq) = Len(q.rcq) + 1 /\ r.state = q.state /\ q.rq # << >>
           /\ \E m \in Buffers : r = Received(q, m)
  <1>1. r # Flushed(q)
    <2>1. FlushedTo(q, Flushed(q))
      BY FlushedFields
    <2> QED
      BY <2>1 DEF FlushedTo, Successes
  <1>2. r # Executed(q) /\ r # Acknowledged(q) /\ r # q
    <2>1. RecvSame(q, Executed(q)) /\ RecvSame(q, Acknowledged(q))
      BY SidesKept
    <2> QED
      BY <2>1 DEF RecvSame
  <1>3. q.rq # << >> /\ \E m \in Buffers : r = Received(q, m)
    BY <1>1, <1>2 DEF NicMove
  <1>4. PICK m \in Buffers : r = Received(q, m)
    BY <1>3
  <1>5. /\ q \in QueuePairs /\ q.rcq \in Seq(RecvCompletions)
        /\ [ok |-> TRUE, buf |-> Head(q.rq), msg |-> m] \in RecvCompletions
    <2>1. /\ q \in QueuePairs /\ q.rcq \in Seq(RecvCompletions)
          /\ q.rq \in Seq(Buffers)
      BY QpFields
    <2>2. Head(q.rq) \in Buffers
      BY <1>3, <2>1
    <2> QED
      BY <2>1, <2>2 DEF RecvCompletions
  <1>6. r.rcq = Append(q.rcq, [ok |-> TRUE, buf |-> Head(q.rq), msg |-> m])
    BY <1>4, <1>5 DEF Received, QueuePairs
  <1>7. Len(r.rcq) = Len(q.rcq) + 1
    BY <1>5, <1>6, AppendEntries
  <1> QED
    BY <1>3, <1>4, <1>7, SidesKept DEF SendSame

Shown(e) == /\ qp'[e].state = qp[e].state
            /\ \/ qp'[e].sent = qp[e].sent + 1
               \/ Len(qp'[e].rcq) = Len(qp[e].rcq) + 1

\* Either is the work of a request that reached the peer.

LEMMA ShownByExecution ==
    ASSUME Known, NEW d \in Peers, Nic(d) \/ FabricFails(d), NEW e \in Peers, Shown(e)
    PROVE  /\ NicExecute(d) /\ qp["client"].state = "rts" /\ qp["server"].state = "rts"
           /\ ~Breaks(d)
  <1>1. /\ IInv /\ DOMAIN qp = Peers /\ Accounted(qp[e]) /\ Accounted(qp[d])
        /\ Peer(d) \in Peers /\ (e # d => e = Peer(d))
    BY KnownFacts, TypedFunctions DEF Peers, Peer
  <1>2. qp[e].sent \in Nat /\ Len(qp[e].rcq) \in Nat
    BY <1>1, QpFields
  <1>3. qp'[e] # qp[e]
    BY <1>2 DEF Shown
  <1>4. CASE NicAck(d)
    <2>1. qp[d].sent > 0 /\ qp' = [qp EXCEPT ![d] = Acknowledged(qp[d])]
      BY <1>4 DEF NicAck, SetQp
    <2>2. AckedTo(qp[d], Acknowledged(qp[d])) /\ RecvSame(qp[d], Acknowledged(qp[d]))
      BY <1>1, <2>1, AcknowledgedFields, SidesKept
    <2>3. /\ Acknowledged(qp[d]).sent = qp[d].sent - 1
          /\ Acknowledged(qp[d]).rcq = qp[d].rcq
      BY <2>2 DEF AckedTo, RecvSame
    <2>4. e = d /\ qp'[e] = Acknowledged(qp[d])
      BY <1>1, <1>3, <2>1
    <2> QED
      BY <1>2, <2>3, <2>4 DEF Shown
  <1>5. ASSUME qp[d].state = "rts", qp'[d] = Flushed(qp[d]) PROVE e # d
    <2>1. Flushed(qp[d]).state = "err"
      BY <1>1, FlushedFields DEF FlushedTo
    <2> QED
      BY <1>5, <2>1 DEF Shown
  <1>6. CASE NicTimeout(d) \/ FabricFails(d)
    <2>1. qp[d].state = "rts" /\ qp' = [qp EXCEPT ![d] = Flushed(qp[d])]
      BY <1>6 DEF NicTimeout, FabricFails, SetQp
    <2> QED
      BY <1>1, <1>3, <1>5, <2>1
  <1>7. CASE NicExecute(d)
    <2> DEFINE wr == qp[d].sq[qp[d].sent + 1]
    <2>1. /\ qp[d].state = "rts"
          /\ \/ qp' = [qp EXCEPT ![d] = Flushed(qp[d])]
             \/ /\ qp[Peer(d)].state = "rts"
                /\ DeliverSend(d, wr) \/ ServeOneSided(d, wr) \/ FlushedBoth
      BY <1>7 DEF NicExecute, SetQp
    <2>2. qp' # [qp EXCEPT ![d] = Flushed(qp[d])]
      BY <1>1, <1>3, <1>5, <2>1
    <2>3. ~FlushedBoth
      <3>1. \A c \in Peers : qp[c].state = "rts" \/ ~FlushedBoth
        BY <2>1, <2>2, FlushedFields DEF Peers, Peer
      <3>2. FlushedBoth => qp'[e] = Flushed(qp[e])
        BY DEF FlushedBoth
      <3>3. Flushed(qp[e]).state = "err"
        BY <1>1, FlushedFields DEF FlushedTo
      <3> QED
        BY <3>1, <3>2, <3>3 DEF Shown
    <2>4. qp'[d] = Executed(qp[d])
      <3>1. CASE ServeOneSided(d, wr)
        BY <1>1, <3>1, Moved DEF ServeOneSided
      <3>2. CASE DeliverSend(d, wr)
        <4> DEFINE m == [kind |-> wr.kind, n |-> wr.n]
        <4>1. qp' = [qp EXCEPT ![d] = Executed(@), ![Peer(d)] = Received(@, m)]
          BY <2>3, <3>2 DEF DeliverSend
        <4> HIDE DEF m
        <4>2. Peer(d) # d
          BY DEF Peers, Peer
        <4> QED
          BY <1>1, <4>1, <4>2
      <3> QED
        BY <2>1, <2>2, <2>3, <3>1, <3>2
    <2>5. Executed(qp[d]).state = qp[d].state
      BY <1>1, SidesKept DEF SendSame
    <2>6. ~Breaks(d)
      BY <2>1, <2>4, <2>5 DEF Breaks
    <2> QED
      BY <1>7, <2>1, <2>2, <2>6 DEF Peers, Peer
  <1> QED
    BY <1>4, <1>6, <1>7 DEF Nic

\* The step that shows one side the success is the arrival of the terminating
\* message.
LEMMA NicSees ==
    ASSUME Known, StepInv, Promised, NEW d \in Peers, Nic(d) \/ FabricFails(d),
           NEW e \in Peers, GotNow(e)', ~GotNow(e)
    PROVE  /\ EndArrives /\ NicExecute("client")
           /\ qp["client"].state = "rts" /\ qp["server"].state = "rts"
  <1>1. /\ NicMove(qp[e], qp'[e]) /\ pc' = pc /\ sha' = sha /\ IInv /\ Accounted(qp[e])
        /\ ServerAt /\ "client" \in Peers /\ "server" \in Peers
    BY KnownFacts, NicMoves DEF logVars, noteVars
  <1>2. pc[e] = "end_wait" /\ sha[e] = << >>
    BY <1>1 DEF GotNow, ServerGot, ClientSent, Peers
  <1>3. /\ Shown(e)
        /\ IF e = "client" THEN qp'[e].sent = qp[e].sent + 1
           ELSE Len(qp'[e].rcq) = Len(qp[e].rcq) + 1
    <2>1. CASE e = "client"
      <3>1. /\ ~(qp[e].sent > 0) /\ ~Successes(qp[e].scq)
            /\ qp'[e].sent > 0 \/ Successes(qp'[e].scq)
        BY <1>1, <1>2, <2>1 DEF GotNow, ClientSent, Successes
      <3>2. qp'[e].sent = qp[e].sent + 1 /\ qp'[e].state = qp[e].state
        BY <1>1, <3>1, SendShown
      <3> QED
        BY <2>1, <3>2 DEF Shown
    <2>2. CASE e = "server"
      <3>1. ~Successes(qp[e].rcq) /\ Successes(qp'[e].rcq)
        BY <1>1, <1>2, <2>2 DEF GotNow, ServerGot, Successes
      <3>2. Len(qp'[e].rcq) = Len(qp[e].rcq) + 1 /\ qp'[e].state = qp[e].state
        BY <1>1, <3>1, RecvShown
      <3> QED
        BY <2>2, <3>2 DEF Shown
    <2> QED
      BY <2>1, <2>2 DEF Peers
  <1>4. /\ NicExecute(d) /\ qp["client"].state = "rts" /\ qp["server"].state = "rts"
        /\ ~Breaks(d)
    BY <1>3, ShownByExecution
  <1>5. d = "client"
    <2>1. SUFFICES ASSUME d = "server" PROVE FALSE
      BY DEF Peers
    <2>2. MrArrives
      BY <1>4, <2>1, ServerExecutes
    <2>3. Delivered("server") /\ pc["server"] # "end_wait"
      BY <2>2 DEF MrArrives
    <2>4. e = "client" /\ qp'[e] = Received(qp[e], Message("server"))
      BY <1>2, <2>3 DEF Peers, Delivered, Peer
    <2>5. qp'[e].sent = qp[e].sent
      BY <1>1, <2>4, SidesKept
    <2>6. qp[e].sent \in Nat
      BY <1>1, QpFields
    <2> QED
      BY <1>3, <2>4, <2>5, <2>6
  <1>6. EndArrives \/ Misplaced \/ DataArrives \/ Moves
    BY <1>4, <1>5, ClientExecutes
  <1>7. Live
    BY <1>4 DEF Live, Peers
  <1>8. ~DataArrives
    BY <1>2 DEF DataArrives, Peers
  <1>9. ~Moves
    <2>1. SUFFICES ASSUME Moves PROVE FALSE
      OBVIOUS
    <2>2. e = "server" /\ qp'[e] = qp[e]
      BY <1>2, <2>1 DEF Moves, Peers
    <2>3. Len(qp[e].rcq) \in Nat
      BY <1>1, QpFields
    <2> QED
      BY <1>3, <2>2, <2>3
  <1>10. ~Misplaced
    <2>1. SUFFICES ASSUME Misplaced PROVE FALSE
      OBVIOUS
    <2>2. params.verb = "send" /\ Delivered("client")
      BY <1>1, <2>1 DEF Misplaced, ServerAt, ServerRounds
    <2> QED
      BY <1>4, <1>5, <1>7, <2>1, <2>2, InPlace
  <1> QED
    BY <1>4, <1>5, <1>6, <1>8, <1>9, <1>10

\* The terminating message arrives in a session that is complete.
LEMMA EndCompletes ==
    ASSUME Known, MemInv, ArrivalInv, Live, EndArrives, NicExecute("client")
    PROVE  Complete'
  <1>1. /\ pc' = pc /\ lost' = lost /\ bufs' = bufs /\ params' = params /\ mem' = mem
        /\ pc["client"] = "end_wait" /\ pc["server"] = "end_wait"
        /\ ClientLoss /\ ServerLoss /\ RoundInv
    BY KnownFacts, NicMoves DEF EndArrives, procVars, logVars, noteVars, Known, Nic
  <1>2. ~lost["client"] /\ ~lost["server"]
    BY <1>1 DEF ClientLoss, ServerLoss, Live, Peers
  <1>3. \A e \in Peers : bufs[e] # "none"
    BY <1>1 DEF MemInv, MemOf, Unallocated, Out, ClientEarly, ServerEarly, Peers
  <1>4. round["client"] = params.repeat + 1 /\ round["client"] > 1
    <2>1. round["client"] = params.repeat + 1
      BY <1>1 DEF RoundInv, EndLabels
    <2>2. params.repeat \in Nat /\ 1 \in 1..params.repeat
      BY KnownFacts, RoundTypes
    <2> QED
      BY <2>1, <2>2
  <1>5. \A i \in Indices("client") : Landed(i)
    BY <1>1, <1>4 DEF ArrivalInv, ClientActive, EndLabels
  <1>6. Indices("client")' = Indices("client") /\ \A i : Landed(i)' <=> Landed(i)
    BY <1>1 DEF Indices, Count, Landed, Dest, Source, Peer
  <1> QED
    BY <1>1, <1>2, <1>3, <1>5, <1>6 DEF Complete, Late, Peers

\* No NIC step takes anything away.
LEMMA CompleteKept ==
    ASSUME Known, Complete, NEW d \in Peers, Nic(d) \/ FabricFails(d)
    PROVE  Complete'
  <1>1. /\ pc' = pc /\ lost' = lost /\ bufs' = bufs /\ params' = params
        /\ \A e \in Peers : pc[e] \in Late
    BY KnownFacts, NicMoves DEF procVars, logVars, noteVars, Complete
  <1>2. mem' = mem
    <2>1. CASE NicAck(d) \/ NicTimeout(d) \/ FabricFails(d)
      BY <2>1 DEF NicAck, NicTimeout, FabricFails, memVars
    <2>2. CASE NicExecute(d) /\ d = "server"
      BY <2>2, ServerExecutes DEF MrArrives, Breaks
    <2>3. CASE NicExecute(d) /\ d = "client"
      <3>1. ~Misplaced /\ ~DataArrives /\ ~Moves
        BY <1>1 DEF Misplaced, DataArrives, Moves, Late, Peers
      <3> QED
        BY <2>3, <3>1, ClientExecutes DEF EndArrives, Breaks
    <2> QED
      BY <2>1, <2>2, <2>3 DEF Nic, Peers
  <1>3. Indices("client")' = Indices("client") /\ \A i : Landed(i)' <=> Landed(i)
    BY <1>1, <1>2 DEF Indices, Count, Landed, Dest, Source, Peer
  <1> QED
    BY <1>1, <1>3 DEF Complete

LEMMA NextEnd ==
    Known /\ MemInv /\ StepInv /\ ArrivalInv /\ EndInv /\ [Next]_vars => EndInv'
  <1> SUFFICES ASSUME Known, MemInv, StepInv, ArrivalInv, EndInv, [Next]_vars,
                      Promised', NEW e \in Peers, GotNow(e)'
               PROVE  Complete'
    BY DEF EndInv, GotNow, Peers
  <1>1. /\ IInv /\ params' = params /\ "client" \in Peers /\ "server" \in Peers
        /\ \A d \in Peers : GotNow(d) => Complete
    <2>1. params' = params
      BY KnownFacts, ClientFrame, ServerFrame, NicMoves
         DEF Next, Step, Stopped, vars, procVars
    <2>2. Promised
      BY <2>1 DEF Promised, Regular
    <2> QED
      BY <2>1, <2>2, KnownFacts DEF EndInv, GotNow
  <1>2. Promised
    BY <1>1 DEF Promised, Regular
  <1>3. /\ Indices("client")' = Indices("client")
        /\ mem' = mem => \A i : Landed(i)' <=> Landed(i)
    BY <1>1 DEF Indices, Count, Landed, Dest, Source, Peer
  <1>4. ASSUME Complete, NEW d \in Peers, ~Accept, mem' = mem,
               CompleteFor(d)', \A c \in Peers \ {d} : Kept(c)
        PROVE  Complete'
    <2>1. \A c \in Peers : CompleteFor(c)'
      BY <1>4 DEF Complete, CompleteFor, Kept
    <2> QED
      BY <1>3, <1>4, <2>1 DEF Complete, CompleteFor
  <1>5. CASE ClientStep
    <2>1. Kept("server")
      BY <1>1, <1>5, ClientFrame
    <2>2. GotNow(e)
      <3>1. CASE e = "client"
        BY <1>5, <3>1, ProcessSees
      <3>2. CASE e = "server"
        BY <2>1, <3>2 DEF GotNow, ServerGot, Kept
      <3> QED
        BY <3>1, <3>2 DEF Peers
    <2>3. Complete /\ CompleteFor("client")
      BY <1>1, <2>2 DEF Complete, CompleteFor
    <2>4. CompleteFor("client")' /\ mem' = mem /\ ~Accept
      BY <1>1, <1>5, <2>3, LateSteps
    <2> QED
      BY <1>1, <1>4, <2>1, <2>3, <2>4 DEF Peers
  <1>6. CASE ServerStep /\ ~Accept
    <2>1. Kept("client")
      BY <1>1, <1>6, ServerFrame
    <2>2. GotNow(e)
      <3>1. CASE e = "server"
        BY <1>6, <3>1, ProcessSees
      <3>2. CASE e = "client"
        BY <2>1, <3>2 DEF GotNow, ClientSent, Kept
      <3> QED
        BY <3>1, <3>2 DEF Peers
    <2>3. Complete /\ CompleteFor("server")
      BY <1>1, <2>2 DEF Complete, CompleteFor
    <2>4. CompleteFor("server")' /\ mem' = mem /\ ~Accept
      BY <1>1, <1>6, <2>3, LateSteps
    <2> QED
      BY <1>1, <1>4, <2>1, <2>3, <2>4 DEF Peers
  <1>7. CASE Accept
    <2>1. pc' = [c \in Peers |-> "allocate"] /\ sha' = sha
      BY <1>7 DEF Accept, logVars, noteVars
    <2>2. GotNow(e)
      BY <1>1, <2>1 DEF GotNow, ServerGot, ClientSent, Peers
    <2>3. \A c \in Peers : pc[c] \in Late
      BY <1>1, <2>2 DEF Complete
    <2> QED
      BY <1>1, <1>7, <2>3 DEF Accept, Late
  <1>8. CASE \E d \in Peers : Nic(d) \/ FabricFails(d)
    <2>1. PICK d \in Peers : Nic(d) \/ FabricFails(d)
      BY <1>8
    <2>2. CASE GotNow(e)
      BY <1>1, <2>1, <2>2, CompleteKept
    <2>3. CASE ~GotNow(e)
      <3>1. /\ EndArrives /\ NicExecute("client")
            /\ qp["client"].state = "rts" /\ qp["server"].state = "rts"
        BY <1>2, <2>1, <2>3, NicSees
      <3>2. Live
        BY <1>2, <3>1 DEF Live, Peers
      <3> QED
        BY <3>1, <3>2, EndCompletes
    <2> QED
      BY <2>2, <2>3
  <1>9. CASE UNCHANGED vars
    <2>1. GotNow(e)
      BY <1>9 DEF vars, GotNow, ServerGot, ClientSent
    <2> QED
      BY <1>1, <1>3, <1>9, <2>1 DEF vars, Complete
  <1> QED
    BY <1>5, <1>6, <1>7, <1>8, <1>9 DEF Next, Step, Stopped

-----------------------------------------------------------------------------
(* Messages and receives.                                                   *)

Matched(q) == \A i \in 1..Len(q.rcq) : q.rcq[i].ok => q.rcq[i].msg = q.rcq[i].buf

\* A message that is delivered meets the receive it is meant for.
LEMMA MeetsReceive ==
    ASSUME Known, StepInv, ExchangeInv, Promised, NEW d \in Peers,
           Nic(d) \/ FabricFails(d), NEW e \in Peers, NEW m \in Buffers,
           qp[e].rq # << >>, qp'[e] = Received(qp[e], m),
           Len(qp'[e].rcq) = Len(qp[e].rcq) + 1
    PROVE  m = Head(qp[e].rq)
  <1>1. /\ Accounted(qp[e]) /\ ServerAt /\ "client" \in Peers /\ "server" \in Peers
        /\ Len(qp[e].rcq) = 0
    BY KnownFacts, OneReceived
  <1>2. Received(qp[e], m).state = qp[e].state
    BY <1>1, SidesKept DEF SendSame
  <1>3. Shown(e)
    BY <1>2 DEF Shown
  <1>4. /\ NicExecute(d) /\ qp["client"].state = "rts" /\ qp["server"].state = "rts"
        /\ ~Breaks(d)
    BY <1>3, ShownByExecution
  <1>5. Live
    BY <1>4 DEF Live, Peers
  <1>6. qp'[e].rcq # qp[e].rcq /\ qp'[e] # qp[e] /\ qp'[e] # Executed(qp[e])
    <2>1. Executed(qp[e]).rcq = qp[e].rcq
      BY <1>1, SidesKept DEF RecvSame
    <2> QED
      BY <1>1, <2>1
  <1>7. ASSUME NEW x, x \in Buffers, qp'[e] = Received(qp[e], x) PROVE x = m
    <2>1. /\ qp[e] \in QueuePairs /\ qp[e].rcq = << >>
      BY <1>1, QpFields
    <2>2. \A y : Received(qp[e], y).rcq
                    = Append(qp[e].rcq, [ok |-> TRUE, buf |-> Head(qp[e].rq), msg |-> y])
      BY <2>1 DEF Received, QueuePairs
    <2>3. \A y : Received(qp[e], y).rcq[1]
                    = [ok |-> TRUE, buf |-> Head(qp[e].rq), msg |-> y]
      BY <2>1, <2>2
    <2>4. ASSUME NEW y PROVE Received(qp[e], y).rcq[1].msg = y
      <3> DEFINE c == [ok |-> TRUE, buf |-> Head(qp[e].rq), msg |-> y]
      <3>1. c.msg = y
        OBVIOUS
      <3>2. Received(qp[e], y).rcq[1] = c
        BY <2>3
      <3> QED
        BY <3>1, <3>2
    <2>5. Received(qp[e], x).rcq[1].msg = x /\ Received(qp[e], m).rcq[1].msg = m
      BY <2>4
    <2> QED
      BY <1>7, <2>5
  <1>8. CASE d = "client"
    <2>1. EndArrives \/ Misplaced \/ DataArrives \/ Moves
      BY <1>4, <1>8, ClientExecutes
    <2>2. e = "server"
      BY <1>6, <2>1 DEF EndArrives, Misplaced, DataArrives, Moves, Delivered, Peers
    <2>3. ~Moves
      BY <1>6, <2>2 DEF Moves
    <2>4. Delivered("client") /\ qp'[e] = Received(qp[e], Message("client"))
      BY <2>1, <2>2, <2>3 DEF EndArrives, Misplaced, DataArrives, Delivered, Peer
    <2>5. Message("client") \in Buffers
      BY <1>1, <1>4, <1>8, FrontFacts
    <2>6. m = Message("client")
      BY <1>7, <2>4, <2>5
    <2>7. ~Misplaced
      <3>1. Misplaced => params.verb = "send"
        BY <1>1 DEF Misplaced, ServerAt, ServerRounds
      <3> QED
        BY <1>4, <1>5, <1>8, <2>4, <3>1, InPlace
    <2>8. CASE EndArrives
      <3>1. m = Control("end") /\ pc["server"] = "end_wait"
        BY <2>6, <2>8 DEF EndArrives
      <3>2. qp[e].rq = <<Control("end")>>
        BY <2>2, <3>1, Outstanding
      <3> QED
        BY <3>1, <3>2
    <2>9. CASE DataArrives
      <3>1. Front("client").n = n["server"] /\ Front("client").kind = "data"
        BY <1>4, <1>5, <1>8, <2>4, <2>9, InPlace DEF DataArrives
      <3>2. m = [kind |-> "data", n |-> n["server"]]
        BY <2>6, <3>1 DEF Message
      <3>3. qp[e].rq = <<[kind |-> "data", n |-> n["server"]]>>
        BY <2>2, <2>9, Outstanding DEF DataArrives
      <3> QED
        BY <3>2, <3>3
    <2> QED
      BY <2>1, <2>3, <2>7, <2>8, <2>9
  <1>9. CASE d = "server"
    <2>1. MrArrives
      BY <1>4, <1>9, ServerExecutes
    <2>2. Delivered("server")
      BY <2>1 DEF MrArrives
    <2>3. e = "client" /\ qp'[e] = Received(qp[e], Message("server"))
      BY <1>6, <2>2 DEF Delivered, Peers, Peer
    <2>4. Message("server") \in Buffers
      BY <1>1, <1>4, <1>9, FrontFacts
    <2>5. m = Message("server")
      BY <1>7, <2>3, <2>4
    <2> QED
      BY <1>4, <1>5, <1>9, <2>1, <2>3, <2>5, MrInPlace
  <1> QED
    BY <1>8, <1>9 DEF Peers

\* One queue pair under a NIC step.
LEMMA NicMatches ==
    ASSUME Known, StepInv, ExchangeInv, Promised, NEW d \in Peers,
           Nic(d) \/ FabricFails(d), NEW e \in Peers, Matched(qp[e])
    PROVE  Matched(qp'[e])
  <1> DEFINE q == qp[e]
             r == qp'[e]
  <1>1. NicMove(q, r) /\ Accounted(q) /\ Len(q.rcq) \in {0, 1}
        /\ (q.rq # << >> => Len(q.rcq) = 0)
    BY KnownFacts, NicMoves, OneReceived
  <1>2. q \in QueuePairs /\ q.rcq \in Seq(RecvCompletions)
    BY <1>1, QpFields
  <1>3. CASE r.rcq = q.rcq
    BY <1>3 DEF Matched
  <1>4. CASE r = Flushed(q)
    <2>1. FlushedTo(q, r)
      BY <1>1, <1>4, FlushedFields
    <2> HIDE DEF q, r
    <2>2. Matched(q)
      BY DEF q
    <2>3. Matched(r)
      BY <2>1, <2>2 DEF FlushedTo, Matched
    <2> QED
      BY <2>3 DEF r
  <1>5. ASSUME q.rq # << >>, NEW m \in Buffers, r = Received(q, m) PROVE Matched(r)
    <2> DEFINE c == [ok |-> TRUE, buf |-> Head(q.rq), msg |-> m]
    <2>1. r.rcq = Append(q.rcq, c) /\ q.rcq = << >>
      BY <1>1, <1>2, <1>5 DEF Received, QueuePairs
    <2> HIDE DEF c
    <2>2. r.rcq = <<c>> /\ Len(r.rcq) = Len(q.rcq) + 1
      BY <2>1
    <2>3. m = Head(q.rq)
      BY <1>5, <2>2, MeetsReceive
    <2>4. c.msg = c.buf
      BY <2>3 DEF c
    <2> QED
      BY <2>2, <2>4 DEF Matched
  <1>6. r = Executed(q) \/ r = Acknowledged(q) => r.rcq = q.rcq
    <2>1. RecvSame(q, Executed(q)) /\ RecvSame(q, Acknowledged(q))
      BY <1>1, SidesKept
    <2> QED
      BY <2>1 DEF RecvSame
  <1> QED
    BY <1>1, <1>3, <1>4, <1>5, <1>6 DEF NicMove

\* One queue pair under a step of its process.
LEMMA ProcessMatches ==
    ASSUME Known, Known', NEW e \in Peers,
           \/ e = "client" /\ ClientStep
           \/ e = "server" /\ ServerStep
    PROVE  Matched(qp'[e])
  <1>1. CASE pc'[e] \in RecvWaits(e)
    <2>1. ~Successes(qp'[e].rcq)
      BY <1>1, RecvFresh
    <2> QED
      BY <2>1 DEF Successes, Matched
  <1>2. CASE pc'[e] \notin RecvWaits(e)
    <2>1. Locals'
      BY DEF Known, LocalInv, Locals, Here, Polls
    <2>2. qp'[e].rcq = << >>
      BY <1>2, <2>1 DEF Locals, At, RecvAt, RecvWaits, RecvIdle
    <2> QED
      BY <2>2 DEF Matched
  <1> QED
    BY <1>1, <1>2

\* Messages meet their receives, whatever happens next.
LEMMA NextMatch ==
    Known /\ Known' /\ StepInv /\ ExchangeInv /\ RecvMatches /\ [Next]_vars
    => RecvMatches'
  <1> SUFFICES ASSUME Known, Known', StepInv, ExchangeInv, RecvMatches, [Next]_vars,
                      Promised'
               PROVE  \A e \in Peers : Matched(qp'[e])
    BY DEF RecvMatches, Promised, Matched
  <1>1. params' = params /\ IInv
    BY KnownFacts, ClientFrame, ServerFrame, NicMoves
       DEF Next, Step, Stopped, vars, procVars
  <1>2. Promised /\ \A e \in Peers : Matched(qp[e])
    BY <1>1 DEF Promised, Regular, RecvMatches, Matched
  <1>3. CASE ClientStep
    BY <1>1, <1>2, <1>3, ProcessMatches, ClientFrame DEF Kept, Peers
  <1>4. CASE ServerStep /\ ~Accept
    BY <1>1, <1>2, <1>4, ProcessMatches, ServerFrame DEF Kept, Peers
  <1>5. CASE Accept
    BY <1>5 DEF Accept, NewQp, Matched
  <1>6. CASE \E d \in Peers : Nic(d) \/ FabricFails(d)
    BY <1>2, <1>6, NicMatches
  <1>7. CASE UNCHANGED vars
    BY <1>2, <1>7 DEF vars
  <1> QED
    BY <1>3, <1>4, <1>5, <1>6, <1>7 DEF Next, Step, Stopped

-----------------------------------------------------------------------------
(* The invariant.                                                           *)

FlowInv == /\ Known /\ MemInv /\ ResultInv /\ StepInv /\ ExchangeInv /\ ArrivalInv
           /\ EndInv /\ RecvMatches /\ BufInv

LEMMA InitKnown == Init /\ Promised => Known
  <1> SUFFICES ASSUME Init, Promised PROVE Known
    OBVIOUS
  <1>1. IInv /\ Polls /\ LocalInv
    BY InitIInv, InitLocals DEF Polls, Promised, Regular, MayFail
  <1>2. /\ StampInv
        /\ \A e \in Peers : /\ pc[e] = "start" /\ qp[e] = NewQp("none") /\ n[e] = 1
                            /\ round[e] = 1 /\ failed[e] = 0 /\ ~lost[e]
        /\ "client" \in Peers /\ "server" \in Peers
    BY InitStamps DEF Init, Peers
  <1>3. NewQp("none").state = "none" /\ Len(NewQp("none").rcq) = 0
        /\ Len(NewQp("none").sq) = 0
    BY DEF NewQp
  <1>4. QueueInv
    BY <1>2, <1>3 DEF QueueInv, Holds, RecvOk
  <1>5. LabelInv
    BY <1>2, <1>3 DEF LabelInv, ClientEarly, ServerEarly, GetMr, SendMr, ServerRounds
  <1>6. RoundInv
    BY <1>2 DEF RoundInv, ClientRounds, EndLabels, ServerRounds, ClientEarly,
       ServerEarly, GetMr
  <1>7. BurstInv /\ ClientLoss /\ ServerLoss
    BY <1>2 DEF BurstInv, ClientLoss, ServerLoss
  <1>8. ControlInv
    BY <1>2 DEF ControlInv, ControlWaits
  <1> QED
    BY <1>1, <1>2, <1>4, <1>5, <1>6, <1>7, <1>8 DEF Known

LEMMA InitFlow == Init /\ Promised => FlowInv
  <1> SUFFICES ASSUME Init, Promised PROVE FlowInv
    OBVIOUS
  <1>1. Known
    BY InitKnown
  <1>2. /\ \A e \in Peers : /\ pc[e] = "start" /\ qp[e] = NewQp("none")
                            /\ bufs[e] = "none" /\ sha[e] = << >>
                            /\ mem[e] = [i \in Indices(e) |-> <<e, 0>>]
        /\ "client" \in Peers /\ "server" \in Peers
    BY DEF Init, Peers
  <1>3. NewQp("none").state = "none" /\ Len(NewQp("none").rcq) = 0
    BY DEF NewQp
  <1>4. ~Live
    BY <1>2, <1>3 DEF Live
  <1>5. MemInv
    BY <1>2 DEF MemInv, MemOf, Unallocated, Out, ClientEarly, ServerEarly
  <1>6. ResultInv
    BY <1>2 DEF ResultInv, ResultOf
  <1>7. StepInv /\ ExchangeInv /\ ArrivalInv
    BY <1>4 DEF StepInv, ExchangeInv, ArrivalInv
  <1>8. EndInv
    BY <1>2 DEF EndInv, ServerGot, ClientSent
  <1>9. RecvMatches /\ BufInv
    <2>1. RecvMatches
      <3>1. \A e \in Peers : Len(qp[e].rcq) = 0
        BY <1>2, <1>3
      <3>2. \A e \in Peers : 1..Len(qp[e].rcq) = {}
        BY <3>1
      <3> QED
        BY <3>2 DEF RecvMatches
    <2>2. BufInv
      BY <1>2 DEF BufInv
    <2> QED
      BY <2>1, <2>2
  <1> QED
    BY <1>1, <1>5, <1>6, <1>7, <1>8, <1>9 DEF FlowInv

LEMMA NextFlow == FlowInv /\ [Next]_vars => FlowInv'
  BY NextKnown, NextMem, NextResult, NextStep, NextExchange, NextArrival, NextEnd,
     NextMatch, NextBufs DEF FlowInv, Known

\* The parameters are fixed, so a session keeps its promise or never made it.
LEMMA ParamsFixed == IInv /\ [Next]_vars => params' = params
  BY ClientFrame, ServerFrame, NicMoves DEF Next, Step, Stopped, vars, procVars

LEMMA FlowHolds == Spec => [](IInv /\ (Promised => FlowInv))
  <1>1. Init => IInv /\ (Promised => FlowInv)
    BY InitIInv, InitFlow
  <1>2. IInv /\ (Promised => FlowInv) /\ [Next]_vars => (IInv /\ (Promised => FlowInv))'
    <2> SUFFICES ASSUME IInv, Promised => FlowInv, [Next]_vars
                 PROVE  IInv' /\ (Promised' => FlowInv')
      OBVIOUS
    <2>1. IInv'
      BY NextIInv
    <2>2. Promised' => Promised
      BY ParamsFixed DEF Promised, Regular
    <2> QED
      BY <2>1, <2>2, NextFlow
  <1> QED
    BY <1>1, <1>2, PTL DEF Spec

-----------------------------------------------------------------------------
(* The theorems.                                                            *)

\* Messages meet the receives they are meant for: the i-th request of a round
\* the i-th buffer, the count, the array and the terminating message the call
\* that waits for them, for every depth of the queues, number of requests and
\* number of rounds, although nothing but the order of the requests tells the
\* two processes how far the other one is.
THEOREM MessagesMeetReceives == Spec => []RecvMatches
  <1>1. IInv /\ (Promised => FlowInv) => RecvMatches
    BY DEF FlowInv, Promised, RecvMatches
  <1> QED
    BY <1>1, FlowHolds, PTL

LEMMA MrLive == IInv /\ (Promised => FlowInv) => RemoteMrLive
  <1> SUFFICES ASSUME IInv, Promised => FlowInv, Regular({"poll", "reg"}),
                      \A e \in Peers : qp[e].state = "rts",
                      NEW j \in (qp["client"].sent + 1)..Len(qp["client"].sq),
                      qp["client"].sq[j].op # "send"
               PROVE  bufs["server"] = "reg"
    BY DEF RemoteMrLive
  <1>1. Promised /\ ~MayFail("reg")
    BY DEF Promised, Regular, MayFail
  <1>2. /\ Known /\ MemInv /\ ResultInv /\ ExchangeInv /\ EndInv /\ BufInv
        /\ Live /\ QueueInv /\ ServerAt /\ Accounted(qp["client"])
        /\ "client" \in Peers /\ "server" \in Peers
    BY <1>1, KnownFacts DEF FlowInv, Live
  <1>3. j \in 1..Len(qp["client"].sq)
    <2>1. qp["client"].sent \in Nat /\ Len(qp["client"].sq) \in Nat
      BY <1>2, QpFields
    <2> QED
      BY <2>1
  <1>4. params.verb # "send" /\ pc["client"] \in {"post", "wait"}
    <2>1. qp["client"].sq[j] \in Tagged
      BY <1>2, <1>3 DEF QueueInv, Holds
    <2>2. qp["client"].sq[j].kind = "data" /\ params.verb # "send"
      BY <2>1 DEF Tagged
    <2> QED
      BY <1>2, <1>3, <2>2, Outstanding
  <1>5. bufs["server"] \in BufStates
    BY <1>2 DEF IInv, Rest, MemTypeOK
  <1>6. bufs["server"] # "null"
    BY <1>1, <1>2 DEF MemInv, MemOf
  <1>7. pc["server"] \notin ServerEarly \union Out
    BY <1>2 DEF ServerAt
  <1>8. bufs["server"] # "freed"
    <2>1. SUFFICES ASSUME bufs["server"] = "freed" PROVE FALSE
      OBVIOUS
    <2>2. pc["server"] = "disconnect"
      BY <1>2, <1>7, <2>1 DEF BufInv, Out
    <2>3. rv["server"] \in Int
      BY <1>2 DEF IInv, Rest, ProcTypeOK
    <2>4. sha["server"] # << >>
      <3>1. ResultOf("server")
        BY <1>2 DEF ResultInv
      <3> QED
        BY <1>1, <1>2, <2>2, <2>3, <3>1 DEF ResultOf
    <2>5. Complete
      BY <1>1, <1>2, <2>4 DEF EndInv, ServerGot
    <2> QED
      BY <1>2, <1>4, <2>5 DEF Complete, Late
  <1>9. bufs["server"] # "none"
    <2>1. SUFFICES ASSUME bufs["server"] = "none" PROVE FALSE
      OBVIOUS
    <2>2. pc["server"] \in ServerLabels /\ pc["server"] \in Unallocated \union Out
      BY <1>2, <2>1 DEF MemInv, MemOf, ServerAt
    <2>3. pc["server"] = "allocate"
      BY <1>7, <2>2 DEF ServerLabels, Unallocated, Out, ClientEarly, ServerEarly,
         ServerActive, SendMr, ServerRounds, EndLabels, Leaving
    <2>4. MrSent = 0 /\ MrGot = 2
      BY <1>4, <2>3 DEF MrSent, MrGot
    <2>5. MrGot = MrSent
      BY <1>2, <1>4, <2>3 DEF ExchangeInv, ClientActive, ClientRounds, ServerActive
    <2> QED
      BY <2>4, <2>5
  <1> QED
    BY <1>5, <1>6, <1>8, <1>9 DEF BufStates

\* As long as both ends are connected, every read or write the client has
\* still to execute finds the memory region of the passive server registered:
\* neither an early deallocate_buffer nor a late allocate_buffer can race the
\* client's requests, because of the memory-region exchange before them and
\* the terminating message behind them.
THEOREM RemoteMemoryLives == Spec => []RemoteMrLive
  BY MrLive, FlowHolds, PTL

LEMMA Delivers == IInv /\ (Promised => FlowInv) => SuccessMeansDelivered
  <1> SUFFICES ASSUME IInv, Promised => FlowInv, NEW e \in Peers,
                      pc[e] = "done", rv[e] >= 0, Promised
               PROVE  ~lost["client"] /\ ~lost["server"] /\ mem["client"] = mem["server"]
    BY DEF SuccessMeansDelivered, Promised
  <1>1. MemInv /\ ResultInv /\ EndInv /\ "client" \in Peers /\ "server" \in Peers
    BY KnownFacts DEF FlowInv
  <1>2. sha[e] # << >>
    BY <1>1 DEF ResultInv, ResultOf
  <1>3. Complete
    BY <1>1, <1>2 DEF EndInv, ServerGot, ClientSent, Peers
  <1>4. /\ params.count = params.scount
        /\ \A d \in Peers : Indices(d) = Indices("client")
    BY DEF Promised, Regular, Indices, Count
  <1>5. \A d \in Peers : mem[d] \in [Indices("client") -> Values]
    BY <1>4 DEF IInv, Rest, MemTypeOK
  <1>6. \A d \in Peers : \A i \in Indices("client") : mem[d][i] = <<Source, i>>
    <2>1. \A i \in Indices("client") : mem[Dest][i] = <<Source, i>>
      BY <1>3 DEF Complete, Landed
    <2>2. \A i \in Indices("client") : mem[Source][i] = <<Source, i>>
      BY <1>1, <1>3, <1>4, SourceDest DEF Complete, MemInv, MemOf
    <2> QED
      BY <2>1, <2>2, SourceDest
  <1>7. mem["client"] = mem["server"]
    BY <1>1, <1>5, <1>6
  <1> QED
    BY <1>1, <1>3, <1>7 DEF Complete

\* run() overwrites the result of its rounds with that of the terminating
\* message, and yet a result that is not negative can be trusted: whatever
\* failed or was flushed on the way, neither process lost a request in any
\* round, and the buffers of the two hold the same contents.
THEOREM SuccessIsDelivery == Spec => []SuccessMeansDelivered
  BY Delivers, FlowHolds, PTL

-----------------------------------------------------------------------------
(* RdmaSession implements Transfer.                                         *)

Sums == {e \in Peers : sha[e] # << >>}
Outcomes == [e \in Peers |-> Outcome(e)]

\* The steps of Transfer, in the terms of the session.
ArriveStep(i) == /\ i \in Indices("client") \ Arrived
                 /\ \A j \in Indices("client") : j < i => j \in Arrived
                 /\ Sums = {} /\ Arrived' = Arrived \union {i}
                 /\ Sums' = Sums /\ Outcomes' = Outcomes

SumStep(e) == /\ Outcomes[e] = "running" /\ e \notin Sums
              /\ Arrived = Indices("client")
              /\ Sums' = Sums \union {e}
              /\ Arrived' = Arrived /\ Outcomes' = Outcomes

SucceedStep(e) == /\ Outcomes[e] = "running" /\ e \in Sums
                  /\ Outcomes' = [Outcomes EXCEPT ![e] = "ok"]
                  /\ Arrived' = Arrived /\ Sums' = Sums

FailStep(e) == /\ Outcomes[e] = "running"
               /\ Outcomes' = [Outcomes EXCEPT ![e] = "failed"]
               /\ Arrived' = Arrived /\ Sums' = Sums

Stutters == Arrived' = Arrived /\ Sums' = Sums /\ Outcomes' = Outcomes

LEMMA ArrivedHere == Arrived = {i \in Indices("client") : Landed(i)}
  BY DEF Arrived, Landed, Dest

\* No step of a process changes what has arrived.
LEMMA ProcessArrives ==
    ASSUME Known, Promised, MemInv, params' = params, NEW e \in Peers,
           \/ e = "client" /\ ClientStep
           \/ e = "server" /\ ServerStep
    PROVE  Arrived' = Arrived
  <1>1. Indices("client")' = Indices("client") /\ Dest \in Peers
    BY SourceDest DEF Indices, Count
  <1>2. CASE AllocateBuffer(e) /\ e = Dest
    <2>1. bufs[Dest] = "none"
      BY <1>1, <1>2 DEF MemInv, MemOf, Unallocated, AllocateBuffer
    <2>2. /\ \A i \in Indices("client") : ~Landed(i)
          /\ \A i \in Indices("client") : ~Landed(i)'
      BY <1>2, <2>1, NothingHere
    <2>3. Arrived = {} /\ Arrived' = {}
      BY <1>1, <2>2 DEF Arrived, Landed, Dest
    <2> QED
      BY <2>3
  <1>3. CASE mem'[Dest] = mem[Dest]
    <2>1. \A i : Landed(i)' <=> Landed(i)
      BY <1>3, HereKept
    <2> QED
      BY <1>1, <2>1 DEF Arrived, Landed, Dest
  <1> QED
    BY <1>2, <1>3, ProcessWrites

\* The other process is where it was.
LEMMA OneOutcome ==
    ASSUME NEW e \in Peers, \A d \in Peers \ {e} : Kept(d)
    PROVE  /\ \A d \in Peers \ {e} : Outcome(d)' = Outcome(d)
           /\ Outcomes' = [Outcomes EXCEPT ![e] = Outcome(e)']
           /\ Outcome(e)' = Outcome(e) => Outcomes' = Outcomes
           /\ Outcomes[e] = Outcome(e)
           /\ sha'[e] = sha[e] => Sums' = Sums
           /\ sha'[e] # << >> => Sums' = Sums \union {e}
  <1>1. \A d \in Peers \ {e} : Outcome(d)' = Outcome(d) /\ sha'[d] = sha[d]
    BY DEF Kept, Outcome, Ended
  <1>2. Outcomes' = [Outcomes EXCEPT ![e] = Outcome(e)']
    BY <1>1 DEF Outcomes
  <1>3. Outcome(e)' = Outcome(e) => Outcomes' = Outcomes
    BY <1>1 DEF Outcomes
  <1>4. sha'[e] = sha[e] => Sums' = Sums
    BY <1>1 DEF Sums
  <1>5. sha'[e] # << >> => Sums' = Sums \union {e}
    BY <1>1 DEF Sums
  <1> QED
    BY <1>1, <1>2, <1>3, <1>4, <1>5 DEF Outcomes

LEMMA ProcessImplements ==
    ASSUME FlowInv, Promised, params' = params, NEW e \in Peers,
           \A d \in Peers \ {e} : Kept(d),
           \/ e = "client" /\ ClientStep
           \/ e = "server" /\ ServerStep
    PROVE  Stutters \/ SumStep(e) \/ SucceedStep(e) \/ FailStep(e)
  <1>1. /\ Known /\ IInv /\ MemInv /\ ResultOf(e) /\ EndInv
        /\ DOMAIN sha = Peers /\ DOMAIN pc = Peers
    BY KnownFacts, TypedFunctions DEF FlowInv, Known, ResultInv
  <1>2. Arrived' = Arrived
    BY <1>1, ProcessArrives
  <1>3. ASSUME {pc[e], pc'[e]} \intersect Out = {}, sha'[e] = sha[e] PROVE Stutters
    <2>1. Outcome(e) = "running" /\ Outcome(e)' = "running"
      BY <1>3 DEF Outcome, Ended, Out
    <2> QED
      BY <1>2, <1>3, <2>1, OneOutcome DEF Stutters
  <1>4. ASSUME pc[e] \notin Out, pc'[e] \in Out, sha'[e] = sha[e],
               ~(pc'[e] = "done" /\ rv'[e] >= 0)
        PROVE  FailStep(e)
    <2>1. Outcome(e) = "running" /\ Outcome(e)' = "failed"
      BY <1>4 DEF Outcome, Ended, Out
    <2> QED
      BY <1>2, <1>4, <2>1, OneOutcome DEF FailStep
  <1>5. CASE GoesOn(e) \/ Ends(e)
    BY <1>3, <1>5 DEF GoesOn, Ends, Ending, Out
  <1>6. CASE GivesUp(e)
    BY <1>4, <1>6 DEF GivesUp, Unallocated, ClientEarly, ServerEarly, Out
  <1>7. CASE PrintSha1sum(e)
    <2>1. /\ pc[e] = "sha" /\ pc'[e] = "deallocate" /\ sha' = [sha EXCEPT ![e] = mem[e]]
      BY <1>1, <1>7, Moved DEF PrintSha1sum
    <2>2. Outcome(e) = "running" /\ Outcome(e)' = "running"
      BY <2>1 DEF Outcome, Ended
    <2>3. sha[e] = << >> /\ sha'[e] # << >>
      <3>1. sha'[e] = mem[e]
        BY <1>1, <2>1
      <3>2. mem[e] \in [Indices(e) -> Values] /\ 1 \in Indices(e)
        <4>1. Count(e) \in Nat /\ Count(e) > 0
          BY <1>1, RoundTypes DEF Count
        <4> QED
          BY <1>1, <4>1 DEF IInv, Rest, MemTypeOK, Indices
      <3>3. mem[e] # << >>
        <4>1. DOMAIN mem[e] = Indices(e) /\ DOMAIN << >> = 1..0
          BY <3>2
        <4> QED
          BY <3>2, <4>1
      <3> QED
        BY <1>1, <2>1, <3>1, <3>3 DEF ResultOf
    <2>4. Complete
      BY <1>1, <2>1 DEF EndInv, ServerGot, ClientSent, Peers
    <2>5. Arrived = Indices("client")
      BY <2>4, ArrivedHere DEF Complete
    <2>6. SumStep(e)
      BY <1>2, <2>2, <2>3, <2>5, OneOutcome DEF SumStep, Sums
    <2> QED
      BY <2>6
  <1>8. CASE pc[e] # "sha" /\ pc'[e] = "deallocate"
    BY <1>1, <1>3, <1>8, LeavesEarly DEF Ending, Out
  <1>9. CASE DeallocateBuffer(e) /\ pc'[e] = "disconnect"
    BY <1>3, <1>9 DEF DeallocateBuffer, logVars, noteVars, Out
  <1>10. CASE Disconnect(e)
    <2>1. pc[e] = "disconnect" /\ pc'[e] = "done" /\ sha' = sha /\ rv' = rv
      BY <1>1, <1>10, Moved DEF Disconnect, logVars, noteVars, procVars
    <2>2. CASE rv[e] >= 0
      <3>1. sha[e] # << >>
        BY <1>1, <2>1, <2>2 DEF ResultOf
      <3>2. Outcome(e) = "running" /\ Outcome(e)' = "ok"
        BY <2>1, <2>2 DEF Outcome, Ended
      <3>3. SucceedStep(e)
        BY <1>2, <2>1, <3>1, <3>2, OneOutcome DEF SucceedStep, Sums
      <3> QED
        BY <3>3
    <2>3. CASE ~(rv[e] >= 0)
      BY <1>4, <2>1, <2>3 DEF Out
    <2> QED
      BY <2>2, <2>3
  <1>11. CASE Crash(e) /\ sha' = sha
    <2>1. pc'[e] = "crashed" /\ bufs'[e] = "freed"
      BY <1>1, <1>11, CrashNull
    <2>2. pc[e] \notin Out
      <3>1. ~AllocateBuffer(e)
        BY <1>1, <2>1, Moved DEF AllocateBuffer, AfterAllocate, RoundStart
      <3> QED
        BY <1>1, <1>11, <2>1, <3>1, ProcessMoves DEF Unallocated, ClientEarly,
           ServerEarly
    <2> QED
      BY <1>4, <1>11, <2>1, <2>2 DEF Out
  <1> QED
    BY <1>1, <1>5, <1>6, <1>7, <1>8, <1>9, <1>10, <1>11, Exits

LEMMA NicImplements ==
    ASSUME FlowInv, Promised, params' = params, NEW d \in Peers,
           Nic(d) \/ FabricFails(d)
    PROVE  Stutters \/ \E i \in Indices("client") : ArriveStep(i)
  <1>1. /\ Known /\ IInv /\ MemInv /\ StepInv /\ ExchangeInv /\ ArrivalInv /\ EndInv
        /\ ServerAt /\ "client" \in Peers /\ "server" \in Peers
    BY KnownFacts DEF FlowInv
  <1>2. pc' = pc /\ rv' = rv /\ sha' = sha
    BY <1>1, NicMoves DEF procVars, logVars, noteVars
  <1>3. Outcomes' = Outcomes /\ Sums' = Sums
    BY <1>2 DEF Outcomes, Outcome, Ended, Sums
  <1>4. Indices("client")' = Indices("client")
    BY DEF Indices, Count
  <1>5. ASSUME mem' = mem PROVE Stutters
    <2>1. Arrived' = Arrived
      BY <1>4, <1>5 DEF Arrived, Source
    <2> QED
      BY <1>3, <2>1 DEF Stutters
  <1>6. CASE NicAck(d) \/ NicTimeout(d) \/ FabricFails(d)
    BY <1>5, <1>6 DEF NicAck, NicTimeout, FabricFails, memVars
  <1>7. CASE NicExecute(d) /\ d = "server"
    BY <1>1, <1>5, <1>7, ServerExecutes DEF MrArrives, Breaks
  <1>8. CASE NicExecute(d) /\ d = "client" /\ Breaks(d)
    BY <1>5, <1>8 DEF Breaks
  <1>9. CASE NicExecute(d) /\ d = "client" /\ ~Breaks(d)
    <2>1. qp["client"].state = "rts" /\ qp["server"].state = "rts"
      BY <1>1, <1>9, ExecuteConnected, FrontFacts DEF Peer
    <2>2. Live
      BY <2>1 DEF Live, Peers
    <2>3. ~Misplaced
      <3>1. Misplaced => params.verb = "send" /\ Delivered("client")
        BY <1>1 DEF Misplaced, ServerAt, ServerRounds
      <3> QED
        BY <1>1, <1>9, <2>2, <3>1, InPlace
    <2>4. CASE EndArrives
      BY <1>5, <2>4 DEF EndArrives
    <2>5. CASE DataArrives \/ Moves
      <3>1. ArrivesNext /\ Sent + 1 \in Indices("client")
        <4>1. ArrivesNext
          BY <1>1, <1>9, <2>2, <2>5, Arrives
        <4> QED
          BY <4>1 DEF ArrivesNext, Indices, Count
      <3>2. \A i \in Indices("client") : Landed(i)' <=> Landed(i) \/ i = Sent + 1
        BY <1>1, <3>1, HereArrives DEF Promised, Regular
      <3>3. Arrived' = Arrived \union {Sent + 1}
        BY <1>4, <3>1, <3>2 DEF Arrived, Landed, Dest
      <3>4. CASE Landed(Sent + 1)
        <4>1. Arrived' = Arrived
          BY <3>1, <3>3, <3>4, ArrivedHere
        <4> QED
          BY <1>3, <4>1 DEF Stutters
      <3>5. CASE ~Landed(Sent + 1)
        <4>1. pc["client"] \in ClientActive
          BY <2>5 DEF DataArrives, Moves, ClientActive, ClientRounds
        <4>2. \A i \in Indices("client") : Landed(i) <=> round["client"] > 1 \/ i <= Sent
          BY <1>1, <2>2, <4>1 DEF ArrivalInv
        <4>3. ~(round["client"] > 1)
          BY <3>1, <3>5, <4>2
        <4>4. \A j \in Indices("client") : j < Sent + 1 => Landed(j)
          <5>1. Sent \in Int /\ \A j \in Indices("client") : j \in Int
            BY <1>1, StepNumbers DEF Indices
          <5> QED
            BY <4>2, <4>3, <5>1
        <4>5. Sums = {}
          <5>1. SUFFICES ASSUME NEW e \in Peers, sha[e] # << >> PROVE FALSE
            BY DEF Sums
          <5>2. Complete
            BY <1>1, <5>1 DEF EndInv, ServerGot, ClientSent, Peers
          <5> QED
            BY <3>1, <3>5, <5>2 DEF Complete
        <4>6. ArriveStep(Sent + 1)
          BY <1>3, <3>1, <3>3, <3>5, <4>4, <4>5, ArrivedHere DEF ArriveStep
        <4> QED
          BY <3>1, <4>6
      <3> QED
        BY <3>4, <3>5
    <2> QED
      BY <1>1, <1>9, <2>3, <2>4, <2>5, ClientExecutes
  <1> QED
    BY <1>6, <1>7, <1>8, <1>9 DEF Nic, Peers

\* A step of a session that makes its promise is a step of Transfer or none.
LEMMA StepsImplement ==
    ASSUME FlowInv, Promised, [Next]_vars
    PROVE  \/ Stutters
           \/ \E i \in Indices("client") : ArriveStep(i)
           \/ \E e \in Peers : SumStep(e) \/ SucceedStep(e) \/ FailStep(e)
  <1>1. Known /\ IInv /\ "client" \in Peers /\ "server" \in Peers /\ params' = params
    BY KnownFacts, ParamsFixed DEF FlowInv
  <1>2. CASE ClientStep
    <2>1. \A d \in Peers \ {"client"} : Kept(d)
      BY <1>1, <1>2, ClientFrame DEF Peers
    <2> QED
      BY <1>1, <1>2, <2>1, ProcessImplements
  <1>3. CASE ServerStep /\ ~Accept
    <2>1. \A d \in Peers \ {"server"} : Kept(d)
      BY <1>1, <1>3, ServerFrame DEF Peers
    <2> QED
      BY <1>1, <1>3, <2>1, ProcessImplements
  <1>4. CASE Accept
    <2>1. /\ mem' = mem /\ sha' = sha /\ rv' = rv
          /\ \A e \in Peers : pc[e] \notin Out /\ pc'[e] = "allocate"
      BY <1>4 DEF Accept, memVars, logVars, noteVars, procVars, Peers, Out
    <2>2. Arrived' = Arrived /\ Sums' = Sums
      BY <1>1, <2>1 DEF Arrived, Source, Sums, Indices, Count
    <2>3. Outcomes' = Outcomes
      BY <2>1 DEF Outcomes, Outcome, Ended, Out
    <2> QED
      BY <2>2, <2>3 DEF Stutters
  <1>5. CASE \E d \in Peers : Nic(d) \/ FabricFails(d)
    BY <1>1, <1>5, NicImplements
  <1>6. CASE UNCHANGED vars
    BY <1>6 DEF vars, Stutters, Arrived, Source, Sums, Indices, Count, Outcomes,
       Outcome, Ended
  <1> QED
    BY <1>2, <1>3, <1>4, <1>5, <1>6 DEF Next, Step, Stopped

\* The initial states are initial states of Transfer.
LEMMA InitImplements == Init => Promise!Init
  <1> SUFFICES ASSUME Init PROVE Promise!Init
    OBVIOUS
  <1>1. Promised => Arrived = {}
    <2>1. SUFFICES ASSUME Promised PROVE Arrived = {}
      OBVIOUS
    <2>2. Known /\ MemInv /\ bufs[Dest] = "none"
      BY <2>1, InitFlow, SourceDest DEF FlowInv, Init
    <2> QED
      BY <2>1, <2>2, NothingHere, ArrivedHere
  <1>2. Sums = {}
    BY DEF Init, Sums
  <1>3. \A e \in Peers : Outcome(e) = "running"
    BY DEF Init, Outcome, Ended
  <1>4. Indices("client") \in SUBSET Nat
    BY DEF Indices
  <1> QED
    BY <1>1, <1>2, <1>3, <1>4 DEF Promise!Init, Sums

\* The steps are steps of Transfer.
LEMMA NextImplements ==
    IInv /\ (Promised => FlowInv) /\ [Next]_vars => [Promise!Next]_(Promise!vars)
  <1> SUFFICES ASSUME IInv, Promised => FlowInv, [Next]_vars
               PROVE  [Promise!Next]_(Promise!vars)
    OBVIOUS
  <1>1. params' = params /\ (Promised' <=> Promised)
        /\ Indices("client")' = Indices("client")
    BY ParamsFixed DEF Promised, Regular, Indices, Count
  <1>2. CASE ~Promised
    BY <1>1, <1>2 DEF Promise!vars
  <1>3. CASE Promised
    <2>1. CASE Stutters
      BY <1>1, <1>3, <2>1 DEF Stutters, Sums, Outcomes, Promise!vars
    <2>2. ASSUME NEW i \in Indices("client"), ArriveStep(i) PROVE Promise!Arrive(i)
      BY <1>1, <1>3, <2>2 DEF ArriveStep, Sums, Outcomes, Promise!Arrive
    <2>3. ASSUME NEW e \in Peers, SumStep(e) PROVE Promise!Sum(e)
      BY <1>1, <1>3, <2>3 DEF SumStep, Sums, Outcomes, Promise!Sum, Promise!Complete
    <2>4. ASSUME NEW e \in Peers, SucceedStep(e) PROVE Promise!Succeed(e)
      BY <1>1, <1>3, <2>4 DEF SucceedStep, Sums, Outcomes, Promise!Succeed
    <2>5. ASSUME NEW e \in Peers, FailStep(e) PROVE Promise!Fail(e)
      BY <1>1, <1>3, <2>5 DEF FailStep, Sums, Outcomes, Promise!Fail
    <2> QED
      BY <1>3, <2>1, <2>2, <2>3, <2>4, <2>5, StepsImplement DEF Promise!Next
  <1> QED
    BY <1>2, <1>3

\* The RDMA benchmark implements Transfer, whatever the verb, the mode, the
\* depth of the queues, the counts, the rounds and the failures: buffers
\* arrive each in its place and in order, none behind print_sha1sum of either
\* process, and run() returns a result that is not negative only after all of
\* them have arrived and been summed.
THEOREM SessionIsTransfer == Spec => ImplementsTransfer
  BY InitImplements, NextImplements, FlowHolds, PTL
     DEF Spec, ImplementsTransfer, Promise!Spec

-----------------------------------------------------------------------------
(***************************************************************************)
(* How a session stops.  StuckOnlyOnDeadPeer is not inductive: that a poll  *)
(* of an empty queue is no deadlock takes what a queue pair still owes its  *)
(* process.  A process that polls for a request finds its completion, or    *)
(* the request on its queue (StopAt); when the connection has failed, the   *)
(* completions left end with that of the last request posted, and once they *)
(* are polled the queue takes a whole round again (Spent).                  *)
(***************************************************************************)

\* A failed queue pair: no receive is left, the last completion is that of
\* the last request, and without completions at most k requests hold a slot.
Spent(q, k) ==
    q.state = "err" =>
        /\ q.rq = << >>
        /\ q.scq = << >> \/ q.scq[Len(q.scq)].idx = q.posted
        /\ q.scq # << >> \/ Unretired(q) <= k

\* Where a process has no connection yet, or none any more.
Unconnected == ClientEarly \union ServerEarly \union Out

\* Queue pair q of process e at label l, request k.
StopAt(e, l, q, k) ==
    /\ l \notin Unconnected => q.state \in {"rts", "err"}
    /\ l \in SendWaits(e) => Signals(q)
    /\ Spent(q, IF l = "post" THEN k - 1 ELSE 0)

Stops == \A e \in Peers : StopAt(e, pc[e], qp[e], n[e])

\* Both connect, or one of them has given up.
Meet ==
    /\ pc["client"] \in ClientEarly => pc["server"] \in ServerEarly \union {"done"}
    /\ pc["server"] \in ServerEarly => /\ pc["client"] \in ClientEarly \union {"done"}
                                       /\ qp["client"].state # "rts"

\* The polling is reliable, and a round fits in the send queue.
Fits == Polls /\ params.count <= MAX_WR

StopInv == Meet /\ (Fits => Stops)

-----------------------------------------------------------------------------
(* One queue pair.                                                          *)

\* The completions of a flush: those there were, then one per request.
LEMMA FlushedCompletions ==
    ASSUME NEW q, Accounted(q)
    PROVE  LET r == Flushed(q) IN
           /\ r.scq \in Seq(SendCompletions) /\ r.posted = q.posted
           /\ Len(r.scq) = Len(q.scq) + Len(q.sq)
           /\ \A i \in 1..Len(q.scq) : r.scq[i] = q.scq[i]
           /\ q.sq # << >> => r.scq[Len(r.scq)].idx = q.posted
  <1> DEFINE f == [i \in 1..Len(q.sq) |-> [ok |-> FALSE, idx |-> q.sq[i].idx]]
             r == Flushed(q)
  <1>1. /\ q \in QueuePairs /\ q.scq \in Seq(SendCompletions)
        /\ Len(q.scq) \in Nat /\ Len(q.sq) \in Nat /\ q.posted \in Nat
    BY QpFields
  <1>2. r.posted = q.posted /\ r.scq = q.scq \o f
    BY <1>1 DEF Flushed, QueuePairs
  <1>3. Len(f) = Len(q.sq) /\ \A i \in 1..Len(q.sq) : f[i].idx = q.sq[i].idx
    BY <1>1
  <1>4. f \in Seq(SendCompletions)
    <2>1. \A i \in 1..Len(q.sq) :
             [ok |-> FALSE, idx |-> q.sq[i].idx] \in SendCompletions
      <3> TAKE i \in 1..Len(q.sq)
      <3>1. q.sq[i] \in WorkRequests
        BY QpFields
      <3> QED
        BY <3>1 DEF WorkRequests, SendCompletions
    <2> QED
      BY <1>1, <2>1
  <1> HIDE DEF f, r
  <1>5. /\ Len(q.scq \o f) = Len(q.scq) + Len(f)
        /\ \A i \in 1..Len(q.scq) : (q.scq \o f)[i] = q.scq[i]
        /\ \A i \in 1..Len(f) : (q.scq \o f)[Len(q.scq) + i] = f[i]
    BY <1>1, <1>4, ConcatProperties
  <1>6. q.scq \o f \in Seq(SendCompletions)
    BY <1>1, <1>4
  <1>7. ASSUME q.sq # << >> PROVE r.scq[Len(r.scq)].idx = q.posted
    <2>1. Len(q.sq) \in 1..Len(q.sq)
      BY <1>1, <1>7, QpFields
    <2>2. q.sq[Len(q.sq)].idx = (q.posted - Len(q.sq)) + Len(q.sq)
      BY <2>1, QpFields DEF SendAccounting, Consecutive
    <2>3. q.sq[Len(q.sq)].idx = q.posted
      BY <1>1, <2>2
    <2>4. r.scq[Len(r.scq)] = f[Len(q.sq)]
      BY <1>2, <1>3, <1>5, <2>1
    <2> QED
      BY <1>3, <2>1, <2>3, <2>4
  <1> QED
    BY <1>2, <1>3, <1>5, <1>6, <1>7 DEF r

\* The receive side of a failed queue pair accepts and gives back nothing.
LEMMA RecvSpent ==
    ASSUME NEW q, Accounted(q), NEW k, Spent(q, k)
    PROVE  /\ Spent(PollRecv(q), k)
           /\ \A kind, i : Spent(PostRecv(q, kind, i), k)
  <1>1. q \in QueuePairs
    BY QpFields
  <1>2. PollRecv(q).rq = q.rq
    BY <1>1 DEF PollRecv, QueuePairs
  <1>3. \A kind, i : q.state = "err" => PostRecv(q, kind, i).rq = q.rq
    BY <1>1 DEF PostRecv, QueuePairs
  <1>4. SendSame(q, PollRecv(q)) /\ \A kind, i : SendSame(q, PostRecv(q, kind, i))
    BY SidesKept
  <1> QED
    BY <1>2, <1>3, <1>4 DEF Spent, SendSame, Unretired

\* A poll that takes the last completion frees every slot.
LEMMA PollSpent ==
    ASSUME NEW q, Accounted(q), q.scq # << >>, NEW k, Spent(q, k)
    PROVE  Spent(PollSend(q), 0)
  <1> DEFINE r == PollSend(q)
  <1>1. /\ q \in QueuePairs /\ q.scq \in Seq(SendCompletions)
        /\ Len(q.scq) \in Nat /\ Len(q.scq) > 0 /\ Head(q.scq) = q.scq[1]
        /\ q.posted \in Nat
    BY QpFields
  <1>2. /\ r.state = q.state /\ r.rq = q.rq /\ r.scq = Tail(q.scq)
        /\ r.posted = q.posted /\ r.retired = Head(q.scq).idx
    BY <1>1 DEF PollSend, QueuePairs
  <1> HIDE DEF r
  <1> SUFFICES ASSUME q.state = "err" PROVE Spent(r, 0)
    BY <1>2 DEF r, Spent
  <1>3. q.rq = << >> /\ q.scq[Len(q.scq)].idx = q.posted
    BY DEF Spent
  <1>31. /\ r.scq \in Seq(SendCompletions) /\ Len(r.scq) = Len(q.scq) - 1
        /\ \A i \in 1..Len(r.scq) : r.scq[i] = q.scq[i + 1]
    BY <1>1, <1>2
  <1>4. CASE Len(q.scq) = 1
    <2>1. r.retired = r.posted
      BY <1>1, <1>2, <1>3, <1>4
    <2>2. r.scq = << >>
      BY <1>4, <1>31
    <2> QED
      BY <1>1, <1>2, <1>3, <2>1, <2>2 DEF Spent, Unretired
  <1>5. CASE Len(q.scq) # 1
    <2>1. /\ Len(r.scq) \in 1..Len(r.scq) /\ Len(r.scq) + 1 = Len(q.scq)
      <3>1. \A a, b \in Nat : a > 0 /\ a # 1 /\ b = a - 1 => b \in 1..b /\ b + 1 = a
        OBVIOUS
      <3>2. Len(r.scq) \in Nat
        BY <1>31
      <3> QED
        BY <1>1, <1>5, <1>31, <3>1, <3>2
    <2>2. r.scq # << >> /\ r.scq[Len(r.scq)] = q.scq[Len(q.scq)]
      BY <1>31, <2>1
    <2> QED
      BY <1>2, <1>3, <2>2 DEF Spent
  <1> QED
    BY <1>4, <1>5

\* A request is accepted, or refused by a queue that has completions.
LEMMA PostSpent ==
    ASSUME NEW q, Accounted(q), NEW op \in {"send", "read", "write"},
           NEW kind \in Kinds, NEW i \in Nat, NEW sig \in BOOLEAN,
           NEW k \in Nat, Spent(q, k)
    PROVE  LET r == PostSend(q, op, kind, i, sig) IN
           /\ Spent(r, k + 1) /\ r.state = q.state
           /\ q.state = "err" /\ k < MAX_WR => Spent(r, 0) /\ Signals(r)
           /\ CanPost(q) => Spent(r, 0) /\ (sig => Signals(r))
  <1> DEFINE r == PostSend(q, op, kind, i, sig)
             c == [ok |-> FALSE, idx |-> q.posted + 1]
             wr == [op |-> op, kind |-> kind, n |-> i, sig |-> sig,
                    idx |-> q.posted + 1]
  <1>1. /\ q \in QueuePairs /\ q.scq \in Seq(SendCompletions)
        /\ q.posted \in Nat /\ q.retired \in Nat /\ Len(q.sq) \in Nat
        /\ q.sq \in Seq(WorkRequests)
    BY QpFields
  <1>2. c \in SendCompletions /\ wr \in WorkRequests /\ wr.sig = sig /\ c.idx = q.posted + 1
    BY <1>1 DEF SendCompletions, WorkRequests
  <1>3. Unretired(q) \in Nat
    BY CompletionsUnretired
  <1>4. CASE ~CanPost(q)
    <2>1. r = q
      BY <1>4 DEF PostSend
    <2>2. Spent(q, k + 1)
      BY <1>3 DEF Spent
    <2>3. ASSUME q.state = "err", k < MAX_WR PROVE Spent(q, 0) /\ Signals(q)
      <3>1. q.scq # << >>
        BY <1>3, <1>4, <2>3, MaxWrAssumption DEF Spent, CanPost, Unretired
      <3> QED
        BY <3>1 DEF Spent, Signals
    <2> QED
      BY <1>4, <2>1, <2>2, <2>3
  <1>5. CASE CanPost(q) /\ q.state = "err"
    <2>1. /\ r.state = q.state /\ r.rq = q.rq
          /\ r.posted = q.posted + 1 /\ r.scq = Append(q.scq, c)
      BY <1>1, <1>5 DEF PostSend, QueuePairs
    <2> HIDE DEF r, c
    <2>2. r.scq # << >> /\ r.scq[Len(r.scq)] = c
      <3>1. /\ Len(r.scq) = Len(q.scq) + 1 /\ r.scq # << >> /\ Len(q.scq) \in Nat
            /\ \A j \in 1..Len(r.scq) :
                  \/ j \in 1..Len(q.scq) /\ r.scq[j] = q.scq[j]
                  \/ j = Len(q.scq) + 1 /\ r.scq[j] = c
        <4>1. Len(q.scq) \in Nat
          BY <1>1
        <4>2. LET s == Append(q.scq, c) IN
              /\ Len(s) = Len(q.scq) + 1 /\ s # << >>
              /\ \A j \in 1..Len(s) : \/ j \in 1..Len(q.scq) /\ s[j] = q.scq[j]
                                      \/ j = Len(q.scq) + 1 /\ s[j] = c
          BY <1>1, <1>2, AppendEntries, Zenon
        <4> QED
          BY <2>1, <4>1, <4>2, Zenon
      <3>2. Len(r.scq) \in 1..Len(r.scq) /\ Len(r.scq) \notin 1..Len(q.scq)
        BY <3>1
      <3> QED
        BY <3>1, <3>2
    <2>3. \A x : Spent(r, x)
      BY <1>2, <2>1, <2>2 DEF Spent
    <2> QED
      BY <2>1, <2>2, <2>3 DEF r, Signals
  <1>6. CASE CanPost(q) /\ q.state # "err"
    <2>1. r.state = q.state /\ r.sq = Append(q.sq, wr)
      BY <1>1, <1>6 DEF PostSend, QueuePairs
    <2> HIDE DEF r, wr
    <2>2. Len(r.sq) \in 1..Len(r.sq) /\ r.sq[Len(r.sq)] = wr
      BY <1>1, <1>2, <2>1
    <2>3. sig => Signals(r)
      BY <1>2, <2>2 DEF Signals
    <2> QED
      BY <1>6, <2>1, <2>3 DEF r, Spent
  <1> QED
    BY <1>4, <1>5, <1>6

\* What a NIC does to a queue pair whose process posts or polls.
LEMMA NicSpent ==
    ASSUME NEW q, Accounted(q), FailuresLast(q), NEW r, NicMove(q, r), NEW k \in Nat,
           Spent(q, k), NEW kind,
           Posting(q, kind, k) \/ (Awaiting(q, kind) /\ Signals(q))
    PROVE  /\ Spent(r, k)
           /\ Awaiting(q, kind) /\ Signals(q) => Signals(r)
  <1>1. /\ q \in QueuePairs /\ q.scq \in Seq(SendCompletions) /\ Len(q.scq) \in Nat
        /\ q.sq \in Seq(WorkRequests) /\ Len(q.sq) \in Nat /\ q.sent \in Nat
        /\ q.state = "err" => q.sq = << >>
        /\ q.sent <= Len(q.sq) /\ q.posted \in Nat /\ q.retired \in Nat
    BY QpFields DEF SendAccounting
  <1>2. CASE q.state = "rts" /\ r = Flushed(q)
    <2>1. /\ r.state = "err" /\ r.sq = << >> /\ r.rq = << >>
          /\ r.posted = q.posted /\ r.retired = q.retired
      BY <1>2, FlushedFields DEF FlushedTo
    <2>2. /\ r.scq \in Seq(SendCompletions) /\ Len(r.scq) = Len(q.scq) + Len(q.sq)
          /\ \A i \in 1..Len(q.scq) : r.scq[i] = q.scq[i]
          /\ q.sq # << >> => r.scq[Len(r.scq)].idx = q.posted
      BY <1>2, FlushedCompletions
    <2>3. \A j \in 1..Len(q.scq) : q.scq[j].ok
      BY <1>2 DEF FailuresLast
    <2>4. CASE q.sq # << >>
      <3>1. r.scq # << >>
        <4>1. Len(q.sq) > 0
          BY <1>1, <2>4
        <4>2. Len(r.scq) > 0
          <5>1. \A a, b : a \in Nat /\ b \in Nat /\ b > 0 => a + b > 0
            OBVIOUS
          <5> QED
            BY <1>1, <2>2, <4>1, <5>1
        <4> QED
          BY <4>2
      <3> QED
        BY <2>1, <2>2, <2>4, <3>1 DEF Spent, Signals
    <2>5. CASE q.sq = << >>
      <3>1. Len(q.sq) = 0 /\ Len(r.scq) = Len(q.scq)
        BY <1>1, <2>2, <2>5
      <3>2. CASE q.scq = << >>
        <4>1. r.scq = << >> /\ ~Signals(q)
          BY <1>1, <2>2, <2>5, <3>1, <3>2 DEF Signals
        <4>2. Unretired(r) <= k
          BY <1>2, <2>1, <4>1 DEF Posting, Unretired
        <4> QED
          BY <2>1, <4>1, <4>2 DEF Spent
      <3>3. CASE q.scq # << >>
        <4>1. Len(q.scq) \in 1..Len(q.scq) /\ r.scq # << >>
          BY <1>1, <2>2, <3>1, <3>3
        <4>2. Awaiting(q, kind)
          BY <2>3, <4>1 DEF Posting
        <4>3. r.scq[Len(r.scq)].idx = r.posted
          BY <2>1, <2>2, <2>3, <3>1, <4>1, <4>2 DEF Awaiting
        <4> QED
          BY <2>1, <4>1, <4>3 DEF Spent, Signals
      <3> QED
        BY <3>2, <3>3
    <2> QED
      BY <2>4, <2>5
  <1>3. CASE q.sent > 0 /\ r = Acknowledged(q)
    <2>1. r.state = q.state /\ Len(q.sq) > 0
      BY <1>3, AcknowledgedFields DEF AckedTo
    <2>2. q.state # "err"
      BY <1>1, <2>1
    <2>3. Awaiting(q, kind) /\ Signals(q) => Signals(r)
      <3> SUFFICES ASSUME Awaiting(q, kind), Signals(q) PROVE Signals(r)
        OBVIOUS
      <3>1. AckedTo(q, r)
        BY <1>3, AcknowledgedFields
      <3>2. CASE q.sq[1].sig
        <4>1. PICK c : r.scq = Append(q.scq, c) /\ c = [ok |-> TRUE, idx |-> q.sq[1].idx]
          BY <3>1, <3>2, Zenon DEF AckedTo
        <4>2. r.scq # << >>
          <5>1. c \in SendCompletions
            <6>1. 1 \in 1..Len(q.sq)
              BY <1>1, <2>1
            <6>2. q.sq[1] \in WorkRequests
              BY <1>1, <6>1
            <6> QED
              BY <4>1, <6>2 DEF WorkRequests, SendCompletions
          <5>2. Append(q.scq, c) # << >>
            BY <1>1, <5>1, AppendEntries
          <5> QED
            BY <4>1, <5>2
        <4> QED
          BY <4>2 DEF Signals
      <3>3. CASE ~q.sq[1].sig
        <4>1. /\ r.scq = q.scq /\ Len(r.sq) = Len(q.sq) - 1
              /\ \A j \in 1..Len(r.sq) : r.sq[j] = q.sq[j + 1]
          BY <3>1, <3>3 DEF AckedTo
        <4>2. CASE q.scq # << >>
          BY <4>1, <4>2 DEF Signals
        <4>3. ASSUME NEW j \in 1..Len(q.sq), q.sq[j].sig PROVE Signals(r)
          <5>1. j # 1
            BY <3>3, <4>3
          <5>2. j - 1 \in 1..Len(r.sq) /\ (j - 1) + 1 = j
            BY <1>1, <4>1, <5>1
          <5>3. r.sq[j - 1] = q.sq[j]
            BY <4>1, <5>2
          <5> QED
            BY <4>3, <5>2, <5>3 DEF Signals
        <4> QED
          BY <4>2, <4>3 DEF Signals
      <3> QED
        BY <3>2, <3>3
    <2> QED
      BY <2>1, <2>2, <2>3 DEF Spent
  <1>4. CASE SendSame(q, r)
    <2>1. q.state = "err" => r.rq = q.rq
      <3> SUFFICES ASSUME q.state = "err" PROVE r.rq = q.rq
        OBVIOUS
      <3>1. q.rq = << >> /\ q.sq = << >> /\ ~(q.sent > 0) /\ ~(q.sent < Len(q.sq))
        BY <1>1 DEF Spent
      <3> QED
        BY <3>1 DEF NicMove
    <2> QED
      BY <1>4, <2>1, SendPhasesSame DEF Spent, SendSame, Unretired
  <1> QED
    BY <1>2, <1>3, <1>4, NicMoveSend

-----------------------------------------------------------------------------
(* The steps of a process.                                                  *)

\* One process moves.
LEMMA StopActor ==
    ASSUME IInv, Stops, NEW e \in Peers, NEW l, NEW q,
           pc' = [pc EXCEPT ![e] = l], qp' = [qp EXCEPT ![e] = q],
           \A d \in Peers \ {e} : n'[d] = n[d], StopAt(e, l, q, n'[e])
    PROVE  Stops'
  <1>1. \A d \in Peers : /\ pc'[d] = IF d = e THEN l ELSE pc[d]
                         /\ qp'[d] = IF d = e THEN q ELSE qp[d]
    BY TypedFunctions
  <1>2. \A d \in Peers : StopAt(d, pc'[d], qp'[d], n'[d])
    BY <1>1 DEF Stops
  <1>3. Stops' <=> \A d \in Peers : StopAt(d, pc'[d], qp'[d], n'[d])
    BY DEF Stops, StopAt, Spent, Signals, Unretired, SendWaits
  <1> QED
    BY <1>2, <1>3

\* What the steps below start from.
LEMMA StopFacts ==
    ASSUME IInv, Stops, NEW e \in Peers
    PROVE  /\ pc[e] \notin Unconnected => qp[e].state \in {"rts", "err"}
           /\ pc[e] # "post" => Spent(qp[e], 0)
           /\ Accounted(qp[e]) /\ n \in [Peers -> Nat] /\ n[e] > 0
  <1>1. StopAt(e, pc[e], qp[e], n[e])
    BY DEF Stops
  <1>2. Accounted(qp[e])
    BY DEF IInv, QpInv, Good
  <1>3. n \in [Peers -> Nat] /\ n[e] \in Indices(e)
    BY DEF IInv, Rest, ProcTypeOK
  <1> QED
    BY <1>1, <1>2, <1>3 DEF StopAt, Indices

\* It comes to a label where it does not poll for a request.
LEMMA StopLands ==
    ASSUME IInv, Stops, NEW e \in Peers, NEW l, l \notin SendWaits(e), NEW q,
           Accounted(q), Spent(q, 0), l \in Unconnected \/ q.state \in {"rts", "err"},
           pc' = [pc EXCEPT ![e] = l], qp' = [qp EXCEPT ![e] = q],
           n' \in [Peers -> Nat], n'[e] > 0, \A d \in Peers \ {e} : n'[d] = n[d]
    PROVE  Stops'
  <1>1. n'[e] - 1 \in Nat /\ Unretired(q) \in Nat
    BY CompletionsUnretired
  <1>2. Spent(q, n'[e] - 1)
    BY <1>1 DEF Spent
  <1>3. StopAt(e, l, q, n'[e])
    BY <1>2 DEF StopAt
  <1> QED
    BY <1>3, StopActor

\* The same, when the index stays.
LEMMA StopLandsSame ==
    ASSUME IInv, Stops, NEW e \in Peers, NEW l, l \notin SendWaits(e), NEW q,
           Accounted(q), Spent(q, 0), l \in Unconnected \/ q.state \in {"rts", "err"},
           pc' = [pc EXCEPT ![e] = l], qp' = [qp EXCEPT ![e] = q], n' = n
    PROVE  Stops'
  <1>1. n' \in [Peers -> Nat] /\ n'[e] > 0 /\ \A d \in Peers \ {e} : n'[d] = n[d]
    BY StopFacts
  <1> QED
    BY <1>1, StopLands

\* It moves on without touching its queue pair.
LEMMA StopMoves ==
    ASSUME IInv, Stops, NEW e \in Peers, NEW l, l \notin SendWaits(e),
           pc[e] # "post", l \in Unconnected \/ pc[e] \notin Unconnected,
           pc' = [pc EXCEPT ![e] = l], qp' = qp, n' = n
    PROVE  Stops'
  <1>1. qp' = [qp EXCEPT ![e] = qp[e]]
    BY DEF IInv, QpInv
  <1>2. /\ Accounted(qp[e]) /\ Spent(qp[e], 0)
        /\ l \in Unconnected \/ qp[e].state \in {"rts", "err"}
    BY StopFacts
  <1> QED
    BY <1>1, <1>2, StopLandsSame

\* Its endpoint is a new one that is not connected, or a destroyed one.
LEMMA StopLeaves ==
    ASSUME IInv, Stops, NEW e \in Peers, NEW l \in Unconnected, NEW q, Accounted(q),
           q.state # "err",
           pc' = [pc EXCEPT ![e] = l], qp' = [qp EXCEPT ![e] = q], n' = n
    PROVE  Stops'
  <1>1. l \notin SendWaits(e)
    BY DEF Unconnected, ClientEarly, ServerEarly, Out, SendWaits
  <1>2. Spent(q, 0)
    BY DEF Spent
  <1> QED
    BY <1>1, <1>2, StopLandsSame

\* A process that dies.
LEMMA StopCrash ==
    ASSUME IInv, Stops, NEW e \in Peers, Crash(e), n' = n
    PROVE  Stops'
  <1>1. /\ pc' = [pc EXCEPT ![e] = "crashed"]
        /\ qp' = [qp EXCEPT ![e] = Destroyed(qp[e])]
    BY DEF Crash, Goto, SetQp
  <1>2. "crashed" \in Unconnected
    BY DEF Unconnected, Out
  <1>3. Accounted(Destroyed(qp[e])) /\ Destroyed(qp[e]).state # "err"
    BY QuietEndpoints, EndpointStates
  <1> QED
    BY <1>1, <1>2, <1>3, StopLeaves

\* The labels control goes to are not those of a poll for a request.
LEMMA NoSendWait ==
    ASSUME NEW e \in Peers
    PROVE  /\ RoundStart(e) \notin SendWaits(e) /\ AfterAllocate(e) \notin SendWaits(e)
           /\ AfterRound(e) \notin SendWaits(e)
           /\ (Settled \union {"post"}) \intersect SendWaits(e) = {}
           /\ RecvWaits(e) \intersect SendWaits(e) = {}
           /\ "post" \notin RecvWaits(e) \union SendWaits(e)
           /\ (RecvWaits(e) \union SendWaits(e)) \intersect Unconnected = {}
           /\ {"allocate", "get_mr", "send_mr", "post", "report", "recv_post",
               "end_post", "sha", "deallocate", "disconnect"} \intersect Unconnected = {}
           /\ {"start", "tos", "connect", "connecting", "get_request", "done",
               "crashed"} \subseteq Unconnected
  <1>1. {RoundStart(e), AfterAllocate(e), AfterRound(e)} \subseteq Settled \union {"post"}
    BY NextLabels
  <1>2. /\ (Settled \union {"post"}) \intersect SendWaits(e) = {}
        /\ RecvWaits(e) \intersect SendWaits(e) = {}
        /\ "post" \notin RecvWaits(e) \union SendWaits(e)
    BY DEF Settled, SendWaits, RecvWaits, Peers
  <1>3. (RecvWaits(e) \union SendWaits(e)) \intersect Unconnected = {}
    BY DEF SendWaits, RecvWaits, Unconnected, ClientEarly, ServerEarly, Out
  <1>4. /\ {"allocate", "get_mr", "send_mr", "post", "report", "recv_post",
            "end_post", "sha", "deallocate", "disconnect"} \intersect Unconnected = {}
        /\ {"start", "tos", "connect", "connecting", "get_request", "done",
            "crashed"} \subseteq Unconnected
    BY DEF Unconnected, ClientEarly, ServerEarly, Out
  <1> QED
    BY <1>1, <1>2, <1>3, <1>4

\* The steps that set the connection up, and those that only move on.
LEMMA SetupStops ==
    ASSUME IInv, Stops,
           \/ ClientCreateEp \/ SetTos \/ RdmaConnect \/ Listen \/ Accept
           \/ AcceptFails \/ Report
           \/ \E e \in Peers : \/ AllocateBuffer(e) \/ NullMrCrash(e)
                               \/ PrintSha1sum(e) \/ DeallocateBuffer(e)
                               \/ Disconnect(e)
    PROVE  Stops'
  <1>1. "client" \in Peers /\ "server" \in Peers
    BY DEF Peers
  <1>2. {"none", "idle", "rts", "gone"} \subseteq QpStates
    BY DEF QpStates
  <1>3. ASSUME NEW e \in Peers
        PROVE  \A l \in {"start", "tos", "connect", "connecting", "get_request",
                  "allocate", "report", "sha", "deallocate", "disconnect", "done"} :
                  l \notin SendWaits(e) /\ l # "post"
    BY DEF SendWaits
  <1>4. CASE ClientCreateEp
    <2>1. pc["client"] = "start" /\ n' = n
      BY <1>4 DEF ClientCreateEp
    <2>2. CASE qp' = [qp EXCEPT !["client"] = NewQp("idle")]
               /\ pc' = [pc EXCEPT !["client"] = "tos"]
      <3>1. Accounted(NewQp("idle")) /\ NewQp("idle").state # "err"
        BY <1>1, <1>2, QuietEndpoints, EndpointStates
      <3> QED
        BY <1>1, <2>1, <2>2, <3>1, StopLeaves, NoSendWait
    <2>3. CASE qp' = qp /\ pc' = [pc EXCEPT !["client"] = "done"]
      BY <1>1, <1>3, <2>1, <2>3, StopMoves, NoSendWait
    <2> QED
      BY <1>4, <2>2, <2>3 DEF ClientCreateEp, SetQp, Goto
  <1>5. CASE SetTos
    <2>1. /\ pc["client"] = "tos" /\ n' = n /\ qp' = qp
          /\ \E l \in {"connect", "done"} : pc' = [pc EXCEPT !["client"] = l]
      BY <1>5 DEF SetTos, Goto
    <2> QED
      BY <1>1, <1>3, <2>1, StopMoves, NoSendWait
  <1>6. CASE RdmaConnect
    <2>1. n' = n /\ pc["client"] \in {"connect", "connecting"}
      BY <1>6 DEF RdmaConnect
    <2>2. CASE qp' = qp /\ pc' = [pc EXCEPT !["client"] = "connecting"]
      BY <1>1, <1>3, <2>1, <2>2, StopMoves, NoSendWait
    <2>3. CASE qp' = [qp EXCEPT !["client"] = Destroyed(qp["client"])]
               /\ pc' = [pc EXCEPT !["client"] = "done"]
      <3>1. Accounted(Destroyed(qp["client"])) /\ Destroyed(qp["client"]).state # "err"
        BY <1>1, QuietEndpoints, EndpointStates
      <3> QED
        BY <1>1, <2>1, <2>3, <3>1, StopLeaves, NoSendWait
    <2> QED
      BY <1>6, <2>2, <2>3 DEF RdmaConnect, ConnectFails, SetQp, Goto
  <1>7. CASE Listen
    <2>1. /\ pc["server"] = "start" /\ n' = n /\ qp' = qp
          /\ \E l \in {"get_request", "done"} : pc' = [pc EXCEPT !["server"] = l]
      BY <1>7 DEF Listen, Goto
    <2> QED
      BY <1>1, <1>3, <2>1, StopMoves, NoSendWait
  <1>8. CASE Accept
    <2>1. \A e \in Peers : pc'[e] = "allocate" /\ qp'[e] = NewQp("rts")
      BY <1>8 DEF Accept
    <2>2. \A e \in Peers : StopAt(e, pc'[e], qp'[e], n'[e])
      BY <1>3, <2>1, EndpointStates DEF StopAt, Spent
    <2>3. Stops' <=> \A d \in Peers : StopAt(d, pc'[d], qp'[d], n'[d])
      BY DEF Stops, StopAt, Spent, Signals, Unretired, SendWaits
    <2> QED
      BY <2>2, <2>3
  <1>9. CASE AcceptFails
    <2>1. PICK s \in {"none", "gone"} : qp' = [qp EXCEPT !["server"] = NewQp(s)]
      BY <1>9 DEF AcceptFails, SetQp
    <2>2. n' = n /\ pc' = [pc EXCEPT !["server"] = "done"]
      BY <1>9 DEF AcceptFails, Goto
    <2>3. Accounted(NewQp(s)) /\ NewQp(s).state # "err"
      BY <1>1, <1>2, <2>1, QuietEndpoints, EndpointStates
    <2> QED
      BY <1>1, <2>1, <2>2, <2>3, StopLeaves, NoSendWait
  <1>10. CASE Report
    <2>1. /\ pc["client"] = "report" /\ n' = n /\ qp' = qp
          /\ pc' = [pc EXCEPT !["client"] = AfterRound("client")]
      BY <1>10 DEF Report, Goto
    <2> QED
      BY <1>1, <1>3, <2>1, StopMoves, NoSendWait
  <1>11. ASSUME NEW e \in Peers, AllocateBuffer(e) PROVE Stops'
    <2>1. /\ pc[e] = "allocate" /\ n' = n /\ qp' = qp
          /\ pc' = [pc EXCEPT ![e] = AfterAllocate(e)]
      BY <1>11 DEF AllocateBuffer, Goto
    <2> QED
      BY <1>3, <2>1, StopMoves, NoSendWait
  <1>12. ASSUME NEW e \in Peers, NullMrCrash(e) PROVE Stops'
    BY <1>12, StopCrash DEF NullMrCrash, procVars
  <1>13. ASSUME NEW e \in Peers, PrintSha1sum(e) PROVE Stops'
    <2>1. /\ pc[e] = "sha" /\ n' = n /\ qp' = qp
          /\ pc' = [pc EXCEPT ![e] = "deallocate"]
      BY <1>13 DEF PrintSha1sum, Goto, procVars
    <2> QED
      BY <1>3, <2>1, StopMoves, NoSendWait
  <1>14. ASSUME NEW e \in Peers, DeallocateBuffer(e) PROVE Stops'
    <2>1. pc[e] = "deallocate" /\ n' = n
      BY <1>14 DEF DeallocateBuffer, procVars
    <2>2. Crash(e) \/ (qp' = qp /\ pc' = [pc EXCEPT ![e] = "disconnect"])
      BY <1>14 DEF DeallocateBuffer, Goto
    <2>3. CASE Crash(e)
      BY <2>1, <2>3, StopCrash
    <2>4. CASE qp' = qp /\ pc' = [pc EXCEPT ![e] = "disconnect"]
      BY <1>3, <2>1, <2>4, StopMoves, NoSendWait
    <2> QED
      BY <2>2, <2>3, <2>4
  <1>15. ASSUME NEW e \in Peers, Disconnect(e) PROVE Stops'
    <2>1. /\ n' = n /\ pc' = [pc EXCEPT ![e] = "done"]
          /\ qp' = [qp EXCEPT ![e] = Destroyed(qp[e])]
      BY <1>15 DEF Disconnect, Goto, SetQp, procVars
    <2>2. Accounted(Destroyed(qp[e])) /\ Destroyed(qp[e]).state # "err"
      BY QuietEndpoints, EndpointStates
    <2> QED
      BY <2>1, <2>2, StopLeaves, NoSendWait
  <1> QED
    BY <1>4, <1>5, <1>6, <1>7, <1>8, <1>9, <1>10, <1>11, <1>12, <1>13, <1>14, <1>15

\* A process polls for a message.
LEMMA StopReceives ==
    ASSUME IInv, Stops, Polls, Locals, NEW e \in Peers, pc[e] \in RecvWaits(e),
           NEW c \in RecvComp(e)
    PROVE  /\ Accounted(c.q) /\ Spent(c.q, 0) /\ c.q.state \in {"rts", "err"}
           /\ \A kind, i : /\ Spent(PostRecv(c.q, kind, i), 0)
                           /\ PostRecv(c.q, kind, i).state = c.q.state
  <1>1. Good(e, qp[e]) /\ Accounted(qp[e]) /\ At(e, pc[e], qp[e], n[e])
    BY StepFacts
  <1>2. c.q = PollRecv(qp[e]) /\ Accounted(c.q)
    BY <1>1, RecvPolled, PollsWork
  <1>3. Spent(qp[e], 0) /\ qp[e].state \in {"rts", "err"}
    BY StopFacts, NoSendWait
  <1>4. Spent(c.q, 0)
    BY <1>1, <1>2, <1>3, RecvSpent
  <1>5. c.q.state \in {"rts", "err"}
    BY <1>1, <1>2, <1>3, StatesKept
  <1> QED
    BY <1>2, <1>4, <1>5, RecvSpent, StatesKept

\* A process polls for a request.
LEMMA StopSends ==
    ASSUME IInv, Stops, Polls, Locals, NEW e \in Peers, pc[e] \in SendWaits(e),
           NEW c \in SendComp(e)
    PROVE  /\ Accounted(c.q) /\ Spent(c.q, 0) /\ c.q.state \in {"rts", "err"}
           /\ c.rv > 0 => CanPost(c.q)
  <1>1. Good(e, qp[e]) /\ Accounted(qp[e]) /\ At(e, pc[e], qp[e], n[e])
    BY StepFacts
  <1>2. /\ c.q = PollSend(qp[e]) /\ qp[e].scq # << >> /\ Accounted(c.q)
        /\ c.rv > 0 => Unretired(c.q) = 0
    BY <1>1, SendPolled, PollsWork
  <1>3. Spent(qp[e], 0) /\ qp[e].state \in {"rts", "err"}
    BY StopFacts, NoSendWait
  <1>4. Spent(c.q, 0)
    BY <1>1, <1>2, <1>3, PollSpent
  <1>5. c.q.state \in {"rts", "err"}
    BY <1>1, <1>2, <1>3, StatesKept
  <1>6. Unretired(c.q) = 0 => CanPost(c.q)
    BY MaxWrAssumption DEF CanPost, Unretired
  <1> QED
    BY <1>2, <1>4, <1>5, <1>6

\* A control message is posted on a queue that has room for it.
LEMMA StopPosts ==
    ASSUME IInv, Stops, NEW e \in Peers, NEW q, Accounted(q), Spent(q, 0), CanPost(q),
           q.state \in {"rts", "err"}, NEW kind \in Kinds, NEW l, l # "post",
           pc' = [pc EXCEPT ![e] = l], n' = n,
           qp' = [qp EXCEPT ![e] = PostSend(q, "send", kind, 0, TRUE)]
    PROVE  Stops'
  <1> DEFINE r == PostSend(q, "send", kind, 0, TRUE)
  <1>1. TRUE \in BOOLEAN /\ 0 \in Nat
    OBVIOUS
  <1>2. Spent(r, 0) /\ Signals(r) /\ r.state = q.state
    BY <1>1, PostSpent
  <1> HIDE DEF r
  <1>3. StopAt(e, l, r, n'[e])
    BY <1>2 DEF StopAt
  <1>4. qp' = [qp EXCEPT ![e] = r]
    BY DEF r
  <1> QED
    BY <1>3, <1>4, StopActor

\* A receive is posted.
LEMMA StopAwaits ==
    ASSUME IInv, Stops, NEW e \in Peers, pc[e] # "post", pc[e] \notin Unconnected,
           NEW kind, NEW i, NEW l \in RecvWaits(e),
           IInv', pc' = [pc EXCEPT ![e] = l], n' = n,
           qp' = [qp EXCEPT ![e] = PostRecv(qp[e], kind, i)]
    PROVE  Stops'
  <1> DEFINE r == PostRecv(qp[e], kind, i)
  <1>1. Spent(qp[e], 0) /\ Accounted(qp[e]) /\ qp[e].state \in {"rts", "err"}
    BY StopFacts
  <1>2. Spent(r, 0) /\ r.state = qp[e].state
    BY <1>1, RecvSpent, StatesKept
  <1>3. qp'[e] = r
    BY TypedFunctions
  <1>4. Accounted(qp'[e])
    BY DEF IInv, QpInv, Good, Accounted, SendAccounting, Consecutive, Ordered
  <1> HIDE DEF r
  <1>5. qp' = [qp EXCEPT ![e] = r]
    BY DEF r
  <1> QED
    BY <1>1, <1>2, <1>3, <1>4, <1>5, StopLandsSame, NoSendWait

\* The memory-region exchange.
LEMMA ExchangeStops ==
    ASSUME IInv, IInv', Stops, Locals, Polls,
           \/ GetMrInfo \/ GetMrCount \/ GetMrArray
           \/ SendMrInfo \/ SendMrCount \/ SendMrArray
    PROVE  Stops'
  <1>1. "client" \in Peers /\ "server" \in Peers /\ {"count", "array"} \subseteq Kinds
    BY DEF Peers, Kinds
  <1>2. /\ "deallocate" \notin SendWaits("client") \union SendWaits("server")
        /\ RoundStart("client") \notin SendWaits("client")
        /\ RoundStart("server") \notin SendWaits("server")
        /\ {"get_mr_count", "get_mr_array"} \subseteq RecvWaits("client")
        /\ "get_mr_array" \notin SendWaits("client")
        /\ {"get_mr", "send_mr", "deallocate"} \intersect Unconnected = {}
    BY <1>1, NoSendWait DEF SendWaits, RecvWaits
  <1>3. CASE GetMrInfo
    <2>1. pc["client"] = "get_mr" /\ n' = n
      BY <1>3 DEF GetMrInfo
    <2>2. CASE RecvControl("client", "count", "get_mr_count")
      <3>1. /\ pc' = [pc EXCEPT !["client"] = "get_mr_count"]
            /\ qp' = [qp EXCEPT !["client"] = PostRecv(qp["client"], "count", 0)]
        BY <1>1, <2>1, <2>2, Unrefused DEF RecvControl, SetQp, Goto
      <3> QED
        BY <1>1, <1>2, <2>1, <3>1, StopAwaits
    <2>3. CASE RegisterFails("client")
      <3>1. qp' = qp /\ pc' = [pc EXCEPT !["client"] = "deallocate"]
        BY <2>3 DEF RegisterFails, Goto
      <3> QED
        BY <1>1, <1>2, <2>1, <3>1, StopMoves
    <2> QED
      BY <1>3, <2>2, <2>3 DEF GetMrInfo
  <1>4. CASE GetMrCount
    <2>1. PICK c \in RecvComp("client") :
             \/ /\ qp' = [qp EXCEPT !["client"] = c.q]
                /\ pc' = [pc EXCEPT !["client"] = "deallocate"]
             \/ /\ qp' = [qp EXCEPT !["client"] = c.q]
                /\ pc' = [pc EXCEPT !["client"] = RoundStart("client")]
             \/ /\ qp' = [qp EXCEPT !["client"] = PostRecv(c.q, "array", 0)]
                /\ pc' = [pc EXCEPT !["client"] = "get_mr_array"]
      BY <1>4 DEF GetMrCount, SetQp, Goto
    <2>2. pc["client"] \in RecvWaits("client") /\ n' = n
      BY <1>4 DEF GetMrCount, RecvWaits
    <2>3. /\ Accounted(c.q) /\ Spent(c.q, 0) /\ c.q.state \in {"rts", "err"}
          /\ Spent(PostRecv(c.q, "array", 0), 0)
          /\ PostRecv(c.q, "array", 0).state = c.q.state
      BY <1>1, <2>2, StopReceives
    <2>4. CASE /\ qp' = [qp EXCEPT !["client"] = PostRecv(c.q, "array", 0)]
               /\ pc' = [pc EXCEPT !["client"] = "get_mr_array"]
      <3>1. Accounted(PostRecv(c.q, "array", 0))
        BY <1>1, <2>3, PostRecvAccounted
      <3> QED
        BY <1>1, <1>2, <2>2, <2>3, <2>4, <3>1, StopLandsSame
    <2>5. CASE /\ qp' = [qp EXCEPT !["client"] = c.q]
               /\ \E l : l \notin SendWaits("client")
                         /\ pc' = [pc EXCEPT !["client"] = l]
      BY <1>1, <2>2, <2>3, <2>5, StopLandsSame
    <2> QED
      BY <1>2, <2>1, <2>4, <2>5
  <1>5. CASE GetMrArray
    <2>1. PICK c \in RecvComp("client") :
             /\ qp' = [qp EXCEPT !["client"] = c.q]
             /\ \/ pc' = [pc EXCEPT !["client"] = "deallocate"]
                \/ pc' = [pc EXCEPT !["client"] = RoundStart("client")]
      BY <1>5 DEF GetMrArray, SetQp, Goto
    <2>2. pc["client"] \in RecvWaits("client") /\ n' = n
      BY <1>5 DEF GetMrArray, RecvWaits
    <2>3. Accounted(c.q) /\ Spent(c.q, 0) /\ c.q.state \in {"rts", "err"}
      BY <1>1, <2>2, StopReceives
    <2> QED
      BY <1>1, <1>2, <2>1, <2>2, <2>3, StopLandsSame
  <1>6. CASE SendMrInfo
    <2>1. pc["server"] = "send_mr" /\ n' = n
      BY <1>6 DEF SendMrInfo
    <2>2. CASE Crash("server")
      BY <1>1, <2>1, <2>2, StopCrash
    <2>3. CASE SendControl("server", "count", "send_mr_count")
               /\ CanPost(qp["server"])
      <3>1. /\ pc' = [pc EXCEPT !["server"] = "send_mr_count"]
            /\ qp' = [qp EXCEPT !["server"] =
                         PostSend(qp["server"], "send", "count", 0, TRUE)]
        BY <2>3 DEF SendControl, SetQp, Goto
      <3>2. /\ Spent(qp["server"], 0) /\ Accounted(qp["server"])
            /\ qp["server"].state \in {"rts", "err"}
        BY <1>1, <1>2, <2>1, StopFacts
      <3> QED
        BY <1>1, <2>1, <2>3, <3>1, <3>2, StopPosts
    <2>4. CASE qp' = qp /\ pc' = [pc EXCEPT !["server"] = "deallocate"]
      BY <1>1, <1>2, <2>1, <2>4, StopMoves
    <2> QED
      BY <1>6, <2>2, <2>3, <2>4 DEF SendMrInfo, SendControl, RegisterFails, Goto
  <1>7. CASE SendMrCount
    <2>1. PICK c \in SendComp("server") :
             \/ /\ qp' = [qp EXCEPT !["server"] = c.q]
                /\ pc' = [pc EXCEPT !["server"] = "deallocate"]
             \/ /\ c.rv > 0
                /\ qp' = [qp EXCEPT !["server"] =
                             PostSend(c.q, "send", "array", 0, TRUE)]
                /\ pc' = [pc EXCEPT !["server"] = "send_mr_array"]
      BY <1>7 DEF SendMrCount, SetQp, Goto
    <2>2. pc["server"] \in SendWaits("server") /\ n' = n
      BY <1>7 DEF SendMrCount, SendWaits
    <2>3. /\ Accounted(c.q) /\ Spent(c.q, 0) /\ c.q.state \in {"rts", "err"}
          /\ c.rv > 0 => CanPost(c.q)
      BY <1>1, <2>2, StopSends
    <2>4. CASE /\ c.rv > 0
               /\ qp' = [qp EXCEPT !["server"] =
                            PostSend(c.q, "send", "array", 0, TRUE)]
               /\ pc' = [pc EXCEPT !["server"] = "send_mr_array"]
      BY <1>1, <2>2, <2>3, <2>4, StopPosts
    <2>5. CASE /\ qp' = [qp EXCEPT !["server"] = c.q]
               /\ pc' = [pc EXCEPT !["server"] = "deallocate"]
      BY <1>1, <1>2, <2>2, <2>3, <2>5, StopLandsSame
    <2> QED
      BY <2>1, <2>4, <2>5
  <1>8. CASE SendMrArray
    <2>1. PICK c \in SendComp("server") :
             /\ qp' = [qp EXCEPT !["server"] = c.q]
             /\ \/ pc' = [pc EXCEPT !["server"] = "deallocate"]
                \/ pc' = [pc EXCEPT !["server"] = RoundStart("server")]
      BY <1>8 DEF SendMrArray, SetQp, Goto
    <2>2. pc["server"] \in SendWaits("server") /\ n' = n
      BY <1>8 DEF SendMrArray, SendWaits
    <2>3. Accounted(c.q) /\ Spent(c.q, 0) /\ c.q.state \in {"rts", "err"}
      BY <1>1, <2>2, StopSends
    <2> QED
      BY <1>1, <1>2, <2>1, <2>2, <2>3, StopLandsSame
  <1> QED
    BY <1>3, <1>4, <1>5, <1>6, <1>7, <1>8

\* The operations a request may ask for.
Ops == {"send", "read", "write"}

\* What a signaled request, accepted or refused, leaves on the queue.
LEMMA SignaledSpent ==
    ASSUME NEW q, Accounted(q), NEW op \in Ops,
           NEW kind \in Kinds, NEW i \in Nat,
           NEW k \in Nat, k < MAX_WR, Spent(q, k)
    PROVE  /\ PostSend(q, op, kind, i, TRUE).state = q.state
           /\ q.state = "err" => /\ Spent(PostSend(q, op, kind, i, TRUE), 0)
                                 /\ Signals(PostSend(q, op, kind, i, TRUE))
  <1> DEFINE sig == TRUE
             r == PostSend(q, op, kind, i, sig)
  <1>1. sig \in BOOLEAN
    OBVIOUS
  <1> HIDE DEF sig
  <1>2. r.state = q.state /\ (q.state = "err" => Spent(r, 0) /\ Signals(r))
    BY <1>1, PostSpent DEF Ops
  <1> QED
    BY <1>2 DEF sig

\* What an unsignaled one leaves.
LEMMA UnsignaledSpent ==
    ASSUME NEW q, Accounted(q), NEW op \in Ops,
           NEW kind \in Kinds, NEW i \in Nat, NEW k \in Nat, Spent(q, k)
    PROVE  /\ PostSend(q, op, kind, i, FALSE).state = q.state
           /\ Spent(PostSend(q, op, kind, i, FALSE), k + 1)
  <1> DEFINE sig == FALSE
             r == PostSend(q, op, kind, i, sig)
  <1>1. sig \in BOOLEAN
    OBVIOUS
  <1> HIDE DEF sig
  <1>2. r.state = q.state /\ Spent(r, k + 1)
    BY <1>1, PostSpent DEF Ops
  <1> QED
    BY <1>2 DEF sig

\* A request is posted.  A round that fits in the queue is refused only what
\* comes behind completions that are still to be polled.
LEMMA RequestStops ==
    ASSUME IInv, IInv', Locals, Stops, params.count <= MAX_WR, PostRequest
    PROVE  Stops'
  <1> DEFINE k == n["client"]
             r == PostSend(qp["client"], params.verb, "data", k, Signaled(k))
  <1>1. /\ "client" \in Peers /\ "data" \in Kinds /\ pc["client"] = "post"
        /\ Accounted(qp["client"]) /\ At("client", "post", qp["client"], k)
    BY StepFacts DEF PostRequest, Peers, Kinds
  <1>2. /\ Posting(qp["client"], "data", k - 1) /\ Spent(qp["client"], k - 1)
        /\ qp["client"].state \in {"rts", "err"}
    BY <1>1, NoSendWait DEF At, SendAt, Stops, StopAt
  <1>3. /\ k \in Nat /\ k - 1 \in Nat /\ k > 0 /\ k <= params.count
        /\ k - 1 + 1 = k /\ k + 1 - 1 = k /\ params.count \in Nat
        /\ params.verb \in {"send", "read", "write"} /\ Count("client") = params.count
    BY ClientIndex
  <1>4. PICK j \in Nat : j = k - 1 /\ j + 1 = k /\ j < MAX_WR
    BY <1>3, MaxWrAssumption
  <1>41. Posting(qp["client"], "data", j) /\ Spent(qp["client"], j)
    BY <1>2, <1>4
  <1>42. /\ Accounted(qp["client"]) /\ Spent(qp["client"], j) /\ params.verb \in Ops
         /\ "data" \in Kinds /\ k \in Nat /\ j \in Nat
    BY <1>1, <1>3, <1>41 DEF Ops
  <1>5. qp' = [qp EXCEPT !["client"] = r]
    BY DEF PostRequest, SetQp
  <1>6. CASE Signaled(k)
    <2>1. r = PostSend(qp["client"], params.verb, "data", k, TRUE)
      BY <1>6 DEF Signaled
    <2>3. /\ r.state = qp["client"].state
          /\ qp["client"].state = "err" => Spent(r, 0) /\ Signals(r)
      <3> HIDE DEF r, k
      <3>1. LET p == PostSend(qp["client"], params.verb, "data", k, TRUE) IN
            /\ p.state = qp["client"].state
            /\ qp["client"].state = "err" => Spent(p, 0) /\ Signals(p)
        BY <1>4, <1>42, SignaledSpent, Zenon
      <3> QED
        BY <2>1, <3>1, Zenon
    <2>4. qp["client"].state = "rts" => Signals(r)
      BY <1>1, <1>3, <1>4, <1>41, <2>1, PostSignaled
    <2>5. pc' = [pc EXCEPT !["client"] = "wait"] /\ n' = n
      BY <1>6 DEF PostRequest, Goto
    <2> HIDE DEF r
    <2>6. StopAt("client", "wait", r, n'["client"])
      BY <1>2, <2>3, <2>4 DEF StopAt, Spent
    <2> QED
      BY <1>1, <1>5, <2>5, <2>6, StopActor
  <1>7. CASE ~Signaled(k)
    <2>1. r = PostSend(qp["client"], params.verb, "data", k, FALSE)
      BY <1>7 DEF Signaled
    <2>3. r.state = qp["client"].state /\ Spent(r, k)
      <3>1. r.state = qp["client"].state /\ Spent(r, j + 1)
        <4> HIDE DEF r, k
        <4>1. LET p == PostSend(qp["client"], params.verb, "data", k, FALSE) IN
              p.state = qp["client"].state /\ Spent(p, j + 1)
          BY <1>42, UnsignaledSpent, Zenon
        <4> QED
          BY <2>1, <4>1, Zenon
      <3> QED
        BY <1>4, <3>1
    <2>4. NextRequest("client", ~CanPost(qp["client"]), "post", "report")
      BY <1>7 DEF PostRequest
    <2>5. k < params.count
      BY <1>3, <1>7 DEF Signaled
    <2>6. /\ n'["client"] = k + 1 /\ pc' = [pc EXCEPT !["client"] = "post"]
          /\ \A d \in Peers \ {"client"} : n'[d] = n[d]
      BY <1>1, <1>3, <2>4, <2>5, NextRequestMoves
    <2>7. n'["client"] - 1 = k
      BY <1>3, <2>6
    <2> HIDE DEF r, k
    <2>8. StopAt("client", "post", r, n'["client"])
      BY <1>1, <1>2, <2>3, <2>7, NoSendWait DEF StopAt
    <2> QED
      BY <1>1, <1>5, <2>6, <2>8, StopActor
  <1> QED
    BY <1>6, <1>7

\* The end of a request.
LEMMA StopNext ==
    ASSUME IInv, IInv', Stops, NEW e \in Peers, NEW q, Accounted(q), Spent(q, 0),
           q.state \in {"rts", "err"}, NEW f,
           NEW again, again \notin SendWaits(e), NEW finished, finished \notin SendWaits(e),
           NextRequest(e, f, again, finished), qp' = [qp EXCEPT ![e] = q]
    PROVE  Stops'
  <1>1. /\ n' \in [Peers -> Nat] /\ n'[e] > 0
        /\ \A d \in Peers \ {e} : n'[d] = n[d]
        /\ \E l : l \notin SendWaits(e) /\ pc' = [pc EXCEPT ![e] = l]
    BY NextRequestMoves
  <1> QED
    BY <1>1, StopLands

\* The rest of the rounds, and the terminating message.
LEMMA RoundsStop ==
    ASSUME IInv, IInv', Locals, Stops, Polls,
           \/ WaitRequest \/ RecvPost \/ RecvWait
           \/ \E e \in Peers : EndPost(e) \/ EndWait(e)
    PROVE  Stops'
  <1>1. "client" \in Peers /\ "server" \in Peers /\ "end" \in Kinds
    BY DEF Peers, Kinds
  <1>2. /\ {"post", "report"} \intersect SendWaits("client") = {}
        /\ "recv_post" \notin SendWaits("server")
        /\ AfterRound("server") \notin SendWaits("server")
        /\ \A e \in Peers : {"deallocate", "sha"} \intersect SendWaits(e) = {}
        /\ {"recv_wait", "end_wait"} \subseteq RecvWaits("server")
        /\ {"recv_post", "end_post"} \intersect Unconnected = {}
    BY <1>1, NoSendWait DEF SendWaits, RecvWaits
  <1>3. CASE WaitRequest
    <2>1. PICK c \in SendComp("client") :
             /\ qp' = [qp EXCEPT !["client"] = c.q]
             /\ NextRequest("client", bad \/ c.rv < 0, "post", "report")
      BY <1>3 DEF WaitRequest, SetQp
    <2>2. Accounted(c.q) /\ Spent(c.q, 0) /\ c.q.state \in {"rts", "err"}
      BY <1>1, <1>3, StopSends DEF WaitRequest, SendWaits
    <2> QED
      BY <1>1, <1>2, <2>1, <2>2, StopNext
  <1>4. CASE RecvPost
    <2>1. /\ pc["server"] = "recv_post" /\ n' = n
          /\ pc' = [pc EXCEPT !["server"] = "recv_wait"]
          /\ qp' = [qp EXCEPT !["server"] =
                       PostRecv(qp["server"], "data", n["server"])]
      BY <1>4 DEF RecvPost, SetQp, Goto, procVars
    <2> QED
      BY <1>1, <1>2, <2>1, StopAwaits
  <1>5. CASE RecvWait
    <2>1. PICK c \in RecvComp("server") :
             /\ qp' = [qp EXCEPT !["server"] = c.q]
             /\ NextRequest("server", c.rv < 0, "recv_post", AfterRound("server"))
      BY <1>5 DEF RecvWait, SetQp
    <2>2. Accounted(c.q) /\ Spent(c.q, 0) /\ c.q.state \in {"rts", "err"}
      BY <1>1, <1>5, StopReceives DEF RecvWait, RecvWaits
    <2> QED
      BY <1>1, <1>2, <2>1, <2>2, StopNext
  <1>6. ASSUME NEW e \in Peers, EndPost(e) PROVE Stops'
    <2>1. pc[e] = "end_post" /\ n' = n
      BY <1>6 DEF EndPost
    <2>2. CASE /\ CanPost(qp[e]) /\ pc' = [pc EXCEPT ![e] = "end_wait"]
               /\ qp' = [qp EXCEPT ![e] = PostSend(qp[e], "send", "end", 0, TRUE)]
      <3>1. /\ Spent(qp[e], 0) /\ Accounted(qp[e]) /\ qp[e].state \in {"rts", "err"}
        BY <1>2, <2>1, StopFacts
      <3> QED
        BY <1>1, <2>1, <2>2, <3>1, StopPosts
    <2>3. CASE e = "server" /\ pc' = [pc EXCEPT ![e] = "end_wait"]
               /\ qp' = [qp EXCEPT ![e] = PostRecv(qp[e], "end", 0)]
      BY <1>2, <2>1, <2>3, StopAwaits
    <2>4. CASE qp' = qp /\ pc' = [pc EXCEPT ![e] = "deallocate"]
      BY <1>2, <2>1, <2>4, StopMoves
    <2> QED
      BY <1>6, <2>2, <2>3, <2>4
         DEF EndPost, SendControl, RecvControl, RegisterFails, SetQp, Goto
  <1>7. ASSUME NEW e \in Peers, EndWait(e) PROVE Stops'
    <2>1. PICK c \in IF e = "client" THEN SendComp(e) ELSE RecvComp(e) :
             /\ qp' = [qp EXCEPT ![e] = c.q]
             /\ pc' = [pc EXCEPT ![e] = IF c.rv < 0 THEN "deallocate" ELSE "sha"]
      BY <1>7 DEF EndWait, SetQp, Goto
    <2>2. pc[e] = "end_wait" /\ n' = n
      BY <1>7 DEF EndWait
    <2>3. IF e = "client" THEN pc[e] \in SendWaits(e) ELSE pc[e] \in RecvWaits(e)
      BY <2>2 DEF SendWaits, RecvWaits, Peers
    <2>4. Accounted(c.q) /\ Spent(c.q, 0) /\ c.q.state \in {"rts", "err"}
      BY <2>1, <2>3, StopSends, StopReceives
    <2>5. PICK l : l \notin SendWaits(e) /\ pc' = [pc EXCEPT ![e] = l]
      BY <1>2, <2>1
    <2> QED
      BY <2>1, <2>2, <2>4, <2>5, StopLandsSame
  <1> QED
    BY <1>3, <1>4, <1>5, <1>6, <1>7

\* The NICs.
LEMMA NicStops ==
    ASSUME IInv, Locals, Stops, NEW e \in Peers, Nic(e) \/ FabricFails(e)
    PROVE  Stops'
  <1>1. /\ \A d \in Peers : NicMove(qp[d], qp'[d])
        /\ pc' = pc /\ n' = n
    BY NicMoves DEF procVars
  <1>2. ASSUME NEW d \in Peers PROVE StopAt(d, pc[d], qp'[d], n[d])
    <2> DEFINE q == qp[d]
               r == qp'[d]
               l == pc[d]
               k == n[d]
    <2>1. /\ Accounted(q) /\ FailuresLast(q) /\ NicMove(q, r)
          /\ SendAt(d, l, q, k) /\ StopAt(d, l, q, k)
          /\ k \in Nat /\ k - 1 \in Nat /\ 0 \in Nat
      BY <1>1, StepFacts DEF Good, At, Stops
    <2> SUFFICES StopAt(d, l, r, k)
      OBVIOUS
    <2> HIDE DEF q, r, l, k
    <2>2. l \notin Unconnected => r.state \in {"rts", "err"}
      BY <2>1, NicMoveState DEF StopAt
    <2>3. CASE l \in SendWaits(d)
      <3>1. PICK kind : Awaiting(q, kind)
        BY <2>1, <2>3 DEF SendAt, SendWaits
      <3>2. l # "post" /\ Signals(q) /\ Spent(q, 0)
        BY <2>1, <2>3, NoSendWait DEF StopAt
      <3>3. Spent(r, 0) /\ Signals(r)
        BY <2>1, <3>1, <3>2, NicSpent
      <3> QED
        BY <2>2, <2>3, <3>2, <3>3 DEF StopAt
    <2>4. CASE l = "post"
      <3>1. Posting(q, "data", k - 1) /\ Spent(q, k - 1) /\ l \notin SendWaits(d)
        BY <2>1, <2>4, NoSendWait DEF SendAt, StopAt
      <3>2. Spent(r, k - 1)
        BY <2>1, <3>1, NicSpent
      <3> QED
        BY <2>2, <2>4, <3>1, <3>2 DEF StopAt
    <2>5. CASE l \notin SendWaits(d) \union {"post"}
      <3>1. Idle(q) /\ Spent(q, 0)
        BY <2>1, <2>5 DEF SendAt, StopAt
      <3>2. Posting(q, "data", 0)
        BY <2>1, <3>1, IdlePosts
      <3>3. Spent(r, 0)
        BY <2>1, <3>1, <3>2, NicSpent
      <3> QED
        BY <2>2, <2>5, <3>3 DEF StopAt
    <2> QED
      BY <2>3, <2>4, <2>5
  <1>3. Stops' <=> \A d \in Peers : StopAt(d, pc'[d], qp'[d], n'[d])
    BY DEF Stops, StopAt, Spent, Signals, Unretired, SendWaits
  <1> QED
    BY <1>1, <1>2, <1>3

-----------------------------------------------------------------------------
(* The two processes meet.                                                  *)

\* The client does not come back to the set-up of the connection.
LEMMA EarlyClient ==
    ASSUME IInv, ClientStep
    PROVE  /\ pc["client"] \in ClientEarly /\ qp["client"].state # "rts"
              => /\ pc'["client"] \in ClientEarly \union {"done"}
                 /\ qp'["client"].state # "rts"
           /\ pc["client"] \notin ClientEarly
              => pc'["client"] \notin ClientEarly /\ pc["client"] # "done"
  <1>1. CASE ClientCreateEp
    BY <1>1, TypedFunctions, EndpointStates
       DEF ClientCreateEp, SetQp, Goto, ClientEarly
  <1>2. CASE SetTos
    BY <1>2, TypedFunctions DEF SetTos, Goto, ClientEarly
  <1>3. CASE RdmaConnect
    BY <1>3, TypedFunctions, EndpointStates
       DEF RdmaConnect, ConnectFails, SetQp, Goto, ClientEarly
  <1>4. CASE GetMrInfo \/ GetMrCount \/ GetMrArray
    BY <1>4, TypedFunctions
       DEF GetMrInfo, GetMrCount, GetMrArray, RecvControl, RegisterFails,
           RoundStart, Goto, ClientEarly
  <1>5. CASE PostRequest \/ WaitRequest
    BY <1>5, TypedFunctions DEF PostRequest, WaitRequest, NextRequest, Goto, ClientEarly
  <1>6. CASE Report \/ AllocateBuffer("client")
    BY <1>6, TypedFunctions
       DEF Report, AllocateBuffer, RoundStart, AfterRound, AfterAllocate, Goto, ClientEarly
  <1>7. CASE Teardown("client") \/ NullMrCrash("client")
    BY <1>7, TypedFunctions
       DEF Teardown, NullMrCrash, EndPost, EndWait, PrintSha1sum, DeallocateBuffer,
           Disconnect, Crash, SendControl, RecvControl, RegisterFails, Goto, ClientEarly
  <1> QED
    BY <1>1, <1>2, <1>3, <1>4, <1>5, <1>6, <1>7 DEF ClientStep

\* Neither does the server.
LEMMA EarlyServer ==
    ASSUME IInv, ServerStep, ~Accept
    PROVE  /\ pc["server"] \in ServerEarly => pc'["server"] \in ServerEarly \union {"done"}
           /\ pc["server"] \notin ServerEarly
              => pc'["server"] \notin ServerEarly /\ pc["server"] # "done"
  <1>1. CASE Listen \/ AcceptFails
    BY <1>1, TypedFunctions DEF Listen, AcceptFails, Goto, ServerEarly
  <1>2. CASE SendMrInfo \/ SendMrCount \/ SendMrArray
    BY <1>2, TypedFunctions
       DEF SendMrInfo, SendMrCount, SendMrArray, SendControl, RegisterFails, Crash,
           RoundStart, Goto, ServerEarly
  <1>3. CASE RecvPost \/ RecvWait
    BY <1>3, TypedFunctions
       DEF RecvPost, RecvWait, NextRequest, RoundStart, AfterRound, Goto, ServerEarly
  <1>4. CASE AllocateBuffer("server")
    BY <1>4, TypedFunctions
       DEF AllocateBuffer, RoundStart, AfterAllocate, Goto, ServerEarly
  <1>5. CASE Teardown("server") \/ NullMrCrash("server")
    BY <1>5, TypedFunctions
       DEF Teardown, NullMrCrash, EndPost, EndWait, PrintSha1sum, DeallocateBuffer,
           Disconnect, Crash, SendControl, RecvControl, RegisterFails, Goto, ServerEarly
  <1> QED
    BY <1>1, <1>2, <1>3, <1>4, <1>5 DEF ServerStep

\* Every step keeps the order in which the two processes meet.
LEMMA NextMeet == IInv /\ Meet /\ [Next]_vars => Meet'
  <1> SUFFICES ASSUME IInv, Meet, [Next]_vars PROVE Meet'
    OBVIOUS
  <1>1. "client" \in Peers /\ "server" \in Peers /\ "done" \notin ClientEarly \union ServerEarly
        /\ "allocate" \notin ClientEarly \union ServerEarly
    BY DEF Peers, ClientEarly, ServerEarly
  <1>2. CASE ClientStep
    <2>1. pc'["server"] = pc["server"]
      BY <1>2, ClientFrame DEF Kept
    <2> QED
      BY <1>1, <1>2, <2>1, EarlyClient DEF Meet
  <1>3. CASE ServerStep /\ ~Accept
    <2>1. pc'["client"] = pc["client"] /\ qp'["client"] = qp["client"]
      BY <1>3, ServerFrame DEF Kept
    <2> QED
      BY <1>1, <1>3, <2>1, EarlyServer DEF Meet
  <1>4. CASE Accept
    <2>1. pc'["client"] = "allocate" /\ pc'["server"] = "allocate"
      BY <1>1, <1>4 DEF Accept
    <2> QED
      BY <1>1, <2>1 DEF Meet
  <1>5. CASE \E e \in Peers : Nic(e) \/ FabricFails(e)
    <2>1. NicMove(qp["client"], qp'["client"]) /\ pc' = pc
      BY <1>1, <1>5, NicMoves
    <2>2. Accounted(qp["client"])
      BY <1>1 DEF IInv, QpInv, Good
    <2>3. qp'["client"].state = "rts" => qp["client"].state = "rts"
      BY <2>1, <2>2, NicMoveState
    <2> QED
      BY <2>1, <2>3 DEF Meet
  <1>6. CASE UNCHANGED vars
    BY <1>6 DEF Meet, vars
  <1> QED
    BY <1>2, <1>3, <1>4, <1>5, <1>6 DEF Next, Step, Stopped

-----------------------------------------------------------------------------
(* StopInv is an invariant.                                                 *)

\* A session starts without connections, and nothing waits.
LEMMA InitStop == Init => StopInv
  <1> SUFFICES ASSUME Init PROVE StopInv
    OBVIOUS
  <1>1. "client" \in Peers /\ "server" \in Peers
    BY DEF Peers
  <1>2. \A e \in Peers : pc[e] = "start" /\ qp[e] = NewQp("none")
    BY DEF Init
  <1>3. "start" \in ClientEarly \intersect ServerEarly \intersect Unconnected
    BY DEF ClientEarly, ServerEarly, Unconnected
  <1>4. \A e \in Peers : "start" \notin SendWaits(e)
    BY DEF SendWaits
  <1>5. NewQp("none").state = "none"
    BY EndpointStates
  <1>6. Stops
    BY <1>2, <1>3, <1>4, <1>5 DEF Stops, StopAt, Spent
  <1>7. Meet
    BY <1>1, <1>2, <1>3, <1>5 DEF Meet
  <1> QED
    BY <1>6, <1>7 DEF StopInv

\* Every step preserves it.
LEMMA NextStop == SafetyInv /\ StopInv /\ [Next]_vars => StopInv'
  <1> SUFFICES ASSUME SafetyInv, StopInv, [Next]_vars PROVE StopInv'
    OBVIOUS
  <1>1. IInv /\ LocalInv
    BY DEF SafetyInv
  <1>2. IInv'
    BY <1>1, NextIInv
  <1>3. params' = params
    BY <1>1, ParamsFixed
  <1>4. ASSUME Fits' PROVE Stops'
    <2>1. Polls /\ params.count <= MAX_WR
      BY <1>3, <1>4 DEF Fits, Polls, MayFail
    <2>2. Stops /\ Locals
      BY <1>1, <2>1, ReliablePolls DEF StopInv, Fits
    <2>3. CASE ClientStep \/ ServerStep
      <3>1. "client" \in Peers /\ "server" \in Peers
        BY DEF Peers
      <3> QED
        BY <1>1, <1>2, <2>1, <2>2, <2>3, <3>1, SetupStops, ExchangeStops,
           RequestStops, RoundsStop DEF ClientStep, ServerStep, Teardown
    <2>4. CASE \E e \in Peers : Nic(e) \/ FabricFails(e)
      BY <1>1, <2>2, <2>4, NicStops
    <2>5. CASE UNCHANGED vars
      BY <2>2, <2>5 DEF vars, Stops, StopAt, Spent, Signals, Unretired, SendWaits
    <2> QED
      BY <2>3, <2>4, <2>5 DEF Next, Step, Stopped
  <1>5. Meet'
    BY <1>1, NextMeet DEF StopInv
  <1> QED
    BY <1>4, <1>5 DEF StopInv

\* So it always holds.
LEMMA StopHolds == Spec => []StopInv
  BY SafetyHolds, InitStop, NextStop, PTL DEF Spec

\* A process that polls for a request has it on its queue, and its peer, still
\* connected, has posted no receive.
LEMMA SendWaiting ==
    ASSUME IInv, Stops, NEW e \in Peers, AtRest(e),
           pc[e] \in SendWaits(e), qp[e].scq = << >>
    PROVE  /\ qp[e].state = "rts" /\ qp[e].sent = 0 /\ Len(qp[e].sq) > 0
           /\ qp[e].sq[1].op = "send"
           /\ qp[Peer(e)].state = "rts" /\ qp[Peer(e)].rq = << >>
  <1>1. Signals(qp[e]) /\ qp[e].state \in {"rts", "err"}
    BY NoSendWait DEF Stops, StopAt
  <1>2. /\ Accounted(qp[e]) /\ qp[e].sq \in Seq(WorkRequests)
        /\ qp[e].state = "err" => qp[e].sq = << >>
    BY QpFields DEF IInv, QpInv, Good, SendAccounting
  <1>3. qp[e].sq # << >>
    BY <1>1 DEF Signals
  <1>4. qp[e].state = "rts" /\ Len(qp[e].sq) > 0 /\ Head(qp[e].sq) = qp[e].sq[1]
    BY <1>1, <1>2, <1>3
  <1> QED
    BY <1>3, <1>4 DEF AtRest

\* A process that polls for a message has posted a receive, and is connected.
LEMMA RecvWaiting ==
    ASSUME IInv, Locals, Stops, NEW e \in Peers,
           pc[e] \in RecvWaits(e), qp[e].rcq = << >>
    PROVE  qp[e].state = "rts" /\ qp[e].rq # << >>
  <1>1. At(e, pc[e], qp[e], n[e])
    BY StepFacts
  <1>2. PICK b : RecvOne(qp[e], b)
    BY <1>1 DEF At, RecvAt, RecvWaits
  <1>3. qp[e].rq # << >>
    <2>1. /\ <<b>> # << >>
          /\ \A c : <<c>> # << >>
      OBVIOUS
    <2> QED
      BY <1>2, <2>1, Zenon DEF RecvOne
  <1>4. Spent(qp[e], 0) /\ qp[e].state \in {"rts", "err"}
    BY StopFacts, NoSendWait
  <1> QED
    BY <1>3, <1>4 DEF Spent

\* Two connected processes that neither end nor connect do not stop.
LEMMA NoStandstill ==
    ASSUME FlowInv, Promised, Stops, Standstill, \A e \in Peers : qp[e].state = "rts"
    PROVE  FALSE
  <1>1. /\ Known /\ ExchangeInv /\ Live /\ "client" \in Peers /\ "server" \in Peers
        /\ IInv /\ Locals /\ QueueInv /\ LabelInv /\ ControlInv
        /\ \A e \in Peers : Accounted(qp[e])
    BY KnownFacts DEF FlowInv, Known, Live
  <1>2. Peer("client") = "server" /\ Peer("server") = "client"
    BY DEF Peer
  <1>3. \A e \in Peers : Waiting(e) /\ AtRest(e)
    <2>1. \A e \in Peers : pc[e] \notin ClientEarly \union ServerEarly \union Out
      BY <1>1 DEF LabelInv
    <2>2. \A e \in Peers : ~Ended(e) /\ ~Unmet(e)
      BY <2>1 DEF Ended, Unmet, Out, ClientEarly, ServerEarly
    <2> QED
      BY <2>2 DEF Standstill
  <1>4. \A e \in Peers : \/ pc[e] \in SendWaits(e) /\ qp[e].scq = << >>
                         \/ pc[e] \in RecvWaits(e) /\ qp[e].rcq = << >>
    BY <1>3 DEF Waiting
  <1>5. /\ pc["client"] \in ClientActive \union ClientEarly \union Leaving \union Out
        /\ pc["server"] \in ServerActive \union ServerEarly \union Leaving \union Out
        /\ pc["client"] \in GetMr \/ pc["server"] \in SendMr => params.verb # "send"
        /\ params.verb # "send" => pc["server"] \notin ServerRounds
    BY <1>1 DEF LabelInv, ClientActive, ServerActive
  <1>6. /\ pc["client"] \in SendWaits("client") => pc["client"] \in {"wait", "end_wait"}
        /\ pc["client"] \in RecvWaits("client")
           => pc["client"] \in {"get_mr_count", "get_mr_array"}
        /\ pc["server"] \in SendWaits("server")
           => pc["server"] \in {"send_mr_count", "send_mr_array"}
        /\ pc["server"] \in RecvWaits("server")
           => pc["server"] \in {"recv_wait", "end_wait"}
    BY <1>5 DEF SendWaits, RecvWaits, ClientActive, ServerActive, ClientEarly, ServerEarly,
       Leaving, Out, GetMr, SendMr, ClientRounds, ServerRounds, EndLabels
  <1>7. ASSUME NEW e \in Peers, pc[e] \in SendWaits(e), qp[e].scq = << >>
        PROVE  ~(pc[Peer(e)] \in RecvWaits(Peer(e)) /\ qp[Peer(e)].rcq = << >>)
    <2>1. qp[Peer(e)].rq = << >>
      BY <1>1, <1>3, <1>7, SendWaiting
    <2>2. Peer(e) \in Peers
      BY DEF Peer, Peers
    <2> QED
      BY <1>1, <2>1, <2>2, RecvWaiting
  <1>8. CASE \A e \in Peers : pc[e] \in SendWaits(e) /\ qp[e].scq = << >>
    <2>1. /\ pc["server"] \in {"send_mr_count", "send_mr_array"}
          /\ params.verb # "send"
      BY <1>1, <1>5, <1>6, <1>8 DEF SendMr
    <2>2. /\ qp["client"].sq[1].op = "send" /\ 1 \in 1..Len(qp["client"].sq)
          /\ Len(qp["server"].sq) > 0 /\ qp["server"].sent = 0
      <3>1. \A e \in Peers : /\ qp[e].sq[1].op = "send" /\ Len(qp[e].sq) > 0
                             /\ qp[e].sent = 0 /\ Len(qp[e].sq) \in Nat
        BY <1>1, <1>3, <1>8, SendWaiting, QpFields
      <3> QED
        BY <1>1, <3>1
    <2>3. pc["client"] = "end_wait"
      <3>1. qp["client"].sq[1] \in Tagged
        BY <1>1, <2>2 DEF QueueInv, Holds
      <3>2. qp["client"].sq[1].kind # "data"
        BY <2>1, <2>2, <3>1 DEF Tagged
      <3> QED
        BY <1>1, <2>2, <3>2, Outstanding
    <2>4. MrGot = MrSent /\ MrGot = 2
      <3>1. MrGot = 2
        BY <2>3 DEF MrGot
      <3>2. pc["client"] \in ClientActive /\ pc["server"] \in ServerActive
        BY <2>1, <2>3 DEF ClientActive, ServerActive, EndLabels, SendMr
      <3> QED
        BY <1>1, <2>1, <3>1, <3>2 DEF ExchangeInv
    <2>5. Unretired(qp["server"]) = 1
      BY <1>1, <1>8, <2>1 DEF ControlInv, ControlWaits
    <2>6. Done(qp["server"]) \in Int /\ Done(qp["server"]) <= 0
      <3>1. Len(qp["server"].sq) \in Nat
        BY <1>1, QpFields
      <3> QED
        BY <2>2, <2>5, <3>1 DEF Done
    <2>7. MrSent = Done(qp["server"]) \/ MrSent = 1 + Done(qp["server"])
      BY <2>1 DEF MrSent
    <2> HIDE DEF Done
    <2> QED
      BY <2>4, <2>6, <2>7
  <1>9. CASE \A e \in Peers : pc[e] \in RecvWaits(e) /\ qp[e].rcq = << >>
    <2>1. pc["client"] \in {"get_mr_count", "get_mr_array"} /\ params.verb # "send"
      BY <1>1, <1>5, <1>6, <1>9 DEF GetMr
    <2>2. pc["server"] = "end_wait"
      BY <1>1, <1>5, <1>6, <1>9, <2>1 DEF ServerRounds
    <2>3. MrSent = 2
      BY <2>2 DEF MrSent
    <2>4. MrGot = 0 \/ MrGot = 1
      BY <1>1, <1>9, <2>1 DEF MrGot
    <2>5. pc["client"] \in ClientActive /\ pc["server"] \in ServerActive
      BY <2>1, <2>2 DEF ClientActive, ServerActive, EndLabels, GetMr
    <2> QED
      BY <1>1, <2>1, <2>3, <2>4, <2>5 DEF ExchangeInv
  <1> QED
    BY <1>1, <1>2, <1>4, <1>7, <1>8, <1>9 DEF Peers

\* The two processes never wait for each other.  When the session stops, each
\* process has left run(), or it polls for a message, or accepts, and its peer
\* is not connected any more: with the same count on both sides, whatever calls
\* fail, for every depth of the queues, number of rounds and number of requests
\* that fits in the send queue.
\* (A round of more requests than MAX_WR refutes it: PollingCanEnd.)
THEOREM NoMutualWait ==
    Spec => [](Regular({}) /\ params.count <= MAX_WR => StuckOnlyOnDeadPeer)
  <1>1. ASSUME IInv, Promised => FlowInv, StopInv, Regular({}), params.count <= MAX_WR
        PROVE  StuckOnlyOnDeadPeer
    <2> SUFFICES ASSUME Standstill, NEW e \in Peers, ~Ended(e)
                 PROVE  pc[e] \in ForeverWaits(e) /\ qp[Peer(e)].state # "rts"
      BY DEF StuckOnlyOnDeadPeer
    <2>1. Waiting(e) \/ Unmet(e)
      BY DEF Standstill
    <2>2. CASE Unmet(e)
      <3>1. ~(e = "client" /\ pc[e] \in {"connect", "connecting"}
              /\ pc["server"] \notin {"start", "get_request", "done"})
        BY <1>1 DEF StopInv, Meet, ClientEarly, ServerEarly
      <3>2. e = "server" /\ pc[e] = "get_request"
        BY <2>2, <3>1 DEF Unmet
      <3>3. qp["client"].state # "rts"
        BY <1>1, <3>2 DEF StopInv, Meet, ServerEarly
      <3> QED
        BY <3>2, <3>3 DEF ForeverWaits, Peer
    <2>3. CASE Waiting(e)
      <3>1. Polls
        BY <2>3 DEF Waiting
      <3>2. Promised /\ Fits
        BY <1>1, <3>1 DEF Polls, MayFail, Regular, Promised, Fits
      <3>3. FlowInv /\ Known /\ Stops
        BY <1>1, <3>2 DEF StopInv, FlowInv
      <3>4. /\ pc["client"] \in ClientLabels /\ pc["server"] \in ServerLabels
            /\ IInv /\ Locals
        BY <3>3, KnownFacts DEF ClientAt, ServerAt
      <3>5. Peer(e) \in Peers /\ Peers = {e, Peer(e)}
        BY DEF Peer, Peers
      <3>6. CASE pc[e] \in SendWaits(e) /\ qp[e].scq = << >>
        <4>1. \A d \in Peers : qp[d].state = "rts"
          <5>1. AtRest(e)
            BY DEF Standstill
          <5> QED
            BY <3>3, <3>4, <3>5, <3>6, <5>1, SendWaiting
        <4> QED
          BY <3>2, <3>3, <4>1, NoStandstill
      <3>7. CASE pc[e] \in RecvWaits(e) /\ qp[e].rcq = << >>
        <4>1. pc[e] \in ForeverWaits(e)
          BY <3>4, <3>7 DEF RecvWaits, ForeverWaits, ClientLabels, ServerLabels,
             ClientActive, ServerActive, ClientEarly, ServerEarly, Leaving, Out,
             GetMr, SendMr, ClientRounds, ServerRounds, EndLabels, Peers
        <4>2. qp[e].state = "rts"
          BY <3>3, <3>4, <3>7, RecvWaiting
        <4>3. qp[Peer(e)].state # "rts"
          BY <3>2, <3>3, <3>5, <4>2, NoStandstill
        <4> QED
          BY <4>1, <4>3
      <3> QED
        BY <2>3, <3>6, <3>7 DEF Waiting
    <2> QED
      BY <2>1, <2>2, <2>3
  <1> QED
    BY <1>1, FlowHolds, StopHolds, PTL
==============================================================================
