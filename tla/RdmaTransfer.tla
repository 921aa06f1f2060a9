---------------------------- MODULE RdmaTransfer ----------------------------
(***************************************************************************)
(* The RDMA benchmark implements Transfer.                                  *)
(***************************************************************************)
EXTENDS RdmaSession

\* The promise is made for sessions with equal counts in which ibv_poll_cq
\* does not fail; the others show nothing.
Promised == Regular({"poll"})

\* Send and Write move the client's buffers, Read the server's.
Source == IF params.verb = "read" THEN "server" ELSE "client"

Arrived == {i \in Indices("client") : mem[Peer(Source)][i] = <<Source, i>>}

Outcome(e) == IF ~Ended(e) THEN "running"
              ELSE IF pc[e] = "done" /\ rv[e] >= 0 THEN "ok" ELSE "failed"

Promise ==
    INSTANCE Transfer WITH
        Hosts   <- Peers,
        items   <- Indices("client"),
        arrived <- IF Promised THEN Arrived ELSE {},
        summed  <- IF Promised THEN {e \in Peers : sha[e] # << >>} ELSE {},
        outcome <- [e \in Peers |-> IF Promised THEN Outcome(e) ELSE "running"]

\* Whatever the verb, the mode, the rounds and the failures, a session is a
\* transfer: the buffers arrive each in its place and in order, none of them
\* behind print_sha1sum of either process, and run() returns a result that is
\* not negative only after all of them have arrived and been summed.
ImplementsTransfer == Promise!Spec

=============================================================================
