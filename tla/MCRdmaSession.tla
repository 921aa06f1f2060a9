---------------------------- MODULE MCRdmaSession ----------------------------
(***************************************************************************)
(* Instances of RdmaSession.                                                *)
(***************************************************************************)
EXTENDS RdmaTransfer

Verbs3 == {"send", "read", "write"}
Modes == {"latency", "throughput"}

\* Both sides agree on the count, as the launch scripts arrange.
Agreed(counts, repeats, faultSets) ==
    {p \in [verb : Verbs3, mode : Modes, count : counts, scount : counts,
            repeat : repeats, warmup : 0..1, faults : faultSets] :
        p.count = p.scount}

\* Everything may fail but the polling, and the option behind whose failure
\* dccs_connect keeps its endpoint.
Hostile == AllFaults \ {"poll", "tos"}

\* Nothing fails; every call may; every call but the registrations; the option
\* alone; the polling itself and the transport.
FaultSets == {{}, Hostile, Hostile \ {"reg"}, {"tos"}, {"poll", "fabric"}}

\* Nothing fails, but the counts differ.
Mismatched ==
    {p \in [verb : Verbs3, mode : Modes, count : 1..2, scount : 1..2,
            repeat : {1}, warmup : {0}, faults : {{}}] : p.count # p.scount}

\* Counts that differ where the transport may fail too.
MismatchedHostile ==
    {[p EXCEPT !.faults = {"fabric", "poll"}] : p \in Mismatched}

MCParams == Agreed(1..2, 1..2, FaultSets) \union Mismatched \union MismatchedHostile

\* Three requests, two of them unsignaled in throughput mode.
MCParams3 == Agreed({3}, {1}, {{}, Hostile})

MCLiveParams == Agreed({2}, {2}, {{}, Hostile}) \union Mismatched

=============================================================================
