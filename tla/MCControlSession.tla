-------------------------- MODULE MCControlSession --------------------------
(***************************************************************************)
(* Instances of ControlSession.                                             *)
(***************************************************************************)
EXTENDS ControlSession

\* One packet per slot, as many as the queue holds, and more; the least number
\* of slots the program runs with, and one it does not.  In one instance the
\* client was given another count.
Faults == {{}, {"alloc", "fabric"}, AllFaults \ {"poll"}, {"poll"}}

MCParams ==
    {p \in [repeat : {1, 100}, count : {1, MAX_WR, MAX_WR + 1},
            ccount : 1..(MAX_WR + 1), faults : Faults] :
       p.ccount = p.count \/ (p.repeat = 100 /\ p.count = 1 /\ p.ccount = 2)}

\* Nothing fails.
Plain == [repeat : {1, 100}, count : {1}, ccount : {1}, faults : {{}}]

Hundred == [repeat : {100}, count : {1}, ccount : {1}, faults : {{}}]

=============================================================================
