-------------------------- MODULE MCOperaExperiment --------------------------
(***************************************************************************)
(* Instances of OperaExperiment: three hosts, six processes.                *)
(***************************************************************************)
EXTENDS OperaExperiment

\* Servers whose clients were refused, or traffic of every pair.
Leftovers == {{}, {f \in Procs : IsServer(f)}, Procs}

MCParams ==
    [clock : {"none", "attached", "detached"}, leftover : Leftovers, stale : BOOLEAN,
     faults : {{}}]
    \union
    [clock : {"none"}, leftover : {{}}, stale : {FALSE},
     faults : {{"refused"}, {"early"}, {"dies"}, {"proxy"}, {"refused", "dies"}}]
    \union
    [clock : {"detached"}, leftover : {{}}, stale : {FALSE},
     faults : {{"config", "pid", "save"}}]

=============================================================================
