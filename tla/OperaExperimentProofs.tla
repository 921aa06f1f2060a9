------------------------ MODULE OperaExperimentProofs ------------------------
(***************************************************************************)
(* What the Opera experiment saves, for any finite set of hosts and any     *)
(* parameters.  Host by host counts of a changing system prove something    *)
(* about all of it because each is compared with a bound it can only meet   *)
(* in one way: "all run" is the largest sum there is, "none runs" the       *)
(* smallest, and what a host has once shown stays true.                     *)
(***************************************************************************)
EXTENDS OperaExperiment, FiniteSetTheorems, TLAPS

-----------------------------------------------------------------------------
(* The inductive invariant.                                                 *)

States == {"none", "starting", "listening", "running", "ended", "failed"}

TypeOK ==
    /\ c \in Nat /\ sampled \subseteq Hosts
    /\ script \in [Hosts -> {"idle", "servers", "clients", "done"}]
    /\ proc \in [Procs -> States]
    /\ logs \in [Procs -> {"none", "stale", "partial", "full"}]

Before == {"check", "logs", "leftover", "switch"}

After == {"count", "active", "clock", "clock_wait", "finish", "stop_clock", "save", "done"}

\* No host's script runs before the launch or after it.
ScriptInv ==
    /\ pc \in Before => \A h \in Hosts : script[h] = "idle"
    /\ pc \in After => \A h \in Hosts : script[h] = "done"

Launched(f) ==
    \/ script[f[1]] = "done"
    \/ script[f[1]] = "clients" /\ IsServer(f)

LogOf(f) ==
    IF Launched(f)
    THEN \/ proc[f] = "ended" /\ logs[f] = "full"
         \/ proc[f] \in {"starting", "listening", "running", "failed"} /\ logs[f] = "partial"
    ELSE logs[f] = "none"

\* From the clean-up to the move, the log of every process says how far it is.
LogInv ==
    pc \in {"leftover", "switch", "launch"} \union (After \ {"done"}) =>
        \A f \in Procs : LogOf(f)

\* Its traffic has run; its traffic is over.
Seen(f) ==
    \/ proc[f] \in {"running", "ended"}
    \/ proc[f] = "failed" /\ MayFail("dies")

Over(f) ==
    \/ proc[f] = "ended"
    \/ proc[f] = "failed" /\ MayFail("dies")

PerHost == Cardinality(Hosts) - 1

\* A count that is as large as it can be has seen every process of its hosts.
ActiveInv ==
    pc = "active" /\ ~MayFail("proxy") =>
        /\ c <= Cardinality(sampled) * PerHost
        /\ c = Cardinality(sampled) * PerHost =>
              \A h \in sampled : \A f \in On(h) : Seen(f)

SeenInv ==
    pc \in {"clock", "clock_wait", "finish", "stop_clock", "save", "done"} /\ ~MayFail("proxy") =>
        \A f \in Procs : Seen(f)

\* A count of zero has seen no process of its hosts run, and none will.
FinishInv ==
    pc = "finish" /\ ~MayFail("proxy") /\ c = 0 =>
        \A h \in sampled : \A f \in On(h) : Over(f)

OverInv ==
    pc \in {"stop_clock", "save", "done"} /\ ~MayFail("proxy") =>
        \A f \in Procs : Over(f)

SavedInv ==
    /\ saved # << >> => pc = "done"
    /\ pc = "done" /\ ~MayFail("proxy") =>
          \A f \in Procs : saved[1][f] = IF proc[f] = "ended" THEN "full" ELSE "partial"

ClockInv == pc \in {"save", "done"} => ~clock

CountInv == ActiveInv /\ SeenInv /\ FinishInv /\ OverInv

IInv == TypeOK /\ ScriptInv /\ LogInv /\ CountInv /\ SavedInv /\ ClockInv

-----------------------------------------------------------------------------
(* Counting.                                                                *)

\* Every host has a process for each of the others.
LEMMA OnCount ==
  ASSUME NEW h \in Hosts
  PROVE  IsFiniteSet(On(h)) /\ Cardinality(On(h)) = PerHost /\ PerHost \in Nat
  <1> DEFINE S == Hosts \ {h}
             m == [p \in S |-> <<h, p>>]
  <1>1. IsFiniteSet(S) /\ Cardinality(S) = PerHost
    BY HostsAssumption, FS_RemoveElement DEF PerHost
  <1>2. \A p \in S : <<h, p>> \in On(h)
    BY DEF On, Procs
  <1>3. \A f \in On(h) : f[2] \in S /\ f = <<h, f[2]>>
    BY DEF On, Procs
  <1>4. m \in Bijection(S, On(h))
    <2>1. m \in [S -> On(h)]
      BY <1>2
    <2>2. \A p, q \in S : m[p] = m[q] => p = q
      OBVIOUS
    <2>3. \A f \in On(h) : \E p \in S : m[p] = f
      BY <1>3
    <2> QED
      BY <2>1, <2>2, <2>3 DEF Bijection, Injection, Surjection, IsInjective
  <1>5. ExistsBijection(S, On(h))
    BY <1>4 DEF ExistsBijection
  <1>6. IsFiniteSet(On(h)) /\ Cardinality(On(h)) = PerHost
    BY <1>1, <1>5, FS_Bijection
  <1> QED
    BY <1>6, FS_CardinalityType

\* Every process is one of its host.
LEMMA ProcHost ==
  ASSUME NEW f \in Procs
  PROVE  f[1] \in Hosts /\ f \in On(f[1]) /\ Other(f) \in Procs /\ Other(f) # f
  BY DEF Procs, On, Other

LEMMA OnProcs ==
  ASSUME NEW h, NEW f \in On(h)
  PROVE  f \in Procs /\ f[1] = h
  BY DEF On

\* One more host in the count.
LEMMA SampledCount ==
  ASSUME NEW S \in SUBSET Hosts, NEW h \in Hosts \ S
  PROVE  /\ Cardinality(S) \in Nat
         /\ Cardinality(S \union {h}) * PerHost = Cardinality(S) * PerHost + PerHost
  <1>1. IsFiniteSet(S) /\ Cardinality(S) \in Nat
    BY HostsAssumption, FS_Subset, FS_CardinalityType
  <1>2. Cardinality(S \union {h}) = Cardinality(S) + 1
    BY <1>1, FS_AddElement
  <1>3. PerHost \in Nat
    BY OnCount
  <1>4. \A n, m \in Nat : (n + 1) * m = n * m + m
    OBVIOUS
  <1> QED
    BY <1>1, <1>2, <1>3, <1>4

LEMMA NothingSampled ==
  Cardinality({}) * PerHost = 0
  <1>1. PerHost \in Int
    BY HostsAssumption, FS_CardinalityType DEF PerHost
  <1> QED
    BY <1>1, FS_EmptySet

-----------------------------------------------------------------------------
(* The invariant holds at first and implies the property.                   *)

LEMMA InitInv ==
  ASSUME Init PROVE IInv
  <1>1. TypeOK
    BY DEF Init, TypeOK, States
  <1>2. ScriptInv
    BY DEF Init, ScriptInv, After
  <1>3. LogInv /\ CountInv /\ SavedInv /\ ClockInv
    BY DEF Init, LogInv, CountInv, ActiveInv, SeenInv, FinishInv, OverInv, SavedInv,
           ClockInv, After
  <1> QED
    BY <1>1, <1>2, <1>3 DEF IInv

LEMMA InvImplies ==
  ASSUME IInv PROVE SavedComplete
  <1> SUFFICES ASSUME saved # << >>, ~MayFail("proxy")
               PROVE  /\ \A f \in Procs : proc[f] \notin Alive
                      /\ \A f \in Procs : saved[1][f] = IF proc[f] = "ended" THEN "full"
                                                        ELSE "partial"
                      /\ ~MayFail("dies") => \A f \in Procs : proc[f] = "ended"
                      /\ ~clock
    BY DEF SavedComplete
  <1>1. pc = "done"
    BY DEF IInv, SavedInv
  <1>2. ~clock
    BY <1>1 DEF IInv, ClockInv
  <1>3. \A f \in Procs : saved[1][f] = IF proc[f] = "ended" THEN "full" ELSE "partial"
    BY <1>1 DEF IInv, SavedInv
  <1>4. \A f \in Procs : Over(f)
    BY <1>1 DEF IInv, CountInv, OverInv
  <1>5. \A f \in Procs : proc[f] \notin Alive
    BY <1>4 DEF Over, Alive
  <1>6. ~MayFail("dies") => \A f \in Procs : proc[f] = "ended"
    BY <1>4 DEF Over
  <1> QED
    BY <1>2, <1>3, <1>5, <1>6

-----------------------------------------------------------------------------
(* Steps of the processes and of the hosts' scripts.                        *)

\* What the counts have shown stays true when processes only move forward.
LEMMA CountKept ==
  ASSUME TypeOK, CountInv, SavedInv, ClockInv,
         UNCHANGED <<params, pc, c, sampled, clock, saved>>,
         pc \in After => \A f \in Procs : /\ Seen(f) => Seen(f)'
                                          /\ Over(f) => Over(f)' /\ proc'[f] = proc[f]
  PROVE  CountInv' /\ SavedInv' /\ ClockInv'
  <1>1. MayFail("proxy")' <=> MayFail("proxy")
    BY DEF MayFail
  <1>2. \A h \in sampled : \A f \in On(h) : f \in Procs
    BY DEF On
  <1>3. ActiveInv'
    BY <1>1, <1>2 DEF CountInv, ActiveInv, After
  <1>4. SeenInv'
    BY <1>1 DEF CountInv, SeenInv, After
  <1>5. FinishInv'
    BY <1>1, <1>2 DEF CountInv, FinishInv, After
  <1>6. OverInv'
    BY <1>1 DEF CountInv, OverInv, After
  <1>7. SavedInv'
    BY <1>1 DEF CountInv, OverInv, SavedInv, After
  <1>8. ClockInv'
    BY DEF ClockInv
  <1> QED
    BY <1>3, <1>4, <1>5, <1>6, <1>7, <1>8 DEF CountInv

\* A process that changes was not over, and if it ran its traffic has been seen;
\* its log follows it.
LEMMA ProcStep ==
  ASSUME IInv, NEW f \in Procs, Listen(f) \/ Connect(f) \/ Finish(f) \/ Die(f)
  PROVE  IInv'
  <1>1. TypeOK /\ ScriptInv /\ LogInv /\ CountInv /\ SavedInv /\ ClockInv
    BY DEF IInv
  <1>2. UNCHANGED <<params, pc, c, sampled, script, clock, saved>>
    BY DEF Listen, Connect, Finish, Die, OnlyProcs, clockVars
  <1>3. f[1] \in Hosts /\ Other(f) \in Procs /\ Other(f) # f
    BY ProcHost
  <1>4. TypeOK'
    <2>1. proc' \in [Procs -> States]
      BY <1>1, <1>3 DEF TypeOK, States, Listen, Connect, Finish, Die
    <2>2. logs' \in [Procs -> {"none", "stale", "partial", "full"}]
      BY <1>1 DEF TypeOK, Listen, Connect, Finish, Die
    <2> QED
      BY <1>1, <1>2, <2>1, <2>2 DEF TypeOK
  <1>5. ScriptInv'
    BY <1>1, <1>2 DEF ScriptInv
  <1>6. MayFail("dies")' <=> MayFail("dies")
    BY <1>2 DEF MayFail
  <1>7. \A g \in Procs :
          \/ proc'[g] = proc[g] /\ logs'[g] = logs[g]
          \/ /\ proc[g] \in {"starting", "listening"}
             /\ proc'[g] \in {"listening", "running", "failed"} /\ logs'[g] = logs[g]
          \/ /\ proc[g] = "running" /\ proc'[g] = "ended"
             /\ logs'[g] = IF logs[g] = "partial" THEN "full" ELSE logs[g]
          \/ proc[g] = "running" /\ proc'[g] = "failed" /\ MayFail("dies") /\ logs'[g] = logs[g]
    <2>1. CASE Listen(f)
      BY <1>1, <2>1 DEF TypeOK, Listen
    <2>2. CASE Connect(f)
      BY <1>1, <1>3, <2>2 DEF TypeOK, Connect
    <2>3. CASE Finish(f)
      BY <1>1, <2>3 DEF TypeOK, Finish
    <2>4. CASE Die(f)
      BY <1>1, <2>4 DEF TypeOK, Die
    <2> QED
      BY <2>1, <2>2, <2>3, <2>4
  <1>8. LogInv'
    <2> SUFFICES ASSUME pc \in {"leftover", "switch", "launch"} \union (After \ {"done"}),
                        NEW g \in Procs
                 PROVE  LogOf(g)'
      BY <1>2 DEF LogInv
    <2>1. LogOf(g)
      BY <1>1 DEF LogInv
    <2>2. Launched(g)' <=> Launched(g)
      BY <1>2 DEF Launched
    <2> QED
      BY <1>7, <2>1, <2>2 DEF LogOf
  <1>9. \A g \in Procs : /\ Seen(g) => Seen(g)'
                         /\ Over(g) => Over(g)' /\ proc'[g] = proc[g]
    BY <1>6, <1>7 DEF Seen, Over
  <1>10. CountInv' /\ SavedInv' /\ ClockInv'
    BY <1>1, <1>2, <1>9, CountKept
  <1> QED
    BY <1>4, <1>5, <1>8, <1>10 DEF IInv

\* A script only runs while run_experiment waits for it, and launches what has
\* not been launched on its host.
LEMMA ScriptStep ==
  ASSUME IInv, NEW h \in Hosts, RunScript(h)
  PROVE  IInv'
  <1> DEFINE fs == IF script[h] = "servers" THEN {f \in On(h) : IsServer(f)}
                   ELSE {f \in On(h) : ~IsServer(f)}
  <1>1. TypeOK /\ ScriptInv /\ LogInv /\ CountInv /\ SavedInv /\ ClockInv
    BY DEF IInv
  <1>2. UNCHANGED <<params, pc, c, sampled, clock, saved>>
    BY DEF RunScript, LaunchServers, LaunchClients, clockVars
  <1>3. \/ script[h] = "servers" /\ script' = [script EXCEPT ![h] = "clients"]
        \/ script[h] = "clients" /\ script' = [script EXCEPT ![h] = "done"]
    BY DEF RunScript, LaunchServers, LaunchClients
  <1>4. pc \notin Before /\ pc \notin After
    BY <1>1, <1>3 DEF ScriptInv
  <1>5. /\ proc' = [f \in Procs |-> IF f \in fs THEN "starting" ELSE proc[f]]
        /\ logs' = [f \in Procs |-> IF f \in fs THEN "partial" ELSE logs[f]]
    BY DEF RunScript, LaunchServers, LaunchClients, Started, Truncated, CleanLogs
  <1>6. TypeOK'
    BY <1>1, <1>2, <1>3, <1>5 DEF TypeOK, States
  <1>7. ScriptInv'
    BY <1>2, <1>4 DEF ScriptInv
  <1>8. LogInv'
    <2> SUFFICES ASSUME pc \in {"leftover", "switch", "launch"} \union (After \ {"done"}),
                        NEW g \in Procs
                 PROVE  LogOf(g)'
      BY <1>2 DEF LogInv
    <2>1. LogOf(g)
      BY <1>1 DEF LogInv
    <2>2. g[1] \in Hosts /\ (g \in On(h) <=> g[1] = h)
      BY ProcHost DEF On
    <2>3. CASE g \in fs
      <3>1. Launched(g)'
        BY <1>1, <1>3, <2>2, <2>3 DEF Launched, TypeOK
      <3> QED
        BY <1>5, <2>3, <3>1 DEF LogOf
    <2>4. CASE g \notin fs
      <3>1. Launched(g)' <=> Launched(g)
        BY <1>1, <1>3, <2>2, <2>4 DEF Launched, TypeOK
      <3> QED
        BY <1>5, <2>1, <2>4, <3>1 DEF LogOf
    <2> QED
      BY <2>3, <2>4
  <1>9. CountInv' /\ SavedInv' /\ ClockInv'
    BY <1>1, <1>2, <1>4, CountKept
  <1> QED
    BY <1>6, <1>7, <1>8, <1>9 DEF IInv

-----------------------------------------------------------------------------
(* Steps of run_experiment.                                                 *)

LEMMA SameProcs ==
  ASSUME UNCHANGED <<params, proc>>
  PROVE  /\ \A x : MayFail(x)' <=> MayFail(x)
         /\ \A f : (Seen(f)' <=> Seen(f)) /\ (Over(f)' <=> Over(f))
  BY DEF MayFail, Seen, Over

LEMMA SameHosts ==
  ASSUME UNCHANGED hostVars
  PROVE  \A f : LogOf(f)' <=> LogOf(f)
  BY DEF hostVars, LogOf, Launched

\* Up to the launch nothing has been counted that matters.
LEMMA EarlyStep ==
  ASSUME IInv, CheckConfig \/ CleanLogDir \/ KillLeftover \/ Launch
  PROVE  IInv'
  <1>1. TypeOK /\ ScriptInv /\ LogInv /\ CountInv /\ SavedInv /\ ClockInv
    BY DEF IInv
  <1>2. /\ pc \in Before
        /\ pc' \in {"logs", "leftover", "switch", "launch", "aborted", "exited"}
    BY DEF CheckConfig, CleanLogDir, KillLeftover, Launch, Goto, Recount, Counted, Before
  <1>3. saved' = saved /\ saved = << >>
    BY <1>1, <1>2 DEF CheckConfig, CleanLogDir, KillLeftover, Launch, SavedInv, Before
  <1>4. TypeOK'
    BY <1>1 DEF TypeOK, States, CheckConfig, CleanLogDir, KillLeftover, Launch, Goto,
                Recount, hostVars, NoLogs
  <1>5. ScriptInv'
    <2>1. pc' \notin After
      BY <1>2 DEF After
    <2>2. pc' \in Before => script' = script
      BY DEF CheckConfig, CleanLogDir, KillLeftover, Launch, Goto, hostVars, Before
    <2> QED
      BY <1>1, <1>2, <2>1, <2>2 DEF ScriptInv
  <1>6. \A f \in Procs : script[f[1]] = "idle"
    BY <1>1, <1>2, ProcHost DEF ScriptInv
  <1>7. \A f \in Procs : ~Launched(f)'
    <2>1. \A h \in Hosts : script'[h] \in {"idle", "servers"}
      BY <1>1, <1>2 DEF ScriptInv, CheckConfig, CleanLogDir, KillLeftover, Launch, hostVars
    <2> QED
      BY <2>1, ProcHost DEF Launched
  <1>8. LogInv'
    <2>1. pc' \in {"leftover", "switch", "launch"} => \A f \in Procs : logs'[f] = "none"
      <3>1. CASE CheckConfig
        BY <3>1 DEF CheckConfig, Goto
      <3>2. CASE CleanLogDir
        BY <3>2 DEF CleanLogDir, NoLogs, Goto, Recount
      <3>3. CASE KillLeftover \/ Launch
        <4>1. pc \in {"leftover", "switch"} /\ logs' = logs
          BY <3>3 DEF KillLeftover, Launch, Counted
        <4>2. \A f \in Procs : LogOf(f)
          BY <1>1, <4>1 DEF LogInv
        <4> QED
          BY <1>6, <4>1, <4>2 DEF LogOf, Launched
      <3> QED
        BY <3>1, <3>2, <3>3
    <2>2. pc' \notin After
      BY <1>2 DEF After
    <2> QED
      BY <1>7, <2>1, <2>2 DEF LogInv, LogOf
  <1>9. CountInv'
    BY <1>2 DEF CountInv, ActiveInv, SeenInv, FinishInv, OverInv
  <1>10. SavedInv' /\ ClockInv'
    BY <1>2, <1>3 DEF SavedInv, ClockInv
  <1> QED
    BY <1>4, <1>5, <1>8, <1>9, <1>10 DEF IInv

\* The steps after the launch leave the hosts alone, except for SaveLogs.
LEMMA LateFrame ==
  ASSUME IInv, TypeOK', UNCHANGED <<params, hostVars, saved>>,
         pc = "launch" => \A h \in Hosts : script[h] = "done",
         pc \in {"launch"} \union (After \ {"done"}),
         pc' \in (After \ {"done"}) \union {"exited"},
         CountInv', ClockInv'
  PROVE  IInv'
  <1>1. ScriptInv'
    BY DEF IInv, ScriptInv, After, Before, hostVars
  <1>2. LogInv'
    BY SameHosts DEF IInv, LogInv, After
  <1>3. SavedInv'
    BY DEF IInv, SavedInv, After
  <1> QED
    BY <1>1, <1>2, <1>3 DEF IInv

\* Another host in the count: the only way to reach the largest sum, or to
\* stay at zero.
LEMMA SampleStep ==
  ASSUME IInv, NEW h \in Hosts, Sample(h)
  PROVE  IInv'
  <1>1. TypeOK /\ ScriptInv /\ LogInv /\ CountInv /\ SavedInv /\ ClockInv
    BY DEF IInv
  <1>2. /\ UNCHANGED <<params, pc, script, proc, logs, clock, saved>>
        /\ sampled' = sampled \union {h} /\ h \notin sampled
    BY DEF Sample, hostVars, clockVars
  <1>3. PICK s \in Shown(h) : c' = c + Cardinality(s)
    BY DEF Sample
  <1>4. IsFiniteSet(On(h)) /\ Cardinality(On(h)) = PerHost /\ PerHost \in Nat
    BY OnCount
  <1>5. s \subseteq On(h)
    <2>1. CASE pc \in {"leftover", "count"}
      BY <1>3, <2>1 DEF Shown
    <2>2. CASE pc \notin {"leftover", "count"}
      BY <1>3, <2>2 DEF Shown
    <2> QED
      BY <2>1, <2>2
  <1>6. /\ IsFiniteSet(s) /\ Cardinality(s) \in Nat /\ Cardinality(s) <= PerHost
        /\ Cardinality(s) = PerHost => s = On(h)
        /\ Cardinality(s) = 0 => s = {}
    BY <1>4, <1>5, FS_Subset, FS_CardinalityType, FS_EmptySet
  <1>7. \A x : (MayFail(x)' <=> MayFail(x))
    BY <1>2 DEF MayFail
  <1>8. \A f : (Seen(f)' <=> Seen(f)) /\ (Over(f)' <=> Over(f))
    BY <1>2, SameProcs
  <1>9. pc \in {"active", "finish"} /\ ~MayFail("proxy") =>
          s = {f \in On(h) : proc[f] = "running"}
    BY <1>3 DEF Shown
  <1>10. TypeOK'
    BY <1>1, <1>2, <1>3, <1>6 DEF TypeOK
  <1>11. ScriptInv' /\ SavedInv' /\ ClockInv'
    BY <1>1, <1>2, <1>7 DEF ScriptInv, SavedInv, ClockInv
  <1>12. LogInv'
    BY <1>1, <1>2, SameHosts DEF LogInv, hostVars
  <1>13. ActiveInv'
    <2> SUFFICES ASSUME pc = "active", ~MayFail("proxy")
                 PROVE  /\ c' <= Cardinality(sampled') * PerHost
                        /\ c' = Cardinality(sampled') * PerHost =>
                             \A g \in sampled' : \A f \in On(g) : Seen(f)
      BY <1>2, <1>7, <1>8 DEF ActiveInv, PerHost, On
    <2>1. /\ Cardinality(sampled) \in Nat
          /\ Cardinality(sampled') * PerHost = Cardinality(sampled) * PerHost + PerHost
      BY <1>1, <1>2, SampledCount DEF TypeOK
    <2>2. /\ c <= Cardinality(sampled) * PerHost
          /\ c = Cardinality(sampled) * PerHost =>
               \A g \in sampled : \A f \in On(g) : Seen(f)
      BY <1>1 DEF CountInv, ActiveInv
    <2>3. Cardinality(sampled) * PerHost \in Nat
      BY <1>4, <2>1
    <2>4. c' <= Cardinality(sampled') * PerHost
      BY <1>1, <1>3, <1>4, <1>6, <2>1, <2>2, <2>3 DEF TypeOK
    <2>5. ASSUME c' = Cardinality(sampled') * PerHost
          PROVE  c = Cardinality(sampled) * PerHost /\ Cardinality(s) = PerHost
      BY <1>1, <1>3, <1>4, <1>6, <2>1, <2>2, <2>3, <2>5 DEF TypeOK
    <2>6. ASSUME c' = Cardinality(sampled') * PerHost, NEW g \in sampled', NEW f \in On(g)
          PROVE  Seen(f)
      <3>1. CASE g \in sampled
        BY <2>2, <2>5, <2>6, <3>1
      <3>2. CASE g = h
        BY <1>6, <1>9, <2>5, <2>6, <3>2 DEF Seen
      <3> QED
        BY <1>2, <3>1, <3>2
    <2> QED
      BY <2>4, <2>6
  <1>14. FinishInv'
    <2> SUFFICES ASSUME pc = "finish", ~MayFail("proxy"), c' = 0,
                        NEW g \in sampled', NEW f \in On(g)
                 PROVE  Over(f)
      BY <1>2, <1>7, <1>8 DEF FinishInv, On
    <2>1. c = 0 /\ s = {}
      BY <1>1, <1>3, <1>6 DEF TypeOK
    <2>2. CASE g \in sampled
      BY <1>1, <2>1, <2>2 DEF CountInv, FinishInv
    <2>3. CASE g = h
      <3>1. f \in Procs /\ proc[f] # "running"
        BY <1>9, <2>1, <2>3 DEF On
      <3>2. Seen(f)
        BY <1>1, <3>1 DEF CountInv, SeenInv
      <3> QED
        BY <3>1, <3>2 DEF Seen, Over
    <2> QED
      BY <1>2, <2>2, <2>3
  <1>15. SeenInv' /\ OverInv'
    BY <1>1, <1>2, <1>7, <1>8 DEF CountInv, SeenInv, OverInv
  <1> QED
    BY <1>10, <1>11, <1>12, <1>13, <1>14, <1>15 DEF IInv, CountInv

-----------------------------------------------------------------------------
(* The steps from the launch to the move.                                   *)

\* A new count starts with nothing known.
LEMMA LateStep ==
  ASSUME IInv, LaunchDone \/ CheckCount \/ StartClock
  PROVE  IInv'
  <1>1. TypeOK /\ ScriptInv /\ LogInv /\ CountInv /\ SavedInv /\ ClockInv
    BY DEF IInv
  <1>2. UNCHANGED <<params, hostVars, saved>>
    BY DEF LaunchDone, CheckCount, StartClock
  <1>3. \/ pc = "launch" /\ pc' = "count" /\ \A h \in Hosts : script[h] = "done"
        \/ pc = "count" /\ pc' = "exited"
        \/ pc = "count" /\ pc' = "active" /\ c' = 0 /\ sampled' = {}
        \/ pc = "clock" /\ pc' = "clock_wait"
        \/ pc = "clock" /\ pc' = "finish" /\ sampled' = {}
    BY DEF LaunchDone, CheckCount, StartClock, Counted, Goto, Recount
  <1>4. TypeOK'
    <2>1. \/ c' = c /\ sampled' = sampled
          \/ c' = 0 /\ sampled' = {}
      <3>1. CASE LaunchDone
        BY <3>1 DEF LaunchDone, Recount
      <3>2. CASE CheckCount
        BY <3>2 DEF CheckCount, Goto, Recount
      <3>3. CASE StartClock
        BY <3>3 DEF StartClock, Goto, Recount
      <3> QED
        BY <3>1, <3>2, <3>3
    <2> QED
      BY <1>1, <1>2, <2>1 DEF TypeOK, hostVars
  <1>5. /\ \A x : (MayFail(x)' <=> MayFail(x))
        /\ \A f : (Seen(f)' <=> Seen(f)) /\ (Over(f)' <=> Over(f))
    BY <1>2, SameProcs DEF hostVars
  <1>6. CountInv'
    <2>1. ActiveInv'
      BY <1>3, NothingSampled DEF ActiveInv, PerHost
    <2>2. SeenInv'
      BY <1>1, <1>3, <1>5 DEF CountInv, SeenInv
    <2>3. FinishInv' /\ OverInv'
      BY <1>3 DEF FinishInv, OverInv
    <2> QED
      BY <2>1, <2>2, <2>3 DEF CountInv
  <1>7. ClockInv'
    BY <1>3 DEF ClockInv
  <1>8. /\ pc \in {"launch"} \union (After \ {"done"})
        /\ pc' \in (After \ {"done"}) \union {"exited"}
        /\ pc = "launch" => \A h \in Hosts : script[h] = "done"
    BY <1>3 DEF After
  <1> QED
    BY <1>2, <1>4, <1>6, <1>7, <1>8, LateFrame

\* The loop that waits for all traffic ends with all of it seen.
LEMMA WaitActiveStep ==
  ASSUME IInv, WaitActive
  PROVE  IInv'
  <1>1. TypeOK /\ ScriptInv /\ LogInv /\ CountInv /\ SavedInv /\ ClockInv
    BY DEF IInv
  <1>2. UNCHANGED <<params, hostVars, saved>>
    BY DEF WaitActive
  <1>3. /\ pc = "active" /\ sampled = Hosts
        /\ \/ c = ConnCount /\ pc' = "clock" /\ c' = c /\ sampled' = sampled
           \/ pc' = "active" /\ c' = 0 /\ sampled' = {}
    BY DEF WaitActive, Counted, AllActive, Goto, Recount
  <1>4. TypeOK'
    BY <1>1, <1>2, <1>3 DEF TypeOK, hostVars
  <1>5. /\ \A x : (MayFail(x)' <=> MayFail(x))
        /\ \A f : (Seen(f)' <=> Seen(f)) /\ (Over(f)' <=> Over(f))
    BY <1>2, SameProcs DEF hostVars
  <1>6. ActiveInv'
    BY <1>3, NothingSampled DEF ActiveInv, PerHost
  <1>7. SeenInv'
    <2> SUFFICES ASSUME pc' = "clock", ~MayFail("proxy"), NEW f \in Procs PROVE Seen(f)
      BY <1>3, <1>5 DEF SeenInv
    <2>1. c = Cardinality(sampled) * PerHost
      BY <1>3 DEF ConnCount, PerHost
    <2>2. f[1] \in sampled /\ f \in On(f[1])
      BY <1>3, ProcHost
    <2> QED
      BY <1>1, <1>3, <2>1, <2>2 DEF CountInv, ActiveInv
  <1>8. FinishInv' /\ OverInv' /\ ClockInv'
    BY <1>3 DEF FinishInv, OverInv, ClockInv
  <1>9. pc \in (After \ {"done"}) /\ pc' \in (After \ {"done"}) /\ pc # "launch"
    BY <1>3 DEF After
  <1> QED
    BY <1>2, <1>4, <1>6, <1>7, <1>8, <1>9, LateFrame DEF CountInv

\* The loop that waits for the end leaves no process that will run.
LEMMA WaitFinishedStep ==
  ASSUME IInv, WaitFinished
  PROVE  IInv'
  <1>1. TypeOK /\ ScriptInv /\ LogInv /\ CountInv /\ SavedInv /\ ClockInv
    BY DEF IInv
  <1>2. UNCHANGED <<params, hostVars, saved>>
    BY DEF WaitFinished
  <1>3. /\ pc = "finish" /\ sampled = Hosts
        /\ \/ c = 0 /\ pc' = "stop_clock" /\ c' = c /\ sampled' = sampled
           \/ pc' = "finish" /\ c' = 0 /\ sampled' = {}
    BY DEF WaitFinished, Counted, Goto, Recount
  <1>4. TypeOK'
    BY <1>1, <1>2, <1>3 DEF TypeOK, hostVars
  <1>5. /\ \A x : (MayFail(x)' <=> MayFail(x))
        /\ \A f : (Seen(f)' <=> Seen(f)) /\ (Over(f)' <=> Over(f))
    BY <1>2, SameProcs DEF hostVars
  <1>6. ActiveInv' /\ FinishInv' /\ ClockInv'
    BY <1>3 DEF ActiveInv, FinishInv, ClockInv
  <1>7. SeenInv'
    BY <1>1, <1>3, <1>5 DEF CountInv, SeenInv
  <1>8. OverInv'
    <2> SUFFICES ASSUME pc' = "stop_clock", ~MayFail("proxy"), NEW f \in Procs PROVE Over(f)
      BY <1>3, <1>5 DEF OverInv
    <2>1. f[1] \in sampled /\ f \in On(f[1])
      BY <1>3, ProcHost
    <2> QED
      BY <1>1, <1>3, <2>1 DEF CountInv, FinishInv
  <1>9. pc \in (After \ {"done"}) /\ pc' \in (After \ {"done"}) /\ pc # "launch"
    BY <1>3 DEF After
  <1> QED
    BY <1>2, <1>4, <1>6, <1>7, <1>8, <1>9, LateFrame DEF CountInv

LEMMA StopClockStep ==
  ASSUME IInv, StopClock
  PROVE  IInv'
  <1>1. TypeOK /\ ScriptInv /\ LogInv /\ CountInv /\ SavedInv /\ ClockInv
    BY DEF IInv
  <1>2. UNCHANGED <<params, hostVars, saved, c, sampled>>
    BY DEF StopClock, Goto
  <1>3. pc = "stop_clock" /\ pc' \in {"save", "exited"}
    BY DEF StopClock, Goto
  <1>4. TypeOK'
    BY <1>1, <1>2 DEF TypeOK, hostVars
  <1>5. /\ \A x : (MayFail(x)' <=> MayFail(x))
        /\ \A f : (Seen(f)' <=> Seen(f)) /\ (Over(f)' <=> Over(f))
    BY <1>2, SameProcs DEF hostVars
  <1>6. CountInv'
    BY <1>1, <1>3, <1>5 DEF CountInv, ActiveInv, SeenInv, FinishInv, OverInv
  <1>7. ClockInv'
    <2>1. pc' = "save" => ~clock'
      BY Zenon DEF StopClock, Goto
    <2> QED
      BY <1>3, <2>1 DEF ClockInv
  <1>8. /\ pc \in (After \ {"done"}) /\ pc # "launch"
        /\ pc' \in (After \ {"done"}) \union {"exited"}
    BY <1>3 DEF After
  <1> QED
    BY <1>2, <1>4, <1>6, <1>7, <1>8, LateFrame

\* The logs that are moved away are those of processes that are over.
LEMMA SaveLogsStep ==
  ASSUME IInv, SaveLogs
  PROVE  IInv'
  <1>1. TypeOK /\ ScriptInv /\ LogInv /\ CountInv /\ SavedInv /\ ClockInv
    BY DEF IInv
  <1>2. UNCHANGED <<params, script, proc, clock, c, sampled>>
    BY DEF SaveLogs, Goto, clockVars
  <1>3. /\ pc = "save"
        /\ \/ pc' = "done" /\ saved' = <<logs>> /\ logs' = NoLogs
           \/ pc' = "exited" /\ saved' = saved /\ logs' = logs
    BY DEF SaveLogs, Goto
  <1>4. TypeOK'
    BY <1>1, <1>2, <1>3 DEF TypeOK, NoLogs
  <1>5. /\ \A x : (MayFail(x)' <=> MayFail(x))
        /\ \A f : (Seen(f)' <=> Seen(f)) /\ (Over(f)' <=> Over(f))
    BY <1>2, SameProcs
  <1>6. CountInv'
    BY <1>1, <1>3, <1>5 DEF CountInv, ActiveInv, SeenInv, FinishInv, OverInv
  <1>7. ScriptInv' /\ LogInv' /\ ClockInv'
    BY <1>1, <1>2, <1>3 DEF ScriptInv, LogInv, ClockInv, After, Before
  <1>8. SavedInv'
    <2>1. saved' # << >> => pc' = "done"
      BY <1>1, <1>3 DEF SavedInv
    <2>2. ASSUME pc' = "done", ~MayFail("proxy"), NEW f \in Procs
          PROVE  saved'[1][f] = IF proc[f] = "ended" THEN "full" ELSE "partial"
      <3>1. LogOf(f) /\ Launched(f)
        BY <1>1, <1>3, ProcHost DEF LogInv, ScriptInv, Launched, After
      <3>2. logs[f] = IF proc[f] = "ended" THEN "full" ELSE "partial"
        BY <3>1 DEF LogOf
      <3> QED
        BY <1>3, <2>2, <3>2
    <2> QED
      BY <1>2, <1>5, <2>1, <2>2 DEF SavedInv
  <1> QED
    BY <1>4, <1>6, <1>7, <1>8 DEF IInv

-----------------------------------------------------------------------------
(* The theorem.                                                             *)

LEMMA NextInv ==
  ASSUME IInv, [Next]_vars
  PROVE  IInv'
  <1>1. CASE CheckConfig \/ CleanLogDir \/ KillLeftover \/ Launch
    BY <1>1, EarlyStep
  <1>2. CASE LaunchDone \/ CheckCount \/ StartClock
    BY <1>2, LateStep
  <1>3. CASE WaitActive
    BY <1>3, WaitActiveStep
  <1>4. CASE WaitFinished
    BY <1>4, WaitFinishedStep
  <1>5. CASE StopClock
    BY <1>5, StopClockStep
  <1>6. CASE SaveLogs
    BY <1>6, SaveLogsStep
  <1>7. CASE \E h \in Hosts : Sample(h)
    BY <1>7, SampleStep
  <1>8. CASE \E h \in Hosts : RunScript(h)
    BY <1>8, ScriptStep
  <1>9. CASE \E f \in Procs : RunProc(f) \/ Die(f)
    BY <1>9, ProcStep DEF RunProc
  <1>10. CASE UNCHANGED vars
    BY <1>10 DEF vars, IInv, TypeOK, ScriptInv, LogInv, LogOf, Launched, CountInv,
                 ActiveInv, SeenInv, FinishInv, OverInv, SavedInv, ClockInv, Seen, Over,
                 MayFail
  <1> QED
    BY <1>1, <1>2, <1>3, <1>4, <1>5, <1>6, <1>7, <1>8, <1>9, <1>10 DEF Next, RunExperiment

\* Whatever the hosts, the leftovers of an earlier experiment and the failures
\* on the way, logs are only moved away when no traffic runs or is still to run,
\* every one of them is of this experiment and, unless its process died, whole,
\* and the clock has been stopped.
THEOREM ResultsAreWhole == Spec => []SavedComplete
  <1>1. Init => IInv
    BY InitInv
  <1>2. IInv /\ [Next]_vars => IInv'
    BY NextInv
  <1>3. IInv => SavedComplete
    BY InvImplies
  <1> QED
    BY <1>1, <1>2, <1>3, PTL DEF Spec

=============================================================================
