--------------------------- MODULE OperaExperiment ---------------------------
(***************************************************************************)
(* The Opera low-latency experiment: run_opera_experiment.sh on one host    *)
(* launches opera-ll-traffic.sh on every host through pssh, waits until the *)
(* traffic of all pairs of hosts runs, starts the clock of the switch,      *)
(* waits until no traffic runs and moves the logs away.                     *)
(*                                                                          *)
(* The script knows the traffic only by what ps shows at each host, one     *)
(* host after the other in any order.  It runs under set -e: a command that *)
(* fails ends it.  ib_send_lat, pssh, the clock program and the operator    *)
(* are external.                                                            *)
(***************************************************************************)
EXTENDS Naturals, FiniteSets

CONSTANTS Hosts,        \* the numbers of the hosts
          ParamSet      \* what an experiment may be started with

ASSUME HostsAssumption == Hosts \subseteq Nat /\ IsFiniteSet(Hosts)

\* <<h, p>> is the process on host h for its traffic with host p, and the name
\* of its log: the host with the larger number is the server.
Procs == {f \in Hosts \X Hosts : f[1] # f[2]}

IsServer(f) == f[1] > f[2]

Other(f) == <<f[2], f[1]>>

On(h) == {f \in Procs : f[1] = h}

(***************************************************************************)
(* What may go wrong:                                                       *)
(*   "config"   a program is missing, or the switch cannot be set;          *)
(*   "refused"  a client connects before its server listens, although its   *)
(*              script has slept for a second;                              *)
(*   "early"    traffic ends before all of it has been seen running;        *)
(*   "dies"     a process fails while its traffic runs;                     *)
(*   "proxy"    ps shows a process as running that is still starting;       *)
(*   "pid"      pidof looks for the clock before it has been started;       *)
(*   "save"     the directory of all results does not exist.                *)
(***************************************************************************)
AllFaults == {"config", "refused", "early", "dies", "proxy", "pid", "save"}

\* clock: USE_CLOCK is false, or the clock keeps the pipe of the command
\* substitution that starts it open, or it does not.  leftover: the traffic of
\* an earlier experiment; stale: whether its logs are still there.
Params == [clock : {"none", "attached", "detached"}, leftover : SUBSET Procs,
           stale : BOOLEAN, faults : SUBSET AllFaults]

ASSUME ParamAssumption == ParamSet \subseteq Params

VARIABLES
    params,
    pc,         \* where run_experiment is
    c,          \* its count, while it is being taken too
    sampled,    \* the hosts whose ps is in it
    script,     \* where opera-ll-traffic.sh is on each host
    proc,       \* the state of every process
    logs,       \* the logs in LOG_DIR, which all hosts share
    clock,      \* whether the clock program runs
    clock_pid,  \* whether its pid is known
    saved       \* the logs that were moved away

vars == <<params, pc, c, sampled, script, proc, logs, clock, clock_pid, saved>>
clockVars == <<clock, clock_pid>>
hostVars == <<script, proc, logs>>

MayFail(x) == x \in params.faults

Alive == {"starting", "listening", "running"}

NoLogs == [f \in Procs |-> "none"]

\* Take the next count, at this label.
Recount(l) == pc' = l /\ c' = 0 /\ sampled' = {}

Goto(l) == pc' = l /\ UNCHANGED <<c, sampled>>

-----------------------------------------------------------------------------
(* run_experiment up to the launch.                                         *)

\* check_config, and the first question.
CheckConfig ==
    /\ pc = "check"
    /\ \/ Goto("logs")
       \/ Goto("aborted")
       \/ MayFail("config") /\ Goto("exited")
    /\ UNCHANGED <<params, hostVars, clockVars, saved>>

CleanLogDir ==
    /\ pc = "logs"
    /\ \/ logs = NoLogs /\ Recount("leftover") /\ UNCHANGED logs
       \/ /\ logs # NoLogs
          /\ \/ Recount("leftover") /\ logs' = NoLogs
             \/ Goto("aborted") /\ UNCHANGED logs
    /\ UNCHANGED <<params, script, proc, clockVars, saved>>

\* What ps shows at a host, of which get_active_count keeps state R.
Shown(h) ==
    IF pc \in {"leftover", "count"}
    THEN {{f \in On(h) : proc[f] \in Alive}}
    ELSE LET running == {f \in On(h) : proc[f] = "running"}
             starting == {f \in On(h) : proc[f] = "starting"}
         IN  {running \union s : s \in IF MayFail("proxy") THEN SUBSET starting ELSE {{}}}

Counting == pc \in {"leftover", "count", "active", "finish"}

\* pssh brings the answer of another host.
Sample(h) ==
    /\ Counting /\ h \in Hosts \ sampled
    /\ \E s \in Shown(h) : c' = c + Cardinality(s)
    /\ sampled' = sampled \union {h}
    /\ UNCHANGED <<params, pc, hostVars, clockVars, saved>>

Counted(l) == pc = l /\ sampled = Hosts

\* killall fails on a host that has nothing to kill, pssh with it, and set -e
\* ends the script.
KillLeftover ==
    /\ Counted("leftover")
    /\ \/ c = 0 /\ Goto("switch") /\ UNCHANGED proc
       \/ c # 0 /\ Goto("aborted") /\ UNCHANGED proc
       \/ /\ c # 0
          /\ proc' = [f \in Procs |-> IF proc[f] \in Alive THEN "none" ELSE proc[f]]
          /\ Goto(IF \A h \in Hosts : \E f \in On(h) : proc[f] \in Alive
                  THEN "switch" ELSE "exited")
    /\ UNCHANGED <<params, script, logs, clockVars, saved>>

\* switch_set_l3, and pssh starts the script on every host.
Launch ==
    /\ pc = "switch"
    /\ \/ Goto("launch") /\ script' = [h \in Hosts |-> "servers"]
       \/ MayFail("config") /\ Goto("exited") /\ UNCHANGED script
    /\ UNCHANGED <<params, proc, logs, clockVars, saved>>

-----------------------------------------------------------------------------
(* opera-ll-traffic.sh.                                                     *)

\* Mutant: rm -f $LOG_DIR/*, without the quotes.
CleanLogsUnquoted == NoLogs

\* rm -f "$LOG_DIR/*" names a file that does not exist.
CleanLogs == logs

Started(fs) == proc' = [f \in Procs |-> IF f \in fs THEN "starting" ELSE proc[f]]

Truncated(l, fs) == [f \in Procs |-> IF f \in fs THEN "partial" ELSE l[f]]

LaunchServers(h) ==
    /\ script[h] = "servers"
    /\ LET fs == {f \in On(h) : IsServer(f)} IN
          Started(fs) /\ logs' = Truncated(CleanLogs, fs)
    /\ script' = [script EXCEPT ![h] = "clients"]
    /\ UNCHANGED <<params, pc, c, sampled, clockVars, saved>>

LaunchClients(h) ==
    /\ script[h] = "clients"
    /\ LET fs == {f \in On(h) : ~IsServer(f)} IN
          Started(fs) /\ logs' = Truncated(logs, fs)
    /\ script' = [script EXCEPT ![h] = "done"]
    /\ UNCHANGED <<params, pc, c, sampled, clockVars, saved>>

-----------------------------------------------------------------------------
(* ib_send_lat.                                                             *)

OnlyProcs == UNCHANGED <<params, pc, c, sampled, script, clockVars, saved>>

Listen(f) ==
    /\ IsServer(f) /\ proc[f] = "starting"
    /\ proc' = [proc EXCEPT ![f] = "listening"]
    /\ OnlyProcs /\ UNCHANGED logs

Connect(f) ==
    /\ ~IsServer(f) /\ proc[f] = "starting"
    /\ \/ /\ proc[Other(f)] = "listening"
          /\ proc' = [proc EXCEPT ![f] = "running", ![Other(f)] = "running"]
       \/ /\ proc[Other(f)] # "listening" /\ MayFail("refused")
          /\ proc' = [proc EXCEPT ![f] = "failed"]
    /\ OnlyProcs /\ UNCHANGED logs

\* Two minutes of traffic are longer than the launch, unless it ends early.
AllSeen == pc \in {"clock", "clock_wait", "finish", "stop_clock", "save"}

Finish(f) ==
    /\ proc[f] = "running" /\ proc[Other(f)] \in {"running", "ended"}
    /\ AllSeen \/ MayFail("early")
    /\ proc' = [proc EXCEPT ![f] = "ended"]
    /\ logs' = [logs EXCEPT ![f] = IF @ = "partial" THEN "full" ELSE @]
    /\ OnlyProcs

\* The peer of a process that has failed may notice, or poll for ever.
Die(f) ==
    /\ MayFail("dies") /\ proc[f] = "running"
    /\ proc' = [proc EXCEPT ![f] = "failed"]
    /\ OnlyProcs /\ UNCHANGED logs

-----------------------------------------------------------------------------
(* run_experiment from the launch on.                                       *)

\* Mutant: the connections are counted, not the processes at their ends.
ConnCountPairs == (Cardinality(Hosts) * (Cardinality(Hosts) - 1)) \div 2

ConnCount == Cardinality(Hosts) * (Cardinality(Hosts) - 1)

LaunchDone ==
    /\ pc = "launch" /\ \A h \in Hosts : script[h] = "done"
    /\ Recount("count")
    /\ UNCHANGED <<params, hostVars, clockVars, saved>>

CheckCount ==
    /\ Counted("count")
    /\ \/ c # ConnCount /\ Goto("exited")
       \/ c = ConnCount /\ Recount("active")
    /\ UNCHANGED <<params, hostVars, clockVars, saved>>

\* Mutant: the loop is left when any traffic runs.
AllActiveAny == c > 0

AllActive == c = ConnCount

WaitActive ==
    /\ Counted("active")
    /\ \/ AllActive /\ Goto("clock")
       \/ ~AllActive /\ Recount("active")
    /\ UNCHANGED <<params, hostVars, clockVars, saved>>

\* The operator says that another clock runs, or the clock is started in a
\* command substitution, which ends when nobody holds its pipe any more.
StartClock ==
    /\ pc = "clock"
    /\ \/ params.clock = "none" /\ Recount("finish") /\ UNCHANGED clockVars
       \/ /\ params.clock # "none"
          /\ clock' = TRUE
          /\ clock_pid' \in {TRUE} \union IF MayFail("pid") THEN {FALSE} ELSE {}
          /\ IF params.clock = "attached" THEN Goto("clock_wait") ELSE Recount("finish")
    /\ UNCHANGED <<params, hostVars, saved>>

WaitFinished ==
    /\ Counted("finish")
    /\ \/ c = 0 /\ Goto("stop_clock")
       \/ c # 0 /\ Recount("finish")
    /\ UNCHANGED <<params, hostVars, clockVars, saved>>

\* Without a pid kill fails, and ends the script.
StopClock ==
    /\ pc = "stop_clock"
    /\ \/ ~clock /\ Goto("save") /\ UNCHANGED clock
       \/ clock /\ clock_pid /\ clock' = FALSE /\ Goto("save")
       \/ clock /\ ~clock_pid /\ Goto("exited") /\ UNCHANGED clock
    /\ UNCHANGED <<params, hostVars, clock_pid, saved>>

SaveLogs ==
    /\ pc = "save"
    /\ \/ saved' = <<logs>> /\ logs' = NoLogs /\ Goto("done")
       \/ MayFail("save") /\ Goto("exited") /\ UNCHANGED <<saved, logs>>
    /\ UNCHANGED <<params, script, proc, clockVars>>

-----------------------------------------------------------------------------
Init ==
    /\ params \in ParamSet
    /\ pc = "check" /\ c = 0 /\ sampled = {}
    /\ script = [h \in Hosts |-> "idle"]
    /\ proc = [f \in Procs |-> IF f \notin params.leftover THEN "none"
                               ELSE IF Other(f) \in params.leftover THEN "running"
                               ELSE "listening"]
    /\ logs = [f \in Procs |-> IF params.stale THEN "stale" ELSE "none"]
    /\ clock = FALSE /\ clock_pid = FALSE
    /\ saved = << >>

RunExperiment ==
    \/ CheckConfig \/ CleanLogDir \/ KillLeftover \/ Launch
    \/ LaunchDone \/ CheckCount \/ WaitActive \/ StartClock
    \/ WaitFinished \/ StopClock \/ SaveLogs
    \/ \E h \in Hosts : Sample(h)

RunScript(h) == LaunchServers(h) \/ LaunchClients(h)

RunProc(f) == Listen(f) \/ Connect(f) \/ Finish(f)

Next == \/ RunExperiment
        \/ \E h \in Hosts : RunScript(h)
        \/ \E f \in Procs : RunProc(f) \/ Die(f)

\* The scripts and the processes are scheduled, and the operator answers.
Fairness == /\ WF_vars(RunExperiment)
            /\ \A h \in Hosts : WF_vars(RunScript(h))
            /\ \A f \in Procs : WF_vars(RunProc(f))

Spec == Init /\ [][Next]_vars /\ Fairness

-----------------------------------------------------------------------------
(* Properties.                                                              *)

\* The results are those of whole experiments: when the logs are moved away no
\* traffic runs or is still to run, although "all" and "none" are only ever
\* counted host by host; every log is of this experiment and, unless its
\* process died, complete, although every host's script cleans the directory
\* they share; and the clock has been stopped.
SavedComplete ==
    saved # << >> /\ ~MayFail("proxy") =>
        /\ \A f \in Procs : proc[f] \notin Alive
        /\ \A f \in Procs : saved[1][f] = IF proc[f] = "ended" THEN "full" ELSE "partial"
        /\ ~MayFail("dies") => \A f \in Procs : proc[f] = "ended"
        /\ ~clock

\* When nothing fails, no traffic is left over and the clock does not keep the
\* pipe, the experiment ends with its results saved, unless the operator
\* declines: neither the launch loop nor the finish loop waits for ever.
ExperimentEnds ==
    params.faults = {} /\ params.leftover = {} /\ params.clock # "attached"
    ~> pc \in {"done", "aborted"}

=============================================================================
