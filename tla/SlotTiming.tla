----------------------------- MODULE SlotTiming -----------------------------
(***************************************************************************)
(* When things happen, and what the latency report makes of it: the slot    *)
(* clock of control_main.c, the time stamps of the slots, and               *)
(* print_latency_report_raw of dccs_rdma.h over them.  With an interval of  *)
(* zero the slots are the requests of send_and_wait_requests, posted and    *)
(* waited for one after the other; print_latency_report hands their stamps  *)
(* to the same function.                                                    *)
(*                                                                          *)
(* ControlSession and RdmaSession say which stamps are taken; here all of   *)
(* them are, and time has a value.  The clock does not step back.           *)
(***************************************************************************)
EXTENDS Integers, Sequences, FiniteSetsExt

CONSTANTS
    ParamSet,           \* what a run may be started with
    DCCS_CYCLE_UPTIME,  \* in ticks of the clock
    Grids,              \* see Micro
    DBL_MAX

(***************************************************************************)
(* interval is SLOT_NS or 0, begin the clock at the first target.  late and *)
(* work belong to the environment: how long after its target (or after the  *)
(* slot before it) a slot may take its start stamp, and how long slot n may *)
(* take from there to its end stamp.                                        *)
(***************************************************************************)
Timed(p) == /\ p.repeat \in Nat \ {0}
            /\ p.interval \in Nat /\ p.begin \in Nat
            /\ p.late \subseteq Nat
            /\ p.work \in [1..p.repeat -> SUBSET Nat]
            /\ \A s \in 1..p.repeat : \A w \in p.work[s] : w < DBL_MAX

ASSUME ParamAssumption == \A p \in ParamSet : Timed(p)

ASSUME ClockAssumption ==
    /\ DCCS_CYCLE_UPTIME \in Nat /\ DBL_MAX \in Nat
    /\ Grids \in Seq(Nat \ {0}) /\ Len(Grids) = 3

VARIABLES
    params,
    pc,                 \* "slots", "report", "done"
    n,                  \* the loop index of either function, from 1
    now,                \* get_cycles()
    target,             \* the time the current slot waits for
    start, end,         \* the stamps, by slot
    busy,               \* how long each slot took, lateness included (history)
    latencies,          \* the array the report computes, and sorts
    sum, min, max,      \* what it accumulates
    finished_count,
    report              \* the line it prints

stamps == <<now, target, start, end, busy>>
totals == <<latencies, sum, min, max, finished_count>>
vars == <<params, pc, n, stamps, totals, report>>

-----------------------------------------------------------------------------
(* The slots.                                                               *)

Later(a, b) == IF a < b THEN b ELSE a

\* Mutant: the next slot is counted from the end of this one.
NextTargetFromNow == now + params.interval

NextTarget == target + params.interval

\* target += SLOT_NS; wait_until(target); the stamp; the writes and the wait
\* for their completions; the other stamp.  wait_until returns at once when the
\* target has passed.  With several packets the start is that of the last one,
\* and those before it count as lateness.
Slot ==
    /\ pc = "slots" /\ n <= params.repeat
    /\ \E l \in params.late, w \in params.work[n] :
          LET s == Later(now, NextTarget) + l IN
          /\ target' = NextTarget
          /\ start' = Append(start, s) /\ end' = Append(end, s + w)
          /\ busy' = Append(busy, l + w)
          /\ now' = s + w
    /\ n' = n + 1
    /\ UNCHANGED <<params, pc, totals, report>>

SlotsDone ==
    /\ pc = "slots" /\ n > params.repeat
    /\ pc' = "report" /\ n' = 1
    /\ UNCHANGED <<params, stamps, totals, report>>

-----------------------------------------------------------------------------
(* The report.                                                              *)

RoundTo(g, t) == ((t + g \div 2) \div g) * g

(***************************************************************************)
(* (double)t * MILLION / (double)clock_rate for a time since the epoch: the *)
(* conversion, the product and the quotient are each rounded to the numbers *)
(* a double can tell apart at their size, about 250 ns in all three cases.  *)
(***************************************************************************)
Micro(t) == RoundTo(Grids[3], RoundTo(Grids[2], RoundTo(Grids[1], t)))

\* A difference of stamps is small enough to be converted exactly.
Latency(k) == end[k] - start[k]

InUptime(k) == Micro(end[k]) - Micro(start[1]) <= DCCS_CYCLE_UPTIME

ReportNext ==
    /\ pc = "report" /\ n <= params.repeat
    /\ finished_count' = finished_count + IF InUptime(n) THEN 1 ELSE 0
    /\ latencies' = Append(latencies, Latency(n))
    /\ sum' = sum + Latency(n)
    /\ max' = IF Latency(n) > max THEN Latency(n) ELSE max
    /\ min' = IF Latency(n) < min THEN Latency(n) ELSE min
    /\ n' = n + 1
    /\ UNCHANGED <<params, pc, stamps, report>>

\* Mutant: the percentiles are taken from the latencies as they came.
SortLatenciesNot(s) == s

\* qsort: the k-th entry is the least that k entries do not exceed.
SortLatencies(s) ==
    LET AtMost(v) == {i \in DOMAIN s : s[i] <= v}
        Entries == {s[i] : i \in DOMAIN s}
    IN [k \in DOMAIN s |-> Min({v \in Entries : Cardinality(AtMost(v)) >= k})]

\* latencies[(int)(length * percent / 100)], from 0 in C and from 1 here.
Percent(s, percent) == s[(Len(s) * percent) \div 100 + 1]

\* The average is sum / length; the standard deviation is left out.
ReportDone ==
    /\ pc = "report" /\ n > params.repeat
    /\ latencies' = SortLatencies(latencies)
    /\ report' = <<[median    |-> Percent(latencies', 50),
                    percent90 |-> Percent(latencies', 90),
                    percent99 |-> Percent(latencies', 99),
                    min |-> min, max |-> max, sum |-> sum,
                    finished |-> finished_count]>>
    /\ pc' = "done"
    /\ UNCHANGED <<params, n, stamps, sum, min, max, finished_count>>

-----------------------------------------------------------------------------
Init ==
    /\ params \in ParamSet
    /\ pc = "slots" /\ n = 1
    /\ now = params.begin /\ target = params.begin
    /\ start = << >> /\ end = << >> /\ busy = << >>
    /\ latencies = << >> /\ sum = 0 /\ min = DBL_MAX /\ max = 0
    /\ finished_count = 0 /\ report = << >>

Next == Slot \/ SlotsDone \/ ReportNext \/ ReportDone

Spec == Init /\ [][Next]_vars

-----------------------------------------------------------------------------
(* Properties.                                                              *)

\* When slot k would end if slot j had met its target and all slots since had
\* followed without a pause.
Chain(j, k) == params.begin + j * params.interval
               + MapThenSumSet(LAMBDA x : busy[x], j..k)

\* The schedule does not drift.  The latest slot ended as if the last slot to meet its
\* target had been followed by the others without a pause: time lost in a slow
\* slot is made up for by the next ones starting at once, targets stay at
\* multiples of SLOT_NS from the beginning, and no slot starts before its own.
OnSchedule ==
    pc = "slots" /\ end # << >> =>
        end[Len(end)] = Max({Chain(j, Len(end)) : j \in 1..Len(end)})

Lengths == [k \in 1..params.repeat |-> Latency(k)]

Measured == {Lengths[k] : k \in 1..params.repeat}

\* How many slots satisfy this.
Count(P(_)) == Cardinality({k \in 1..params.repeat : P(k)})

\* v is one of the latencies, at least percent of them are no larger, and at
\* least the rest of them are no smaller.
IsPercentile(v, percent) ==
    /\ v \in Measured
    /\ 100 * Count(LAMBDA k : Latency(k) <= v) >= percent * params.repeat
    /\ 100 * Count(LAMBDA k : Latency(k) >= v) >= (100 - percent) * params.repeat

\* How many slots were over d after the first one's start.
Within(d) == Count(LAMBDA k : end[k] - start[1] <= d)

Tolerance == Grids[1] + Grids[2] + Grids[3]

\* What the report prints is what the stamps say, for every number of slots
\* from one on: the extremes, the median and the percentiles are those of the
\* measured latencies, and "# of requests sent in %d usec" is off only by
\* requests that ended within the rounding of absolute times from the limit.
ReportRight ==
    pc = "done" =>
        LET r == report[1] IN
        /\ r.min = Min(Measured) /\ r.max = Max(Measured)
        /\ r.sum = MapThenSumSet(LAMBDA k : Lengths[k], 1..params.repeat)
        /\ IsPercentile(r.median, 50)
        /\ IsPercentile(r.percent90, 90) /\ IsPercentile(r.percent99, 99)
        /\ Within(DCCS_CYCLE_UPTIME - Tolerance) <= r.finished
        /\ r.finished <= Within(DCCS_CYCLE_UPTIME + Tolerance)

=============================================================================
