------------------------------ MODULE ParseArgs ------------------------------
(***************************************************************************)
(* parse_args of dccs_utils.h: defaults, options in any order and any       *)
(* number, the warm-up added to the count, validation.  Options whose value *)
(* no property reads (port, direction, index, tos, verbose) only matter     *)
(* when they are invalid.                                                   *)
(***************************************************************************)
EXTENDS Integers

CONSTANTS DEFAULT_MESSAGE_COUNT,
          SIZE,         \* one more than SIZE_MAX
          Numbers       \* the numbers that may be given to an option

ASSUME SizeAssumption == SIZE \in Nat /\ DEFAULT_MESSAGE_COUNT \in 1..(SIZE - 1)

\* %zu reads any number as a size_t.
ASSUME NumbersAssumption == Numbers \subseteq 0..(SIZE - 1)

VARIABLES params,       \* struct dccs_parameters, before the warm-up is added
          accepted,     \* what parse_args returns: the parameters, or none yet
          status        \* "parsing", "accepted", or "exit"

parseVars == <<params, accepted, status>>

Counters == {"count", "length", "repeat", "warmup_count", "mr_count"}

Defaults == [verb |-> "send", mode |-> "latency", count |-> DEFAULT_MESSAGE_COUNT,
             length |-> 2, repeat |-> 1, warmup_count |-> 0, mr_count |-> 1]

\* -b, -c, -r, -w, --mr_count.
NumericOption(field) ==
    /\ status = "parsing"
    /\ \E v \in Numbers : params' = [params EXCEPT ![field] = v]
    /\ UNCHANGED <<accepted, status>>

\* -v: there is no way back to Send.
VerbOption ==
    /\ status = "parsing"
    /\ \E v \in {"read", "write"} : params' = [params EXCEPT !.verb = v]
    /\ UNCHANGED <<accepted, status>>

ModeOption ==
    /\ status = "parsing"
    /\ \E v \in {"latency", "throughput"} : params' = [params EXCEPT !.mode = v]
    /\ UNCHANGED <<accepted, status>>

\* An unreadable value, an unknown option, or -h: the program exits.
InvalidOption ==
    /\ status = "parsing" /\ status' = "exit"
    /\ UNCHANGED <<params, accepted>>

\* In throughput mode the warm-up requests come on top of the count.
WarmedUp(p) ==
    IF p.mode = "throughput"
    THEN [p EXCEPT !.count = (@ + p.warmup_count) % SIZE] ELSE p

\* Mutant: any number of memory regions is accepted.
ValidAnyMrCount(p) == p.count > 0 /\ p.length > 0 /\ p.mr_count > 0 /\ p.repeat > 0

Valid(p) == /\ p.count > 0 /\ p.length > 0 /\ p.mr_count > 0
            /\ p.count % p.mr_count = 0
            /\ p.repeat > 0

Validate ==
    /\ status = "parsing"
    /\ LET p == WarmedUp(params) IN
          \/ Valid(p) /\ status' = "accepted" /\ accepted' = p
          \/ ~Valid(p) /\ status' = "exit" /\ UNCHANGED accepted
    /\ UNCHANGED params

ParseInit == params = Defaults /\ accepted = Defaults /\ status = "parsing"

ParseNext == \/ \E field \in Counters : NumericOption(field)
             \/ VerbOption \/ ModeOption \/ InvalidOption \/ Validate

-----------------------------------------------------------------------------
\* "count must be a positive integer": print_throughput_report reads the stamp of
\* requests[warmup_count], the first request behind the warm-up, so there must
\* be one.  parse_args validates the count with the warm-up added to it.
CountPositive == status = "accepted" => params.count > 0

=============================================================================
