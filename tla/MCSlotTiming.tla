---------------------------- MODULE MCSlotTiming ----------------------------
(***************************************************************************)
(* Instances of SlotTiming, with a slot of five ticks.                      *)
(***************************************************************************)
EXTENDS SlotTiming

Times(r, begins, lates, works) ==
    [repeat : {r}, interval : {0, 5}, begin : begins, late : {lates},
     work : {works}]

\* Short slots, and slots that take the time of two or of three.
Few == UNION {Times(r, 0..3, {0, 1}, [s \in 1..r |-> {0, 2, 7, 14}]) : r \in 1..3}

\* Enough of them for the 90th percentile not to be the maximum.
Eleven == Times(11, {0}, {0}, [s \in 1..11 |-> {1, 6}])

\* Enough of them for the 99th percentile not to be the maximum.
Hundred == Times(101, {2}, {0}, [s \in 1..101 |-> {(s * 37) % 101}])

MCParams == Few \union Eleven \union Hundred

MCGrids == <<3, 4, 2>>

=============================================================================
