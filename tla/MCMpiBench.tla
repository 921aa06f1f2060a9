----------------------------- MODULE MCMpiBench -----------------------------
(***************************************************************************)
(* Instances of MpiBench.                                                   *)
(***************************************************************************)
EXTENDS MpiBench

Eager == SUBSET {"data", "digest"}

\* One message, of the build's packet or of contents that may differ.
OneMessage == [direction : Directions, count : {1}, repeat : {1, 2}, sync : BOOLEAN,
               eager : Eager, nul : BOOLEAN]

\* Two messages of contents that may differ, once or twice.
TwoMessages == [direction : {"out", "in"}, count : {2}, repeat : {1, 2}, sync : {FALSE},
                eager : Eager, nul : {FALSE}]

\* Two messages from all to all, of which the library copies none.
AllToAll == [direction : {"both"}, count : {2}, repeat : {1}, sync : {FALSE},
             eager : {{}}, nul : {FALSE}]

MCParams == OneMessage \union TwoMessages \union AllToAll

=============================================================================
