--------------------------- MODULE MCBufferLayout ---------------------------
(***************************************************************************)
(* Instances of BufferLayout.                                               *)
(***************************************************************************)
EXTENDS BufferLayout

\* Zero, small numbers with a common divisor or without, the largest size_t.
MCNumbers == {0, 1, 2, 3, 4, SIZE - 1}

=============================================================================
