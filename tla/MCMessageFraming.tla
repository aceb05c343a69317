--------------------------- MODULE MCMessageFraming ---------------------------
(* Instances of MessageFraming for TLC.                                    *)
EXTENDS MessageFraming

\* Messages below the limit with and without room for a chunk, at it and above it.
MCSize == {1, 2, 3, 5, 6}
===============================================================================
