------------------------------ MODULE MCReader ------------------------------
(* A small instance of Reader: a handshake that may be split, and headers
   large enough for both outcomes of the size check behind a handshake. *)
EXTENDS Reader

\* Parts of a handshake and of a header, each of them as a whole, both in one
\* record, and a handshake with a part of a header.
MCLengths == {1, 2, 3, 4, 6, 8}
=============================================================================
