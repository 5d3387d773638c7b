----------------------------- MODULE MCPlainTcp -----------------------------
(* Messages from a bare header up to the size of the buffer. *)
EXTENDS PlainTcp, MCV2gtpStream
=============================================================================
