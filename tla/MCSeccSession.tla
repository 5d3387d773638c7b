--------------------------- MODULE MCSeccSession ---------------------------
(* Payload sets for the runs of SeccSession. *)
EXTENDS SeccSession, MCV2gtpStream

(* Every request, every negotiation, an empty EXI payload and a payload    *)
(* type the loop skips.                                                    *)
SessionPayloads == AnswerPayloads \cup {Exi("UNKNOWN", 2), Other(4)}
============================================================================
