------------------------------ MODULE PlainTcp ------------------------------
(***************************************************************************)
(* The plain TCP branch of tls_read, inside the message loop: recv is      *)
(* called until the buffer holds the message whose header stands at the    *)
(* beginning of this read.  A read that begins in the middle of a message, *)
(* because the one before took some of its bytes along, takes any eight    *)
(* bytes for a header.                                                     *)
(*                                                                         *)
(* The bytes gathered so far are those of the stream at rd .. rd + total_  *)
(* bytes_read - 1; rd itself only moves when tls_read returns.             *)
(***************************************************************************)
EXTENDS V2gtpStream

VARIABLES
  total_bytes_read,   \* bytes in temp_buffer
  total_message_len,  \* what the header at its beginning says; 0 before
  ended,              \* recv has returned 0 or an error, and will again
  window              \* messages this EV keeps outstanding, at most Window

recvVars  == <<total_bytes_read, total_message_len, ended>>
plainVars == <<streamVars, recvVars, window>>

PlainInit ==
  /\ StreamInit
  /\ total_bytes_read = 0 /\ total_message_len = 0 /\ ended = FALSE
  /\ window \in 1..Window

(* What any eight bytes may say, modulo 2^32; beyond the buffer all is one. *)
AnyLength == 0..BUFFER_SIZE + 1

(* The header read at stream position rd. *)
LengthsAtStart ==
  IF \E i \in DOMAIN frames : frames[i].at = rd
  THEN {frames[i].body.size : i \in {k \in DOMAIN frames : frames[k].at = rd}}
  ELSE AnyLength

HaveHeader == total_bytes_read >= HDR

(* Faulty variant: the header counted twice. *)
HaveMessageAndHeader ==
  /\ HaveHeader
  /\ total_bytes_read >= total_message_len + HDR \/ total_bytes_read >= BUFFER_SIZE

HaveMessage ==
  /\ HaveHeader
  /\ total_bytes_read >= total_message_len \/ total_bytes_read >= BUFFER_SIZE

(* recv gives up to len - total_bytes_read bytes of what has arrived. *)
Arrived == 1..Smaller(BUFFER_SIZE, written - rd) - total_bytes_read

RecvHeader(n) ==
  /\ pc = "read" /\ ~ended
  /\ ~HaveHeader
  /\ total_bytes_read' = total_bytes_read + n
  /\ IF total_bytes_read + n >= HDR
     THEN total_message_len' \in LengthsAtStart
     ELSE UNCHANGED total_message_len
  /\ UNCHANGED <<streamVars, ended, window>>

RecvRest(n) ==
  /\ pc = "read" /\ ~ended
  /\ HaveHeader /\ ~HaveMessage
  /\ total_bytes_read' = total_bytes_read + n
  /\ UNCHANGED <<streamVars, total_message_len, ended, window>>

(* Faulty variant: the count of bytes gathered outlives the call. *)
ReturnKeepsCount ==
  /\ HaveMessage
  /\ Receive(total_bytes_read) \/ ReceiveOverflow(total_bytes_read)
  /\ UNCHANGED <<recvVars, window>>

(* Faulty variant: returns once the header is there. *)
ReturnAtHeader ==
  /\ HaveHeader
  /\ Receive(total_bytes_read) \/ ReceiveOverflow(total_bytes_read)
  /\ total_bytes_read' = 0 /\ total_message_len' = 0
  /\ UNCHANGED <<ended, window>>

(* tls_read returns, and v2g_process_message appends what it got. *)
ReturnMessage ==
  /\ HaveMessage
  /\ Receive(total_bytes_read) \/ ReceiveOverflow(total_bytes_read)
  /\ total_bytes_read' = 0 /\ total_message_len' = 0
  /\ UNCHANGED <<ended, window>>

(* recv returns 0 or -1: the peer closed, or the connection broke.  The    *)
(* part of a message gathered so far is returned; without any, tls_read    *)
(* fails.                                                                  *)
RecvEnds ==
  /\ pc = "read" /\ ~HaveMessage
  /\ ended' = TRUE
  /\ IF total_bytes_read > 0
     THEN Receive(total_bytes_read) \/ ReceiveOverflow(total_bytes_read)
     ELSE ReadFails
  /\ total_bytes_read' = 0 /\ total_message_len' = 0
  /\ UNCHANGED window

PlainRead ==
  \/ \E n \in Arrived : RecvHeader(n) \/ RecvRest(n)
  \/ ReturnMessage
  \/ RecvEnds

Loop ==
  /\ \/ \E p \in ParsedHeaders : SkipUnsupported(p) \/ HandleMessage(p)
     \/ LeaveLoop
  /\ UNCHANGED <<recvVars, window>>

(* An EV that has closed its side sends no more. *)
PlainEvSend ==
  /\ ~ended
  /\ Len(frames) - served < window
  /\ \E p \in Payloads : EvSend(p)
  /\ UNCHANGED <<recvVars, window>>

PlainNext == PlainEvSend \/ PlainRead \/ Loop

PlainSpec == PlainInit /\ [][PlainNext]_plainVars

(* The thread is not stopped for ever while it has bytes to take, a read   *)
(* to return from or a message to handle; recv goes on failing once it     *)
(* has failed, but nothing makes it fail for the first time.               *)
PlainProgress ==
  \/ \E n \in Arrived : RecvHeader(n) \/ RecvRest(n)
  \/ ReturnMessage
  \/ ended /\ RecvEnds
  \/ Loop

FairPlainSpec == PlainSpec /\ WF_plainVars(PlainProgress)

----------------------------------------------------------------------------
(* Properties                                                              *)

(* temp_buffer holds bytes that have arrived, and no more than its size;   *)
(* it is empty while the loop runs.                                        *)
PlainTypeOK ==
  /\ TypeOK
  /\ total_bytes_read \in 0..Smaller(BUFFER_SIZE, written - rd)
  /\ total_message_len \in Nat
  /\ ended \in BOOLEAN
  /\ window \in 1..Window
  /\ pc = "loop" => total_bytes_read = 0

(* Whatever the reader takes for a header, the loop around it cannot tell  *)
(* it from a reader that returns any bytes it has: all that holds of the   *)
(* message loop holds over plain TCP too.                                  *)
ImplementsStream == StreamSpec

(* tls_transport.c:352 "keep reading until complete message is received":  *)
(* with an EV that waits for its answers each read returns one whole       *)
(* message, unless the connection has ended.                               *)
OneMessagePerRead ==
  (window = 1 /\ pc = "loop" /\ offset = 0 /\ served < Len(frames) /\ ~ended)
     => recv_buffer_len = frames[served + 1].body.size

(* An EV that waits for its answers gets them over plain TCP, however the  *)
(* network cuts its messages up.  One that does not may be left waiting:   *)
(* the reader then waits for the message that some bytes in the middle of  *)
(* another seem to announce.                                               *)
LockstepServed == window = 1 => EveryMessageServed
=============================================================================
