---------------------------- MODULE V2gtpStream ----------------------------
(***************************************************************************)
(* The V2G session once the connection stands: the EV writes V2GTP         *)
(* messages to a byte stream, the stream delivers them in pieces of any    *)
(* size, and v2g_process_message reassembles them in ctx->recv_buffer,     *)
(* decodes and routes each one and writes its response.                    *)
(*                                                                         *)
(* A byte is represented by its position in the EV's stream (0, 1, 2 ...), *)
(* so that recv_buffer is a sequence of positions and "which message does  *)
(* the code see here" is a question about positions.  The header at a      *)
(* buffer offset is the one the EV wrote there when a message does start   *)
(* there; read anywhere else it may look like any message.                 *)
(***************************************************************************)
EXTENDS V2gMessages

CONSTANTS
  BUFFER_SIZE,   \* BUFFER_SIZE, 2048 in the code: recv_buffer and temp_buffer
  MaxFrames,     \* bound: messages the EV sends in a behaviour
  Window         \* messages the EV may have outstanding; 1 is request-response

ASSUME StreamConstants ==
  /\ BUFFER_SIZE \in Nat /\ BUFFER_SIZE >= HDR
  /\ MaxFrames \in Nat
  /\ Window \in Nat

VARIABLES
  frames,            \* messages the EV has sent: [at |-> position, body |-> payload]
  written,           \* bytes the EV has put on the stream
  rd,                \* bytes tls_read has taken from it
  recv_buffer,       \* ctx->recv_buffer[0 .. recv_buffer_len - 1]
  offset,            \* the local `offset` of v2g_process_message
  pc,                \* "read": in tls_read, "loop": in the while, "failed": -1 returned
  cause,             \* why it returned -1
  state,             \* ctx->state
  selected_schema,   \* selected_supported_app_protocol_schema
  schema_valid,      \* selected_supported_app_protocol_valid
  answers,           \* responses handed to tls_write: [req |-> index, doc |-> document]
  served             \* history: messages the loop has moved past

evVars    == <<frames, written>>
schemaVars == <<selected_schema, schema_valid>>
bufVars   == <<rd, recv_buffer>>
streamVars == <<frames, written, rd, recv_buffer, offset, pc, cause, state,
                selected_schema, schema_valid, answers, served>>

recv_buffer_len == Len(recv_buffer)
Smaller(a, b) == IF a < b THEN a ELSE b

StreamInit ==
  /\ frames = <<>> /\ written = 0
  /\ rd = 0 /\ recv_buffer = <<>> /\ offset = 0
  /\ pc = "read" /\ cause = "none"
  /\ state = "SERVICE_DISCOVERY"
  /\ selected_schema = 1 /\ schema_valid = FALSE
  /\ answers = <<>> /\ served = 0

----------------------------------------------------------------------------
(* The EV                                                                  *)

EvSend(p) ==
  /\ Len(frames) < MaxFrames
  /\ Len(frames) - served < Window
  /\ frames' = Append(frames, [at |-> written, body |-> p])
  /\ written' = written + p.size
  /\ UNCHANGED <<bufVars, offset, pc, cause, state, schemaVars, answers, served>>

----------------------------------------------------------------------------
(* v2g_process_message                                                     *)

Fail(why) == pc' = "failed" /\ cause' = why

(* tls_read: the next n bytes of the stream, n up to sizeof(temp_buffer).  *)
Incoming(n) == [j \in 1..n |-> rd + j - 1]

ReadSizes == 1..Smaller(BUFFER_SIZE, written - rd)

(* Faulty variant: no check that the bytes fit. *)
ReceiveUnchecked(n) ==
  /\ pc = "read"
  /\ recv_buffer' = recv_buffer \o Incoming(n)
  /\ rd' = rd + n
  /\ offset' = 0
  /\ pc' = "loop"
  /\ UNCHANGED <<evVars, cause, state, schemaVars, answers, served>>

Receive(n) ==
  /\ pc = "read"
  /\ recv_buffer_len + n <= BUFFER_SIZE
  /\ recv_buffer' = recv_buffer \o Incoming(n)
  /\ rd' = rd + n
  /\ offset' = 0
  /\ pc' = "loop"
  /\ UNCHANGED <<evVars, cause, state, schemaVars, answers, served>>

(* Faulty variant: empties the buffer and reads on instead of returning -1. *)
OverflowReadsOn(n) ==
  /\ pc = "read"
  /\ recv_buffer_len + n > BUFFER_SIZE
  /\ recv_buffer' = <<>>
  /\ rd' = rd + n
  /\ UNCHANGED <<evVars, offset, pc, cause, state, schemaVars, answers, served>>

ReceiveOverflow(n) ==
  /\ pc = "read"
  /\ recv_buffer_len + n > BUFFER_SIZE
  /\ recv_buffer' = <<>>
  /\ rd' = rd + n
  /\ Fail("overflow")
  /\ UNCHANGED <<evVars, offset, state, schemaVars, answers, served>>

(* tls_read returns 0 or an error: the peer closed, or the connection broke. *)
ReadFails ==
  /\ pc = "read"
  /\ Fail("read")
  /\ UNCHANGED <<evVars, bufVars, offset, state, schemaVars, answers, served>>

(* The bytes at buffer offset o are the first n bytes of message i. *)
HoldsFrame(i, o, n) ==
  /\ o + n <= recv_buffer_len
  /\ \A j \in 1..n : recv_buffer[o + j] = frames[i].at + j - 1

(* What v2gtp_parse_header may find at the current offset. *)
ParsedHeaders ==
  IF \E i \in DOMAIN frames : HoldsFrame(i, offset, HDR)
  THEN {frames[i].body : i \in {k \in DOMAIN frames : HoldsFrame(k, offset, HDR)}}
  ELSE Payloads

HeaderInBuffer == offset + HDR <= recv_buffer_len
MessageInBuffer(p) == offset + p.size <= recv_buffer_len

(* The position in the EV's sequence of the message decoded at the offset; *)
(* 0 when the bytes are not a whole message.                               *)
FrameIndex(p) ==
  IF \E i \in DOMAIN frames : HoldsFrame(i, offset, p.size)
  THEN CHOOSE i \in DOMAIN frames : HoldsFrame(i, offset, p.size)
  ELSE 0

(* Faulty variant: the header's length forgotten. *)
MoveByPayload(p) ==
  /\ offset' = offset + p.size - HDR
  /\ served' = served + 1

MoveToNext(p) ==
  /\ offset' = offset + p.size
  /\ served' = served + 1

(* A payload type other than V2GTP_EXI: skipped, not answered. *)
SkipUnsupported(p) ==
  /\ pc = "loop" /\ HeaderInBuffer /\ MessageInBuffer(p)
  /\ p.payload_type # "EXI"
  /\ MoveToNext(p)
  /\ UNCHANGED <<evVars, bufVars, pc, cause, state, schemaVars, answers>>

(* Faulty variant: an earlier choice is not replaced. *)
DecodeKeepsChoice(p) ==
  LET m == DecodedType(p) IN
  /\ schema_valid' = (m = "SupportedAppProtocol")
  /\ selected_schema' = IF m = "SupportedAppProtocol" /\ ~schema_valid
                        THEN ChooseSchema(p.apps) ELSE selected_schema

(* exi_decode_message: its static schema choice survives the call. *)
Decode(p) ==
  LET m == DecodedType(p) IN
  /\ schema_valid' = IF p.size <= HDR THEN schema_valid
                     ELSE m = "SupportedAppProtocol"
  /\ selected_schema' = IF m = "SupportedAppProtocol"
                        THEN ChooseSchema(p.apps) ELSE selected_schema

(* exi_get_supported_app_protocol_schema, as the builder calls it. *)
GetSchema(selected, valid) == IF valid THEN selected ELSE 1

(* Faulty variant: no request leaves the error state. *)
RouteStaysInError(m) ==
  state' = IF m = "SupportedAppProtocol" \/ state = "ERROR" THEN state ELSE StateFor(m)

(* v2g_handle_supported_app_protocol is a stub; the rest goes to the router. *)
Route(m) ==
  state' = IF m = "SupportedAppProtocol" THEN state ELSE StateFor(m)

HandleMessage(p) ==
  LET m      == DecodedType(p)
      schema == GetSchema(selected_schema', schema_valid')
  IN
  /\ pc = "loop" /\ HeaderInBuffer /\ MessageInBuffer(p)
  /\ p.payload_type = "EXI"
  /\ Decode(p)
  /\ Route(m)
  /\ \/ /\ CanBuild(m, schema)                       \* built and written
        /\ answers' = Append(answers, [req |-> FrameIndex(p),
                                       doc |-> Response(m, schema)])
        /\ MoveToNext(p)
        /\ UNCHANGED <<recv_buffer, pc, cause>>
     \/ /\ CanBuild(m, schema)                       \* tls_write fails
        /\ recv_buffer' = <<>>
        /\ Fail("write")
        /\ UNCHANGED <<answers, offset, served>>
     \/ /\ ~CanBuild(m, schema)                      \* no response to send
        /\ recv_buffer' = <<>>
        /\ Fail("build")
        /\ UNCHANGED <<answers, offset, served>>
  /\ UNCHANGED <<evVars, rd>>

(* Faulty variants: no shift at all, and no reset of a used-up buffer. *)
ShiftForgotten == IF offset < recv_buffer_len THEN recv_buffer ELSE <<>>
ResetForgotten ==
  IF offset < recv_buffer_len
  THEN SubSeq(recv_buffer, offset + 1, recv_buffer_len)
  ELSE recv_buffer

(* The memmove after the loop. *)
Unprocessed ==
  IF offset = 0 THEN recv_buffer
  ELSE IF offset < recv_buffer_len
       THEN SubSeq(recv_buffer, offset + 1, recv_buffer_len)
       ELSE <<>>

(* Faulty variant: one message for each read, an `if` in place of `while`. *)
LeaveAfterOne ==
  /\ pc = "loop"
  /\ HeaderInBuffer => offset > 0 \/ \E p \in ParsedHeaders : ~MessageInBuffer(p)
  /\ recv_buffer' = Unprocessed
  /\ offset' = 0
  /\ pc' = "read"
  /\ UNCHANGED <<evVars, rd, cause, state, schemaVars, answers, served>>

(* No further complete message: keep the rest, return 0, and the session   *)
(* loop calls v2g_process_message again.                                   *)
LeaveLoop ==
  /\ pc = "loop"
  /\ HeaderInBuffer => \E p \in ParsedHeaders : ~MessageInBuffer(p)
  /\ recv_buffer' = Unprocessed
  /\ offset' = 0
  /\ pc' = "read"
  /\ UNCHANGED <<evVars, rd, cause, state, schemaVars, answers, served>>

ProcessMessage ==
  \/ \E n \in ReadSizes : Receive(n) \/ ReceiveOverflow(n)
  \/ ReadFails
  \/ \E p \in ParsedHeaders : SkipUnsupported(p) \/ HandleMessage(p)
  \/ LeaveLoop

StreamNext == (\E p \in Payloads : EvSend(p)) \/ ProcessMessage

(* The thread in v2g_process_message is not stopped for ever with input at *)
(* hand.  Nothing is assumed of the EV, and a read never has to fail.      *)
Progress ==
  \/ \E n \in ReadSizes : Receive(n) \/ ReceiveOverflow(n)
  \/ \E p \in ParsedHeaders : SkipUnsupported(p) \/ HandleMessage(p)
  \/ LeaveLoop

StreamSpec == StreamInit /\ [][StreamNext]_streamVars
FairStreamSpec == StreamSpec /\ WF_streamVars(Progress)

----------------------------------------------------------------------------
(* Invariants                                                              *)

IsExi(i) == frames[i].body.payload_type = "EXI"

(* Stream position just after message i; message 0 ends where the stream   *)
(* begins.                                                                 *)
FrameEnd(i) == IF i = 0 THEN 0 ELSE frames[i].at + frames[i].body.size

(* Stream position of the first byte recv_buffer holds. *)
Base == rd - recv_buffer_len

(* Every variable has the values the code's types and limits give it;      *)
(* recv_buffer never outgrows the array.                                   *)
TypeOK ==
  /\ frames \in Seq([at : Nat, body : Payloads])
  /\ written \in Nat /\ rd \in 0..written
  /\ recv_buffer \in Seq(Nat) /\ Len(recv_buffer) <= BUFFER_SIZE
  /\ offset \in Nat /\ offset <= BUFFER_SIZE
  /\ pc \in {"read", "loop", "failed"}
  /\ cause \in {"none", "read", "overflow", "build", "write"}
  /\ state \in SeccStates
  /\ selected_schema \in SchemaIds /\ schema_valid \in BOOLEAN
  /\ answers \in Seq([req : Nat, doc : ResponseDocs])
  /\ served \in Nat

(* Reassembly: however the stream was cut into reads, and whatever the     *)
(* memmove has shifted, recv_buffer is an unbroken run of the stream up to *)
(* the last byte read, and `offset` sits exactly where the next message to *)
(* serve begins (v2g_process_message, the append, the loop and the shift). *)
Reassembly ==
  pc # "failed" =>
    /\ \A j \in 1..recv_buffer_len : recv_buffer[j] = Base + j - 1
    /\ offset <= recv_buffer_len
    /\ served <= Len(frames)
    /\ Base + offset = FrameEnd(served)

(* One response per EXI request, in the order of the requests, for no      *)
(* request twice, for none that was skipped, and never for bytes that are  *)
(* no message of the EV (the loop counts no more messages than were sent). *)
AnswersInOrder ==
  /\ served <= Len(frames)
  /\ \A k \in DOMAIN answers : answers[k].req \in 1..served /\ IsExi(answers[k].req)
  /\ \A k, l \in DOMAIN answers : k < l => answers[k].req < answers[l].req
  /\ \A i \in 1..served : IsExi(i) => \E k \in DOMAIN answers : answers[k].req = i

(* Each response is the one its own request calls for: the document of its *)
(* type, and in a SupportedAppProtocolRes the schema of that request, not  *)
(* one that the static choice kept from an earlier request.                *)
AnswersFit ==
  \A k \in DOMAIN answers :
    LET p == frames[answers[k].req].body IN
    answers[k].doc = Response(DecodedType(p), ChooseSchema(p.apps))

(* The agreed schema is one the EV offered, and nothing it offered has a   *)
(* more urgent (smaller) priority; the first of equals wins.               *)
SchemaNegotiation ==
  \A k \in DOMAIN answers :
    LET p == frames[answers[k].req].body IN
    (DecodedType(p) = "SupportedAppProtocol" /\ p.apps # <<>>) =>
      \E i \in DOMAIN p.apps :
        /\ answers[k].doc.schema = p.apps[i].schema
        /\ \A j \in DOMAIN p.apps :
             /\ p.apps[i].priority <= p.apps[j].priority
             /\ j < i => p.apps[i].priority < p.apps[j].priority

(* When the code blocks in tls_read, no complete message is left waiting   *)
(* in recv_buffer: otherwise the EV would wait for its answer and the SECC *)
(* for the EV.                                                             *)
NoMessageLeftWaiting ==
  (pc = "read" /\ served < Len(frames)) => rd < FrameEnd(served + 1)

(* ctx->state is what the last request that reached the router asked for,  *)
(* in whatever state it found the session: a ServiceDetailReq or an unknown *)
(* type puts it into ERROR, the next request silently takes it out again,  *)
(* and a SupportedAppProtocolReq, which is not routed, leaves it alone.    *)
StateFollowsRequests ==
  LET routed == {i \in 1..served : IsExi(i)
                   /\ DecodedType(frames[i].body) # "SupportedAppProtocol"}
  IN pc # "failed" =>
       state = IF routed = {} THEN "SERVICE_DISCOVERY"
               ELSE StateFor(DecodedType(frames[Max(routed)].body))

(* recv_buffer overflows only under an EV that has more bytes outstanding  *)
(* than the buffer is long: what is left of a cut message never adds up    *)
(* with a read to more than the EV has really sent ahead.                  *)
OverflowNeedsBacklog ==
  cause = "overflow" => written - FrameEnd(served) > BUFFER_SIZE

(* So an EV that sends its next message only after the SECC has dealt with *)
(* the last one never overflows it, provided each message fits.            *)
LockstepNeverOverflows == cause # "overflow"

(* Every message the EV sends is dealt with, or the session ends. *)
EveryMessageServed ==
  \A i \in 1..MaxFrames : (Len(frames) >= i) ~> (served >= i \/ pc = "failed")

----------------------------------------------------------------------------
(* What comments in the source say and the code does not do.               *)

(* v2gtp_response_handler.c:787 "ResponseCode = OK" for a ServiceDetailReq; *)
(* it speaks of the response code only, and that a request answered OK has *)
(* not put the session into the error state is our reading of it.          *)
AnsweredIsNoError ==
  (pc # "failed" /\ answers # <<>>) => state # "ERROR"

----------------------------------------------------------------------------
(* Refinement: without its bytes, buffer and decoder state the loop is the *)
(* request-response server.                                                *)

ExpectsAnswer(p) == p.payload_type = "EXI"
AnswerFor(p) == Response(DecodedType(p), ChooseSchema(p.apps))
CanAnswer(p) == CanBuild(DecodedType(p), ChooseSchema(p.apps))

Server == INSTANCE RequestResponse WITH
  Requests <- Payloads, Expects <- ExpectsAnswer, Doc <- AnswerFor,
  Answerable <- CanAnswer, Limit <- MaxFrames, Outstanding <- Window,
  asked <- [i \in DOMAIN frames |-> frames[i].body],
  open <- pc # "failed"

(* Every behaviour of the message loop is one of the server: this is the   *)
(* whole of what the EV can rely on, however its bytes are cut up.         *)
ImplementsServer == Server!Spec
============================================================================
