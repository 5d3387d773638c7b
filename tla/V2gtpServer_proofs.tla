------------------------- MODULE V2gtpServer_proofs -------------------------
(***************************************************************************)
(* What the EV can rely on, proved from the reassembly invariant of        *)
(* V2gtpStream_proofs: no complete message is ever left waiting, every     *)
(* request is answered once and in order with its own answer, lockstep     *)
(* never overflows the buffer, and the message loop implements the         *)
(* request-response server.                                                *)
(***************************************************************************)
EXTENDS V2gtpStream_proofs

Doc == [req : Nat, doc : ResponseDocs]

----------------------------------------------------------------------------
(* The message after the last one served.                                  *)

(* Each message ends where it began plus its length, after the header.     *)
LEMMA NextEnd ==
  ASSUME StreamInv, pc # "failed", served < Len(frames)
  PROVE  /\ served + 1 \in 1..Len(frames)
         /\ frames[served + 1].at = Base + offset
         /\ frames[served + 1].body.size \in Nat
         /\ frames[served + 1].body.size >= HDR
         /\ FrameEnd(served + 1) = Base + offset + frames[served + 1].body.size
<1>0. TypeOK /\ FramesTile /\ Reassembly
  BY DEF StreamInv
<1>1. /\ frames \in Seq(Frame) /\ served \in Nat /\ offset \in Nat
      /\ rd \in Nat /\ recv_buffer_len \in Nat
  BY <1>0, BufferFacts
<1>2. Len(frames) \in Nat
  BY <1>1, FrameFacts
<1>3. served + 1 \in 1..Len(frames) /\ (served + 1) - 1 = served
  BY <1>1, <1>2
<1>4. frames[served + 1].at = FrameEnd(served)
  BY <1>0, <1>3 DEF FramesTile
<1>5. Base + offset = FrameEnd(served)
  BY <1>0 DEF Reassembly
<1>6. /\ frames[served + 1].body \in Payloads
      /\ FrameEnd(served + 1) = frames[served + 1].at + frames[served + 1].body.size
  BY <1>1, <1>3, FrameFacts
<1> QED BY <1>3, <1>4, <1>5, <1>6, ConstantFacts

(* A message the EV adds leaves the ones before it where they were. *)
LEMMA EvSendKeeps ==
  ASSUME TypeOK, NEW p \in Payloads, EvSend(p)
  PROVE  /\ Len(frames) \in Nat /\ Len(frames') = Len(frames) + 1
         /\ \A i \in 1..Len(frames) : frames'[i] = frames[i]
         /\ frames'[Len(frames) + 1] = [at |-> written, body |-> p]
         /\ written' = written + p.size
<1>1. /\ frames \in Seq(Frame) /\ written \in Nat
      /\ Len(frames) \in Nat /\ [at |-> written, body |-> p] \in Frame
  BY BufferFacts, FrameFacts DEF Frame
<1> QED BY <1>1, AppendProperties DEF EvSend

----------------------------------------------------------------------------
(* No message left waiting.                                                *)

LEMMA LeaveLoopWaiting ==
  ASSUME StreamInv, LeaveLoop
  PROVE  NoMessageLeftWaiting'
<1>1. pc = "loop" /\ UNCHANGED <<frames, rd, served>>
  BY DEF LeaveLoop, evVars
<1> SUFFICES ASSUME served < Len(frames) PROVE rd < FrameEnd(served + 1)
  BY <1>1 DEF NoMessageLeftWaiting, FrameEnd
<1>0. TypeOK
  BY DEF StreamInv
<1>2. rd \in Nat /\ recv_buffer_len \in Nat /\ offset \in Nat
  BY <1>0, BufferFacts
<1>3. /\ frames[served + 1].body.size \in Nat
      /\ frames[served + 1].body.size >= HDR
      /\ FrameEnd(served + 1) = Base + offset + frames[served + 1].body.size
  BY <1>1, NextEnd
<1>4. CASE ~HeaderInBuffer
  BY <1>2, <1>3, <1>4, ConstantFacts DEF HeaderInBuffer, Base
<1>5. CASE HeaderInBuffer
  <2>1. ParsedHeaders = {frames[served + 1].body}
    BY <1>1, <1>5, HeaderIsNext
  <2>2. ~MessageInBuffer(frames[served + 1].body)
    BY <2>1, <1>5 DEF LeaveLoop
  <2> QED BY <2>2, <1>2, <1>3 DEF MessageInBuffer, Base
<1> QED BY <1>4, <1>5

LEMMA EvSendWaiting ==
  ASSUME StreamInv, NoMessageLeftWaiting, NEW p \in Payloads, EvSend(p)
  PROVE  NoMessageLeftWaiting'
<1>0. TypeOK
  BY DEF StreamInv
<1>1. UNCHANGED <<rd, pc, served>>
  BY DEF EvSend, bufVars
<1> SUFFICES ASSUME pc = "read", served < Len(frames')
             PROVE  rd < FrameEnd(served + 1)'
  BY <1>1 DEF NoMessageLeftWaiting, FrameEnd
<1>2. rd \in Nat /\ written \in Nat /\ rd <= written /\ served \in Nat
      /\ p.size \in Nat /\ p.size > 0
  BY <1>0, BufferFacts, ConstantFacts
<1>3. /\ Len(frames) \in Nat /\ Len(frames') = Len(frames) + 1
      /\ \A i \in 1..Len(frames) : frames'[i] = frames[i]
      /\ frames'[Len(frames) + 1] = [at |-> written, body |-> p]
  BY <1>0, EvSendKeeps
<1>4. FrameEnd(served + 1)' = frames'[served + 1].at + frames'[served + 1].body.size
  BY <1>1, <1>2 DEF FrameEnd
<1>5. CASE served < Len(frames)
  <2>1. served + 1 \in 1..Len(frames)
    BY <1>2, <1>3, <1>5
  <2>2. FrameEnd(served + 1)' = FrameEnd(served + 1)
    BY <2>1, <1>2, <1>3, <1>4 DEF FrameEnd
  <2> QED BY <2>2, <1>5 DEF NoMessageLeftWaiting
<1>6. CASE served = Len(frames)
  <2>1. frames'[served + 1].at = written /\ frames'[served + 1].body.size = p.size
    BY <1>3, <1>6
  <2> QED BY <2>1, <1>2, <1>4
<1> QED BY <1>2, <1>3, <1>5, <1>6

(* When the code blocks in tls_read, every complete message it has bytes   *)
(* of has been dealt with.                                                 *)
THEOREM NothingLeftWaiting == StreamSpec => []NoMessageLeftWaiting
<1>1. StreamInit => NoMessageLeftWaiting
  <2>1. Len(<<>>) = 0 /\ ~(0 < 0)
    BY EmptySeq
  <2> QED BY <2>1 DEF StreamInit, NoMessageLeftWaiting
<1>2. StreamInv /\ NoMessageLeftWaiting /\ [StreamNext]_streamVars
        => NoMessageLeftWaiting'
  <2> SUFFICES ASSUME StreamInv, NoMessageLeftWaiting, [StreamNext]_streamVars
               PROVE  NoMessageLeftWaiting'
    OBVIOUS
  <2>1. ASSUME NEW p \in Payloads, EvSend(p) PROVE NoMessageLeftWaiting'
    BY <2>1, EvSendWaiting
  <2>2. CASE LeaveLoop
    BY <2>2, LeaveLoopWaiting
  <2>3. ASSUME NEW n \in ReadSizes, Receive(n) \/ ReceiveOverflow(n)
        PROVE  NoMessageLeftWaiting'
    BY <2>3 DEF Receive, ReceiveOverflow, Fail, NoMessageLeftWaiting
  <2>4. CASE ReadFails
    BY <2>4 DEF ReadFails, Fail, NoMessageLeftWaiting
  <2>5. ASSUME NEW p \in ParsedHeaders, SkipUnsupported(p) \/ HandleMessage(p)
        PROVE  NoMessageLeftWaiting'
    BY <2>5 DEF SkipUnsupported, HandleMessage, Fail, NoMessageLeftWaiting
  <2>6. CASE UNCHANGED streamVars
    BY <2>6 DEF streamVars, NoMessageLeftWaiting, FrameEnd
  <2> QED BY <2>1, <2>2, <2>3, <2>4, <2>5, <2>6 DEF StreamNext, ProcessMessage
<1> QED BY <1>1, <1>2, StreamInvariant, PTL DEF StreamSpec

----------------------------------------------------------------------------
(* One request at a time.                                                  *)

(* What request-response EVs keep to. *)
OneAtATime == Window = 1 /\ \A p \in Payloads : p.size <= BUFFER_SIZE

LockstepInv ==
  /\ cause # "overflow"
  /\ pc # "failed" => Len(frames) <= served + 1

(* In a lockstep session a read always fits: recv_buffer and the bytes     *)
(* still to come are at most the one message being sent.                   *)
LEMMA ReadFits ==
  ASSUME OneAtATime, StreamInv, LockstepInv, pc = "read", NEW n \in ReadSizes
  PROVE  recv_buffer_len + n <= BUFFER_SIZE
<1>0. TypeOK /\ FramesTile /\ Reassembly /\ offset = 0
  BY DEF StreamInv, AtRead
<1>1. /\ rd \in Nat /\ written \in Nat /\ recv_buffer_len \in Nat
      /\ frames \in Seq(Frame) /\ served \in Nat
  BY <1>0, BufferFacts
<1>2. n \in Nat /\ rd + n <= written
  BY <1>1, ConstantFacts DEF ReadSizes, Smaller
<1>3. FrameEnd(Len(frames)) = written /\ Base = FrameEnd(served)
      /\ served <= Len(frames) /\ Base \in Int
  BY <1>0, <1>1 DEF FramesTile, Reassembly, Base
<1>4. CASE served < Len(frames)
  <2>1. Len(frames) \in Nat /\ Len(frames) <= served + 1
    BY <1>1, FrameFacts DEF LockstepInv
  <2>2. served + 1 = Len(frames)
    BY <2>1, <1>1, <1>4
  <2>3. /\ served + 1 \in 1..Len(frames)
        /\ frames[served + 1].body.size \in Nat
        /\ FrameEnd(served + 1) = Base + offset + frames[served + 1].body.size
    BY <1>4, NextEnd
  <2>4. written = Base + frames[served + 1].body.size
    BY <2>2, <2>3, <1>0, <1>3
  <2>5. frames[served + 1].body \in Payloads
    BY <2>3, <1>1, FrameFacts
  <2>6. frames[served + 1].body.size <= BUFFER_SIZE
    BY <2>5 DEF OneAtATime
  <2> QED BY <2>3, <2>4, <2>6, <1>1, <1>2, ConstantFacts DEF Base
<1>5. CASE served = Len(frames)
  BY <1>1, <1>2, <1>3, <1>5, ConstantFacts DEF Base
<1>6. Len(frames) \in Nat
  BY <1>1, FrameFacts
<1> QED BY <1>1, <1>3, <1>4, <1>5, <1>6

LEMMA LockstepStep ==
  ASSUME OneAtATime, StreamInv, LockstepInv, [StreamNext]_streamVars
  PROVE  LockstepInv'
<1>0. TypeOK /\ served \in Nat
  BY BufferFacts DEF StreamInv
<1>1. ASSUME NEW p \in Payloads, EvSend(p) PROVE LockstepInv'
  <2>1. Len(frames) - served < Window /\ Window = 1
        /\ UNCHANGED <<pc, cause, served>>
    BY <1>1 DEF EvSend, OneAtATime
  <2>2. Len(frames) \in Nat /\ Len(frames') = Len(frames) + 1
    BY <1>0, <1>1, EvSendKeeps
  <2> QED BY <2>1, <2>2, <1>0 DEF LockstepInv
<1>2. ASSUME NEW n \in ReadSizes, Receive(n) PROVE LockstepInv'
  BY <1>2 DEF Receive, evVars, LockstepInv
<1>3. ASSUME NEW n \in ReadSizes, ReceiveOverflow(n) PROVE FALSE
  <2>1. n \in Nat /\ recv_buffer_len \in Nat
    BY <1>0, BufferFacts, ConstantFacts DEF ReadSizes, Smaller
  <2>2. recv_buffer_len + n <= BUFFER_SIZE
    BY <1>3, ReadFits DEF ReceiveOverflow
  <2>3. recv_buffer_len + n > BUFFER_SIZE
    BY <1>3 DEF ReceiveOverflow
  <2> QED BY <2>1, <2>2, <2>3, ConstantFacts
<1>4. CASE ReadFails
  BY <1>4 DEF ReadFails, Fail, LockstepInv
<1>5. ASSUME NEW p \in ParsedHeaders, SkipUnsupported(p) \/ HandleMessage(p)
      PROVE  LockstepInv'
  <2>1. Len(frames) \in Nat
    BY <1>0, BufferFacts, FrameFacts
  <2>2. CASE MoveToNext(p) /\ UNCHANGED <<frames, pc, cause>>
    BY <2>1, <2>2, <1>0 DEF MoveToNext, LockstepInv
  <2>3. CASE pc' = "failed" /\ cause' \in {"write", "build"}
    BY <2>3 DEF LockstepInv
  <2> QED BY <1>5, <2>2, <2>3 DEF SkipUnsupported, HandleMessage, Fail, evVars
<1>6. CASE LeaveLoop
  BY <1>6 DEF LeaveLoop, evVars, LockstepInv
<1>7. CASE UNCHANGED streamVars
  BY <1>7 DEF streamVars, LockstepInv
<1> QED BY <1>1, <1>2, <1>3, <1>4, <1>5, <1>6, <1>7 DEF StreamNext, ProcessMessage

(* An EV that waits for each answer before its next message, and whose     *)
(* messages fit the buffer, never makes v2g_process_message overflow.      *)
THEOREM LockstepIsSafe ==
  ASSUME OneAtATime PROVE StreamSpec => []LockstepNeverOverflows
<1>1. StreamInit => LockstepInv
  <2>1. Len(<<>>) = 0 /\ 0 <= 0 + 1
    BY EmptySeq
  <2> QED BY <2>1 DEF StreamInit, LockstepInv
<1>2. StreamInv /\ LockstepInv /\ [StreamNext]_streamVars => LockstepInv'
  BY LockstepStep
<1>3. LockstepInv => LockstepNeverOverflows
  BY DEF LockstepInv, LockstepNeverOverflows
<1> QED BY <1>1, <1>2, <1>3, StreamInvariant, PTL DEF StreamSpec

----------------------------------------------------------------------------
(* Overflow.                                                               *)

(* OverflowNeedsBacklog, and what carries it on after the failure. *)
BacklogInv ==
  /\ OverflowNeedsBacklog
  /\ served <= Len(frames)
  /\ pc # "failed" => cause = "none"

(* recv_buffer and the bytes read with it are a run of the stream that     *)
(* begins where message `served` ends, so they are all outstanding.        *)
LEMMA OverflowBacklog ==
  ASSUME StreamInv, NEW n \in ReadSizes, ReceiveOverflow(n)
  PROVE  BacklogInv'
<1>0. TypeOK /\ Reassembly /\ AtRead
  BY DEF StreamInv
<1>1. /\ rd \in Nat /\ written \in Nat /\ recv_buffer_len \in Nat
      /\ n \in Nat /\ rd + n <= written
  BY <1>0, BufferFacts, ConstantFacts DEF ReadSizes, Smaller
<1>2. /\ pc = "read" /\ recv_buffer_len + n > BUFFER_SIZE /\ pc' = "failed"
      /\ UNCHANGED <<frames, written, served>>
  BY DEF ReceiveOverflow, Fail, evVars
<1>3. FrameEnd(served) = rd - recv_buffer_len /\ served <= Len(frames)
  BY <1>0, <1>1, <1>2 DEF Reassembly, AtRead, Base
<1>4. written - FrameEnd(served) > BUFFER_SIZE
  BY <1>1, <1>2, <1>3, ConstantFacts
<1>5. (written - FrameEnd(served))' = written - FrameEnd(served)
  BY <1>2 DEF FrameEnd
<1> QED BY <1>2, <1>3, <1>4, <1>5 DEF BacklogInv, OverflowNeedsBacklog

LEMMA EvSendBacklog ==
  ASSUME StreamInv, BacklogInv, NEW p \in Payloads, EvSend(p)
  PROVE  BacklogInv'
<1>0. TypeOK
  BY DEF StreamInv
<1>1. /\ Len(frames) \in Nat /\ Len(frames') = Len(frames) + 1
      /\ \A i \in 1..Len(frames) : frames'[i] = frames[i]
      /\ written' = written + p.size
  BY <1>0, EvSendKeeps
<1>2. /\ written \in Nat /\ p.size \in Nat /\ served \in Nat
      /\ served <= Len(frames) /\ frames \in Seq(Frame)
  BY <1>0, BufferFacts, ConstantFacts DEF BacklogInv
<1>3. UNCHANGED <<pc, cause, served>>
  BY DEF EvSend
<1>4. FrameEnd(served)' = FrameEnd(served)
  <2>1. served = 0 \/ served \in 1..Len(frames)
    BY <1>1, <1>2
  <2> QED BY <2>1, <1>1, <1>3 DEF FrameEnd
<1>5. FrameEnd(served) \in Nat
  <2>1. served \in 0..Len(frames)
    BY <1>1, <1>2
  <2> QED BY <2>1, <1>2, FrameFacts
<1>6. OverflowNeedsBacklog'
  <2> SUFFICES ASSUME cause = "overflow"
               PROVE  written' - FrameEnd(served)' > BUFFER_SIZE
    BY <1>3 DEF OverflowNeedsBacklog
  <2>1. written - FrameEnd(served) > BUFFER_SIZE
    BY DEF BacklogInv, OverflowNeedsBacklog
  <2> QED BY <2>1, <1>1, <1>2, <1>4, <1>5, ConstantFacts
<1>7. (served <= Len(frames))'
  BY <1>1, <1>2, <1>3
<1> QED BY <1>3, <1>6, <1>7 DEF BacklogInv

(* A step that does not overflow, and serves at most the next message, is  *)
(* no step from or to an overflow.                                         *)
LEMMA NoOverflowStep ==
  ASSUME BacklogInv, pc # "failed", cause' # "overflow", (served <= Len(frames))',
         pc' # "failed" => cause' = cause
  PROVE  BacklogInv'
BY DEF BacklogInv, OverflowNeedsBacklog

(* An overflow always means that the EV had sent more than BUFFER_SIZE     *)
(* bytes ahead: the remainders that v2g_process_message keeps between two  *)
(* reads never bring it about by themselves.                               *)
THEOREM OverflowNeedsBacklogCorrect == StreamSpec => []OverflowNeedsBacklog
<1>1. StreamInit => BacklogInv
  <2>1. Len(<<>>) = 0 /\ 0 <= 0
    BY EmptySeq
  <2> QED BY <2>1 DEF StreamInit, BacklogInv, OverflowNeedsBacklog
<1>2. StreamInv /\ StreamInv' /\ BacklogInv /\ [StreamNext]_streamVars => BacklogInv'
  <2> SUFFICES ASSUME StreamInv, StreamInv', BacklogInv, [StreamNext]_streamVars
               PROVE  BacklogInv'
    OBVIOUS
  <2>1. ASSUME NEW p \in Payloads, EvSend(p) PROVE BacklogInv'
    BY <2>1, EvSendBacklog
  <2>2. ASSUME NEW n \in ReadSizes, ReceiveOverflow(n) PROVE BacklogInv'
    BY <2>2, OverflowBacklog
  <2>3. served <= Len(frames) /\ (pc # "failed" => cause = "none")
    BY DEF BacklogInv
  <2>4. ASSUME NEW n \in ReadSizes, Receive(n) PROVE BacklogInv'
    BY <2>3, <2>4, NoOverflowStep DEF Receive, evVars
  <2>5. CASE ReadFails
    BY <2>3, <2>5, NoOverflowStep DEF ReadFails, Fail, evVars
  <2>6. CASE LeaveLoop
    BY <2>3, <2>6, NoOverflowStep DEF LeaveLoop, evVars
  <2>7. ASSUME NEW p \in ParsedHeaders, SkipUnsupported(p) \/ HandleMessage(p)
        PROVE  BacklogInv'
    <3>1. /\ pc = "loop" /\ cause' # "overflow"
          /\ pc' # "failed" => cause' = cause
      BY <2>3, <2>7 DEF SkipUnsupported, HandleMessage, Fail
    <3>2. (served <= Len(frames))'
      <4>1. CASE UNCHANGED <<frames, served>>
        BY <4>1, <2>3
      <4>2. CASE UNCHANGED <<frames, pc>> /\ MoveToNext(p)
        <5>1. (served <= Len(frames))'
          BY <3>1, <4>2 DEF StreamInv, Reassembly
        <5> QED BY <5>1
      <4> QED BY <2>7, <4>1, <4>2 DEF SkipUnsupported, HandleMessage, evVars
    <3> QED BY <3>1, <3>2, NoOverflowStep
  <2>8. CASE UNCHANGED streamVars
    BY <2>8 DEF streamVars, BacklogInv, OverflowNeedsBacklog, FrameEnd
  <2> QED BY <2>1, <2>2, <2>4, <2>5, <2>6, <2>7, <2>8 DEF StreamNext, ProcessMessage
<1>3. BacklogInv => OverflowNeedsBacklog
  BY DEF BacklogInv
<1> QED BY <1>1, <1>2, <1>3, StreamInvariant, PTL DEF StreamSpec

----------------------------------------------------------------------------
(* Answers.                                                                *)

(* Only a SupportedAppProtocolRes depends on the schema. *)
LEMMA ResponseSchema ==
  ASSUME NEW m \in ExiMsgTypes, m # "SupportedAppProtocol", NEW s, NEW t
  PROVE  Response(m, s) = Response(m, t)
BY DEF Response, ExiMsgTypes

(* However the static choice of an earlier request was left, the response  *)
(* built for p is the one p itself calls for.                              *)
LEMMA SchemaOfRequest ==
  ASSUME NEW p \in Payloads, Decode(p)
  PROVE  LET m      == DecodedType(p)
             schema == GetSchema(selected_schema', schema_valid')
         IN  /\ CanBuild(m, schema) <=> CanBuild(m, ChooseSchema(p.apps))
             /\ m \in ExiMsgTypes =>
                  Response(m, schema) = Response(m, ChooseSchema(p.apps))
<1> DEFINE m == DecodedType(p)
           schema == GetSchema(selected_schema', schema_valid')
<1>1. CASE m = "SupportedAppProtocol"
  <2>1. ~(p.size <= HDR)
    BY <1>1 DEF DecodedType
  <2>2. schema_valid' = TRUE /\ selected_schema' = ChooseSchema(p.apps)
    BY <2>1, <1>1 DEF Decode
  <2>3. schema = ChooseSchema(p.apps)
    BY <2>2 DEF GetSchema
  <2> QED BY <2>3
<1>2. CASE m \in ExiMsgTypes /\ m # "SupportedAppProtocol"
  <2>1. Response(m, schema) = Response(m, ChooseSchema(p.apps))
    BY <1>2, ResponseSchema
  <2> QED BY <2>1 DEF CanBuild
<1>3. CASE m \notin ExiMsgTypes
  BY <1>3 DEF CanBuild
<1> QED BY <1>1, <1>2, <1>3

(* The state of the answers, with the bound that keeps them about messages *)
(* that the EV has sent.                                                   *)
AnswersInv == served <= Len(frames) /\ AnswersInOrder /\ AnswersFit

(* The built and written case of HandleMessage. *)
Written(p) ==
  /\ CanBuild(DecodedType(p), ChooseSchema(p.apps))
  /\ answers' = Append(answers, [req |-> served + 1,
                                 doc |-> Response(DecodedType(p), ChooseSchema(p.apps))])
  /\ served' = served + 1
  /\ UNCHANGED <<frames, pc>>

(* A message is handled by writing its own answer, or the loop gives up. *)
LEMMA HandleCases ==
  ASSUME StreamInv, NEW p \in ParsedHeaders, HandleMessage(p)
  PROVE  /\ served + 1 \in 1..Len(frames) /\ p = frames[served + 1].body
         /\ p \in Payloads /\ p.payload_type = "EXI" /\ pc = "loop"
         /\ \/ Written(p)
            \/ pc' = "failed" /\ UNCHANGED <<frames, answers, served>>
<1>1. /\ pc = "loop" /\ HeaderInBuffer /\ MessageInBuffer(p)
      /\ p.payload_type = "EXI" /\ Decode(p) /\ UNCHANGED frames
  BY DEF HandleMessage, evVars
<1>2. /\ served + 1 \in 1..Len(frames) /\ p = frames[served + 1].body
      /\ p \in Payloads /\ FrameIndex(p) = served + 1
  BY <1>1, NextMessage
<1> DEFINE m == DecodedType(p)
           schema == GetSchema(selected_schema', schema_valid')
<1>3. /\ CanBuild(m, schema) <=> CanBuild(m, ChooseSchema(p.apps))
      /\ m \in ExiMsgTypes => Response(m, schema) = Response(m, ChooseSchema(p.apps))
  BY <1>1, <1>2, SchemaOfRequest
<1>4. CASE /\ CanBuild(m, schema)
           /\ answers' = Append(answers, [req |-> FrameIndex(p),
                                          doc |-> Response(m, schema)])
           /\ MoveToNext(p) /\ UNCHANGED <<recv_buffer, pc, cause>>
  <2>1. m \in ExiMsgTypes
    BY <1>4 DEF CanBuild
  <2> QED BY <2>1, <1>1, <1>2, <1>3, <1>4 DEF Written, MoveToNext
<1>5. CASE pc' = "failed" /\ UNCHANGED <<answers, offset, served>>
  BY <1>1, <1>2, <1>5
<1> QED BY <1>4, <1>5 DEF HandleMessage, Fail

LEMMA EvSendAnswers ==
  ASSUME StreamInv, AnswersInv, NEW p \in Payloads, EvSend(p)
  PROVE  AnswersInv'
<1>0. TypeOK
  BY DEF StreamInv
<1>1. /\ Len(frames) \in Nat /\ Len(frames') = Len(frames) + 1
      /\ \A i \in 1..Len(frames) : frames'[i] = frames[i]
      /\ served \in Nat /\ served <= Len(frames)
  BY <1>0, EvSendKeeps, BufferFacts DEF AnswersInv
<1>2. UNCHANGED <<served, answers>>
  BY DEF EvSend
<1>3. (served <= Len(frames))'
  BY <1>1, <1>2
<1>4. \A i \in 1..served : i \in 1..Len(frames) /\ frames'[i] = frames[i]
  BY <1>1
<1>5. AnswersInOrder'
  BY <1>2, <1>4, <1>3 DEF AnswersInv, AnswersInOrder, IsExi
<1>6. AnswersFit'
  BY <1>2, <1>4 DEF AnswersInv, AnswersInOrder, AnswersFit
<1> QED BY <1>5, <1>6, <1>3 DEF AnswersInv

LEMMA HandleAnswers ==
  ASSUME StreamInv, AnswersInv, NEW p \in ParsedHeaders, HandleMessage(p)
  PROVE  AnswersInv'
<1>0. TypeOK
  BY DEF StreamInv
<1>1. /\ served + 1 \in 1..Len(frames) /\ p = frames[served + 1].body
      /\ p.payload_type = "EXI"
      /\ \/ Written(p)
         \/ pc' = "failed" /\ UNCHANGED <<frames, answers, served>>
  BY HandleCases
<1>2. CASE UNCHANGED <<frames, answers, served>>
  BY <1>2 DEF AnswersInv, AnswersInOrder, AnswersFit, IsExi
<1>3. CASE Written(p)
  <2> DEFINE n == Len(answers)
             a == [req |-> served + 1,
                   doc |-> Response(DecodedType(p), ChooseSchema(p.apps))]
  <2>1. answers \in Seq(Doc) /\ n \in Nat /\ served \in Nat /\ DOMAIN answers = 1..n
    BY <1>0, LenProperties DEF TypeOK, Doc
  <2>2. a \in Doc
    <3>1. ChooseSchema(p.apps) \in SchemaIds /\ DecodedType(p) \in ExiMsgTypes
      BY <1>3, HandleCases DEF SchemaIds, Written, CanBuild
    <3>2. a.doc \in ResponseDocs
      BY <3>1 DEF ResponseDocs
    <3> QED BY <3>2, <2>1 DEF Doc
  <2>3. /\ answers' \in Seq(Doc) /\ Len(answers') = n + 1
        /\ \A k \in 1..n : answers'[k] = answers[k]
        /\ answers'[n + 1] = a
    BY <2>1, <2>2, <1>3, AppendProperties DEF Written
  <2>4. DOMAIN answers' = 1..(n + 1)
    BY <2>3, LenProperties
  <2>5. served' = served + 1 /\ UNCHANGED frames
    BY <1>3 DEF Written
  <2>6. \A k \in 1..n : answers[k].req \in 1..served /\ IsExi(answers[k].req)
    BY <2>1 DEF AnswersInv, AnswersInOrder
  <2>7. a.req = served + 1 /\ IsExi(served + 1)
    BY <1>1 DEF IsExi
  <2>8. \A i : IsExi(i)' <=> IsExi(i)
    BY <2>5 DEF IsExi
  <2>9. (served <= Len(frames))'
    BY <1>1, <2>1, <2>5
  <2>10. AnswersInOrder'
    <3>1. \A k \in 1..(n + 1) : answers'[k].req \in 1..(served + 1) /\ IsExi(answers'[k].req)
      <4> SUFFICES ASSUME NEW k \in 1..(n + 1)
                   PROVE  answers'[k].req \in 1..(served + 1) /\ IsExi(answers'[k].req)
        OBVIOUS
      <4>1. CASE k \in 1..n
        BY <4>1, <2>1, <2>3, <2>6
      <4>2. CASE k = n + 1
        BY <4>2, <2>1, <2>3, <2>7
      <4> QED BY <4>1, <4>2, <2>1
    <3>2. \A k, l \in 1..(n + 1) : k < l => answers'[k].req < answers'[l].req
      <4> SUFFICES ASSUME NEW k \in 1..(n + 1), NEW l \in 1..(n + 1), k < l
                   PROVE  answers'[k].req < answers'[l].req
        OBVIOUS
      <4>0. k \in 1..n
        BY <2>1
      <4>1. CASE l \in 1..n
        <5>1. answers[k].req < answers[l].req
          BY <4>0, <4>1, <2>1 DEF AnswersInv, AnswersInOrder
        <5> QED BY <5>1, <4>0, <4>1, <2>3
      <4>2. CASE l = n + 1
        <5>1. answers[k].req \in 1..served
          BY <4>0, <2>6
        <5> QED BY <5>1, <4>0, <4>2, <2>1, <2>3, <2>7
      <4> QED BY <4>1, <4>2, <2>1
    <3>3. \A i \in 1..(served + 1) : IsExi(i) => \E k \in 1..(n + 1) : answers'[k].req = i
      <4> SUFFICES ASSUME NEW i \in 1..(served + 1), IsExi(i)
                   PROVE  \E k \in 1..(n + 1) : answers'[k].req = i
        OBVIOUS
      <4>1. CASE i \in 1..served
        <5>1. PICK k \in 1..n : answers[k].req = i
          BY <4>1, <2>1 DEF AnswersInv, AnswersInOrder
        <5>2. k \in 1..(n + 1)
          BY <2>1
        <5> QED BY <5>1, <5>2, <2>3
      <4>2. CASE i = served + 1
        <5>1. n + 1 \in 1..(n + 1)
          BY <2>1
        <5> QED BY <5>1, <4>2, <2>3, <2>7
      <4> QED BY <4>1, <4>2, <2>1
    <3> QED BY <3>1, <3>2, <3>3, <2>4, <2>5, <2>9 DEF AnswersInOrder, IsExi
  <2>11. AnswersFit'
    <3> SUFFICES ASSUME NEW k \in 1..(n + 1)
                 PROVE  LET q == frames[answers'[k].req].body IN
                        answers'[k].doc = Response(DecodedType(q), ChooseSchema(q.apps))
      BY <2>4, <2>5 DEF AnswersFit
    <3>1. CASE k \in 1..n
      BY <3>1, <2>1, <2>3 DEF AnswersInv, AnswersFit
    <3>2. CASE k = n + 1
      BY <3>2, <2>3, <1>1
    <3> QED BY <3>1, <3>2, <2>1
  <2> QED BY <2>10, <2>11, <2>9 DEF AnswersInv
<1> QED BY <1>1, <1>2, <1>3

LEMMA SkipAnswers ==
  ASSUME StreamInv, AnswersInv, NEW p \in ParsedHeaders, SkipUnsupported(p)
  PROVE  AnswersInv'
<1>0. served \in Nat
  BY BufferFacts DEF StreamInv
<1>1. /\ pc = "loop" /\ HeaderInBuffer /\ MessageInBuffer(p)
      /\ p.payload_type # "EXI" /\ served' = served + 1
      /\ UNCHANGED <<frames, answers>>
  BY DEF SkipUnsupported, MoveToNext, evVars
<1>2. served + 1 \in 1..Len(frames) /\ ~IsExi(served + 1)
  BY <1>1, NextMessage DEF IsExi
<1>3. AnswersInOrder'
  <2>1. \A i \in 1..(served + 1) : i \in 1..served \/ i = served + 1
    BY <1>0
  <2>2. \A i \in 1..served : i \in 1..(served + 1)
    BY <1>0
  <2> QED BY <2>1, <2>2, <1>1, <1>2 DEF AnswersInv, AnswersInOrder, IsExi
<1>4. AnswersFit'
  BY <1>1 DEF AnswersInv, AnswersFit
<1> QED BY <1>0, <1>1, <1>2, <1>3, <1>4 DEF AnswersInv

LEMMA AnswersStep ==
  ASSUME StreamInv, AnswersInv, [StreamNext]_streamVars
  PROVE  AnswersInv'
<1>1. ASSUME NEW p \in Payloads, EvSend(p) PROVE AnswersInv'
  BY <1>1, EvSendAnswers
<1>2. ASSUME NEW p \in ParsedHeaders, SkipUnsupported(p) PROVE AnswersInv'
  BY <1>2, SkipAnswers
<1>3. ASSUME NEW p \in ParsedHeaders, HandleMessage(p) PROVE AnswersInv'
  BY <1>3, HandleAnswers
<1>4. CASE UNCHANGED <<frames, answers, served>>
  BY <1>4 DEF AnswersInv, AnswersInOrder, AnswersFit, IsExi
<1> QED BY <1>1, <1>2, <1>3, <1>4
        DEF StreamNext, ProcessMessage, Receive, ReceiveOverflow, ReadFails,
            LeaveLoop, evVars, streamVars

LEMMA AnswersInvariant == StreamSpec => []AnswersInv
<1>1. StreamInit => AnswersInv
  <2>1. Len(<<>>) = 0 /\ DOMAIN <<>> = {} /\ 1..0 = {} /\ 0 <= 0
    BY EmptySeq
  <2> QED BY <2>1 DEF StreamInit, AnswersInv, AnswersInOrder, AnswersFit
<1> QED BY <1>1, AnswersStep, StreamInvariant, PTL DEF StreamSpec

(* Every EXI request is answered once, in order, and nothing else is. *)
THEOREM AnswersInOrderCorrect == StreamSpec => []AnswersInOrder
<1>1. AnswersInv => AnswersInOrder
  BY DEF AnswersInv
<1> QED BY <1>1, AnswersInvariant, PTL

(* Each answer is its own request's: the static schema choice of the       *)
(* decoder never carries over from one negotiation to another.             *)
THEOREM AnswersFitCorrect == StreamSpec => []AnswersFit
<1>1. AnswersInv => AnswersFit
  BY DEF AnswersInv
<1> QED BY <1>1, AnswersInvariant, PTL

----------------------------------------------------------------------------
(* The negotiated schema.                                                  *)

Best == INSTANCE FoldTheorems WITH Op <- BetterEntry

(* The choice of exi_decode_message before the first entry. *)
NoneYet(apps) == [schema |-> apps[1].schema, priority |-> NoPriority]

LEMMA ChoiceIsFold ==
  ASSUME NEW apps \in Seq(AppProtocols), apps # <<>>
  PROVE  ChooseSchema(apps) = Best!Fold(NoneYet(apps), apps).schema
<1>1. PICK n \in Nat : DOMAIN apps = 1..n
  OBVIOUS
<1>2. FoldLeft(BetterEntry, NoneYet(apps), apps) = Best!Fold(NoneYet(apps), apps)
  BY <1>1 DEF FoldLeft, MapThenFoldSet, Max, Best!Fold, Best!FoldLeft,
              Best!MapThenFoldSet, Best!Max
<1> QED BY <1>2 DEF ChooseSchema, NoneYet

(* n entries, each with a uint8_t priority: what the loop needs of them. *)
Entries(apps, n) ==
  /\ DOMAIN apps = 1..n
  /\ \A j \in 1..n : apps[j].priority \in 0..255

LEMMA ListOfEntries ==
  ASSUME NEW apps \in Seq(AppProtocols)
  PROVE  Entries(apps, Len(apps))
<1>1. DOMAIN apps = 1..Len(apps) /\ \A j \in 1..Len(apps) : apps[j] \in AppProtocols
  OBVIOUS
<1>2. \A e \in AppProtocols : e.priority \in 0..255
  BY DEF AppProtocols
<1> QED BY <1>1, <1>2 DEF Entries

(* The i-th of the first n entries is the most urgent of them, and the     *)
(* first of its priority.                                                  *)
MostUrgent(apps, n, i) ==
  \A j \in 1..n : /\ apps[i].priority <= apps[j].priority
                  /\ j < i => apps[i].priority < apps[j].priority

(* The loop's first pass: every entry is more urgent than none. *)
LEMMA FirstEntry ==
  ASSUME NEW apps, Entries(apps, 1), NEW best, best.priority = NoPriority
  PROVE  BetterEntry(best, apps[1]) = apps[1] /\ MostUrgent(apps, 1, 1)
<1>1. apps[1].priority \in 0..255
  BY DEF Entries
<1>2. apps[1].priority < NoPriority
  BY <1>1 DEF NoPriority
<1>3. \A j \in 1..1 : j = 1 /\ ~(j < 1)
  OBVIOUS
<1> QED BY <1>1, <1>2, <1>3 DEF MostUrgent, BetterEntry

(* A later pass: best is the most urgent of the n entries before. *)
LEMMA OneMoreEntry ==
  ASSUME NEW apps, NEW n \in Nat, Entries(apps, n + 1),
         NEW i \in 1..n, MostUrgent(apps, n, i)
  PROVE  \E k \in 1..(n + 1) :
           BetterEntry(apps[i], apps[n + 1]) = apps[k] /\ MostUrgent(apps, n + 1, k)
<1>1. /\ n + 1 \in 1..(n + 1) /\ i \in 1..(n + 1) /\ ~(n + 1 < i)
      /\ \A j \in 1..(n + 1) : j \in 1..n \/ j = n + 1
  OBVIOUS
<1>2. ASSUME NEW j \in 1..(n + 1) PROVE apps[j].priority \in Int
  <2>1. apps[j].priority \in 0..255
    BY DEF Entries
  <2> QED BY <2>1
<1>3. CASE apps[n + 1].priority < apps[i].priority
  <2>1. ASSUME NEW j \in 1..n PROVE apps[n + 1].priority < apps[j].priority
    <3>1. /\ apps[i].priority <= apps[j].priority /\ apps[i].priority \in Int
          /\ apps[j].priority \in Int /\ apps[n + 1].priority \in Int
      BY <1>1, <1>2 DEF MostUrgent
    <3> QED BY <1>3, <3>1
  <2>2. MostUrgent(apps, n + 1, n + 1)
    BY <1>1, <1>2, <2>1 DEF MostUrgent
  <2> QED BY <1>1, <1>3, <2>2 DEF BetterEntry
<1>4. CASE ~(apps[n + 1].priority < apps[i].priority)
  <2>1. apps[i].priority <= apps[n + 1].priority
    BY <1>1, <1>2, <1>4
  <2>2. MostUrgent(apps, n + 1, i)
    BY <1>1, <2>1 DEF MostUrgent
  <2> QED BY <1>1, <1>4, <2>2 DEF BetterEntry
<1> QED BY <1>3, <1>4

(* The loop over the entries keeps the most urgent of those it has seen.   *)
LEMMA FoldIsMostUrgent ==
  ASSUME NEW none, none.priority = NoPriority
  PROVE  \A apps \in Seq(AppProtocols) : apps # <<>> =>
           \E i \in 1..Len(apps) :
             Best!Fold(none, apps) = apps[i] /\ MostUrgent(apps, Len(apps), i)
<1> DEFINE Good(apps, n) ==
             \E i \in 1..n : Best!Fold(none, apps) = apps[i] /\ MostUrgent(apps, n, i)
           T == {n \in Nat : \A apps \in Seq(AppProtocols) :
                               Len(apps) = n /\ n # 0 => Good(apps, n)}
<1>1. 0 \in T
  OBVIOUS
<1>2. ASSUME NEW n \in Nat, n \in T PROVE n + 1 \in T
  <2> SUFFICES ASSUME NEW apps \in Seq(AppProtocols), Len(apps) = n + 1
               PROVE  Good(apps, n + 1)
    OBVIOUS
  <2>1. PICK s \in Seq(AppProtocols) :
          /\ s = SubSeq(apps, 1, n) /\ Len(s) = n /\ apps = Append(s, apps[n + 1])
          /\ \A i \in 1..n : s[i] = apps[i]
    <3>1. SubSeq(apps, 1, n) \in Seq(AppProtocols) /\ Len(SubSeq(apps, 1, n)) = n
      OBVIOUS
    <3>2. /\ apps = Append(SubSeq(apps, 1, n), apps[n + 1])
          /\ \A i \in 1..n : SubSeq(apps, 1, n)[i] = apps[i]
      OBVIOUS
    <3> QED BY <3>1, <3>2
  <2>2. Best!Fold(none, apps) = BetterEntry(Best!Fold(none, s), apps[n + 1])
    <3>1. PICK a \in AppProtocols : a = apps[n + 1]
      OBVIOUS
    <3>2. Best!Fold(none, Append(s, a)) = BetterEntry(Best!Fold(none, s), a)
      BY Best!FoldOfAppend
    <3> QED BY <2>1, <3>1, <3>2
  <2>3. Entries(apps, n + 1)
    BY ListOfEntries
  <2>4. CASE n = 0
    <3>1. s = <<>>
      BY <2>1, <2>4, EmptySeq
    <3>2. Best!Fold(none, s).priority = NoPriority
      BY <3>1, Best!FoldOfEmpty
    <3>3. n + 1 = 1 /\ 1 \in 1..1
      BY <2>4
    <3>4. BetterEntry(Best!Fold(none, s), apps[1]) = apps[1] /\ MostUrgent(apps, 1, 1)
      BY <2>3, <3>2, <3>3, FirstEntry
    <3> QED BY <2>2, <3>3, <3>4
  <2>5. CASE n # 0
    <3>1. PICK i \in 1..n : Best!Fold(none, s) = s[i] /\ MostUrgent(s, n, i)
      BY <1>2, <2>1, <2>5
    <3>2. Best!Fold(none, s) = apps[i]
      BY <2>1, <3>1
    <3>3. MostUrgent(apps, n, i)
      BY <2>1, <3>1 DEF MostUrgent
    <3>4. PICK k \in 1..(n + 1) : /\ BetterEntry(apps[i], apps[n + 1]) = apps[k]
                                  /\ MostUrgent(apps, n + 1, k)
      BY <2>3, <3>3, OneMoreEntry
    <3> QED BY <2>2, <3>2, <3>4
  <2> QED BY <2>4, <2>5
<1>3. Nat \subseteq T
  BY <1>1, <1>2, Best!SetInduction
<1> QED
  <2> SUFFICES ASSUME NEW apps \in Seq(AppProtocols), apps # <<>>
               PROVE  Good(apps, Len(apps))
    OBVIOUS
  <2>1. Len(apps) \in Nat /\ Len(apps) # 0
    BY EmptySeq
  <2> QED BY <1>3, <2>1

(* exi_decode_message: the schema chosen is that of the most urgent entry. *)
LEMMA ChoiceIsMostUrgent ==
  ASSUME NEW apps \in Seq(AppProtocols), apps # <<>>
  PROVE  \E i \in DOMAIN apps :
           ChooseSchema(apps) = apps[i].schema /\ MostUrgent(apps, Len(apps), i)
<1>1. NoneYet(apps).priority = NoPriority
  BY DEF NoneYet
<1>2. PICK i \in 1..Len(apps) : /\ Best!Fold(NoneYet(apps), apps) = apps[i]
                               /\ MostUrgent(apps, Len(apps), i)
  BY <1>1, FoldIsMostUrgent
<1>3. i \in DOMAIN apps
  OBVIOUS
<1> QED BY <1>2, <1>3, ChoiceIsFold

LEMMA FitAnswersNegotiate ==
  ASSUME StreamInv, AnswersInv
  PROVE  SchemaNegotiation
<1> SUFFICES ASSUME NEW k \in DOMAIN answers,
                    NEW p, p = frames[answers[k].req].body,
                    DecodedType(p) = "SupportedAppProtocol", p.apps # <<>>
             PROVE  \E i \in DOMAIN p.apps :
                      /\ answers[k].doc.schema = p.apps[i].schema
                      /\ \A j \in DOMAIN p.apps :
                           /\ p.apps[i].priority <= p.apps[j].priority
                           /\ j < i => p.apps[i].priority < p.apps[j].priority
  BY DEF SchemaNegotiation
<1>1. p \in Payloads
  <2>1. /\ frames \in Seq(Frame) /\ answers[k].req \in 1..Len(frames)
    <3>1. /\ frames \in Seq(Frame) /\ served \in Nat
      BY BufferFacts DEF StreamInv
    <3> QED BY <3>1 DEF AnswersInv, AnswersInOrder
  <2>2. frames[answers[k].req] \in Frame
    BY <2>1
  <2> QED BY <2>2 DEF Frame
<1>2. p.apps \in Seq(AppProtocols)
  BY <1>1, MessageConstants DEF IsPayload
<1>3. answers[k].doc = SupportedAppProtocolRes(ChooseSchema(p.apps))
  BY DEF AnswersInv, AnswersFit, Response
<1>4. answers[k].doc.schema = ChooseSchema(p.apps)
  BY <1>3 DEF SupportedAppProtocolRes
<1>5. PICK i \in DOMAIN p.apps : /\ ChooseSchema(p.apps) = p.apps[i].schema
                                /\ MostUrgent(p.apps, Len(p.apps), i)
  BY <1>2, ChoiceIsMostUrgent
<1>6. DOMAIN p.apps = 1..Len(p.apps)
  BY <1>2
<1> QED BY <1>4, <1>5, <1>6 DEF MostUrgent

(* The schema answered is one that this very request offered, and nothing  *)
(* it offered is more urgent; the first of equals wins, for any number of  *)
(* entries and any priorities, 255 among them.                             *)
THEOREM SchemaNegotiationCorrect == StreamSpec => []SchemaNegotiation
BY AnswersInvariant, StreamInvariant, FitAnswersNegotiate, PTL

----------------------------------------------------------------------------
(* The message loop implements the request-response server.                *)

(* The requests as the server sees them, without their positions. *)
Bodies == [i \in DOMAIN frames |-> frames[i].body]

LEMMA BodiesFacts ==
  ASSUME TypeOK
  PROVE  /\ Bodies \in Seq(Payloads) /\ Len(Bodies) = Len(frames)
         /\ \A i \in 1..Len(frames) : Bodies[i] = frames[i].body
<1>1. frames \in Seq(Frame)
  BY BufferFacts
<1>2. /\ Len(frames) \in Nat /\ DOMAIN frames = 1..Len(frames)
      /\ \A i \in 1..Len(frames) : frames[i].body \in Payloads
  BY <1>1, FrameFacts
<1>3. Bodies = [i \in 1..Len(frames) |-> frames[i].body]
  BY <1>2 DEF Bodies
<1>4. Bodies \in Seq(Payloads)
  BY <1>2, <1>3, IsASeq
<1>5. Len(Bodies) = Len(frames)
  BY <1>2, <1>3, <1>4, LenProperties
<1> QED BY <1>3, <1>4, <1>5

LEMMA EvSendBodies ==
  ASSUME TypeOK, TypeOK', NEW p \in Payloads, EvSend(p)
  PROVE  Bodies' = Append(Bodies, p)
<1>1. /\ Bodies \in Seq(Payloads) /\ Len(Bodies) = Len(frames)
      /\ \A i \in 1..Len(frames) : Bodies[i] = frames[i].body
  BY BodiesFacts
<1>2. /\ Len(frames) \in Nat /\ Len(frames') = Len(frames) + 1
      /\ \A i \in 1..Len(frames) : frames'[i] = frames[i]
      /\ frames'[Len(frames) + 1] = [at |-> written, body |-> p]
  BY EvSendKeeps
<1>3. /\ Bodies' \in Seq(Payloads) /\ Len(Bodies') = Len(frames')
      /\ \A i \in 1..Len(frames') : Bodies'[i] = frames'[i].body
  <2>1. frames' \in Seq(Frame)
    BY DEF TypeOK, Frame
  <2>2. /\ Len(frames') \in Nat /\ DOMAIN frames' = 1..Len(frames')
        /\ \A i \in 1..Len(frames') : frames'[i].body \in Payloads
    <3>1. \A i \in 1..Len(frames') : frames'[i] \in Frame
      BY <2>1, ElementOfSeq
    <3> QED BY <2>1, <3>1, LenProperties DEF Frame
  <2>3. Bodies' = [i \in 1..Len(frames') |-> frames'[i].body]
    BY <2>2 DEF Bodies
  <2>4. Bodies' \in Seq(Payloads)
    BY <2>2, <2>3, IsASeq
  <2>5. Len(Bodies') = Len(frames')
    BY <2>2, <2>3, <2>4, LenProperties
  <2> QED BY <2>3, <2>4, <2>5
<1>4. /\ Append(Bodies, p) \in Seq(Payloads)
      /\ Len(Append(Bodies, p)) = Len(frames) + 1
      /\ \A i \in 1..Len(frames) : Append(Bodies, p)[i] = frames[i].body
      /\ Append(Bodies, p)[Len(frames) + 1] = p
  BY <1>1, AppendProperties
<1>5. \A i \in 1..Len(Bodies') : Bodies'[i] = Append(Bodies, p)[i]
  <2> SUFFICES ASSUME NEW i \in 1..(Len(frames) + 1)
               PROVE  Bodies'[i] = Append(Bodies, p)[i]
    BY <1>2, <1>3
  <2>1. CASE i \in 1..Len(frames)
    BY <2>1, <1>2, <1>3, <1>4
  <2>2. CASE i = Len(frames) + 1
    BY <2>2, <1>2, <1>3, <1>4
  <2>3. i \in 1..Len(frames) \/ i = Len(frames) + 1
    <3>1. Len(frames) \in Nat
      BY <1>2
    <3> QED BY <3>1
  <2> QED BY <2>1, <2>2, <2>3
<1>6. Len(Bodies') = Len(Append(Bodies, p))
  BY <1>2, <1>3, <1>4
<1> QED BY <1>3, <1>4, <1>5, <1>6, SeqEqual

(* A step that stays in a running loop, or in a stopped one, and changes   *)
(* nothing the server has, is a stutter of it.                             *)
LEMMA ServerStutters ==
  ASSUME UNCHANGED <<frames, served, answers>>, (pc' # "failed") <=> (pc # "failed")
  PROVE  UNCHANGED Server!vars
BY DEF Server!vars

(* The loop gives up: the server stops. *)
LEMMA ServerStops ==
  ASSUME UNCHANGED <<frames, served, answers>>, pc # "failed", pc' = "failed"
  PROVE  Server!Next
<1>1. Server!Stop
  BY DEF Server!Stop
<1> QED BY <1>1 DEF Server!Next

LEMMA EvSendServer ==
  ASSUME StreamInv, StreamInv', NEW p \in Payloads, EvSend(p)
  PROVE  Server!Next
<1>1. TypeOK /\ TypeOK'
  BY DEF StreamInv
<1>2. Bodies' = Append(Bodies, p) /\ Len(Bodies) = Len(frames)
  BY <1>1, EvSendBodies, BodiesFacts
<1>3. /\ Len(frames) < MaxFrames /\ Len(frames) - served < Window
      /\ UNCHANGED <<served, answers, pc>>
  BY DEF EvSend
<1>4. Server!Ask(p)
  BY <1>2, <1>3 DEF Server!Ask, Bodies
<1> QED BY <1>4 DEF Server!Next

LEMMA SkipServer ==
  ASSUME StreamInv, NEW p \in ParsedHeaders, SkipUnsupported(p)
  PROVE  Server!Next
<1>0. TypeOK /\ served \in Nat
  BY BufferFacts DEF StreamInv
<1>1. /\ pc = "loop" /\ HeaderInBuffer /\ MessageInBuffer(p)
      /\ p.payload_type # "EXI" /\ served' = served + 1
      /\ UNCHANGED <<frames, answers, pc>>
  BY DEF SkipUnsupported, MoveToNext, evVars
<1>2. served + 1 \in 1..Len(frames) /\ p = frames[served + 1].body
  BY <1>1, NextMessage
<1>3. /\ Len(Bodies) = Len(frames) /\ Bodies[served + 1] = p
      /\ Len(frames) \in Nat
  BY <1>0, <1>2, BodiesFacts, BufferFacts, FrameFacts
<1>4. served < Len(Bodies)
  BY <1>0, <1>2, <1>3
<1>5. Server!Pass
  BY <1>1, <1>3, <1>4 DEF Server!Pass, Bodies, ExpectsAnswer
<1> QED BY <1>5 DEF Server!Next

LEMMA HandleServer ==
  ASSUME StreamInv, NEW p \in ParsedHeaders, HandleMessage(p)
  PROVE  Server!Next
<1>0. TypeOK /\ served \in Nat
  BY BufferFacts DEF StreamInv
<1>1. /\ served + 1 \in 1..Len(frames) /\ p = frames[served + 1].body
      /\ p.payload_type = "EXI" /\ pc = "loop"
      /\ \/ Written(p)
         \/ pc' = "failed" /\ UNCHANGED <<frames, answers, served>>
  BY HandleCases
<1>2. CASE pc' = "failed" /\ UNCHANGED <<frames, answers, served>>
  BY <1>1, <1>2, ServerStops
<1>3. CASE Written(p)
  <2>1. /\ Len(Bodies) = Len(frames) /\ Bodies[served + 1] = p
        /\ Len(frames) \in Nat
    BY <1>0, <1>1, BodiesFacts, BufferFacts, FrameFacts
  <2>2. served < Len(Bodies)
    BY <1>0, <1>1, <2>1
  <2>3. Server!Answer
    BY <1>1, <1>3, <2>1, <2>2
       DEF Server!Answer, Written, Bodies, ExpectsAnswer, AnswerFor, CanAnswer
  <2> QED BY <2>3 DEF Server!Next
<1> QED BY <1>1, <1>2, <1>3

LEMMA ServerStep ==
  ASSUME StreamInv, StreamInv', [StreamNext]_streamVars
  PROVE  [Server!Next]_(Server!vars)
<1>1. ASSUME NEW p \in Payloads, EvSend(p) PROVE Server!Next
  BY <1>1, EvSendServer
<1>2. ASSUME NEW p \in ParsedHeaders, SkipUnsupported(p) PROVE Server!Next
  BY <1>2, SkipServer
<1>3. ASSUME NEW p \in ParsedHeaders, HandleMessage(p) PROVE Server!Next
  BY <1>3, HandleServer
<1>4. ASSUME NEW n \in ReadSizes, Receive(n) PROVE UNCHANGED Server!vars
  <2>1. UNCHANGED <<frames, served, answers>> /\ pc = "read" /\ pc' = "loop"
    BY <1>4 DEF Receive, evVars
  <2> QED BY <2>1, ServerStutters
<1>5. ASSUME NEW n \in ReadSizes, ReceiveOverflow(n) PROVE Server!Next
  <2>1. UNCHANGED <<frames, served, answers>> /\ pc = "read" /\ pc' = "failed"
    BY <1>5 DEF ReceiveOverflow, Fail, evVars
  <2> QED BY <2>1, ServerStops
<1>6. ASSUME ReadFails PROVE Server!Next
  <2>1. UNCHANGED <<frames, served, answers>> /\ pc = "read" /\ pc' = "failed"
    BY <1>6 DEF ReadFails, Fail, evVars
  <2> QED BY <2>1, ServerStops
<1>7. ASSUME LeaveLoop PROVE UNCHANGED Server!vars
  <2>1. UNCHANGED <<frames, served, answers>> /\ pc = "loop" /\ pc' = "read"
    BY <1>7 DEF LeaveLoop, evVars
  <2> QED BY <2>1, ServerStutters
<1>8. ASSUME UNCHANGED streamVars PROVE UNCHANGED Server!vars
  <2>1. UNCHANGED <<frames, served, answers, pc>>
    BY <1>8 DEF streamVars
  <2> QED BY <2>1, ServerStutters
<1> QED BY <1>1, <1>2, <1>3, <1>4, <1>5, <1>6, <1>7, <1>8
        DEF StreamNext, ProcessMessage

LEMMA ServerInitial == StreamInit => Server!Init
<1> SUFFICES ASSUME StreamInit PROVE Server!Init
  OBVIOUS
<1>1. TypeOK
  BY StreamInitInv DEF StreamInv
<1>2. Len(frames) = 0 /\ Bodies \in Seq(Payloads) /\ Len(Bodies) = Len(frames)
  BY <1>1, BodiesFacts, EmptySeq DEF StreamInit
<1>3. Bodies = <<>>
  BY <1>2, EmptySeq
<1> QED BY <1>3 DEF Server!Init, StreamInit, Bodies

(* However the stream is cut, buffered and reassembled, the EV sees a      *)
(* server that deals with its requests one by one in order, each answered  *)
(* from that request alone (v2g_process_message as a whole).               *)
THEOREM StreamImplementsServer == StreamSpec => ImplementsServer
<1>1. StreamInit => Server!Init
  BY ServerInitial
<1>2. StreamInv /\ StreamInv' /\ [StreamNext]_streamVars => [Server!Next]_(Server!vars)
  BY ServerStep
<1>3. StreamSpec => Server!Spec
  BY <1>1, <1>2, StreamInvariant, PTL DEF StreamSpec, Server!Spec
<1> QED BY <1>3 DEF ImplementsServer

============================================================================
