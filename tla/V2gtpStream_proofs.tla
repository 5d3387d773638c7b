------------------------ MODULE V2gtpStream_proofs -------------------------
(***************************************************************************)
(* Proofs about the V2G message loop, for every set of payloads, header    *)
(* length, buffer size, window and number of messages.                     *)
(*                                                                         *)
(* StreamInv is the inductive invariant: the messages tile the EV's        *)
(* stream, recv_buffer is an unbroken run of it, and the loop's offset is  *)
(* the end of message number `served`.  From it follows (HeaderIsNext)     *)
(* that the header the code parses is always that of message served + 1,   *)
(* on which every other result rests.                                      *)
(***************************************************************************)
EXTENDS V2gtpStream, TLAPS, SequenceTheorems

Frame == [at : Nat, body : Payloads]

(* The EV's messages tile its stream: each begins where the one before it  *)
(* ends, and the last ends at the last byte written.                       *)
FramesTile ==
  /\ FrameEnd(Len(frames)) = written
  /\ \A i \in 1..Len(frames) : frames[i].at = FrameEnd(i - 1)
  /\ \A i, j \in 1..Len(frames) : i < j => FrameEnd(i) <= frames[j].at

(* Every call of v2g_process_message starts at the front of recv_buffer. *)
AtRead == pc = "read" => offset = 0

(* The inductive invariant behind Reassembly. *)
StreamInv == TypeOK /\ FramesTile /\ AtRead /\ Reassembly

----------------------------------------------------------------------------
(* What the types say, in the form the arithmetic needs.                   *)

LEMMA ConstantFacts ==
  /\ HDR \in Nat /\ HDR > 0 /\ BUFFER_SIZE \in Nat /\ BUFFER_SIZE >= HDR
  /\ \A p \in Payloads : p.size \in Nat /\ p.size >= HDR /\ p.size > 0
<1>1. HDR \in Nat /\ HDR > 0 /\ BUFFER_SIZE \in Nat /\ BUFFER_SIZE >= HDR
  BY MessageConstants, StreamConstants
<1>2. ASSUME NEW p \in Payloads
      PROVE  p.size \in Nat /\ p.size >= HDR /\ p.size > 0
  BY <1>1, MessageConstants DEF IsPayload
<1> QED BY <1>1, <1>2

LEMMA FrameFacts ==
  ASSUME frames \in Seq(Frame)
  PROVE  /\ Len(frames) \in Nat /\ DOMAIN frames = 1..Len(frames)
         /\ \A i \in 1..Len(frames) :
              /\ frames[i] \in Frame /\ frames[i].at \in Nat
              /\ frames[i].body \in Payloads
              /\ frames[i].body.size \in Nat /\ frames[i].body.size > 0
         /\ \A i \in 0..Len(frames) : FrameEnd(i) \in Nat
         /\ FrameEnd(0) = 0
         /\ \A i \in 1..Len(frames) :
              FrameEnd(i) = frames[i].at + frames[i].body.size
<1>1. Len(frames) \in Nat /\ DOMAIN frames = 1..Len(frames)
  BY LenProperties
<1>2. ASSUME NEW i \in 1..Len(frames)
      PROVE  /\ frames[i] \in Frame /\ frames[i].at \in Nat
             /\ frames[i].body \in Payloads
             /\ frames[i].body.size \in Nat /\ frames[i].body.size > 0
  <2>1. frames[i] \in Frame
    BY ElementOfSeq
  <2> QED BY <2>1, ConstantFacts DEF Frame
<1>3. \A i \in 1..Len(frames) : FrameEnd(i) = frames[i].at + frames[i].body.size
  BY <1>1 DEF FrameEnd
<1>4. FrameEnd(0) = 0
  BY DEF FrameEnd
<1>5. ASSUME NEW i \in 0..Len(frames) PROVE FrameEnd(i) \in Nat
  <2>1. CASE i = 0
    BY <2>1, <1>4
  <2>2. CASE i \in 1..Len(frames)
    BY <2>2, <1>2, <1>3
  <2> QED BY <2>1, <2>2, <1>1
<1> QED BY <1>1, <1>2, <1>3, <1>4, <1>5

(* The parts of TypeOK that the reassembly argument counts with. *)
LEMMA BufferFacts ==
  ASSUME TypeOK
  PROVE  /\ frames \in Seq(Frame)
         /\ written \in Nat /\ rd \in Nat /\ rd <= written
         /\ recv_buffer \in Seq(Nat) /\ recv_buffer_len \in Nat
         /\ recv_buffer_len <= BUFFER_SIZE
         /\ offset \in Nat /\ served \in Nat
<1>1. recv_buffer \in Seq(Nat) /\ recv_buffer_len \in Nat
  BY LenProperties DEF TypeOK, recv_buffer_len
<1> QED BY <1>1 DEF TypeOK, Frame, recv_buffer_len

----------------------------------------------------------------------------
(* The initial state.                                                      *)

LEMMA StreamInitInv == StreamInit => StreamInv
<1> SUFFICES ASSUME StreamInit PROVE StreamInv
  OBVIOUS
<1>0. Len(<<>>) = 0 /\ <<>> \in Seq(Nat) /\ <<>> \in Seq(Frame)
      /\ <<>> \in Seq([req : Nat, doc : ResponseDocs])
  BY EmptySeq
<1>1. TypeOK
  <2>1. frames \in Seq([at : Nat, body : Payloads]) /\ recv_buffer \in Seq(Nat)
        /\ answers \in Seq([req : Nat, doc : ResponseDocs])
    BY <1>0 DEF StreamInit, Frame
  <2>2. written \in Nat /\ rd \in 0..written /\ offset \in Nat /\ served \in Nat
        /\ Len(recv_buffer) <= BUFFER_SIZE /\ offset <= BUFFER_SIZE
    BY <1>0, ConstantFacts DEF StreamInit
  <2>3. state \in SeccStates /\ selected_schema \in SchemaIds /\ schema_valid \in BOOLEAN
    BY DEF StreamInit, SeccStates, SchemaIds
  <2> QED BY <2>1, <2>2, <2>3 DEF TypeOK, StreamInit
<1>2. FramesTile
  BY <1>0 DEF StreamInit, FramesTile, FrameEnd
<1>3. Reassembly /\ AtRead
  <2>1. recv_buffer_len = 0 /\ rd = 0 /\ offset = 0 /\ served = 0 /\ Len(frames) = 0
        /\ FrameEnd(served) = 0
    BY <1>0 DEF StreamInit, recv_buffer_len, FrameEnd
  <2> QED BY <2>1 DEF Reassembly, AtRead, Base
<1> QED BY <1>1, <1>2, <1>3 DEF StreamInv

----------------------------------------------------------------------------
(* Within the loop, a header at the offset is the header of message        *)
(* served + 1, and nothing else.                                           *)

LEMMA HeaderIsNext ==
  ASSUME StreamInv, pc = "loop", HeaderInBuffer
  PROVE  /\ served + 1 \in 1..Len(frames)
         /\ frames[served + 1].at = Base + offset
         /\ \A n \in Nat : offset + n <= recv_buffer_len =>
                            HoldsFrame(served + 1, offset, n)
         /\ \A i \in DOMAIN frames : \A n \in Nat \ {0} :
              HoldsFrame(i, offset, n) => i = served + 1
         /\ ParsedHeaders = {frames[served + 1].body}
<1>0. TypeOK /\ FramesTile /\ Reassembly
  BY DEF StreamInv
<1>a. /\ written \in Nat /\ rd \in Nat /\ rd <= written
      /\ recv_buffer_len \in Nat /\ offset \in Nat /\ served \in Nat
  BY <1>0, BufferFacts
<1>b. frames \in Seq(Frame)
  BY <1>0, BufferFacts
<1>c. Len(frames) \in Nat /\ DOMAIN frames = 1..Len(frames)
  BY <1>b, FrameFacts
<1>2. Base + offset = FrameEnd(served) /\ served <= Len(frames)
  BY <1>0 DEF Reassembly
<1>3. Base + offset + HDR <= written /\ Base \in Int
  BY <1>a, ConstantFacts DEF Base, HeaderInBuffer
<1>4. served # Len(frames)
  <2>1. FrameEnd(Len(frames)) = written
    BY <1>0 DEF FramesTile
  <2>2. Base + offset < written
    BY <1>a, <1>3, ConstantFacts
  <2> QED BY <2>1, <2>2, <1>2, <1>a
<1>5. served + 1 \in 1..Len(frames)
  <2>1. served <= Len(frames)
    BY <1>2
  <2>2. Len(frames) \in Nat
    BY <1>c
  <2> QED BY <2>1, <2>2, <1>a, <1>4
<1>6. frames[served + 1].at = Base + offset
  <2>1. frames[served + 1].at = FrameEnd((served + 1) - 1)
    BY <1>0, <1>5 DEF FramesTile
  <2> QED BY <2>1, <1>2, <1>a
<1>7. ASSUME NEW n \in Nat, offset + n <= recv_buffer_len
      PROVE  HoldsFrame(served + 1, offset, n)
  <2>1. ASSUME NEW j \in 1..n
        PROVE  recv_buffer[offset + j] = Base + (offset + j) - 1
    <3>1. offset + j \in 1..recv_buffer_len
      BY <1>a, <1>7
    <3> QED BY <3>1, <1>0 DEF Reassembly
  <2> QED BY <1>a, <1>3, <1>6, <1>7, <2>1 DEF HoldsFrame
<1>8. ASSUME NEW i \in DOMAIN frames, NEW n \in Nat \ {0}, HoldsFrame(i, offset, n)
      PROVE  i = served + 1
  <2>0. i \in 1..Len(frames) /\ i \in Nat
    BY <1>c
  <2>1. recv_buffer[offset + 1] = frames[i].at + 1 - 1
    BY <1>8 DEF HoldsFrame
  <2>2. recv_buffer[offset + 1] = Base + (offset + 1) - 1
    <3>1. offset + 1 \in 1..recv_buffer_len
      BY <1>8, <1>a DEF HoldsFrame
    <3> QED BY <3>1, <1>0 DEF Reassembly
  <2>3. frames[i].at \in Nat /\ frames[i].body.size \in Nat /\ frames[i].body.size > 0
        /\ FrameEnd(i) = frames[i].at + frames[i].body.size
    BY <2>0, <1>b, FrameFacts
  <2>4. frames[served + 1].at \in Nat /\ frames[served + 1].body.size > 0
        /\ frames[served + 1].body.size \in Nat
        /\ FrameEnd(served + 1) = frames[served + 1].at + frames[served + 1].body.size
    BY <1>5, <1>b, FrameFacts
  <2>5. frames[i].at = frames[served + 1].at
    BY <2>1, <2>2, <2>3, <1>a, <1>3, <1>6
  <2>6. ~(i < served + 1)
    BY <2>0, <2>3, <2>4, <2>5, <1>0, <1>5 DEF FramesTile
  <2>7. ~(served + 1 < i)
    BY <2>0, <2>3, <2>4, <2>5, <1>0, <1>5 DEF FramesTile
  <2> QED BY <2>0, <2>6, <2>7, <1>a
<1>9. ParsedHeaders = {frames[served + 1].body}
  <2>1. HoldsFrame(served + 1, offset, HDR)
    BY <1>7, ConstantFacts DEF HeaderInBuffer
  <2>2. \A k \in DOMAIN frames : HoldsFrame(k, offset, HDR) <=> k = served + 1
    BY <2>1, <1>8, ConstantFacts
  <2>3. served + 1 \in DOMAIN frames
    BY <1>c, <1>5
  <2> QED BY <2>1, <2>2, <2>3 DEF ParsedHeaders
<1> QED BY <1>5, <1>6, <1>7, <1>8, <1>9

----------------------------------------------------------------------------
(* Each step preserves the invariant.                                      *)

(* A step that leaves the EV's messages alone leaves their tiling alone. *)
LEMMA TileUnchanged ==
  ASSUME FramesTile, UNCHANGED <<frames, written>>
  PROVE  FramesTile'
BY DEF FramesTile, FrameEnd

(* A step to pc = "failed" has nothing to show but types. *)
LEMMA FailedInv ==
  ASSUME TypeOK', FramesTile', pc' = "failed"
  PROVE  StreamInv'
BY DEF StreamInv, AtRead, Reassembly

(* The EV sends one more message. *)
LEMMA EvSendInv ==
  ASSUME StreamInv, NEW p \in Payloads, EvSend(p)
  PROVE  StreamInv'
<1>0. TypeOK /\ FramesTile /\ AtRead /\ Reassembly
  BY DEF StreamInv
<1>1. /\ frames \in Seq(Frame) /\ Len(frames) \in Nat
      /\ written \in Nat /\ p.size \in Nat /\ p.size > 0
      /\ [at |-> written, body |-> p] \in Frame
  BY <1>0, BufferFacts, FrameFacts, ConstantFacts DEF Frame
<1>2. /\ frames' \in Seq(Frame)
      /\ Len(frames') = Len(frames) + 1
      /\ \A i \in 1..Len(frames) : frames'[i] = frames[i]
      /\ frames'[Len(frames) + 1] = [at |-> written, body |-> p]
      /\ written' = written + p.size
  BY <1>1, AppendProperties DEF EvSend
<1>3. UNCHANGED <<rd, recv_buffer, offset, pc, cause, state, selected_schema,
                  schema_valid, answers, served>>
  BY DEF EvSend, bufVars, schemaVars
<1>4. TypeOK'
  <2>1. rd' \in 0..written'
    BY <1>0, <1>1, <1>2, <1>3 DEF TypeOK
  <2> QED BY <2>1, <1>0, <1>1, <1>2, <1>3 DEF TypeOK, Frame
<1>5. \A i \in 0..Len(frames) : FrameEnd(i)' = FrameEnd(i)
  BY <1>1, <1>2 DEF FrameEnd
<1>6. PICK m \in Nat : m = Len(frames)
  BY <1>1
<1>e. FrameEnd(m)' = written
  <2>1. m \in 0..Len(frames)
    BY <1>6
  <2> QED BY <2>1, <1>0, <1>5, <1>6 DEF FramesTile
<1>7. FramesTile'
  <2>1. FrameEnd(Len(frames))' = written'
    <3>1. PICK k \in Nat : k = Len(frames) + 1
      BY <1>1
    <3>2. k # 0 /\ Len(frames') = k /\ frames'[k].at = written
          /\ frames'[k].body.size = p.size
      BY <3>1, <1>1, <1>2
    <3>3. FrameEnd(k)' = written + p.size
      BY <3>2 DEF FrameEnd
    <3>4. FrameEnd(Len(frames))' = IF Len(frames') = 0 THEN 0
            ELSE frames'[Len(frames')].at + frames'[Len(frames')].body.size
      BY DEF FrameEnd
    <3> QED BY <3>2, <3>4, <1>2
  <2>2. ASSUME NEW i \in 1..Len(frames')
        PROVE  frames'[i].at = FrameEnd(i - 1)'
    <3>1. CASE i = Len(frames) + 1
      <4>1. frames'[i].at = written /\ i - 1 = m
        BY <3>1, <1>1, <1>2, <1>6
      <4> QED BY <4>1, <1>e
    <3>2. CASE i \in 1..Len(frames)
      <4>1. i - 1 \in 0..Len(frames)
        BY <3>2, <1>1
      <4> QED BY <3>2, <4>1, <1>0, <1>2, <1>5 DEF FramesTile
    <3> QED BY <3>1, <3>2, <1>1, <1>2
  <2>3. ASSUME NEW i \in 1..Len(frames'), NEW j \in 1..Len(frames'), i < j
        PROVE  FrameEnd(i)' <= frames'[j].at
    <3>1. i \in 1..Len(frames) /\ i \in 0..Len(frames)
      BY <2>3, <1>1, <1>2
    <3>2. CASE j \in 1..Len(frames)
      BY <2>3, <3>1, <3>2, <1>0, <1>2, <1>5 DEF FramesTile
    <3>3. CASE j = Len(frames) + 1
      <4>1. frames'[j].at = FrameEnd(Len(frames))
        BY <3>3, <1>0, <1>2 DEF FramesTile
      <4>2. CASE i = Len(frames)
        <5>1. FrameEnd(i) \in Nat
          BY <3>1, <1>1, FrameFacts
        <5> QED BY <4>1, <4>2, <5>1, <3>1, <1>5
      <4>3. CASE i < Len(frames)
        <5>1. Len(frames) \in 1..Len(frames)
          BY <3>1, <1>1
        <5>2. FrameEnd(i) <= frames[Len(frames)].at
          BY <4>3, <5>1, <3>1, <1>0 DEF FramesTile
        <5>3. /\ frames[Len(frames)].at \in Nat
              /\ frames[Len(frames)].body.size \in Nat
              /\ FrameEnd(Len(frames)) = frames[Len(frames)].at
                                           + frames[Len(frames)].body.size
              /\ FrameEnd(i) \in Nat
          BY <5>1, <3>1, <1>1, FrameFacts
        <5>4. FrameEnd(i) <= FrameEnd(Len(frames))
          BY <5>2, <5>3
        <5> QED BY <4>1, <5>4, <3>1, <1>5
      <4> QED BY <4>2, <4>3, <3>1, <1>1
    <3> QED BY <3>2, <3>3, <1>1, <1>2
  <2> QED BY <2>1, <2>2, <2>3 DEF FramesTile
<1>8. Reassembly'
  <2> SUFFICES ASSUME pc # "failed" PROVE Reassembly'
    BY <1>3 DEF Reassembly
  <2>1. served <= Len(frames) /\ served \in Nat
    BY <1>0, BufferFacts DEF Reassembly
  <2>2. served \in 0..Len(frames) /\ served <= Len(frames')
    BY <2>1, <1>1, <1>2
  <2>3. FrameEnd(served)' = FrameEnd(served) /\ Base' = Base
        /\ recv_buffer_len' = recv_buffer_len
    BY <2>2, <1>3, <1>5 DEF Base, recv_buffer_len, FrameEnd
  <2> QED BY <2>2, <2>3, <1>0, <1>3 DEF Reassembly
<1> QED BY <1>0, <1>3, <1>4, <1>7, <1>8 DEF StreamInv, AtRead

(* tls_read returns the next n bytes, and they are appended. *)
LEMMA ReceiveInv ==
  ASSUME StreamInv, NEW n \in ReadSizes, Receive(n)
  PROVE  StreamInv'
<1>0. TypeOK /\ FramesTile /\ AtRead /\ Reassembly
  BY DEF StreamInv
<1>1. /\ rd \in Nat /\ written \in Nat /\ rd <= written
      /\ recv_buffer \in Seq(Nat) /\ recv_buffer_len \in Nat
      /\ n \in Nat /\ n > 0 /\ rd + n <= written
      /\ recv_buffer_len + n <= BUFFER_SIZE
  BY <1>0, BufferFacts, ConstantFacts DEF ReadSizes, Smaller, Receive
<1>2. /\ Incoming(n) \in Seq(Nat) /\ Len(Incoming(n)) = n
      /\ \A j \in 1..n : Incoming(n)[j] = rd + j - 1
  <2>1. \A j \in 1..n : rd + j - 1 \in Nat
    BY <1>1
  <2>2. [j \in 1..n |-> rd + j - 1] \in Seq(Nat)
    BY <1>1, <2>1, IsASeq
  <2>3. Len([j \in 1..n |-> rd + j - 1]) = n
    BY <1>1, <2>2, LenProperties
  <2> QED BY <2>2, <2>3 DEF Incoming
<1>3. /\ recv_buffer' \in Seq(Nat)
      /\ recv_buffer_len' = recv_buffer_len + n
      /\ \A j \in 1..(recv_buffer_len + n) :
           recv_buffer'[j] = IF j <= recv_buffer_len THEN recv_buffer[j]
                             ELSE rd + (j - recv_buffer_len) - 1
  <2>1. /\ recv_buffer \o Incoming(n) \in Seq(Nat)
        /\ Len(recv_buffer \o Incoming(n)) = recv_buffer_len + n
        /\ \A j \in 1..(recv_buffer_len + n) : (recv_buffer \o Incoming(n))[j] =
             IF j <= recv_buffer_len THEN recv_buffer[j]
             ELSE Incoming(n)[j - recv_buffer_len]
    <3>1. recv_buffer \in Seq(Nat) /\ Incoming(n) \in Seq(Nat)
      BY <1>1, <1>2
    <3>2. /\ recv_buffer \o Incoming(n) \in Seq(Nat)
          /\ Len(recv_buffer \o Incoming(n)) = Len(recv_buffer) + Len(Incoming(n))
          /\ \A j \in 1..(Len(recv_buffer) + Len(Incoming(n))) :
               (recv_buffer \o Incoming(n))[j] =
                 IF j <= Len(recv_buffer) THEN recv_buffer[j]
                 ELSE Incoming(n)[j - Len(recv_buffer)]
      BY ONLY <3>1, ConcatProperties
    <3> QED BY ONLY <3>2, <1>2 DEF recv_buffer_len
  <2>2. \A j \in 1..(recv_buffer_len + n) : ~(j <= recv_buffer_len) =>
          j - recv_buffer_len \in 1..n
    BY <1>1
  <2> QED BY <1>2, <2>1, <2>2 DEF Receive, recv_buffer_len
<1>4. rd' = rd + n /\ offset = 0 /\ offset' = 0 /\ pc = "read" /\ pc' = "loop"
      /\ UNCHANGED <<frames, written, cause, state, selected_schema,
                     schema_valid, answers, served>>
  BY <1>0 DEF Receive, AtRead, evVars, schemaVars
<1>5. TypeOK'
  <2>1. rd' \in 0..written' /\ Len(recv_buffer') <= BUFFER_SIZE /\ offset' <= BUFFER_SIZE
    BY <1>1, <1>3, <1>4, ConstantFacts DEF recv_buffer_len
  <2> QED BY <2>1, <1>0, <1>3, <1>4 DEF TypeOK
<1>6. FramesTile'
  BY <1>0, <1>4, TileUnchanged
<1>7. Reassembly'
  <2>1. Base' = Base /\ Base = rd - recv_buffer_len
    BY <1>1, <1>3, <1>4 DEF Base
  <2>2. FrameEnd(served)' = FrameEnd(served)
    BY <1>4 DEF FrameEnd
  <2>3. ASSUME NEW j \in 1..recv_buffer_len'
        PROVE  recv_buffer'[j] = Base + j - 1
    <3>1. CASE j <= recv_buffer_len
      <4>1. j \in 1..recv_buffer_len
        BY <3>1, <1>1, <1>3
      <4>2. recv_buffer[j] = Base + j - 1
        BY <4>1, <1>0, <1>4 DEF Reassembly
      <4> QED BY <3>1, <4>2, <1>3
    <3>2. CASE ~(j <= recv_buffer_len)
      BY <3>2, <2>1, <1>1, <1>3
    <3> QED BY <3>1, <3>2
  <2>4. served <= Len(frames) /\ Base + offset = FrameEnd(served)
    BY <1>0, <1>4 DEF Reassembly
  <2>5. offset' <= recv_buffer_len'
    BY <1>1, <1>3, <1>4
  <2> QED BY <2>1, <2>2, <2>3, <2>4, <2>5, <1>4 DEF Reassembly
<1> QED BY <1>4, <1>5, <1>6, <1>7 DEF StreamInv, AtRead

(* The read does not fit in recv_buffer. *)
LEMMA ReceiveOverflowInv ==
  ASSUME StreamInv, NEW n \in ReadSizes, ReceiveOverflow(n)
  PROVE  StreamInv'
<1>0. TypeOK /\ FramesTile
  BY DEF StreamInv
<1>1. rd + n \in 0..written
  BY <1>0, BufferFacts, ConstantFacts DEF ReadSizes, Smaller
<1>2. <<>> \in Seq(Nat) /\ Len(<<>>) = 0
  BY EmptySeq
<1>3. pc' = "failed" /\ cause' = "overflow" /\ recv_buffer' = <<>> /\ rd' = rd + n
      /\ UNCHANGED <<frames, written, offset, state, selected_schema,
                     schema_valid, answers, served>>
  BY DEF ReceiveOverflow, Fail, evVars, schemaVars
<1>4. TypeOK'
  BY <1>0, <1>1, <1>2, <1>3, ConstantFacts DEF TypeOK
<1>5. FramesTile'
  BY <1>0, <1>3, TileUnchanged
<1> QED BY <1>3, <1>4, <1>5, FailedInv

LEMMA ReadFailsInv ==
  ASSUME StreamInv, ReadFails
  PROVE  StreamInv'
<1>0. TypeOK /\ FramesTile
  BY DEF StreamInv
<1>1. pc' = "failed" /\ cause' = "read"
      /\ UNCHANGED <<frames, written, rd, recv_buffer, offset, state,
                     selected_schema, schema_valid, answers, served>>
  BY DEF ReadFails, Fail, evVars, bufVars, schemaVars
<1>2. TypeOK'
  BY <1>0, <1>1 DEF TypeOK
<1>3. FramesTile'
  BY <1>0, <1>1, TileUnchanged
<1> QED BY <1>1, <1>2, <1>3, FailedInv

(* The message the loop is about to serve: its header, whole, is that of   *)
(* message served + 1, and past it begins message served + 2.              *)
LEMMA NextMessage ==
  ASSUME StreamInv, pc = "loop", HeaderInBuffer,
         NEW p \in ParsedHeaders, MessageInBuffer(p)
  PROVE  /\ served + 1 \in 1..Len(frames)
         /\ p = frames[served + 1].body /\ p \in Payloads
         /\ FrameIndex(p) = served + 1
         /\ offset + p.size \in Nat /\ offset + p.size <= recv_buffer_len
         /\ Base + (offset + p.size) = FrameEnd(served + 1)
<1>0. TypeOK
  BY DEF StreamInv
<1>1. frames \in Seq(Frame) /\ offset \in Nat /\ served \in Nat
      /\ rd \in Nat /\ recv_buffer_len \in Nat
  BY <1>0, BufferFacts
<1>2. /\ served + 1 \in 1..Len(frames)
      /\ frames[served + 1].at = Base + offset
      /\ p = frames[served + 1].body
  BY HeaderIsNext
<1>3. /\ p \in Payloads /\ p.size \in Nat /\ p.size > 0
      /\ FrameEnd(served + 1) = frames[served + 1].at + p.size
  BY <1>1, <1>2, FrameFacts
<1>4. offset + p.size <= recv_buffer_len /\ offset + p.size \in Nat
  BY <1>1, <1>3 DEF MessageInBuffer
<1>5. HoldsFrame(served + 1, offset, p.size)
  BY <1>3, <1>4, HeaderIsNext
<1>6. \A i \in DOMAIN frames : HoldsFrame(i, offset, p.size) => i = served + 1
  BY <1>3, HeaderIsNext
<1>7. served + 1 \in DOMAIN frames
  BY <1>1, <1>2, FrameFacts
<1>8. FrameIndex(p) = served + 1
  BY <1>5, <1>6, <1>7 DEF FrameIndex
<1>9. Base \in Int
  BY <1>1 DEF Base
<1> QED BY <1>1, <1>2, <1>3, <1>4, <1>8, <1>9

(* Moving the offset past a served message keeps the run of bytes and puts *)
(* the offset at the next message; skipping and answering both do it.      *)
LEMMA MoveInv ==
  ASSUME StreamInv, pc = "loop", HeaderInBuffer,
         NEW p \in ParsedHeaders, MessageInBuffer(p), MoveToNext(p),
         UNCHANGED <<frames, written, rd, recv_buffer, pc>>
  PROVE  /\ FramesTile' /\ AtRead' /\ Reassembly'
         /\ offset' \in Nat /\ offset' <= BUFFER_SIZE /\ served' \in Nat
<1>0. TypeOK /\ FramesTile /\ Reassembly
  BY DEF StreamInv
<1>1. /\ frames \in Seq(Frame) /\ served \in Nat
      /\ recv_buffer_len \in Nat /\ recv_buffer_len <= BUFFER_SIZE
  BY <1>0, BufferFacts
<1>2. /\ served + 1 \in 1..Len(frames)
      /\ offset + p.size \in Nat /\ offset + p.size <= recv_buffer_len
      /\ Base + (offset + p.size) = FrameEnd(served + 1)
  BY NextMessage
<1>3. offset' = offset + p.size /\ served' = served + 1
  BY DEF MoveToNext
<1>4. recv_buffer_len' = recv_buffer_len /\ Base' = Base
  BY DEF recv_buffer_len, Base
<1>5. FrameEnd(served)' = FrameEnd(served + 1)
  BY <1>3 DEF FrameEnd
<1>6. Reassembly'
  <2>1. served' <= Len(frames') /\ offset' <= recv_buffer_len'
    BY <1>2, <1>3, <1>4
  <2>2. Base' + offset' = FrameEnd(served)'
    BY <1>2, <1>3, <1>4, <1>5
  <2> QED BY <2>1, <2>2, <1>0, <1>4 DEF Reassembly
<1>7. offset' \in Nat /\ offset' <= BUFFER_SIZE /\ served' \in Nat
  BY <1>1, <1>2, <1>3, ConstantFacts
<1>8. FramesTile'
  BY <1>0, TileUnchanged
<1> QED BY <1>6, <1>7, <1>8 DEF AtRead

(* A message of another payload type is skipped. *)
LEMMA SkipInv ==
  ASSUME StreamInv, NEW p \in ParsedHeaders, SkipUnsupported(p)
  PROVE  StreamInv'
<1>0. TypeOK
  BY DEF StreamInv
<1>1. /\ pc = "loop" /\ HeaderInBuffer /\ MessageInBuffer(p) /\ MoveToNext(p)
      /\ UNCHANGED <<frames, written, rd, recv_buffer, pc, cause, state,
                     selected_schema, schema_valid, answers>>
  BY DEF SkipUnsupported, evVars, bufVars, schemaVars
<1>2. /\ FramesTile' /\ AtRead' /\ Reassembly'
      /\ offset' \in Nat /\ offset' <= BUFFER_SIZE /\ served' \in Nat
  BY <1>1, MoveInv
<1>3. TypeOK'
  BY <1>0, <1>1, <1>2 DEF TypeOK
<1> QED BY <1>2, <1>3 DEF StreamInv

(* The router only ever puts one of the session's states in ctx->state. *)
LEMMA StateForType == ASSUME NEW m PROVE StateFor(m) \in SeccStates
<1>1. CASE m \in DOMAIN RoutedState
  <2>1. RoutedState[m] \in SeccStates
    BY <1>1 DEF RoutedState, SeccStates
  <2> QED BY <1>1, <2>1 DEF StateFor
<1>2. CASE m \notin DOMAIN RoutedState
  BY <1>2 DEF StateFor, SeccStates
<1> QED BY <1>1, <1>2

(* What decoding and routing one EXI message does to the variables they    *)
(* write.                                                                  *)
LEMMA DecodeTypes ==
  ASSUME TypeOK, NEW p \in Payloads, Decode(p), Route(DecodedType(p))
  PROVE  /\ state' \in SeccStates
         /\ selected_schema' \in SchemaIds /\ schema_valid' \in BOOLEAN
         /\ GetSchema(selected_schema', schema_valid') \in SchemaIds
<1>1. state' \in SeccStates
  BY StateForType DEF Route, TypeOK
<1>2. ChooseSchema(p.apps) \in SchemaIds /\ 1 \in SchemaIds
  BY DEF SchemaIds
<1>3. selected_schema' \in SchemaIds
  BY <1>2 DEF Decode, TypeOK
<1>4. schema_valid' \in BOOLEAN
  <2>1. schema_valid \in BOOLEAN
    BY DEF TypeOK
  <2>2. (DecodedType(p) = "SupportedAppProtocol") \in BOOLEAN
    OBVIOUS
  <2>3. CASE p.size <= HDR
    BY <2>1, <2>3 DEF Decode
  <2>4. CASE ~(p.size <= HDR)
    BY <2>2, <2>4 DEF Decode
  <2> QED BY <2>3, <2>4
<1>5. GetSchema(selected_schema', schema_valid') \in SchemaIds
  BY <1>2, <1>3 DEF GetSchema
<1> QED BY <1>1, <1>3, <1>4, <1>5

(* An EXI message is decoded, routed and answered, or the loop gives up. *)
LEMMA HandleInv ==
  ASSUME StreamInv, NEW p \in ParsedHeaders, HandleMessage(p)
  PROVE  StreamInv'
<1> DEFINE m == DecodedType(p)
           schema == GetSchema(selected_schema', schema_valid')
<1>0. TypeOK /\ FramesTile
  BY DEF StreamInv
<1>1. /\ pc = "loop" /\ HeaderInBuffer /\ MessageInBuffer(p)
      /\ Decode(p) /\ Route(m)
      /\ UNCHANGED <<frames, written, rd>>
  BY DEF HandleMessage, evVars
<1>2. /\ p \in Payloads /\ FrameIndex(p) = served + 1 /\ served \in Nat
  BY <1>0, <1>1, NextMessage, BufferFacts
<1>3. /\ state' \in SeccStates
      /\ selected_schema' \in SchemaIds /\ schema_valid' \in BOOLEAN
      /\ schema \in SchemaIds
  BY <1>0, <1>1, <1>2, DecodeTypes
<1>4. CASE /\ CanBuild(m, schema)
           /\ answers' = Append(answers, [req |-> FrameIndex(p),
                                          doc |-> Response(m, schema)])
           /\ MoveToNext(p) /\ UNCHANGED <<recv_buffer, pc, cause>>
  <2>1. [req |-> FrameIndex(p), doc |-> Response(m, schema)]
          \in [req : Nat, doc : ResponseDocs]
    <3>1. m \in ExiMsgTypes
      BY <1>4 DEF CanBuild
    <3>2. Response(m, schema) \in ResponseDocs
      BY <3>1, <1>3 DEF ResponseDocs
    <3> QED BY <3>2, <1>2
  <2>2. answers \in Seq([req : Nat, doc : ResponseDocs])
    BY <1>0 DEF TypeOK
  <2>3. answers' \in Seq([req : Nat, doc : ResponseDocs])
    BY <2>1, <2>2, <1>4, AppendProperties
  <2>4. /\ FramesTile' /\ AtRead' /\ Reassembly'
        /\ offset' \in Nat /\ offset' <= BUFFER_SIZE /\ served' \in Nat
    BY <1>1, <1>4, MoveInv
  <2>5. TypeOK'
    BY <2>3, <2>4, <1>0, <1>1, <1>3, <1>4 DEF TypeOK
  <2> QED BY <2>4, <2>5 DEF StreamInv
<1>5. CASE /\ recv_buffer' = <<>> /\ pc' = "failed" /\ cause' \in {"write", "build"}
           /\ UNCHANGED <<answers, offset, served>>
  <2>1. recv_buffer' \in Seq(Nat) /\ Len(recv_buffer') <= BUFFER_SIZE
    BY <1>5, EmptySeq, ConstantFacts
  <2>2. TypeOK'
    BY <2>1, <1>0, <1>1, <1>3, <1>5 DEF TypeOK
  <2>3. FramesTile'
    BY <1>0, <1>1, TileUnchanged
  <2> QED BY <2>2, <2>3, <1>5, FailedInv
<1> QED BY <1>4, <1>5 DEF HandleMessage, Fail

(* What the memmove keeps is the unserved rest, and it starts with the     *)
(* next message.                                                           *)
LEMMA LeaveLoopInv ==
  ASSUME StreamInv, LeaveLoop
  PROVE  StreamInv'
<1>0. TypeOK /\ FramesTile /\ Reassembly /\ pc = "loop"
  BY DEF StreamInv, LeaveLoop
<1>1. /\ rd \in Nat /\ recv_buffer \in Seq(Nat) /\ recv_buffer_len \in Nat
      /\ recv_buffer_len <= BUFFER_SIZE /\ offset \in Nat
  BY <1>0, BufferFacts
<1>2. /\ \A j \in 1..recv_buffer_len : recv_buffer[j] = Base + j - 1
      /\ offset <= recv_buffer_len /\ served <= Len(frames)
      /\ Base + offset = FrameEnd(served)
  BY <1>0 DEF Reassembly
<1>3. offset' = 0 /\ pc' = "read" /\ recv_buffer' = Unprocessed
      /\ UNCHANGED <<frames, written, rd, cause, state, selected_schema,
                     schema_valid, answers, served>>
  BY DEF LeaveLoop, evVars, schemaVars
<1>4. /\ recv_buffer' \in Seq(Nat)
      /\ recv_buffer_len' = recv_buffer_len - offset
      /\ \A j \in 1..(recv_buffer_len - offset) :
           recv_buffer'[j] = recv_buffer[offset + j]
  <2>1. CASE offset = 0
    BY <2>1, <1>1, <1>3 DEF Unprocessed, recv_buffer_len
  <2>2. CASE offset # 0 /\ offset < recv_buffer_len
    <3>1. recv_buffer' = SubSeq(recv_buffer, offset + 1, recv_buffer_len)
      BY <2>2, <1>3 DEF Unprocessed
    <3>2. offset + 1 \in 1..(recv_buffer_len + 1)
          /\ recv_buffer_len \in (offset + 1) - 1 .. recv_buffer_len
          /\ recv_buffer_len - (offset + 1) + 1 = recv_buffer_len - offset
      BY <2>2, <1>1
    <3>3. \A i \in offset + 1 .. recv_buffer_len : recv_buffer[i] \in Nat
      <4>1. \A i \in offset + 1 .. recv_buffer_len : i \in 1..recv_buffer_len
        BY <1>1
      <4> QED BY <4>1, <1>1, ElementOfSeq DEF recv_buffer_len
    <3>4. /\ recv_buffer' \in Seq(Nat)
          /\ Len(recv_buffer') = recv_buffer_len - offset
          /\ \A j \in 1..(recv_buffer_len - offset) :
               recv_buffer'[j] = recv_buffer[offset + 1 + j - 1]
      BY <3>1, <3>2, <3>3, <1>1, SubSeqProperties DEF recv_buffer_len
    <3>5. \A j \in 1..(recv_buffer_len - offset) : offset + 1 + j - 1 = offset + j
      BY <1>1
    <3> QED BY <3>4, <3>5 DEF recv_buffer_len
  <2>3. CASE offset = recv_buffer_len /\ offset # 0
    BY <2>3, <1>1, <1>3, EmptySeq DEF Unprocessed, recv_buffer_len
  <2> QED BY <2>1, <2>2, <2>3, <1>1, <1>2
<1>5. Base' = Base + offset
  BY <1>1, <1>3, <1>4 DEF Base
<1>6. TypeOK'
  <2>1. Len(recv_buffer') <= BUFFER_SIZE /\ offset' <= BUFFER_SIZE /\ offset' \in Nat
    BY <1>1, <1>2, <1>3, <1>4, ConstantFacts DEF recv_buffer_len
  <2> QED BY <2>1, <1>0, <1>3, <1>4 DEF TypeOK
<1>7. Reassembly'
  <2>1. ASSUME NEW j \in 1..recv_buffer_len'
        PROVE  recv_buffer'[j] = Base' + j - 1
    <3>1. j \in 1..(recv_buffer_len - offset) /\ offset + j \in 1..recv_buffer_len
      BY <1>1, <1>2, <1>4
    <3>2. recv_buffer'[j] = Base + (offset + j) - 1
      BY <3>1, <1>2, <1>4
    <3> QED BY <3>1, <3>2, <1>1, <1>5 DEF Base
  <2>2. FrameEnd(served)' = FrameEnd(served)
    BY <1>3 DEF FrameEnd
  <2>3. Base' + offset' = FrameEnd(served)' /\ offset' <= recv_buffer_len'
    <3>1. Base \in Int
      BY <1>1 DEF Base
    <3> QED BY <3>1, <2>2, <1>1, <1>2, <1>3, <1>4, <1>5
  <2> QED BY <2>1, <2>3, <1>2, <1>3 DEF Reassembly
<1>8. FramesTile'
  BY <1>0, <1>3, TileUnchanged
<1> QED BY <1>3, <1>6, <1>7, <1>8 DEF StreamInv, AtRead

----------------------------------------------------------------------------
(* The invariant is inductive.                                             *)

LEMMA StreamNextInv == StreamInv /\ [StreamNext]_streamVars => StreamInv'
<1> SUFFICES ASSUME StreamInv, [StreamNext]_streamVars PROVE StreamInv'
  OBVIOUS
<1>1. ASSUME NEW p \in Payloads, EvSend(p) PROVE StreamInv'
  BY <1>1, EvSendInv
<1>2. ASSUME NEW n \in ReadSizes, Receive(n) \/ ReceiveOverflow(n) PROVE StreamInv'
  BY <1>2, ReceiveInv, ReceiveOverflowInv
<1>3. CASE ReadFails
  BY <1>3, ReadFailsInv
<1>4. ASSUME NEW p \in ParsedHeaders, SkipUnsupported(p) \/ HandleMessage(p)
      PROVE  StreamInv'
  BY <1>4, SkipInv, HandleInv
<1>5. CASE LeaveLoop
  BY <1>5, LeaveLoopInv
<1>6. CASE UNCHANGED streamVars
  BY <1>6 DEF StreamInv, TypeOK, FramesTile, AtRead, Reassembly, FrameEnd, Base,
              recv_buffer_len, streamVars
<1> QED BY <1>1, <1>2, <1>3, <1>4, <1>5, <1>6 DEF StreamNext, ProcessMessage

(* StreamInv holds in every state of the message loop. *)
THEOREM StreamInvariant == StreamSpec => []StreamInv
BY StreamInitInv, StreamNextInv, PTL DEF StreamSpec

(* Every variable keeps to its type, and recv_buffer to its 2048 bytes     *)
(* (BUFFER_SIZE), whatever the EV sends and however it arrives.            *)
THEOREM TypeCorrect == StreamSpec => []TypeOK
<1>1. StreamInv => TypeOK
  BY DEF StreamInv
<1> QED BY <1>1, StreamInvariant, PTL

(* Reassembly (v2g_process_message: append, loop, memmove) is right for    *)
(* messages of any sizes cut into reads of any sizes.                      *)
THEOREM ReassemblyCorrect == StreamSpec => []Reassembly
<1>1. StreamInv => Reassembly
  BY DEF StreamInv
<1> QED BY <1>1, StreamInvariant, PTL

============================================================================
