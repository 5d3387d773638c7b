-------------------------- MODULE PlainTcp_proofs --------------------------
(***************************************************************************)
(* Proofs about the plain TCP reader.  With the message loop around it, it *)
(* implements the loop whose reads return any bytes they have: so every    *)
(* theorem about V2gtpStream holds over plain TCP.  With an EV that waits  *)
(* for its answers each read returns one whole message.                    *)
(***************************************************************************)
EXTENDS PlainTcp, V2gtpServer_proofs

(* What PlainTypeOK says of the reader's own variables. *)
GatheredOK ==
  /\ total_bytes_read \in 0..Smaller(BUFFER_SIZE, written - rd)
  /\ total_message_len \in Nat
  /\ ended \in BOOLEAN
  /\ window \in 1..Window
  /\ pc = "loop" => total_bytes_read = 0

PlainInv == StreamInv /\ GatheredOK

LEMMA GatheredFacts ==
  ASSUME PlainInv
  PROVE  /\ total_bytes_read \in Nat /\ total_message_len \in Nat
         /\ total_bytes_read <= BUFFER_SIZE /\ rd + total_bytes_read <= written
         /\ total_bytes_read > 0 => total_bytes_read \in ReadSizes
<1>1. TypeOK /\ BUFFER_SIZE \in Nat
  BY ConstantFacts DEF PlainInv, StreamInv
<1>2. rd \in Nat /\ written \in Nat /\ rd <= written
  BY <1>1, BufferFacts
<1> QED BY <1>1, <1>2 DEF PlainInv, GatheredOK, Smaller, ReadSizes

(* The bytes that recv adds have arrived and fit. *)
LEMMA ArrivedFacts ==
  ASSUME PlainInv, NEW n \in Arrived
  PROVE  /\ n \in Nat /\ n > 0
         /\ total_bytes_read + n \in 0..Smaller(BUFFER_SIZE, written - rd)
         /\ total_bytes_read + n <= BUFFER_SIZE
         /\ rd + total_bytes_read + n <= written
<1>1. TypeOK /\ BUFFER_SIZE \in Nat
  BY ConstantFacts DEF PlainInv, StreamInv
<1>2. rd \in Nat /\ written \in Nat /\ rd <= written
  BY <1>1, BufferFacts
<1>3. PICK m \in Nat : m = Smaller(BUFFER_SIZE, written - rd) /\ m <= BUFFER_SIZE
                       /\ rd + m <= written
  BY <1>1, <1>2 DEF Smaller
<1>4. total_bytes_read \in 0..m /\ n \in 1..(m - total_bytes_read)
  BY <1>3 DEF PlainInv, GatheredOK, Arrived
<1> QED BY <1>1, <1>2, <1>3, <1>4

LEMMA LengthsAreNat ==
  ASSUME StreamInv
  PROVE  LengthsAtStart \subseteq Nat
<1>1. frames \in Seq(Frame)
  BY BufferFacts DEF StreamInv
<1>2. DOMAIN frames = 1..Len(frames)
      /\ \A i \in 1..Len(frames) : frames[i].body.size \in Nat
  BY <1>1, FrameFacts
<1> QED BY <1>2, ConstantFacts DEF LengthsAtStart, AnyLength

(* When tls_read returns, or fails, the loop sees a read of V2gtpStream.   *)
LEMMA ReturnIsRead ==
  ASSUME PlainInv, ReturnMessage \/ RecvEnds
  PROVE  /\ ProcessMessage /\ pc = "read"
         /\ total_bytes_read' = 0 /\ total_message_len' = 0 /\ window' = window
         /\ \/ \E n \in ReadSizes : /\ n = total_bytes_read
                                    /\ Receive(n) \/ ReceiveOverflow(n)
            \/ ReadFails
<1>1. total_bytes_read > 0 => total_bytes_read \in ReadSizes
  BY GatheredFacts
<1>2. total_bytes_read \in Nat
  BY GatheredFacts
<1>3. CASE ReturnMessage
  <2>1. /\ total_bytes_read >= HDR
        /\ Receive(total_bytes_read) \/ ReceiveOverflow(total_bytes_read)
        /\ total_bytes_read' = 0 /\ total_message_len' = 0 /\ window' = window
    BY <1>3 DEF ReturnMessage, HaveMessage, HaveHeader
  <2>2. total_bytes_read \in ReadSizes
    BY <2>1, <1>1, <1>2, ConstantFacts
  <2> QED BY <2>1, <2>2 DEF ProcessMessage, Receive, ReceiveOverflow
<1>4. CASE RecvEnds
  <2>1. /\ \/ /\ total_bytes_read > 0
              /\ Receive(total_bytes_read) \/ ReceiveOverflow(total_bytes_read)
           \/ ReadFails
        /\ pc = "read"
        /\ total_bytes_read' = 0 /\ total_message_len' = 0 /\ window' = window
    BY <1>4 DEF RecvEnds
  <2> QED BY <2>1, <1>1 DEF ProcessMessage
<1> QED BY <1>3, <1>4

----------------------------------------------------------------------------
(* The reader and the loop together implement V2gtpStream.                 *)

LEMMA PlainStep ==
  ASSUME PlainInv, [PlainNext]_plainVars
  PROVE  [StreamNext]_streamVars
<1>1. PlainEvSend => StreamNext
  BY DEF PlainEvSend, StreamNext
<1>2. ASSUME NEW n \in Arrived, RecvHeader(n) \/ RecvRest(n)
      PROVE  UNCHANGED streamVars
  BY <1>2 DEF RecvHeader, RecvRest
<1>3. ReturnMessage \/ RecvEnds => StreamNext
  BY ReturnIsRead DEF StreamNext
<1>4. Loop => StreamNext
  BY DEF Loop, StreamNext, ProcessMessage
<1>5. UNCHANGED plainVars => UNCHANGED streamVars
  BY DEF plainVars
<1> QED BY <1>1, <1>2, <1>3, <1>4, <1>5 DEF PlainNext, PlainRead

LEMMA ZeroFits ==
  ASSUME NEW w \in Nat, NEW r \in 0..w
  PROVE  0 \in 0..Smaller(BUFFER_SIZE, w - r)
BY ConstantFacts DEF Smaller

(* A step of the loop, after which the reader has gathered nothing. *)
LEMMA EmptyHanded ==
  ASSUME StreamInv', total_bytes_read' = 0, total_message_len' \in Nat,
         ended' \in BOOLEAN, window' \in 1..Window
  PROVE  PlainInv'
<1>1. TypeOK'
  BY DEF StreamInv
<1>2. written' \in Nat /\ rd' \in 0..written'
  BY <1>1 DEF TypeOK
<1>3. 0 \in 0..Smaller(BUFFER_SIZE, written' - rd')
  BY ONLY <1>2, ZeroFits
<1> QED BY <1>3 DEF PlainInv, GatheredOK

LEMMA PlainNextInv ==
  ASSUME PlainInv, [PlainNext]_plainVars
  PROVE  PlainInv'
<1>0. StreamInv /\ GatheredOK
  BY DEF PlainInv
<1>a. StreamInv'
  BY <1>0, PlainStep, StreamNextInv
<1>b. TypeOK /\ TypeOK'
  BY <1>0, <1>a DEF StreamInv
<1>1. CASE PlainEvSend
  <2>1. /\ UNCHANGED <<total_bytes_read, total_message_len, ended, window, rd, pc>>
        /\ \E p \in Payloads : written' = written + p.size
    BY <1>1 DEF PlainEvSend, EvSend, recvVars, bufVars
  <2>2. PICK s \in Nat : written' = written + s
    BY <2>1, ConstantFacts
  <2>3. /\ rd \in Nat /\ written \in Nat /\ total_bytes_read \in Nat
        /\ total_bytes_read <= BUFFER_SIZE /\ rd + total_bytes_read <= written
    BY <1>b, BufferFacts, GatheredFacts
  <2>4. total_bytes_read \in 0..Smaller(BUFFER_SIZE, (written + s) - rd)
    BY <2>3, ConstantFacts DEF Smaller
  <2> QED BY <2>1, <2>2, <2>4, <1>0, <1>a DEF PlainInv, GatheredOK
<1>2. ASSUME NEW n \in Arrived, RecvHeader(n) \/ RecvRest(n)
      PROVE  PlainInv'
  <2>1. /\ total_bytes_read' = total_bytes_read + n /\ pc = "read"
        /\ UNCHANGED <<streamVars, ended, window>>
    BY <1>2 DEF RecvHeader, RecvRest
  <2>2. UNCHANGED <<written, rd, pc>>
    BY <2>1 DEF streamVars
  <2>3. total_message_len' \in Nat
    <3>1. total_message_len \in Nat
      BY <1>0 DEF GatheredOK
    <3>2. LengthsAtStart \subseteq Nat
      BY <1>0, LengthsAreNat
    <3> QED BY <1>2, <3>1, <3>2 DEF RecvHeader, RecvRest
  <2>4. total_bytes_read' \in 0..Smaller(BUFFER_SIZE, written' - rd')
    BY <2>1, <2>2, ArrivedFacts
  <2> QED BY <2>1, <2>2, <2>3, <2>4, <1>0, <1>a DEF PlainInv, GatheredOK
<1>3. CASE ReturnMessage \/ RecvEnds
  <2>1. total_bytes_read' = 0 /\ total_message_len' = 0 /\ window' = window
    BY <1>3, ReturnIsRead
  <2>2. ended' \in BOOLEAN
    BY <1>0, <1>3 DEF ReturnMessage, RecvEnds, GatheredOK
  <2> QED BY <2>1, <2>2, <1>0, <1>a, EmptyHanded DEF GatheredOK
<1>4. CASE Loop
  <2>1. pc = "loop" /\ UNCHANGED <<total_bytes_read, total_message_len, ended, window>>
    BY <1>4 DEF Loop, SkipUnsupported, HandleMessage, LeaveLoop, recvVars
  <2>2. total_bytes_read' = 0
    BY <2>1, <1>0 DEF GatheredOK
  <2> QED BY <2>1, <2>2, <1>0, <1>a, EmptyHanded DEF GatheredOK
<1>5. CASE UNCHANGED plainVars
  <2>1. UNCHANGED <<total_bytes_read, total_message_len, ended, window, written, rd, pc>>
    BY <1>5 DEF plainVars, recvVars, streamVars
  <2> QED BY <2>1, <1>0, <1>a DEF PlainInv, GatheredOK
<1> QED BY <1>1, <1>2, <1>3, <1>4, <1>5 DEF PlainNext, PlainRead

LEMMA PlainInvariant == PlainSpec => []PlainInv
<1>1. PlainInit => PlainInv
  <2> SUFFICES ASSUME PlainInit PROVE PlainInv
    OBVIOUS
  <2>1. StreamInv
    BY StreamInitInv DEF PlainInit
  <2>2. written - rd = 0 /\ pc = "read"
    BY DEF PlainInit, StreamInit
  <2>3. 0 \in 0..Smaller(BUFFER_SIZE, written - rd)
    BY <2>2, ConstantFacts DEF Smaller
  <2> QED BY <2>1, <2>2, <2>3 DEF PlainInv, GatheredOK, PlainInit
<1>2. PlainInv /\ [PlainNext]_plainVars => PlainInv'
  BY PlainNextInv
<1> QED BY <1>1, <1>2, PTL DEF PlainSpec

(* tls_read never gathers more than temp_buffer holds or has arrived, and  *)
(* gathers nothing while the loop runs.                                    *)
THEOREM PlainTypeCorrect == PlainSpec => []PlainTypeOK
<1>1. PlainInv => PlainTypeOK
  BY DEF PlainInv, GatheredOK, StreamInv, PlainTypeOK
<1> QED BY <1>1, PlainInvariant, PTL

(* Whatever bytes the plain TCP branch of tls_read takes for a header, the *)
(* message loop around it does what it does over any stream.               *)
THEOREM PlainImplementsStream == PlainSpec => ImplementsStream
<1>1. PlainInit => StreamInit
  BY DEF PlainInit
<1>2. PlainInv /\ [PlainNext]_plainVars => [StreamNext]_streamVars
  BY PlainStep
<1>3. PlainSpec => StreamSpec
  BY <1>1, <1>2, PlainInvariant, PTL DEF PlainSpec, StreamSpec
<1> QED BY <1>3 DEF ImplementsStream

(* So the EV sees the request-response server over plain TCP as well.      *)
THEOREM PlainImplementsServer == PlainSpec => ImplementsServer
BY PlainImplementsStream, StreamImplementsServer, PTL DEF ImplementsStream

----------------------------------------------------------------------------
(* One message at a time.                                                  *)

MessagesFit == \A p \in Payloads : p.size <= BUFFER_SIZE

(* The length of the message to be served next. *)
NextSize == frames[served + 1].body.size

(* With an EV that waits for its answers, and until recv fails: tls_read   *)
(* begins where a message begins, and the loop has one whole message.      *)
LockstepRead ==
  (window = 1 /\ ~ended /\ pc # "failed") =>
    /\ Len(frames) <= served + 1
    /\ pc = "read" => recv_buffer_len = 0
    /\ (pc = "read" /\ HaveHeader) => served < Len(frames) /\ total_message_len = NextSize
    /\ pc = "loop" =>
         \/ offset = 0 /\ served < Len(frames) /\ recv_buffer_len = NextSize
         \/ offset > 0 /\ offset = recv_buffer_len

LEMMA NextFacts ==
  ASSUME StreamInv, MessagesFit, served < Len(frames)
  PROVE  /\ served + 1 \in 1..Len(frames)
         /\ NextSize \in Nat /\ NextSize >= HDR /\ NextSize <= BUFFER_SIZE
<1>1. /\ frames \in Seq(Frame) /\ served \in Nat
  BY BufferFacts DEF StreamInv
<1>2. Len(frames) \in Nat
  BY <1>1, FrameFacts
<1>3. served + 1 \in 1..Len(frames)
  BY <1>1, <1>2
<1>4. frames[served + 1].body \in Payloads
  BY <1>1, <1>3, FrameFacts
<1> QED BY <1>3, <1>4, ConstantFacts DEF NextSize, MessagesFit

(* Nothing beyond the message being read is under way. *)
LEMMA NothingBeyond ==
  ASSUME StreamInv, LockstepRead, window = 1, ~ended, pc = "read", rd < written
  PROVE  /\ served < Len(frames) /\ frames[served + 1].at = rd
         /\ written = rd + NextSize
<1>0. TypeOK /\ FramesTile /\ Reassembly /\ offset = 0
  BY DEF StreamInv, AtRead
<1>1. /\ rd \in Nat /\ written \in Nat /\ served \in Nat /\ recv_buffer_len = 0
      /\ Len(frames) \in Nat /\ Len(frames) <= served + 1
  BY <1>0, BufferFacts, FrameFacts DEF LockstepRead
<1>2. /\ FrameEnd(served) = rd /\ served <= Len(frames) /\ Base + offset = rd
      /\ FrameEnd(Len(frames)) = written
  BY <1>0, <1>1 DEF Reassembly, FramesTile, Base
<1>3. served # Len(frames)
  BY <1>1, <1>2
<1>4. served < Len(frames) /\ Len(frames) = served + 1
  BY <1>1, <1>2, <1>3
<1>5. /\ frames[served + 1].at = Base + offset
      /\ FrameEnd(served + 1) = Base + offset + frames[served + 1].body.size
  BY <1>1, <1>4, NextEnd
<1> QED BY <1>2, <1>4, <1>5 DEF NextSize

LEMMA HeaderIsRight ==
  ASSUME StreamInv, served + 1 \in 1..Len(frames), frames[served + 1].at = rd,
         Len(frames) = served + 1
  PROVE  LengthsAtStart = {NextSize}
<1>1. frames \in Seq(Frame) /\ served \in Nat /\ rd \in Nat /\ FramesTile
  BY BufferFacts DEF StreamInv
<1>2. DOMAIN frames = 1..Len(frames) /\ served + 1 \in DOMAIN frames
  BY <1>1, FrameFacts
<1>3. ASSUME NEW i \in DOMAIN frames, frames[i].at = rd PROVE i = served + 1
  <2> SUFFICES ASSUME i # served + 1 PROVE FALSE
    OBVIOUS
  <2>1. i \in 1..Len(frames) /\ i < served + 1
    BY <1>1, <1>2, <1>3
  <2>2. FrameEnd(i) <= rd
    BY <2>1, <1>1 DEF FramesTile
  <2>3. /\ FrameEnd(i) = frames[i].at + frames[i].body.size
        /\ frames[i].body.size \in Nat /\ frames[i].body.size > 0
    BY <2>1, <1>1, FrameFacts
  <2> QED BY <2>2, <2>3, <1>1, <1>3
<1> QED BY <1>2, <1>3 DEF LengthsAtStart, NextSize

(* recv has added n bytes. *)
LEMMA RecvLockstep ==
  ASSUME PlainInv, MessagesFit, LockstepRead,
         NEW n \in Arrived, RecvHeader(n) \/ RecvRest(n)
  PROVE  LockstepRead'
<1>1. /\ pc = "read" /\ ~ended /\ total_bytes_read' = total_bytes_read + n
      /\ UNCHANGED <<streamVars, ended, window>>
  BY DEF RecvHeader, RecvRest
<1>2. UNCHANGED <<frames, served, pc, recv_buffer, offset>>
  BY <1>1 DEF streamVars
<1> SUFFICES ASSUME window = 1 PROVE LockstepRead'
  BY <1>1 DEF LockstepRead
<1>3. StreamInv
  BY DEF PlainInv
<1>4. rd \in Nat /\ written \in Nat /\ served \in Nat /\ Len(frames) \in Nat
  BY <1>3, BufferFacts, FrameFacts DEF StreamInv
<1>5. n \in Nat /\ n > 0 /\ rd + total_bytes_read + n <= written
      /\ total_bytes_read \in Nat
  BY ArrivedFacts, GatheredFacts
<1>6. rd < written
  BY <1>4, <1>5
<1>7. served < Len(frames) /\ frames[served + 1].at = rd
  BY <1>1, <1>3, <1>6, NothingBeyond
<1>8. Len(frames) <= served + 1 /\ recv_buffer_len = 0
  BY <1>1 DEF LockstepRead
<1>9. HaveHeader' => total_message_len' = NextSize
  <2>1. CASE RecvHeader(n)
    <3>1. served + 1 \in 1..Len(frames) /\ Len(frames) = served + 1
      BY <1>4, <1>7, <1>8
    <3>2. LengthsAtStart = {NextSize}
      BY <3>1, <1>3, <1>7, HeaderIsRight
    <3> QED BY <2>1, <3>2, <1>1 DEF RecvHeader, HaveHeader
  <2>2. CASE RecvRest(n)
    BY <2>2, <1>1 DEF RecvRest, LockstepRead
  <2> QED BY <2>1, <2>2
<1>10. NextSize' = NextSize /\ recv_buffer_len' = recv_buffer_len
  BY <1>2 DEF NextSize, recv_buffer_len
<1> QED BY <1>1, <1>2, <1>7, <1>8, <1>9, <1>10 DEF LockstepRead

(* tls_read returns with exactly the message: it had no more bytes to take *)
(* and would not have returned with fewer.                                 *)
LEMMA ReturnLockstep ==
  ASSUME PlainInv, MessagesFit, LockstepRead, ReturnMessage
  PROVE  LockstepRead'
<1>0. StreamInv
  BY DEF PlainInv
<1>1. /\ pc = "read" /\ UNCHANGED <<ended, window>>
      /\ HaveHeader
      /\ total_bytes_read >= total_message_len \/ total_bytes_read >= BUFFER_SIZE
      /\ Receive(total_bytes_read) \/ ReceiveOverflow(total_bytes_read)
  BY DEF ReturnMessage, HaveMessage, Receive, ReceiveOverflow
<1>2. CASE ReceiveOverflow(total_bytes_read)
  BY <1>2 DEF ReceiveOverflow, Fail, LockstepRead
<1>3. CASE Receive(total_bytes_read)
  <2> SUFFICES ASSUME window = 1, ~ended PROVE LockstepRead'
    BY <1>1 DEF LockstepRead
  <2>1. /\ pc' = "loop" /\ offset' = 0 /\ UNCHANGED <<frames, served>>
        /\ recv_buffer' = recv_buffer \o Incoming(total_bytes_read)
    BY <1>3 DEF Receive, evVars
  <2>2. /\ Len(frames) <= served + 1 /\ recv_buffer_len = 0
        /\ served < Len(frames) /\ total_message_len = NextSize
    BY <1>1 DEF LockstepRead
  <2>3. NextSize \in Nat /\ NextSize >= HDR /\ NextSize <= BUFFER_SIZE
    BY <2>2, <1>0, NextFacts
  <2>4. /\ total_bytes_read \in Nat /\ rd \in Nat /\ written \in Nat
        /\ rd + total_bytes_read <= written /\ total_bytes_read <= BUFFER_SIZE
    BY <1>0, GatheredFacts, BufferFacts DEF StreamInv
  <2>5. total_bytes_read >= NextSize
    BY <2>2, <2>3, <2>4, <1>1, ConstantFacts
  <2>6. rd < written
    BY <2>3, <2>4, <2>5, ConstantFacts
  <2>7. total_bytes_read = NextSize
    <3>1. written = rd + NextSize
      BY <2>6, <1>0, <1>1, NothingBeyond
    <3> QED BY <3>1, <2>3, <2>4, <2>5
  <2>8. recv_buffer_len' = total_bytes_read
    <3>1. recv_buffer \in Seq(Nat) /\ Len(recv_buffer) = 0
      BY <2>2, <1>0, BufferFacts DEF StreamInv, recv_buffer_len
    <3>2. \A j \in 1..total_bytes_read : rd + j - 1 \in Nat
      BY <2>4
    <3>3. Incoming(total_bytes_read) \in Seq(Nat)
      BY <3>2, <2>4, IsASeq DEF Incoming
    <3>4. Len(Incoming(total_bytes_read)) = total_bytes_read
      BY <3>3, <2>4, LenProperties DEF Incoming
    <3>5. Len(recv_buffer') = Len(recv_buffer) + Len(Incoming(total_bytes_read))
      BY <2>1, <3>1, <3>3, ConcatProperties
    <3> QED BY <3>1, <3>4, <3>5, <2>4 DEF recv_buffer_len
  <2>9. NextSize' = NextSize
    BY <2>1 DEF NextSize
  <2> QED BY <2>1, <2>2, <2>7, <2>8, <2>9 DEF LockstepRead
<1> QED BY <1>1, <1>2, <1>3

(* The loop serves the one message, and leaves with nothing. *)
LEMMA LoopLockstep ==
  ASSUME PlainInv, MessagesFit, LockstepRead, Loop
  PROVE  LockstepRead'
<1>0. StreamInv /\ StreamInv' /\ TypeOK /\ GatheredOK
  <2>1. StreamNext
    BY DEF Loop, StreamNext, ProcessMessage
  <2> QED BY <2>1, StreamNextInv DEF PlainInv, StreamInv
<1>1. /\ pc = "loop" /\ UNCHANGED <<total_bytes_read, ended, window, frames>>
      /\ total_bytes_read = 0
  BY <1>0 DEF Loop, SkipUnsupported, HandleMessage, LeaveLoop, recvVars, evVars,
              GatheredOK
<1> SUFFICES ASSUME window = 1, ~ended PROVE LockstepRead'
  BY <1>1 DEF LockstepRead
<1>2. /\ Len(frames) <= served + 1
      /\ \/ offset = 0 /\ served < Len(frames) /\ recv_buffer_len = NextSize
         \/ offset > 0 /\ offset = recv_buffer_len
  BY <1>1 DEF LockstepRead
<1>3. /\ recv_buffer_len \in Nat /\ offset \in Nat /\ served \in Nat
      /\ Len(frames) \in Nat
  BY <1>0, BufferFacts, FrameFacts
<1>4. ASSUME NEW p \in ParsedHeaders, SkipUnsupported(p) \/ HandleMessage(p)
      PROVE  LockstepRead'
  <2>1. CASE pc' = "failed"
    BY <2>1 DEF LockstepRead
  <2>2. CASE MoveToNext(p) /\ UNCHANGED <<recv_buffer, pc>>
    <3>1. HeaderInBuffer /\ MessageInBuffer(p)
      BY <1>4 DEF SkipUnsupported, HandleMessage
    <3>2. /\ p = frames[served + 1].body /\ served + 1 \in 1..Len(frames)
      BY <3>1, <1>0, <1>1, NextMessage
    <3>3. p.size \in Nat /\ p.size > 0 /\ p.size = NextSize
      BY <3>2, <1>0, BufferFacts, FrameFacts DEF NextSize
    <3>4. offset + HDR <= recv_buffer_len
      BY <3>1 DEF HeaderInBuffer
    <3>5. offset = 0 /\ recv_buffer_len = NextSize
      BY <3>4, <1>2, <1>3, ConstantFacts
    <3>6. offset' = p.size /\ served' = served + 1 /\ recv_buffer_len' = recv_buffer_len
      BY <2>2, <3>3, <3>5 DEF MoveToNext, recv_buffer_len
    <3>7. offset' > 0 /\ offset' = recv_buffer_len' /\ pc' = "loop"
          /\ Len(frames') <= served' + 1
      BY <3>2, <3>3, <3>5, <3>6, <2>2, <1>1, <1>2, <1>3
    <3> QED BY <3>7 DEF LockstepRead
  <2> QED BY <1>4, <2>1, <2>2 DEF SkipUnsupported, HandleMessage, Fail, bufVars
<1>5. CASE LeaveLoop
  <2>1. /\ pc' = "read" /\ recv_buffer' = Unprocessed /\ UNCHANGED served
        /\ HeaderInBuffer => \E p \in ParsedHeaders : ~MessageInBuffer(p)
    BY <1>5 DEF LeaveLoop
  <2>2. ~(offset = 0 /\ served < Len(frames) /\ recv_buffer_len = NextSize)
    <3> SUFFICES ASSUME offset = 0, served < Len(frames), recv_buffer_len = NextSize
                 PROVE  FALSE
      OBVIOUS
    <3>1. NextSize \in Nat /\ NextSize >= HDR
      BY <1>0, NextFacts
    <3>2. HeaderInBuffer
      BY <3>1, <1>3, ConstantFacts DEF HeaderInBuffer
    <3>3. ParsedHeaders = {frames[served + 1].body}
      BY <3>2, <1>0, <1>1, HeaderIsNext
    <3>4. ~MessageInBuffer(frames[served + 1].body)
      BY <3>2, <3>3, <2>1
    <3> QED BY <3>1, <3>4, <1>3 DEF MessageInBuffer, NextSize
  <2>3. recv_buffer' = <<>>
    BY <2>1, <2>2, <1>2, <1>3 DEF Unprocessed
  <2>4. recv_buffer_len' = 0
    BY <2>3, EmptySeq DEF recv_buffer_len
  <2>5. ~HaveHeader'
    BY <1>1, ConstantFacts DEF HaveHeader
  <2> QED BY <2>1, <2>4, <2>5, <1>1, <1>2 DEF LockstepRead
<1> QED BY <1>4, <1>5 DEF Loop

(* The EV sends its next message only when the last has been served. *)
LEMMA EvSendLockstep ==
  ASSUME PlainInv, LockstepRead, PlainEvSend
  PROVE  LockstepRead'
<1>0. TypeOK /\ StreamInv
  BY DEF PlainInv, StreamInv
<1>1. PICK p \in Payloads : EvSend(p)
  BY DEF PlainEvSend
<1>2. /\ UNCHANGED <<total_bytes_read, total_message_len, ended, window,
                     served, pc, recv_buffer, offset>>
      /\ Len(frames) - served < window
  BY <1>1 DEF PlainEvSend, EvSend, recvVars, bufVars
<1> SUFFICES ASSUME window = 1, ~ended, pc # "failed" PROVE LockstepRead'
  BY <1>2 DEF LockstepRead
<1>3. /\ Len(frames) \in Nat /\ Len(frames') = Len(frames) + 1 /\ served \in Nat
      /\ served <= Len(frames)
  BY <1>0, <1>1, EvSendKeeps, BufferFacts DEF StreamInv, Reassembly
<1>4. served = Len(frames)
  BY <1>2, <1>3
<1>5. pc = "read" => ~HaveHeader
  BY <1>4, <1>3 DEF LockstepRead
<1>6. pc = "loop" => offset > 0 /\ offset = recv_buffer_len
  BY <1>4, <1>3 DEF LockstepRead
<1>7. (pc = "read" => recv_buffer_len = 0) /\ recv_buffer_len' = recv_buffer_len
  BY <1>2 DEF LockstepRead, recv_buffer_len
<1> QED BY <1>2, <1>3, <1>4, <1>5, <1>6, <1>7 DEF LockstepRead, HaveHeader

(* However the network cuts the message of a waiting EV into pieces, the   *)
(* plain TCP branch of tls_read puts it together and returns it whole,     *)
(* without a byte of any other.                                            *)
THEOREM OneMessagePerReadCorrect ==
  ASSUME MessagesFit PROVE PlainSpec => []OneMessagePerRead
<1>1. PlainInit => LockstepRead
  <2>1. Len(<<>>) = 0 /\ 0 <= 0 + 1 /\ ~(0 >= HDR)
    BY EmptySeq, ConstantFacts
  <2> QED BY <2>1 DEF PlainInit, StreamInit, LockstepRead, recv_buffer_len, HaveHeader
<1>2. PlainInv /\ LockstepRead /\ [PlainNext]_plainVars => LockstepRead'
  <2> SUFFICES ASSUME PlainInv, LockstepRead, [PlainNext]_plainVars
               PROVE  LockstepRead'
    OBVIOUS
  <2>1. CASE PlainEvSend
    BY <2>1, EvSendLockstep
  <2>2. ASSUME NEW n \in Arrived, RecvHeader(n) \/ RecvRest(n) PROVE LockstepRead'
    BY <2>2, RecvLockstep
  <2>3. CASE ReturnMessage
    BY <2>3, ReturnLockstep
  <2>4. CASE RecvEnds
    BY <2>4 DEF RecvEnds, LockstepRead
  <2>5. CASE Loop
    BY <2>5, LoopLockstep
  <2>6. CASE UNCHANGED plainVars
    BY <2>6 DEF plainVars, recvVars, streamVars, LockstepRead, recv_buffer_len,
                HaveHeader, NextSize
  <2> QED BY <2>1, <2>2, <2>3, <2>4, <2>5, <2>6 DEF PlainNext, PlainRead
<1>3. LockstepRead => OneMessagePerRead
  <2>1. ASSUME window = 1, pc = "loop", offset = 0, ~ended, LockstepRead
        PROVE  recv_buffer_len = NextSize
    BY <2>1 DEF LockstepRead
  <2> QED BY <2>1 DEF OneMessagePerRead, NextSize
<1> QED BY <1>1, <1>2, <1>3, PlainInvariant, PTL DEF PlainSpec

============================================================================
