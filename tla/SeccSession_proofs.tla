------------------------ MODULE SeccSession_proofs -------------------------
(***************************************************************************)
(* Proofs about a whole run of the SECC, from main to exit.  The session   *)
(* inherits the reassembly invariant of the message loop inside it; what   *)
(* it adds is which connection, state and exit code each phase of main may *)
(* have (PhaseInv).                                                        *)
(***************************************************************************)
EXTENDS SeccSession, V2gtpServer_proofs

----------------------------------------------------------------------------
(* ctx->state and the requests that reached the router.                    *)

Routed == {i \in 1..served : IsExi(i)
             /\ DecodedType(frames[i].body) # "SupportedAppProtocol"}

(* StateFollowsRequests without Max: some routed request is the last one. *)
LastRouted ==
  \/ Routed = {} /\ state = "SERVICE_DISCOVERY"
  \/ \E k \in Routed : /\ \A i \in Routed : i <= k
                       /\ state = StateFor(DecodedType(frames[k].body))

LEMMA LastRoutedIsMax ==
  ASSUME TypeOK, LastRouted
  PROVE  StateFollowsRequests
<1>1. served \in Nat
  BY BufferFacts
<1>2. CASE Routed = {} /\ state = "SERVICE_DISCOVERY"
  BY <1>2 DEF StateFollowsRequests, Routed
<1>3. CASE \E k \in Routed : /\ \A i \in Routed : i <= k
                             /\ state = StateFor(DecodedType(frames[k].body))
  <2>1. PICK k \in Routed : /\ \A i \in Routed : i <= k
                            /\ state = StateFor(DecodedType(frames[k].body))
    BY <1>3
  <2>2. Routed # {} /\ \A i \in Routed : i \in Int
    BY <2>1, <1>1 DEF Routed
  <2>3. \A j \in Routed : (\A i \in Routed : i <= j) => j = k
    BY <2>1, <2>2
  <2>4. Max(Routed) = k
    BY <2>1, <2>2, <2>3 DEF Max
  <2> QED BY <2>1, <2>2, <2>4 DEF StateFollowsRequests, Routed
<1> QED BY <1>2, <1>3 DEF LastRouted

(* What StateFollowsRequests needs of the loop's own state.                *)
StateInv == served <= Len(frames) /\ (pc # "failed" => LastRouted)

(* Nothing that is routed or decides the state changes. *)
LEMMA RoutedUnchanged ==
  ASSUME StateInv, TypeOK, UNCHANGED <<state, served>>, pc' # "failed" => pc # "failed",
         Len(frames) <= Len(frames'), Len(frames') \in Nat, Len(frames) \in Nat,
         \A i \in 1..Len(frames) : frames'[i] = frames[i]
  PROVE  StateInv'
<1>1. served \in Nat /\ served <= Len(frames)
  BY BufferFacts DEF StateInv
<1>2. \A i \in 1..served : frames'[i] = frames[i]
  BY <1>1
<1>3. Routed' = Routed
  BY <1>2 DEF Routed, IsExi
<1>4. Routed \subseteq 1..served
  BY DEF Routed
<1>5. LastRouted => LastRouted'
  BY <1>2, <1>3, <1>4 DEF LastRouted
<1> QED BY <1>1, <1>5 DEF StateInv

LEMMA HandleState ==
  ASSUME StreamInv, StateInv, NEW p \in ParsedHeaders, HandleMessage(p)
  PROVE  StateInv'
<1>0. TypeOK /\ served \in Nat /\ Len(frames) \in Nat
  BY BufferFacts, FrameFacts DEF StreamInv
<1>1. /\ served + 1 \in 1..Len(frames) /\ p = frames[served + 1].body
      /\ p.payload_type = "EXI" /\ pc = "loop"
      /\ \/ Written(p)
         \/ pc' = "failed" /\ UNCHANGED <<frames, answers, served>>
  BY HandleCases
<1>2. Route(DecodedType(p))
  BY DEF HandleMessage
<1>3. CASE pc' = "failed" /\ UNCHANGED <<frames, answers, served>>
  BY <1>3 DEF StateInv
<1>4. CASE Written(p)
  <2>1. served' = served + 1 /\ UNCHANGED frames /\ LastRouted
    BY <1>1, <1>4 DEF Written, StateInv
  <2>2. IsExi(served + 1) /\ \A i \in 1..(served + 1) : i \in 1..served \/ i = served + 1
    BY <1>0, <1>1 DEF IsExi
  <2>3. \A i \in 1..served : i \in 1..(served + 1) /\ i <= served + 1
    BY <1>0
  <2>4. CASE DecodedType(p) = "SupportedAppProtocol"
    <3>1. Routed' = Routed
      BY <2>1, <2>2, <2>3, <2>4, <1>1 DEF Routed, IsExi
    <3>2. state' = state
      BY <2>4, <1>2 DEF Route
    <3>3. LastRouted'
      BY <3>1, <3>2, <2>1 DEF LastRouted
    <3> QED BY <3>3, <2>1, <1>0, <1>1 DEF StateInv
  <2>5. CASE DecodedType(p) # "SupportedAppProtocol"
    <3>1. served + 1 \in Routed'
      BY <2>1, <2>2, <2>5, <1>0, <1>1 DEF Routed, IsExi
    <3>2. \A i \in Routed' : i <= served + 1
      BY <2>1, <1>0 DEF Routed
    <3>3. state' = StateFor(DecodedType(frames'[served + 1].body))
      BY <2>1, <2>5, <1>1, <1>2 DEF Route
    <3>4. LastRouted'
      BY <3>1, <3>2, <3>3 DEF LastRouted
    <3> QED BY <3>4, <2>1, <1>0, <1>1 DEF StateInv
  <2> QED BY <2>4, <2>5
<1> QED BY <1>1, <1>3, <1>4

LEMMA SkipState ==
  ASSUME StreamInv, StateInv, NEW p \in ParsedHeaders, SkipUnsupported(p)
  PROVE  StateInv'
<1>0. TypeOK /\ served \in Nat /\ Len(frames) \in Nat
  BY BufferFacts, FrameFacts DEF StreamInv
<1>1. /\ pc = "loop" /\ HeaderInBuffer /\ MessageInBuffer(p)
      /\ p.payload_type # "EXI" /\ served' = served + 1
      /\ UNCHANGED <<frames, state>>
  BY DEF SkipUnsupported, MoveToNext, evVars
<1>2. served + 1 \in 1..Len(frames) /\ ~IsExi(served + 1)
  BY <1>1, NextMessage DEF IsExi
<1>3. \A i \in 1..(served + 1) : i \in 1..served \/ i = served + 1
  BY <1>0
<1>4. \A i \in 1..served : i \in 1..(served + 1)
  BY <1>0
<1>5. Routed' = Routed
  BY <1>1, <1>2, <1>3, <1>4 DEF Routed, IsExi
<1>6. LastRouted => LastRouted'
  BY <1>1, <1>5 DEF LastRouted
<1> QED BY <1>0, <1>1, <1>2, <1>6 DEF StateInv

LEMMA EvSendState ==
  ASSUME StreamInv, StateInv, NEW p \in Payloads, EvSend(p)
  PROVE  StateInv'
<1>0. TypeOK
  BY DEF StreamInv
<1>1. /\ Len(frames) \in Nat /\ Len(frames') = Len(frames) + 1
      /\ \A i \in 1..Len(frames) : frames'[i] = frames[i]
  BY <1>0, EvSendKeeps
<1>2. UNCHANGED <<state, served, pc>>
  BY DEF EvSend
<1>3. Len(frames) <= Len(frames') /\ Len(frames') \in Nat
  BY <1>1
<1> QED BY <1>0, <1>1, <1>2, <1>3, RoutedUnchanged

LEMMA StreamNextState ==
  ASSUME StreamInv, StateInv, StreamNext
  PROVE  StateInv'
<1>0. TypeOK /\ Len(frames) \in Nat
  BY BufferFacts, FrameFacts DEF StreamInv
<1>1. ASSUME NEW p \in Payloads, EvSend(p) PROVE StateInv'
  BY <1>1, EvSendState
<1>2. ASSUME NEW p \in ParsedHeaders, SkipUnsupported(p) PROVE StateInv'
  BY <1>2, SkipState
<1>3. ASSUME NEW p \in ParsedHeaders, HandleMessage(p) PROVE StateInv'
  BY <1>3, HandleState
<1>4. CASE UNCHANGED <<frames, state, served>> /\ (pc' # "failed" => pc # "failed")
  BY <1>0, <1>4, RoutedUnchanged
<1>5. ASSUME NEW n \in ReadSizes, Receive(n) \/ ReceiveOverflow(n) PROVE StateInv'
  BY <1>4, <1>5 DEF Receive, ReceiveOverflow, Fail, evVars
<1>6. CASE ReadFails \/ LeaveLoop
  BY <1>4, <1>6 DEF ReadFails, LeaveLoop, Fail, evVars
<1> QED BY <1>1, <1>2, <1>3, <1>5, <1>6 DEF StreamNext, ProcessMessage

(* ctx->state is always what the last routed request asked for, whatever   *)
(* requests come and however they are cut up (v2g_handle_v2g_message).     *)
THEOREM StateFollowsRequestsCorrect == StreamSpec => []StateFollowsRequests
<1>1. StreamInit => StateInv
  <2>1. Len(<<>>) = 0 /\ 1..0 = {} /\ 0 <= 0
    BY EmptySeq
  <2> QED BY <2>1 DEF StreamInit, StateInv, LastRouted, Routed
<1>2. StreamInv /\ StateInv /\ [StreamNext]_streamVars => StateInv'
  <2>1. StreamInv /\ StateInv /\ StreamNext => StateInv'
    BY StreamNextState
  <2>2. StateInv /\ UNCHANGED streamVars => StateInv'
    BY DEF streamVars, StateInv, LastRouted, Routed, IsExi
  <2> QED BY <2>1, <2>2
<1>3. StreamInv /\ StateInv => StateFollowsRequests
  BY LastRoutedIsMax DEF StreamInv, StateInv, StateFollowsRequests
<1> QED BY <1>1, <1>2, <1>3, StreamInvariant, PTL DEF StreamSpec

----------------------------------------------------------------------------
(* The session around the loop.                                            *)

(* Which connection, descriptor and exit code each phase of main has.      *)
PhaseInv ==
  /\ phase \in {"sdp", "accept"} =>
       connection = "none" /\ client_fd = -1 /\ closes = 0
  /\ phase = "handshake" => connection = "tcp" /\ client_fd = 1 /\ closes = 0
  /\ phase \in {"started", "run", "stop"} =>
       connection = "tls" /\ client_fd = 1 /\ closes = 0
  /\ phase = "exited" =>
       \/ connection = "none" /\ closes = 0
       \/ connection = "closed" /\ closes = 1
  /\ phase # "exited" => exit_code = "none"

(* Before the run nothing has been taken from the stream. *)
Untouched ==
  phase \in {"sdp", "accept", "handshake", "started"} => pc = "read" /\ served = 0

(* StateBelongsToPhase, with the loop's invariant in the place of Max. *)
StateInPhase ==
  /\ phase = "sdp"       => state = "IDLE"
  /\ phase = "accept"    => state = "TCP_CONNECTED"
  /\ phase = "handshake" => state = "TLS_HANDSHAKE"
  /\ phase = "started"   => state = "SESSION_SETUP"
  /\ phase = "run"       => StateInv
  /\ phase = "stop"      => state = "ERROR"
  /\ phase = "exited" => state = IF exit_code = "ok" THEN "IDLE" ELSE "ERROR"

SessionInv ==
  StreamInv /\ SessionTypeOK /\ PhaseInv /\ Untouched /\ StateInPhase

(* A step of main outside the loop: the loop's variables stay. *)
LEMMA LoopAlone ==
  ASSUME StreamInv, UNCHANGED loopVars, state' \in SeccStates
  PROVE  StreamInv'
<1>1. UNCHANGED <<frames, written, rd, recv_buffer, offset, pc, cause,
                  selected_schema, schema_valid, answers, served>>
  BY DEF loopVars
<1>2. TypeOK'
  BY <1>1 DEF StreamInv, TypeOK
<1>3. FramesTile'
  BY <1>1, TileUnchanged DEF StreamInv
<1>4. Reassembly' /\ AtRead'
  BY <1>1 DEF StreamInv, Reassembly, AtRead, Base, recv_buffer_len, FrameEnd
<1> QED BY <1>2, <1>3, <1>4 DEF StreamInv

LEMMA SessionInitInv == Init => SessionInv
<1> SUFFICES ASSUME Init PROVE SessionInv
  OBVIOUS
<1>0. Len(<<>>) = 0 /\ <<>> \in Seq(Nat) /\ <<>> \in Seq(Frame)
      /\ <<>> \in Seq([req : Nat, doc : ResponseDocs])
  BY EmptySeq
<1>1. TypeOK
  <2>1. frames \in Seq([at : Nat, body : Payloads]) /\ recv_buffer \in Seq(Nat)
        /\ answers \in Seq([req : Nat, doc : ResponseDocs])
    BY <1>0 DEF Init, Frame
  <2>2. written \in Nat /\ rd \in 0..written /\ offset \in Nat /\ served \in Nat
        /\ Len(recv_buffer) <= BUFFER_SIZE /\ offset <= BUFFER_SIZE
    BY <1>0, ConstantFacts DEF Init
  <2>3. state \in SeccStates /\ selected_schema \in SchemaIds /\ schema_valid \in BOOLEAN
    BY DEF Init, SeccStates, SchemaIds
  <2> QED BY <2>1, <2>2, <2>3 DEF TypeOK, Init
<1>2. FramesTile
  BY <1>0 DEF Init, FramesTile, FrameEnd
<1>3. Reassembly /\ AtRead
  <2>1. recv_buffer_len = 0 /\ rd = 0 /\ offset = 0 /\ served = 0 /\ Len(frames) = 0
        /\ FrameEnd(served) = 0
    BY <1>0 DEF Init, recv_buffer_len, FrameEnd
  <2> QED BY <2>1 DEF Reassembly, AtRead, Base
<1>4. SessionTypeOK
  BY <1>1 DEF SessionTypeOK, Init
<1>5. PhaseInv /\ Untouched /\ StateInPhase
  BY DEF Init, PhaseInv, Untouched, StateInPhase
<1> QED BY <1>1, <1>2, <1>3, <1>4, <1>5 DEF SessionInv, StreamInv

LEMMA StartStepsInv ==
  ASSUME SessionInv, StartSteps
  PROVE  SessionInv'
<1>0. SessionTypeOK /\ PhaseInv /\ Untouched /\ StateInPhase /\ StreamInv
  BY DEF SessionInv
<1>1. UNCHANGED loopVars /\ state' \in SeccStates
  BY DEF StartSteps, SdpFails, SdpAnswers, AcceptFails, AcceptConnection,
         HandshakeDone, HandshakeFails, SeccStates
<1>2. StreamInv'
  BY <1>0, <1>1, LoopAlone
<1>3. UNCHANGED <<pc, served>>
  BY <1>1 DEF loopVars
<1>4. /\ phase' \in {"accept", "handshake", "started", "exited"}
      /\ phase \in {"sdp", "accept", "handshake"}
  BY DEF StartSteps, SdpFails, SdpAnswers, AcceptFails, AcceptConnection,
         HandshakeDone, HandshakeFails, MainFails
<1>5. /\ negotiated' \in {"none", "TLS", "NONE"} /\ transport_mode' \in {"TLS", "NON_TLS"}
      /\ client_fd' \in {-1, 1} /\ connection' \in {"none", "tcp", "tls", "closed"}
      /\ closes' \in Nat /\ exit_code' \in {"none", "ok", "failed"}
  BY <1>0 DEF SessionTypeOK, StartSteps, SdpFails, SdpAnswers, AcceptFails,
         AcceptConnection, HandshakeDone, HandshakeFails, MainFails, TlsClose
<1>6. SessionTypeOK'
  BY <1>2, <1>4, <1>5 DEF SessionTypeOK, StreamInv
<1>7. PhaseInv'
  BY <1>0 DEF PhaseInv, StartSteps, SdpFails, SdpAnswers, AcceptFails,
         AcceptConnection, HandshakeDone, HandshakeFails, MainFails, TlsClose
<1>8. Untouched'
  BY <1>0, <1>3, <1>4 DEF Untouched
<1>9. StateInPhase'
  BY DEF StateInPhase, StartSteps, SdpFails, SdpAnswers, AcceptFails,
         AcceptConnection, HandshakeDone, HandshakeFails, MainFails, TlsClose
<1> QED BY <1>2, <1>6, <1>7, <1>8, <1>9 DEF SessionInv

LEMMA EnterRunInv ==
  ASSUME SessionInv, EnterRun
  PROVE  SessionInv'
<1>0. SessionTypeOK /\ PhaseInv /\ Untouched /\ StreamInv
  BY DEF SessionInv
<1>1. /\ UNCHANGED loopVars /\ state' = "SERVICE_DISCOVERY" /\ phase = "started"
      /\ phase' = "run"
      /\ UNCHANGED <<transport_mode, negotiated, client_fd, connection, closes, exit_code>>
  BY DEF EnterRun
<1>2. StreamInv'
  BY <1>0, <1>1, LoopAlone DEF SeccStates
<1>3. StateInv'
  <2>1. served' = 0 /\ UNCHANGED <<pc, frames>>
    BY <1>0, <1>1 DEF Untouched, loopVars
  <2>2. Routed' = {}
    <3>1. 1..0 = {}
      OBVIOUS
    <3> QED BY <2>1, <3>1 DEF Routed
  <2>3. LastRouted'
    BY <2>2, <1>1 DEF LastRouted
  <2>4. (served <= Len(frames))'
    BY <1>0, <2>1, BufferFacts, FrameFacts DEF StreamInv
  <2> QED BY <2>3, <2>4 DEF StateInv
<1>4. SessionTypeOK' /\ PhaseInv' /\ Untouched'
  BY <1>0, <1>1, <1>2 DEF SessionTypeOK, PhaseInv, Untouched, StreamInv
<1>5. StateInPhase'
  BY <1>1, <1>3 DEF StateInPhase
<1> QED BY <1>2, <1>4, <1>5 DEF SessionInv

LEMMA EndInv ==
  ASSUME SessionInv, LeaveRun \/ StopSession
  PROVE  SessionInv'
<1>0. SessionTypeOK /\ PhaseInv /\ Untouched /\ StreamInv
  BY DEF SessionInv
<1>1. UNCHANGED loopVars /\ state' \in {"ERROR", "IDLE"}
  BY DEF LeaveRun, StopSession
<1>2. StreamInv'
  BY <1>0, <1>1, LoopAlone DEF SeccStates
<1>3. CASE LeaveRun
  <2>1. /\ phase = "run" /\ phase' = "stop" /\ state' = "ERROR"
        /\ UNCHANGED <<transport_mode, negotiated, client_fd, connection, closes,
                       exit_code>>
    BY <1>3 DEF LeaveRun
  <2>2. SessionTypeOK' /\ PhaseInv' /\ Untouched'
    BY <1>0, <2>1, <1>2 DEF SessionTypeOK, PhaseInv, Untouched, StreamInv
  <2>3. StateInPhase'
    BY <2>1 DEF StateInPhase
  <2> QED BY <2>2, <2>3, <1>2 DEF SessionInv
<1>4. CASE StopSession
  <2>1. client_fd = 1 /\ closes = 0 /\ phase = "stop"
    BY <1>0, <1>4 DEF StopSession, PhaseInv
  <2>2. /\ client_fd' = -1 /\ connection' = "closed" /\ closes' = 1
        /\ phase' = "exited" /\ exit_code' = "ok" /\ state' = "IDLE"
        /\ UNCHANGED <<transport_mode, negotiated>>
    BY <2>1, <1>4 DEF StopSession, TlsClose
  <2>3. SessionTypeOK' /\ PhaseInv' /\ Untouched'
    BY <1>0, <2>2, <1>2 DEF SessionTypeOK, PhaseInv, Untouched, StreamInv
  <2>4. StateInPhase'
    BY <2>2 DEF StateInPhase
  <2> QED BY <2>3, <2>4, <1>2 DEF SessionInv
<1> QED BY <1>3, <1>4

(* The loop runs, or the EV sends: the session's own variables stay. *)
LEMMA LoopStepInv ==
  ASSUME SessionInv, RunMessageLoop \/ EvSends
  PROVE  SessionInv'
<1>0. SessionTypeOK /\ PhaseInv /\ Untouched /\ StateInPhase /\ StreamInv
  BY DEF SessionInv
<1>1. /\ UNCHANGED <<phase, transport_mode, negotiated, client_fd, connection,
                     closes, exit_code>>
      /\ StreamNext
  BY DEF RunMessageLoop, EvSends, sessionVars, StreamNext
<1>2. StreamInv'
  BY <1>0, <1>1, StreamNextInv
<1>3. SessionTypeOK' /\ PhaseInv'
  BY <1>0, <1>1, <1>2 DEF SessionTypeOK, PhaseInv, StreamInv
<1>4. CASE RunMessageLoop
  <2>1. phase = "run"
    BY <1>4 DEF RunMessageLoop
  <2>2. StateInv'
    BY <2>1, <1>0, <1>1, StreamNextState DEF StateInPhase
  <2> QED BY <2>1, <2>2, <1>1, <1>2, <1>3 DEF SessionInv, Untouched, StateInPhase
<1>5. CASE EvSends
  <2>1. UNCHANGED <<state, pc, served>>
    BY <1>5 DEF EvSends, EvSend
  <2>2. phase = "run" => StateInv'
    BY <1>0, <1>1, StreamNextState DEF StateInPhase
  <2> QED BY <2>1, <2>2, <1>0, <1>1, <1>2, <1>3 DEF SessionInv, Untouched, StateInPhase
<1> QED BY <1>4, <1>5

LEMMA SessionStutters ==
  ASSUME SessionInv, UNCHANGED vars
  PROVE  SessionInv'
<1>0. /\ UNCHANGED streamVars
      /\ UNCHANGED <<phase, transport_mode, negotiated, client_fd, connection,
                     closes, exit_code, state, pc, served, frames>>
  BY DEF vars, sessionVars, streamVars
<1>1. StreamInv'
  BY <1>0, StreamNextInv DEF SessionInv
<1>2. SessionTypeOK' /\ PhaseInv' /\ Untouched'
  BY <1>0, <1>1 DEF SessionInv, SessionTypeOK, PhaseInv, Untouched, StreamInv
<1>3. StateInv => StateInv'
  BY <1>0 DEF StateInv, LastRouted, Routed, IsExi
<1>4. StateInPhase'
  BY <1>0, <1>3 DEF SessionInv, StateInPhase
<1> QED BY <1>1, <1>2, <1>4 DEF SessionInv

(* The inductive invariant of the whole run. *)
THEOREM SessionInvariant == Spec => []SessionInv
<1>1. SessionInv /\ [Next]_vars => SessionInv'
  BY StartStepsInv, EnterRunInv, EndInv, LoopStepInv, SessionStutters DEF Next
<1> QED BY <1>1, SessionInitInv, PTL DEF Spec

(* Types hold from main to exit, recv_buffer's bound among them. *)
THEOREM SessionTypeCorrect == Spec => []SessionTypeOK
<1>1. SessionInv => SessionTypeOK
  BY DEF SessionInv
<1> QED BY <1>1, SessionInvariant, PTL

(* Every accepted connection is closed once before main returns, although  *)
(* a failed handshake closes it and leaves client_fd standing.             *)
THEOREM ConnectionClosedOnceCorrect == Spec => []ConnectionClosedOnce
<1>1. SessionInv => ConnectionClosedOnce
  BY DEF SessionInv, SessionTypeOK, PhaseInv, ConnectionClosedOnce
<1> QED BY <1>1, SessionInvariant, PTL

(* ctx->state, written by the session and the loop alike, always is the    *)
(* one that main's progress calls for.                                     *)
THEOREM StateBelongsToPhaseCorrect == Spec => []StateBelongsToPhase
<1>1. SessionInv => StateBelongsToPhase
  <2> SUFFICES ASSUME SessionInv PROVE StateBelongsToPhase
    OBVIOUS
  <2>1. phase = "run" => StateFollowsRequests
    BY LastRoutedIsMax
       DEF SessionInv, StreamInv, StateInPhase, StateInv, StateFollowsRequests
  <2>2. phase \in {"sdp", "accept", "handshake", "started", "run", "stop", "exited"}
    BY DEF SessionInv, SessionTypeOK
  <2> QED BY <2>1, <2>2
          DEF SessionInv, StateInPhase, Untouched, StateBelongsToPhase
<1> QED BY <1>1, SessionInvariant, PTL

----------------------------------------------------------------------------
(* Seen from the EV the whole run is the request-response server.          *)

LEMMA SessionInitial == Init => Server!Init
<1> SUFFICES ASSUME Init PROVE Server!Init
  OBVIOUS
<1>1. TypeOK
  BY SessionInitInv DEF SessionInv, StreamInv
<1>2. Len(frames) = 0 /\ Bodies \in Seq(Payloads) /\ Len(Bodies) = Len(frames)
  BY <1>1, BodiesFacts, EmptySeq DEF Init
<1>3. Bodies = <<>>
  BY <1>2, EmptySeq
<1> QED BY <1>3 DEF Server!Init, Init, Bodies

(* Each step of the run is one of the loop or the EV, or leaves the loop.  *)
LEMMA OutsideTheLoop ==
  ASSUME [Next]_vars
  PROVE  RunMessageLoop \/ EvSends \/ UNCHANGED loopVars
<1>1. StartSteps \/ EnterRun \/ LeaveRun \/ StopSession => UNCHANGED loopVars
  BY DEF StartSteps, SdpFails, SdpAnswers, AcceptFails, AcceptConnection,
         HandshakeDone, HandshakeFails, EnterRun, LeaveRun, StopSession
<1>2. UNCHANGED vars => UNCHANGED loopVars
  BY DEF vars, streamVars, loopVars
<1> QED BY <1>1, <1>2 DEF Next

LEMMA SessionServerStep ==
  ASSUME SessionInv, SessionInv', [Next]_vars
  PROVE  [Server!Next]_(Server!vars)
<1>0. StreamInv /\ StreamInv'
  BY DEF SessionInv
<1>1. CASE RunMessageLoop \/ EvSends
  <2>1. StreamNext
    BY <1>1 DEF RunMessageLoop, EvSends, StreamNext
  <2> QED BY <2>1, <1>0, ServerStep
<1>2. CASE UNCHANGED loopVars
  <2>1. UNCHANGED <<frames, served, answers, pc>>
    BY <1>2 DEF loopVars
  <2> QED BY <2>1, ServerStutters
<1> QED BY <1>1, <1>2, OutsideTheLoop

LEMMA SessionAnswers == Spec => []AnswersInv
<1>1. Init => AnswersInv
  <2>1. Len(<<>>) = 0 /\ DOMAIN <<>> = {} /\ 1..0 = {} /\ 0 <= 0
    BY EmptySeq
  <2> QED BY <2>1 DEF Init, AnswersInv, AnswersInOrder, AnswersFit
<1>2. SessionInv /\ AnswersInv /\ [Next]_vars => AnswersInv'
  <2> SUFFICES ASSUME SessionInv, AnswersInv, [Next]_vars PROVE AnswersInv'
    OBVIOUS
  <2>1. CASE RunMessageLoop \/ EvSends
    <3>1. StreamNext
      BY <2>1 DEF RunMessageLoop, EvSends, StreamNext
    <3> QED BY <3>1, AnswersStep DEF SessionInv
  <2>2. CASE UNCHANGED loopVars
    BY <2>2 DEF loopVars, AnswersInv, AnswersInOrder, AnswersFit, IsExi
  <2> QED BY <2>1, <2>2, OutsideTheLoop
<1> QED BY <1>1, <1>2, SessionInvariant, PTL DEF Spec

(* Every response of the run is the one its own request calls for: nothing *)
(* that main does around the loop lets an answer, or the schema kept in a  *)
(* static variable, go to another request.                                 *)
THEOREM SessionAnswersFit == Spec => []AnswersFit
<1>1. AnswersInv => AnswersFit
  BY DEF AnswersInv
<1> QED BY <1>1, SessionAnswers, PTL

(* In a whole run, as in the loop alone, a negotiation is settled by its   *)
(* own list of protocols: the most urgent of them, the first of equals.    *)
THEOREM SessionSchemaNegotiation == Spec => []SchemaNegotiation
<1>1. SessionInv /\ AnswersInv => SchemaNegotiation
  BY FitAnswersNegotiate DEF SessionInv
<1> QED BY <1>1, SessionInvariant, SessionAnswers, PTL

(* From the first SDP datagram to exit, all that the EV is told is what    *)
(* the request-response server would tell it.                              *)
THEOREM SessionServer == Spec => SessionImplementsServer
<1>1. SessionInv /\ SessionInv' /\ [Next]_vars => [Server!Next]_(Server!vars)
  BY SessionServerStep
<1>2. Spec => Server!Spec
  BY <1>1, SessionInitial, SessionInvariant, PTL DEF Spec, Server!Spec
<1> QED BY <1>2 DEF SessionImplementsServer

============================================================================
