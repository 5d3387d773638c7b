---------------------------- MODULE SeccSession ----------------------------
(***************************************************************************)
(* One run of the SECC application, from main to exit: secc_session_init,  *)
(* secc_session_start (SDP, accept, TLS handshake), secc_session_run with  *)
(* the message loop of V2gtpStream inside it, and secc_session_stop.       *)
(*                                                                         *)
(* The SDP exchange appears here by its outcome only; SdpDiscovery opens   *)
(* it up.  The session and the message loop share ctx->state: both see the *)
(* same secc_session_t through the cast to secc_context_t.                 *)
(***************************************************************************)
EXTENDS V2gtpStream

VARIABLES
  phase,           \* where main is: "sdp", "accept", "handshake", "started",
                   \* "run", "stop" or "exited"
  transport_mode,  \* sess->transport_mode
  negotiated,      \* security the SDP response promised the EV: "TLS" or "NONE"
  client_fd,       \* sess->client_fd: -1, or 1 for the accepted socket
  connection,      \* the transport behind it: "none", "tcp", "tls", "closed"
  closes,          \* history: calls of tls_close
  exit_code        \* what main returned: "none" yet, "ok" (0) or "failed" (-1)

sessionVars == <<phase, transport_mode, negotiated, client_fd, connection,
                 closes, exit_code>>
vars == <<streamVars, sessionVars>>

loopVars == <<frames, written, rd, recv_buffer, offset, pc, cause,
              selected_schema, schema_valid, answers, served>>

(* secc_session_init: the memset, then the non-zero fields. *)
Init ==
  /\ frames = <<>> /\ written = 0
  /\ rd = 0 /\ recv_buffer = <<>> /\ offset = 0
  /\ pc = "read" /\ cause = "none"
  /\ selected_schema = 1 /\ schema_valid = FALSE
  /\ answers = <<>> /\ served = 0
  /\ state = "IDLE"
  /\ phase = "sdp"
  /\ transport_mode = "TLS"
  /\ negotiated = "none"
  /\ client_fd = -1
  /\ connection = "none"
  /\ closes = 0
  /\ exit_code = "none"

(* tls_close: frees the whole transport, whatever its argument. *)
TlsClose == connection' = "closed" /\ closes' = closes + 1

(* main returns -1 without calling secc_session_stop. *)
MainFails == phase' = "exited" /\ exit_code' = "failed"

----------------------------------------------------------------------------
(* secc_session_start                                                      *)

SdpFails ==
  /\ phase = "sdp"
  /\ state' = "ERROR"
  /\ MainFails
  /\ UNCHANGED <<loopVars, transport_mode, negotiated, client_fd, connection, closes>>

(* sdp_select_transport grants whichever security the EV asked for; the    *)
(* session then sets its mode without looking at what was granted.         *)
SdpAnswers(security) ==
  /\ phase = "sdp"
  /\ negotiated' = security
  /\ transport_mode' = "TLS"
  /\ state' = "TCP_CONNECTED"
  /\ phase' = "accept"
  /\ UNCHANGED <<loopVars, client_fd, connection, closes, exit_code>>

AcceptFails ==
  /\ phase = "accept"
  /\ state' = "ERROR"
  /\ MainFails
  /\ UNCHANGED <<loopVars, transport_mode, negotiated, client_fd, connection, closes>>

AcceptConnection ==
  /\ phase = "accept"
  /\ client_fd' = 1
  /\ connection' = "tcp"
  /\ state' = "TLS_HANDSHAKE"
  /\ phase' = "handshake"
  /\ UNCHANGED <<loopVars, transport_mode, negotiated, closes, exit_code>>

(* The handshake can only succeed with an EV that speaks TLS, and the EV   *)
(* speaks what the SDP response promised it.                               *)
HandshakeDone ==
  /\ phase = "handshake"
  /\ negotiated = "TLS"
  /\ connection' = "tls"
  /\ state' = "SESSION_SETUP"
  /\ phase' = "started"
  /\ UNCHANGED <<loopVars, transport_mode, negotiated, client_fd, closes, exit_code>>

(* Faulty variant: the failure falls through to secc_session_stop. *)
HandshakeFailsToStop ==
  /\ phase = "handshake"
  /\ state' = "ERROR"
  /\ TlsClose
  /\ phase' = "stop"
  /\ UNCHANGED <<loopVars, transport_mode, negotiated, client_fd, exit_code>>

(* client_fd keeps its value after the close. *)
HandshakeFails ==
  /\ phase = "handshake"
  /\ state' = "ERROR"
  /\ TlsClose
  /\ MainFails
  /\ UNCHANGED <<loopVars, transport_mode, negotiated, client_fd>>

----------------------------------------------------------------------------
(* secc_session_run                                                        *)

(* Faulty variant: the state of the handshake is kept. *)
EnterRunKeepsState ==
  /\ phase = "started"
  /\ phase' = "run"
  /\ UNCHANGED <<loopVars, state, transport_mode, negotiated, client_fd,
                 connection, closes, exit_code>>

EnterRun ==
  /\ phase = "started"
  /\ state' = "SERVICE_DISCOVERY"
  /\ phase' = "run"
  /\ UNCHANGED <<loopVars, transport_mode, negotiated, client_fd, connection,
                 closes, exit_code>>

RunMessageLoop ==
  /\ phase = "run"
  /\ ProcessMessage
  /\ UNCHANGED sessionVars

(* Faulty variant: only a failed read ends the loop. *)
LeaveRunOnRead ==
  /\ phase = "run" /\ pc = "failed" /\ cause = "read"
  /\ state' = "ERROR"
  /\ phase' = "stop"
  /\ UNCHANGED <<loopVars, transport_mode, negotiated, client_fd, connection,
                 closes, exit_code>>

(* v2g_process_message returned -1: the only way out of the loop. *)
LeaveRun ==
  /\ phase = "run" /\ pc = "failed"
  /\ state' = "ERROR"
  /\ phase' = "stop"
  /\ UNCHANGED <<loopVars, transport_mode, negotiated, client_fd, connection,
                 closes, exit_code>>

(* secc_session_stop, then main returns 0. *)
StopSession ==
  /\ phase = "stop"
  /\ state' = "IDLE"
  /\ IF client_fd >= 0
     THEN TlsClose /\ client_fd' = -1
     ELSE UNCHANGED <<connection, closes, client_fd>>
  /\ phase' = "exited"
  /\ exit_code' = "ok"
  /\ UNCHANGED <<loopVars, transport_mode, negotiated>>

(* The EV's first bytes can follow its Finished message at once, before    *)
(* the SECC has entered secc_session_run.                                  *)
EvSends ==
  /\ connection = "tls"
  /\ \E p \in Payloads : EvSend(p)
  /\ UNCHANGED sessionVars

StartSteps ==
  \/ SdpFails \/ (\E s \in {"TLS", "NONE"} : SdpAnswers(s))
  \/ AcceptFails \/ AcceptConnection
  \/ HandshakeDone \/ HandshakeFails

Next == StartSteps \/ EnterRun \/ RunMessageLoop \/ LeaveRun \/ StopSession \/ EvSends

Spec == Init /\ [][Next]_vars

(* The program's own steps that do not wait for the EV. *)
FairSpec ==
  /\ Spec
  /\ WF_vars(EnterRun) /\ WF_vars(LeaveRun) /\ WF_vars(StopSession)
  /\ WF_vars(phase = "run" /\ Progress /\ UNCHANGED sessionVars)

----------------------------------------------------------------------------
(* Properties                                                              *)

SessionTypeOK ==
  /\ TypeOK
  /\ phase \in {"sdp", "accept", "handshake", "started", "run", "stop", "exited"}
  /\ transport_mode \in {"TLS", "NON_TLS"}
  /\ negotiated \in {"none", "TLS", "NONE"}
  /\ client_fd \in {-1, 1}
  /\ connection \in {"none", "tcp", "tls", "closed"}
  /\ closes \in Nat
  /\ exit_code \in {"none", "ok", "failed"}

(* Whatever way main ends, every accepted connection has been closed, and  *)
(* none is closed twice (the handshake failure closes without resetting    *)
(* client_fd; only main's early return keeps secc_session_stop away).      *)
ConnectionClosedOnce ==
  /\ closes <= 1
  /\ phase = "exited" => connection \in {"none", "closed"}
  /\ connection = "closed" => closes = 1 /\ phase = "exited"

(* Before the run begins no message has been taken from the stream, so the *)
(* state that secc_session_run forces never hides one a message has set.   *)
StateBelongsToPhase ==
  CASE phase = "sdp"       -> state = "IDLE"
    [] phase = "accept"    -> state = "TCP_CONNECTED"
    [] phase = "handshake" -> state = "TLS_HANDSHAKE"
    [] phase = "started"   -> state = "SESSION_SETUP" /\ served = 0
    [] phase = "run"       -> StateFollowsRequests
    [] phase = "stop"      -> state = "ERROR"
    [] phase = "exited"    -> state = IF exit_code = "ok" THEN "IDLE" ELSE "ERROR"

(* Once the message loop has given up, the session is torn down and main   *)
(* exits.                                                                  *)
FailureEndsSession == (pc = "failed") ~> (phase = "exited" /\ connection = "closed")

(* The session, seen from the EV: a request-response server that opens     *)
(* with the TLS session.                                                   *)
SessionImplementsServer == Server!Spec

----------------------------------------------------------------------------
(* What comments in the source say and the code does not do.               *)

(* secc_session.c:60 "Update transport mode based on what was negotiated   *)
(* in SDP": an EV that was promised plain TCP is not met with TLS.         *)
TransportAsNegotiated ==
  phase = "accept" =>
    transport_mode = IF negotiated = "NONE" THEN "NON_TLS" ELSE "TLS"
============================================================================
