---------------------------- MODULE SdpDiscovery ----------------------------
(***************************************************************************)
(* SDP discovery (secc_sdp_listen) between an EV and the SECC, up to the   *)
(* accepted TCP connection: the SECC reads one datagram from its UDP       *)
(* socket, answers it once, closes the socket, and only then prepares the  *)
(* TCP server the answer has promised.  The EV repeats its request while   *)
(* no answer comes; UDP may lose, delay and repeat.                        *)
(*                                                                         *)
(* The EVs are external: they ask again after a timeout and connect to     *)
(* what they are told.  On a timely line at most requests other than an    *)
(* EV's last are lost, nothing fails, and an EV is patient: its last wait  *)
(* and its attempts to connect last as long as the SECC needs.             *)
(***************************************************************************)
EXTENDS Integers

CONSTANTS
  EVs,          \* the EVs on the link
  NoDatagram,   \* an empty socket
  MaxTries      \* bound: requests an EV sends

ASSUME SdpConstants == MaxTries \in Nat \ {0}

VARIABLES
  timely,     \* whether the line of this behaviour is a timely one
  secc,       \* where secc_sdp_listen and tls_server_init_and_accept_ex are
  received,   \* the datagram first in the UDP socket; no other is read
  granted,    \* security in the SDP response: "none", "TLS" or "NONE"
  wire,       \* datagrams under way
  ev,         \* each EV: "ask", "wait", "told", "connected", "gaveUp"
  tries,      \* requests it has sent
  asked,      \* history: the securities it has asked for
  told,       \* the security it was told: "none", "TLS" or "NONE"
  mishaps     \* history: "lost" and "late" responses, "refused" connections

evVars   == <<ev, tries, asked, told>>
seccVars == <<secc, received, granted>>
sdpVars  == <<timely, seccVars, wire, evVars, mishaps>>

Securities == {"TLS", "NONE"}

(* What secc_sdp_listen and sdp_parse_request look at.  The transport byte *)
(* is never checked.                                                       *)
Request(e, security, try) ==
  [from |-> e, ptype |-> "request", length |-> 10, version |-> "good",
   payload_len |-> 2, security |-> security, try |-> try]

Response(e, security) ==
  [to |-> e, ptype |-> "response", security |-> security]

(* Datagrams of other nodes on the link, each wrong in one respect. *)
Foreign(e) ==
  LET r == Request(e, "TLS", 0) IN
  {[r EXCEPT !.length = 9], [r EXCEPT !.length = 28], [r EXCEPT !.version = "bad"],
   [r EXCEPT !.ptype = "response"], [r EXCEPT !.ptype = "other"],
   [r EXCEPT !.payload_len = 3], [r EXCEPT !.security = "other"]}

SdpInit ==
  /\ timely \in BOOLEAN
  /\ secc = "open" /\ received = NoDatagram /\ granted = "none"
  /\ wire = {}
  /\ ev = [e \in EVs |-> "ask"]
  /\ tries = [e \in EVs |-> 0]
  /\ asked = [e \in EVs |-> {}]
  /\ told = [e \in EVs |-> "none"]
  /\ mishaps = {}

Requests == {d \in wire : d.ptype = "request"}
Responses == {d \in wire : d.ptype = "response"}

----------------------------------------------------------------------------
(* secc_sdp_listen                                                         *)

SeccGoes(from, to) == secc = from /\ secc' = to

(* Interface, socket, options, bind, group: any of them may fail. *)
SeccOpen ==
  /\ SeccGoes("open", "listen")
  /\ UNCHANGED <<timely, received, granted, wire, evVars, mishaps>>

(* Every failure up to the accepted connection makes main return -1. *)
SeccFails ==
  /\ ~timely
  /\ secc \in {"open", "listen", "respond", "prepare", "accept"}
  /\ secc' = "exited" /\ received' = NoDatagram
  /\ UNCHANGED <<timely, granted, wire, evVars, mishaps>>

(* Faulty variants: an EV that asks for no security is turned away, and    *)
(* the security byte, or the version, is taken as it comes.                *)
AcceptableTlsOnly(d) ==
  /\ d.length = 10 /\ d.version = "good" /\ d.ptype = "request"
  /\ d.payload_len = 2
  /\ d.security = "TLS"
AcceptableAnySecurity(d) ==
  /\ d.length = 10 /\ d.version = "good" /\ d.ptype = "request"
  /\ d.payload_len = 2
AcceptableAnyVersion(d) ==
  /\ d.length = 10 /\ d.ptype = "request"
  /\ d.payload_len = 2
  /\ d.security \in Securities

(* The checks of secc_sdp_listen, sdp_parse_request, sdp_select_transport. *)
Acceptable(d) ==
  /\ d.length = 10 /\ d.version = "good" /\ d.ptype = "request"
  /\ d.payload_len = 2
  /\ d.security \in Securities

SeccReceive ==
  /\ received # NoDatagram
  /\ Acceptable(received)
  /\ SeccGoes("listen", "respond")
  /\ UNCHANGED <<timely, received, granted, wire, evVars, mishaps>>

(* A datagram it does not like ends the discovery, an SDP response that it *)
(* says it ignores included.                                               *)
SeccRejects ==
  /\ received # NoDatagram
  /\ ~Acceptable(received)
  /\ SeccGoes("listen", "exited")
  /\ received' = NoDatagram
  /\ UNCHANGED <<timely, granted, wire, evVars, mishaps>>

(* Faulty variants: security granted without regard to the request, the    *)
(* response never sent, and the socket kept open for a second request.     *)
RespondTls ==
  /\ SeccGoes("respond", "prepare")
  /\ granted' = "TLS"
  /\ wire' = wire \cup {Response(received.from, "TLS")}
  /\ received' = NoDatagram
  /\ UNCHANGED <<timely, evVars, mishaps>>
RespondNobody ==
  /\ SeccGoes("respond", "prepare")
  /\ granted' = received.security
  /\ received' = NoDatagram
  /\ UNCHANGED <<timely, wire, evVars, mishaps>>

RespondListensOn ==
  /\ SeccGoes("respond", "listen")
  /\ granted' = received.security
  /\ wire' = wire \cup {Response(received.from, received.security)}
  /\ received' = NoDatagram
  /\ UNCHANGED <<timely, evVars, mishaps>>

SeccResponds ==
  /\ SeccGoes("respond", "prepare")
  /\ granted' = received.security
  /\ wire' = wire \cup {Response(received.from, received.security)}
  /\ received' = NoDatagram
  /\ UNCHANGED <<timely, evVars, mishaps>>

----------------------------------------------------------------------------
(* tls_server_init_and_accept_ex                                           *)

(* Random numbers, certificate, key, and the TCP port bound at last. *)
SeccPrepares ==
  /\ SeccGoes("prepare", "accept")
  /\ UNCHANGED <<timely, received, granted, wire, evVars, mishaps>>

SeccAccepts ==
  /\ \E e \in EVs : ev[e] = "connected"
  /\ SeccGoes("accept", "connected")
  /\ UNCHANGED <<timely, received, granted, wire, evVars, mishaps>>

----------------------------------------------------------------------------
(* The EVs and the line                                                    *)

EvGoes(e, from, to) == ev[e] = from /\ ev' = [ev EXCEPT ![e] = to]

EvAsks(e, security) ==
  /\ timely /\ tries[e] + 1 = MaxTries => secc # "open"
  /\ EvGoes(e, "ask", "wait")
  /\ tries' = [tries EXCEPT ![e] = @ + 1]
  /\ asked' = [asked EXCEPT ![e] = @ \cup {security}]
  /\ wire' = wire \cup {Request(e, security, tries[e] + 1)}
  /\ UNCHANGED <<timely, seccVars, told, mishaps>>

(* An answer to e is on its way, or may still come of what is. *)
AnswerComing(e) ==
  \/ \E d \in Responses : d.to = e
  \/ received # NoDatagram /\ received.from = e
  \/ secc \in {"open", "listen"} /\ \E d \in Requests : d.from = e

EvTimeout(e) ==
  IF tries[e] < MaxTries
  THEN EvGoes(e, "wait", "ask") /\ UNCHANGED <<timely, seccVars, wire, tries, asked,
                                               told, mishaps>>
  ELSE /\ timely => ~AnswerComing(e)
       /\ EvGoes(e, "wait", "gaveUp")
       /\ mishaps' = mishaps \cup (IF AnswerComing(e) THEN {"late"} ELSE {})
       /\ UNCHANGED <<timely, seccVars, wire, tries, asked, told>>

EvIsTold(e, d) ==
  /\ d.to = e
  /\ EvGoes(e, IF ev[e] = "ask" THEN "ask" ELSE "wait", "told")
  /\ told' = [told EXCEPT ![e] = d.security]
  /\ wire' = wire \ {d}
  /\ UNCHANGED <<timely, seccVars, tries, asked, mishaps>>

EvConnects(e) ==
  /\ secc = "accept"
  /\ EvGoes(e, "told", "connected")
  /\ UNCHANGED <<timely, seccVars, wire, tries, asked, told, mishaps>>

(* Nobody listens on the port yet, or any more: an EV may leave it at that. *)
EvIsRefused(e) ==
  /\ ~timely
  /\ secc \notin {"accept", "connected"}
  /\ EvGoes(e, "told", "gaveUp")
  /\ mishaps' = mishaps \cup {"refused"}
  /\ UNCHANGED <<timely, seccVars, wire, tries, asked, told>>

(* A request arrives; the line may keep a copy of it.  The socket is open  *)
(* from SeccOpen to SeccResponds, and holds more than is ever read.        *)
Arrives(d) ==
  /\ received' = IF secc = "listen" /\ received = NoDatagram THEN d ELSE received
  /\ \/ wire' = wire \ {d}
     \/ ~timely /\ UNCHANGED wire
  /\ UNCHANGED <<timely, secc, granted, evVars, mishaps>>

ForeignArrives(d) ==
  /\ ~timely
  /\ secc = "listen" /\ received = NoDatagram
  /\ received' = d
  /\ UNCHANGED <<timely, secc, granted, wire, evVars, mishaps>>

LosesRequest(d) ==
  /\ timely => d.try < MaxTries
  /\ wire' = wire \ {d}
  /\ UNCHANGED <<timely, seccVars, evVars, mishaps>>

LosesResponse(d) ==
  /\ ~timely
  /\ wire' = wire \ {d}
  /\ mishaps' = mishaps \cup {"lost"}
  /\ UNCHANGED <<timely, seccVars, evVars>>

----------------------------------------------------------------------------

SeccStep ==
  SeccOpen \/ SeccReceive \/ SeccRejects \/ SeccResponds \/ SeccPrepares \/ SeccAccepts

EvStep(e) ==
  \/ \E s \in Securities : EvAsks(e, s)
  \/ EvTimeout(e)
  \/ \E d \in Responses : EvIsTold(e, d)
  \/ EvConnects(e)

SdpNext ==
  \/ SeccStep \/ SeccFails
  \/ \E e \in EVs : EvStep(e) \/ EvIsRefused(e) \/ \E d \in Foreign(e) : ForeignArrives(d)
  \/ \E d \in Requests : Arrives(d) \/ LosesRequest(d)
  \/ \E d \in Responses : LosesResponse(d)

SdpSpec == SdpInit /\ [][SdpNext]_sdpVars

(* The program's steps are not delayed for ever, and neither are, on a     *)
(* timely line, the datagrams that are not lost and the EVs.               *)
FairSdpSpec ==
  /\ SdpSpec
  /\ WF_sdpVars(SeccStep)
  /\ \A e \in EVs : WF_sdpVars(timely /\ EvStep(e))
  /\ WF_sdpVars(timely /\ \E d \in Requests : Arrives(d))

----------------------------------------------------------------------------
(* Properties                                                              *)

Datagrams == {Request(e, s, k) : e \in EVs, s \in Securities, k \in 1..MaxTries}

(* Every variable has the values the code's types and limits give it. *)
SdpTypeOK ==
  /\ timely \in BOOLEAN
  /\ secc \in {"open", "listen", "respond", "prepare", "accept", "connected", "exited"}
  /\ received \in Datagrams \cup {NoDatagram} \cup UNION {Foreign(e) : e \in EVs}
  /\ granted \in Securities \cup {"none"}
  /\ Requests \subseteq Datagrams
  /\ Responses \subseteq {Response(e, s) : e \in EVs, s \in Securities}
  /\ ev \in [EVs -> {"ask", "wait", "told", "connected", "gaveUp"}]
  /\ tries \in [EVs -> 0..MaxTries]
  /\ asked \in [EVs -> SUBSET Securities]
  /\ told \in [EVs -> Securities \cup {"none"}]
  /\ mishaps \subseteq {"lost", "late", "refused"}

(* An EV that connects does so with the security the SECC has granted,     *)
(* which is one that EV has asked for, and no second EV is told to         *)
(* connect, although an EV may change its mind between two tries, its      *)
(* requests may arrive late, twice or in another order, and datagrams that *)
(* are no request of its own may bear its name.                            *)
GrantAgreed ==
  \A e \in EVs : told[e] # "none" =>
    /\ told[e] = granted
    /\ granted \in asked[e]
    /\ \A f \in EVs \ {e} : told[f] = "none"

(* The SECC waits in accept for EVs that have all given up only if its one *)
(* response was lost or came too late, or an EV that connected before the  *)
(* port was bound was turned away: lost and repeated requests alone never  *)
(* bring this about.                                                       *)
StrandedOnlyByMishap ==
  (secc = "accept" /\ \A e \in EVs : ev[e] = "gaveUp") => mishaps # {}

(* On a timely line the retries make up for every lost request, and the    *)
(* EV is connected although the port is bound after the response.          *)
TimelyEvsConnect ==
  (timely /\ EVs # {}) ~> (secc = "connected" /\ \E e \in EVs : ev[e] = "connected")

(* To main, discovery and the accepted connection are the first steps of   *)
(* the session.                                                            *)
Session == INSTANCE SeccSession WITH
  HDR <- 8, BUFFER_SIZE <- 2048, MaxFrames <- 0, Window <- 0,
  CodecRejects <- {}, Payloads <- {},
  frames <- <<>>, written <- 0, rd <- 0, recv_buffer <- <<>>, offset <- 0,
  pc <- "read", cause <- "none", selected_schema <- 1, schema_valid <- FALSE,
  answers <- <<>>, served <- 0,
  phase <- CASE secc \in {"open", "listen", "respond"} -> "sdp"
             [] secc \in {"prepare", "accept"}         -> "accept"
             [] secc = "connected"                     -> "handshake"
             [] secc = "exited"                        -> "exited",
  state <- CASE secc \in {"open", "listen", "respond"} -> "IDLE"
             [] secc \in {"prepare", "accept"}         -> "TCP_CONNECTED"
             [] secc = "connected"                     -> "TLS_HANDSHAKE"
             [] secc = "exited"                        -> "ERROR",
  transport_mode <- "TLS",
  negotiated <- granted,
  client_fd <- IF secc = "connected" THEN 1 ELSE -1,
  connection <- IF secc = "connected" THEN "tcp" ELSE "none",
  closes <- 0,
  exit_code <- IF secc = "exited" THEN "failed" ELSE "none"

ImplementsSessionStart == Session!Spec
=============================================================================
