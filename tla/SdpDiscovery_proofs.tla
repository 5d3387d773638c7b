------------------------ MODULE SdpDiscovery_proofs ------------------------
(***************************************************************************)
(* Proofs about SDP discovery, for any number of EVs and tries.            *)
(*                                                                         *)
(* GrantAgreed rests on two facts: what the SECC reads, and what is on its *)
(* way to it, was asked for by the EV it names (AskedInv); and at most one *)
(* response ever exists, in the wire or taken in by an EV (OneResponse).   *)
(***************************************************************************)
EXTENDS SdpDiscovery, TLAPS

(* Of the types, what the agreement needs. *)
SdpTypes ==
  /\ secc \in {"open", "listen", "respond", "prepare", "accept", "connected", "exited"}
  /\ granted \in Securities \cup {"none"}
  /\ asked \in [EVs -> SUBSET Securities]
  /\ told \in [EVs -> Securities \cup {"none"}]

(* Requests, under way or received, were made by the EV they name. *)
AskedInv ==
  /\ \A d \in Requests : d.from \in EVs /\ d.security \in asked[d.from]
  /\ (received # NoDatagram /\ Acceptable(received)) =>
       received.from \in EVs /\ received.security \in asked[received.from]
  /\ secc = "respond" => received # NoDatagram /\ Acceptable(received)

OneResponse ==
  /\ secc \in {"open", "listen", "respond"} => granted = "none"
  /\ granted = "none" => Responses = {} /\ \A e \in EVs : told[e] = "none"
  /\ \A d \in Responses :
       /\ d.to \in EVs /\ d.security = granted /\ granted \in asked[d.to]
       /\ \A c \in Responses : c = d
       /\ \A e \in EVs : told[e] = "none"
  /\ GrantAgreed

SdpInv == SdpTypes /\ AskedInv /\ OneResponse

LEMMA RequestFields ==
  \A e, s, k : LET d == Request(e, s, k)
               IN  d.from = e /\ d.security = s /\ d.ptype = "request" /\ d.try = k
BY DEF Request

LEMMA ResponseFields ==
  \A e, s : LET d == Response(e, s)
            IN  d.to = e /\ d.security = s /\ d.ptype = "response"
BY DEF Response

LEMMA ForeignNotAcceptable ==
  ASSUME NEW e, NEW d \in Foreign(e) PROVE ~Acceptable(d)
BY DEF Foreign, Acceptable, Request, Securities

LEMMA SdpStart == SdpInit => SdpInv
BY DEF SdpInit, SdpInv, SdpTypes, AskedInv, OneResponse, GrantAgreed, Requests,
       Responses, Securities

(* Steps that touch no datagram but the one received, and grant nothing. *)
LEMMA QuietStep ==
  ASSUME SdpInv, UNCHANGED <<granted, wire, asked, told>>,
         secc' \in {"open", "listen", "respond", "prepare", "accept", "connected", "exited"},
         received' \in {received, NoDatagram} \/ ~Acceptable(received'),
         secc' = "respond" => received # NoDatagram /\ Acceptable(received) /\ received' = received,
         secc' \in {"open", "listen", "respond"} => secc \in {"open", "listen", "respond"}
  PROVE  SdpInv'
<1>1. SdpTypes'
  BY DEF SdpInv, SdpTypes
<1>2. Requests' = Requests /\ Responses' = Responses
  BY DEF Requests, Responses
<1>3. AskedInv'
  BY <1>2 DEF SdpInv, AskedInv, Acceptable
<1>4. OneResponse'
  BY <1>2 DEF SdpInv, OneResponse, GrantAgreed
<1> QED BY <1>1, <1>3, <1>4 DEF SdpInv

(* The line takes datagrams away, and brings requests to the socket. *)
LEMMA LineStep ==
  ASSUME SdpInv, UNCHANGED <<secc, granted, asked, told>>, wire' \subseteq wire,
         received' = received
           \/ (secc = "listen" /\ received = NoDatagram /\ received' \in Requests)
  PROVE  SdpInv'
<1>1. SdpTypes'
  BY DEF SdpInv, SdpTypes
<1>2. Requests' \subseteq Requests /\ Responses' \subseteq Responses
  BY DEF Requests, Responses
<1>3. AskedInv'
  BY <1>2 DEF SdpInv, AskedInv, Acceptable
<1>4. OneResponse'
  BY <1>2 DEF SdpInv, OneResponse, GrantAgreed
<1> QED BY <1>1, <1>3, <1>4 DEF SdpInv

LEMMA AskStep ==
  ASSUME SdpInv, NEW e \in EVs, NEW s \in Securities, EvAsks(e, s)
  PROVE  SdpInv'
<1>1. /\ asked' = [asked EXCEPT ![e] = @ \cup {s}]
      /\ wire' = wire \cup {Request(e, s, tries[e] + 1)}
      /\ UNCHANGED <<secc, received, granted, told>>
  BY DEF EvAsks, seccVars
<1>2. \A f \in EVs : asked[f] \subseteq asked'[f]
  BY <1>1 DEF SdpInv, SdpTypes
<1>3. s \in asked'[e] /\ SdpTypes'
  BY <1>1 DEF SdpInv, SdpTypes
<1>4. Responses' = Responses /\ Requests' = Requests \cup {Request(e, s, tries[e] + 1)}
  <2>1. Request(e, s, tries[e] + 1).ptype = "request"
    BY RequestFields
  <2> QED BY <2>1, <1>1 DEF Responses, Requests
<1>5. AskedInv'
  <2>1. \A d \in Requests' : d.from \in EVs /\ d.security \in asked'[d.from]
    BY <1>2, <1>3, <1>4, RequestFields DEF SdpInv, AskedInv
  <2> QED BY <2>1, <1>1, <1>2 DEF SdpInv, AskedInv, Acceptable
<1>6. OneResponse'
  BY <1>1, <1>2, <1>4 DEF SdpInv, OneResponse, GrantAgreed
<1> QED BY <1>3, <1>5, <1>6 DEF SdpInv

LEMMA RespondStep ==
  ASSUME SdpInv, SeccResponds PROVE SdpInv'
<1>1. /\ secc = "respond" /\ secc' = "prepare" /\ granted' = received.security
      /\ wire' = wire \cup {Response(received.from, received.security)}
      /\ received' = NoDatagram /\ UNCHANGED <<asked, told>>
  BY DEF SeccResponds, SeccGoes, evVars
<1>2. /\ received.from \in EVs /\ received.security \in asked[received.from]
      /\ received.security \in Securities
  BY <1>1 DEF SdpInv, AskedInv, Acceptable
<1>3. Responses = {} /\ \A e \in EVs : told[e] = "none"
  BY <1>1 DEF SdpInv, OneResponse
<1>4. /\ Responses' = {Response(received.from, received.security)}
      /\ Requests' = Requests
  <2>1. Response(received.from, received.security).ptype = "response"
    BY ResponseFields
  <2> QED BY <2>1, <1>1, <1>3 DEF Responses, Requests
<1>5. SdpTypes' /\ AskedInv'
  BY <1>1, <1>2, <1>4 DEF SdpInv, SdpTypes, AskedInv
<1>6. granted' # "none"
  BY <1>1, <1>2 DEF Securities
<1>7. OneResponse'
  BY <1>1, <1>2, <1>3, <1>4, <1>6, ResponseFields DEF OneResponse, GrantAgreed
<1> QED BY <1>5, <1>7 DEF SdpInv

LEMMA ToldStep ==
  ASSUME SdpInv, NEW e \in EVs, NEW d \in Responses, EvIsTold(e, d)
  PROVE  SdpInv'
<1>1. /\ d.to = e /\ told' = [told EXCEPT ![e] = d.security] /\ wire' = wire \ {d}
      /\ UNCHANGED <<secc, received, granted, asked>>
  BY DEF EvIsTold, seccVars
<1>2. /\ d.security = granted /\ granted \in asked[e] /\ granted # "none"
      /\ \A c \in Responses : c = d
      /\ \A f \in EVs : told[f] = "none"
  BY <1>1 DEF SdpInv, OneResponse
<1>3. Responses' = {} /\ Requests' \subseteq Requests
  BY <1>1, <1>2 DEF Responses, Requests
<1>4. told'[e] = granted /\ \A f \in EVs \ {e} : told'[f] = "none"
  BY <1>1, <1>2 DEF SdpInv, SdpTypes
<1>5. SdpTypes' /\ AskedInv'
  BY <1>1, <1>2, <1>3 DEF SdpInv, SdpTypes, AskedInv, Acceptable
<1>6. OneResponse'
  BY <1>1, <1>2, <1>3, <1>4 DEF SdpInv, OneResponse, GrantAgreed
<1> QED BY <1>5, <1>6 DEF SdpInv

LEMMA SdpInvNext ==
  ASSUME SdpInv, [SdpNext]_sdpVars PROVE SdpInv'
<1>1. CASE UNCHANGED sdpVars \/ SeccOpen \/ SeccReceive \/ SeccRejects \/ SeccPrepares
           \/ SeccAccepts \/ SeccFails
  <2>0. secc \in {"open", "listen", "respond", "prepare", "accept", "connected", "exited"}
        /\ (secc = "respond" => received # NoDatagram /\ Acceptable(received))
    BY DEF SdpInv, SdpTypes, AskedInv
  <2> QED BY <2>0, <1>1, QuietStep
          DEF sdpVars, SeccOpen, SeccReceive, SeccRejects, SeccPrepares, SeccAccepts,
              SeccFails, SeccGoes, seccVars, evVars
<1>2. CASE SeccResponds
  BY <1>2, RespondStep
<1>3. ASSUME NEW e \in EVs, EvTimeout(e) \/ EvConnects(e) \/ EvIsRefused(e) PROVE SdpInv'
  <2>1. UNCHANGED <<seccVars, wire, asked, told>>
    BY <1>3 DEF EvTimeout, EvConnects, EvIsRefused
  <2> QED BY <2>1, LineStep DEF seccVars
<1>4. ASSUME NEW e \in EVs, NEW s \in Securities, EvAsks(e, s) PROVE SdpInv'
  BY <1>4, AskStep
<1>5. ASSUME NEW e \in EVs, NEW d \in Responses, EvIsTold(e, d) PROVE SdpInv'
  BY <1>5, ToldStep
<1>6. ASSUME NEW e \in EVs, NEW d \in Foreign(e), ForeignArrives(d) PROVE SdpInv'
  <2>1. /\ secc = "listen" /\ secc' = secc /\ received' = d
        /\ UNCHANGED <<granted, wire, asked, told>>
    BY <1>6 DEF ForeignArrives, evVars
  <2>2. ~Acceptable(received')
    BY <2>1, ForeignNotAcceptable
  <2> QED BY <2>1, <2>2, QuietStep
<1>7. ASSUME NEW d \in Requests, Arrives(d) \/ LosesRequest(d) PROVE SdpInv'
  BY <1>7, LineStep DEF Arrives, LosesRequest, seccVars, evVars
<1>8. ASSUME NEW d \in Responses, LosesResponse(d) PROVE SdpInv'
  BY <1>8, LineStep DEF LosesResponse, seccVars, evVars
<1> QED BY <1>1, <1>2, <1>3, <1>4, <1>5, <1>6, <1>7, <1>8
        DEF SdpNext, SeccStep, EvStep

(* The security an EV connects with is the one granted and one it has      *)
(* asked for, and no second EV is told to connect.                         *)
THEOREM GrantAgreedCorrect == SdpSpec => []GrantAgreed
<1>1. SdpInv => GrantAgreed
  BY DEF SdpInv, OneResponse
<1> QED BY <1>1, SdpStart, SdpInvNext, PTL DEF SdpSpec

----------------------------------------------------------------------------
(* Nobody is stranded without a mishap.                                    *)

Early == {"open", "listen", "respond"}
EvStates == {"ask", "wait", "told", "connected", "gaveUp"}

(* Without a mishap, whatever may still be answered was asked by an EV     *)
(* that still waits, and the one answer is followed up.                    *)
Followed ==
  /\ \A d \in Responses : ev[d.to] \in {"ask", "wait"}
  /\ secc \in {"open", "listen"} =>
       \A d \in Requests : ev[d.from] \in {"ask", "wait"}
  /\ (secc \in Early /\ received # NoDatagram /\ Acceptable(received)) =>
       ev[received.from] \in {"ask", "wait"}
  /\ secc \in {"prepare", "accept", "connected"} =>
       Responses # {} \/ \E e \in EVs : ev[e] \in {"told", "connected"}

StrandInv ==
  /\ ev \in [EVs -> EvStates]
  /\ secc \in Early => \A e \in EVs : ev[e] \in {"ask", "wait", "gaveUp"}
  /\ mishaps = {} => Followed

LEMMA StrandInit == SdpInit => StrandInv
BY DEF SdpInit, StrandInv, Followed, Early, EvStates, Requests, Responses

(* The SECC's steps other than its answer. *)
LEMMA StrandSecc ==
  ASSUME SdpInv, StrandInv,
         \/ SeccOpen \/ SeccReceive \/ SeccRejects \/ SeccPrepares \/ SeccAccepts
         \/ SeccFails
  PROVE  StrandInv'
<1>1. UNCHANGED <<wire, ev, mishaps>> /\ received' \in {received, NoDatagram}
  BY DEF SeccOpen, SeccReceive, SeccRejects, SeccPrepares, SeccAccepts, SeccFails, evVars
<1>2. /\ secc' \in {"open", "listen"} => secc \in {"open", "listen"}
      /\ secc' \in Early => secc \in Early
      /\ secc' \in {"prepare", "accept", "connected"} =>
           secc \in {"prepare", "accept", "connected"}
  BY DEF SeccOpen, SeccReceive, SeccRejects, SeccPrepares, SeccAccepts, SeccFails,
         SeccGoes, Early
<1>3. Requests' = Requests /\ Responses' = Responses
  BY <1>1 DEF Requests, Responses
<1>4. Followed => Followed'
  BY <1>1, <1>2, <1>3 DEF Followed, Acceptable
<1> QED BY <1>1, <1>2, <1>4 DEF StrandInv

LEMMA StrandRespond ==
  ASSUME SdpInv, StrandInv, SeccResponds PROVE StrandInv'
<1>1. /\ secc = "respond" /\ secc' = "prepare" /\ UNCHANGED <<ev, mishaps>>
      /\ wire' = wire \cup {Response(received.from, received.security)}
      /\ received' = NoDatagram
  BY DEF SeccResponds, SeccGoes, evVars
<1>2. received # NoDatagram /\ Acceptable(received) /\ Responses = {}
  BY <1>1 DEF SdpInv, AskedInv, OneResponse
<1>3. /\ Responses' = {Response(received.from, received.security)}
      /\ Response(received.from, received.security).to = received.from
  <2>1. Response(received.from, received.security).ptype = "response"
    BY ResponseFields
  <2> QED BY <2>1, <1>1, <1>2, ResponseFields DEF Responses
<1>4. Followed => Followed'
  BY <1>1, <1>2, <1>3 DEF Followed, Early
<1> QED BY <1>1, <1>4 DEF StrandInv, Early

LEMMA StrandAsk ==
  ASSUME SdpInv, StrandInv, NEW e \in EVs, NEW s \in Securities, EvAsks(e, s)
  PROVE  StrandInv'
<1>1. /\ ev[e] = "ask" /\ ev' = [ev EXCEPT ![e] = "wait"]
      /\ wire' = wire \cup {Request(e, s, tries[e] + 1)}
      /\ UNCHANGED <<secc, received, mishaps>>
  BY DEF EvAsks, EvGoes, seccVars
<1>2. ev'[e] = "wait" /\ \A f \in EVs \ {e} : ev'[f] = ev[f]
  BY <1>1 DEF StrandInv
<1>3. /\ Responses' = Responses
      /\ Requests' = Requests \cup {Request(e, s, tries[e] + 1)}
      /\ Request(e, s, tries[e] + 1).from = e
  <2>1. Request(e, s, tries[e] + 1).ptype = "request"
    BY RequestFields
  <2> QED BY <2>1, <1>1, RequestFields DEF Responses, Requests
<1>4. ev' \in [EVs -> EvStates]
  BY <1>1 DEF StrandInv, EvStates
<1>5. /\ \A d \in Requests : d.from \in EVs
      /\ \A d \in Responses : d.to \in EVs
      /\ (received # NoDatagram /\ Acceptable(received)) => received.from \in EVs
  BY DEF SdpInv, AskedInv, OneResponse
<1>6. \A f \in EVs : ev[f] \in {"ask", "wait"} => ev'[f] \in {"ask", "wait"}
  BY <1>2
<1>7. Followed => Followed'
  BY <1>1, <1>2, <1>3, <1>5, <1>6 DEF Followed, Acceptable
<1> QED BY <1>1, <1>2, <1>4, <1>7 DEF StrandInv

LEMMA StrandTimeout ==
  ASSUME SdpInv, StrandInv, NEW e \in EVs, EvTimeout(e) PROVE StrandInv'
<1>1. /\ UNCHANGED <<secc, received, wire>>
      /\ ev[e] = "wait" /\ \A f \in EVs \ {e} : ev'[f] = ev[f]
      /\ ev' \in [EVs -> EvStates]
  BY DEF EvTimeout, EvGoes, StrandInv, EvStates, seccVars
<1>2. \/ ev'[e] = "ask" /\ mishaps' = mishaps
      \/ ev'[e] = "gaveUp" /\ mishaps' = mishaps /\ ~AnswerComing(e)
      \/ mishaps' # {}
  BY DEF EvTimeout, EvGoes, StrandInv
<1>3. Requests' = Requests /\ Responses' = Responses
  BY <1>1 DEF Requests, Responses
<1>4. /\ \A d \in Requests : d.from \in EVs
      /\ \A d \in Responses : d.to \in EVs
      /\ (received # NoDatagram /\ Acceptable(received)) => received.from \in EVs
  BY DEF SdpInv, AskedInv, OneResponse
<1>5. ev'[e] \in {"ask", "gaveUp"}
  BY DEF EvTimeout, EvGoes, StrandInv
<1>6. secc' \in Early => \A f \in EVs : ev'[f] \in {"ask", "wait", "gaveUp"}
  BY <1>1, <1>5 DEF StrandInv
<1>7. CASE mishaps' # {}
  BY <1>1, <1>6, <1>7 DEF StrandInv
<1>8. CASE mishaps' = {}
  <2>1. mishaps = {} /\ Followed /\ (ev'[e] = "ask" \/ ~AnswerComing(e))
    BY <1>2, <1>8 DEF StrandInv
  <2>2. \A d \in Responses : ev'[d.to] \in {"ask", "wait"}
    BY <1>1, <1>4, <2>1 DEF Followed, AnswerComing
  <2>3. secc \in {"open", "listen"} =>
          \A d \in Requests : ev'[d.from] \in {"ask", "wait"}
    BY <1>1, <1>4, <2>1 DEF Followed, AnswerComing
  <2>4. (secc \in Early /\ received # NoDatagram /\ Acceptable(received)) =>
          ev'[received.from] \in {"ask", "wait"}
    BY <1>1, <1>4, <2>1 DEF Followed, AnswerComing
  <2>5. secc \in {"prepare", "accept", "connected"} =>
          Responses # {} \/ \E f \in EVs : ev'[f] \in {"told", "connected"}
    BY <1>1, <2>1 DEF Followed
  <2>6. Followed'
    BY <1>1, <1>3, <2>2, <2>3, <2>4, <2>5 DEF Followed, Acceptable
  <2> QED BY <1>1, <1>6, <2>6 DEF StrandInv
<1> QED BY <1>7, <1>8

LEMMA StrandTold ==
  ASSUME SdpInv, StrandInv, NEW e \in EVs, NEW d \in Responses, EvIsTold(e, d)
  PROVE  StrandInv'
<1>1. /\ d.to = e /\ wire' = wire \ {d} /\ UNCHANGED <<secc, received, mishaps>>
      /\ ev'[e] = "told" /\ \A f \in EVs \ {e} : ev'[f] = ev[f]
      /\ ev' \in [EVs -> EvStates]
  BY DEF EvIsTold, EvGoes, StrandInv, EvStates, seccVars
<1>2. secc \notin Early /\ \A c \in Responses : c = d
  BY DEF SdpInv, OneResponse, Early
<1>3. Responses' = {}
  BY <1>1, <1>2 DEF Responses
<1>4. Followed'
  BY <1>1, <1>2, <1>3 DEF Followed, Early
<1> QED BY <1>1, <1>2, <1>4 DEF StrandInv

LEMMA StrandConnect ==
  ASSUME SdpInv, StrandInv, NEW e \in EVs, EvConnects(e) \/ EvIsRefused(e)
  PROVE  StrandInv'
<1>1. /\ UNCHANGED <<secc, received, wire>> /\ ev[e] = "told"
      /\ ev'[e] \in {"connected", "gaveUp"} /\ \A f \in EVs \ {e} : ev'[f] = ev[f]
      /\ ev' \in [EVs -> EvStates]
      /\ (ev'[e] = "connected" /\ mishaps' = mishaps) \/ mishaps' # {}
  BY DEF EvConnects, EvIsRefused, EvGoes, StrandInv, EvStates, seccVars
<1>2. secc \notin Early
  BY <1>1 DEF StrandInv
<1>3. Responses' = Responses /\ \A d \in Responses : d.to \in EVs
  BY <1>1 DEF Responses, SdpInv, OneResponse
<1>4. (mishaps' = {} /\ Followed) => Followed'
  BY <1>1, <1>2, <1>3 DEF Followed, Early
<1> QED BY <1>1, <1>2, <1>4 DEF StrandInv

LEMMA StrandLine ==
  ASSUME SdpInv, StrandInv, NEW d, \/ d \in Requests /\ (Arrives(d) \/ LosesRequest(d))
                                   \/ d \in Responses /\ LosesResponse(d)
  PROVE  StrandInv'
<1>1. /\ UNCHANGED <<secc, ev>> /\ wire' \subseteq wire
      /\ \/ received' = received
         \/ secc = "listen" /\ received' \in Requests
  BY DEF Arrives, LosesRequest, LosesResponse, seccVars, evVars
<1>2. Requests' \subseteq Requests /\ Responses' \subseteq Responses
  BY <1>1 DEF Requests, Responses
<1>3. CASE d \in Responses /\ LosesResponse(d)
  BY <1>1, <1>3 DEF StrandInv, LosesResponse
<1>4. CASE d \in Requests /\ (Arrives(d) \/ LosesRequest(d))
  <2>1. mishaps' = mishaps /\ wire' \in {wire, wire \ {d}} /\ d.ptype = "request"
    BY <1>4 DEF Arrives, LosesRequest, Requests
  <2>2. Responses' = Responses
    BY <2>1 DEF Responses
  <2>3. Followed => Followed'
    BY <1>1, <1>2, <2>2 DEF Followed, Acceptable
  <2> QED BY <1>1, <2>1, <2>3 DEF StrandInv
<1> QED BY <1>3, <1>4

LEMMA StrandForeign ==
  ASSUME SdpInv, StrandInv, NEW e \in EVs, NEW d \in Foreign(e), ForeignArrives(d)
  PROVE  StrandInv'
<1>1. UNCHANGED <<secc, ev, wire, mishaps>> /\ received' = d
  BY DEF ForeignArrives, evVars
<1>2. Requests' = Requests /\ Responses' = Responses /\ ~Acceptable(received')
  BY <1>1, ForeignNotAcceptable DEF Requests, Responses
<1>3. Followed => Followed'
  BY <1>1, <1>2 DEF Followed, Acceptable
<1> QED BY <1>1, <1>3 DEF StrandInv

LEMMA StrandNext ==
  ASSUME SdpInv, StrandInv, [SdpNext]_sdpVars PROVE StrandInv'
<1>1. CASE UNCHANGED sdpVars
  BY <1>1 DEF StrandInv, Followed, Requests, Responses, Acceptable, sdpVars, seccVars,
              evVars
<1> QED BY <1>1, StrandSecc, StrandRespond, StrandAsk, StrandTimeout, StrandTold,
           StrandConnect, StrandLine, StrandForeign
        DEF SdpNext, SeccStep, EvStep

(* The SECC waits in accept for EVs that have all given up only after a    *)
(* lost or late response or a refused connection, however many requests    *)
(* were lost, repeated or reordered.                                       *)
THEOREM StrandedOnlyByMishapCorrect == SdpSpec => []StrandedOnlyByMishap
<1>1. SdpInv /\ StrandInv => StrandedOnlyByMishap
  BY DEF SdpInv, OneResponse, StrandInv, Followed, StrandedOnlyByMishap
<1>2. SdpSpec => []SdpInv
  BY SdpStart, SdpInvNext, PTL DEF SdpSpec
<1> QED BY <1>1, <1>2, StrandInit, StrandNext, PTL DEF SdpSpec

----------------------------------------------------------------------------
(* Types.                                                                  *)

TypeInv ==
  /\ SdpTypeOK
  /\ \A e \in EVs : ev[e] = "ask" => tries[e] < MaxTries

LEMMA RequestType ==
  ASSUME NEW e \in EVs, NEW s \in Securities, NEW k \in 1..MaxTries
  PROVE  Request(e, s, k) \in Datagrams
BY DEF Datagrams

LEMMA TypeSecc ==
  ASSUME TypeInv,
         \/ SeccOpen \/ SeccReceive \/ SeccRejects \/ SeccPrepares \/ SeccAccepts
         \/ SeccFails
  PROVE  TypeInv'
<1>1. /\ UNCHANGED <<timely, granted, wire, ev, tries, asked, told, mishaps>>
      /\ received' \in {received, NoDatagram}
      /\ secc' \in {"open", "listen", "respond", "prepare", "accept", "connected", "exited"}
  BY DEF SeccOpen, SeccReceive, SeccRejects, SeccPrepares, SeccAccepts, SeccFails,
         SeccGoes, evVars
<1> QED BY <1>1 DEF TypeInv, SdpTypeOK, Requests, Responses

LEMMA TypeRespond ==
  ASSUME SdpInv, TypeInv, SeccResponds PROVE TypeInv'
<1>1. /\ secc = "respond" /\ secc' = "prepare" /\ granted' = received.security
      /\ wire' = wire \cup {Response(received.from, received.security)}
      /\ received' = NoDatagram
      /\ UNCHANGED <<timely, ev, tries, asked, told, mishaps>>
  BY DEF SeccResponds, SeccGoes, evVars
<1>2. received.from \in EVs /\ received.security \in Securities
  BY <1>1 DEF SdpInv, AskedInv, Acceptable
<1>3. /\ Responses' = Responses \cup {Response(received.from, received.security)}
      /\ Requests' = Requests
  <2>1. Response(received.from, received.security).ptype = "response"
    BY ResponseFields
  <2> QED BY <2>1, <1>1 DEF Responses, Requests
<1> QED BY <1>1, <1>2, <1>3 DEF TypeInv, SdpTypeOK

LEMMA TypeEv ==
  ASSUME TypeInv, NEW e \in EVs, EvStep(e) \/ EvIsRefused(e)
  PROVE  TypeInv'
<1>1. MaxTries \in Nat
  BY SdpConstants
<1>2. ASSUME NEW s \in Securities, EvAsks(e, s) PROVE TypeInv'
  <2>1. /\ ev[e] = "ask" /\ ev' = [ev EXCEPT ![e] = "wait"]
        /\ tries' = [tries EXCEPT ![e] = @ + 1]
        /\ asked' = [asked EXCEPT ![e] = @ \cup {s}]
        /\ wire' = wire \cup {Request(e, s, tries[e] + 1)}
        /\ UNCHANGED <<timely, secc, received, granted, told, mishaps>>
    BY <1>2 DEF EvAsks, EvGoes, seccVars
  <2>2. tries[e] + 1 \in 1..MaxTries
    BY <2>1, <1>1 DEF TypeInv, SdpTypeOK
  <2>3. /\ Responses' = Responses
        /\ Requests' = Requests \cup {Request(e, s, tries[e] + 1)}
    <3>1. Request(e, s, tries[e] + 1).ptype = "request"
      BY RequestFields
    <3> QED BY <3>1, <2>1 DEF Responses, Requests
  <2>4. Requests' \subseteq Datagrams
    BY <2>2, <2>3, RequestType DEF TypeInv, SdpTypeOK
  <2>5. /\ tries' \in [EVs -> 0..MaxTries] /\ asked' \in [EVs -> SUBSET Securities]
        /\ ev' \in [EVs -> {"ask", "wait", "told", "connected", "gaveUp"}]
    BY <2>1, <2>2, <1>1 DEF TypeInv, SdpTypeOK
  <2>6. \A f \in EVs : ev'[f] = "ask" => tries'[f] < MaxTries
    BY <2>1 DEF TypeInv, SdpTypeOK
  <2> QED BY <2>1, <2>3, <2>4, <2>5, <2>6 DEF TypeInv, SdpTypeOK
<1>3. ASSUME EvTimeout(e) PROVE TypeInv'
  <2>1. UNCHANGED <<timely, secc, received, granted, wire, tries, asked, told>>
    BY <1>3 DEF EvTimeout, seccVars
  <2>2. /\ ev' \in [EVs -> {"ask", "wait", "told", "connected", "gaveUp"}]
        /\ mishaps' \subseteq {"lost", "late", "refused"}
    <3>1. mishaps' \in {mishaps, mishaps \cup {"late"}, mishaps \cup {}}
      BY <1>3 DEF EvTimeout
    <3>2. ev' = [ev EXCEPT ![e] = "ask"] \/ ev' = [ev EXCEPT ![e] = "gaveUp"]
      BY <1>3 DEF EvTimeout, EvGoes
    <3> QED BY <3>1, <3>2 DEF TypeInv, SdpTypeOK
  <2>3. \A f \in EVs : ev'[f] = "ask" => tries[f] < MaxTries
    BY <1>3 DEF EvTimeout, EvGoes, TypeInv, SdpTypeOK
  <2> QED BY <2>1, <2>2, <2>3 DEF TypeInv, SdpTypeOK, Requests, Responses
<1>4. ASSUME NEW d \in Responses, EvIsTold(e, d) PROVE TypeInv'
  <2>1. /\ UNCHANGED <<timely, secc, received, granted, tries, asked, mishaps>>
        /\ told' = [told EXCEPT ![e] = d.security] /\ wire' = wire \ {d}
    BY <1>4 DEF EvIsTold, seccVars
  <2>2. d.security \in Securities
    BY ResponseFields DEF TypeInv, SdpTypeOK
  <2>3. /\ ev' \in [EVs -> {"ask", "wait", "told", "connected", "gaveUp"}]
        /\ \A f \in EVs : ev'[f] = "ask" => tries[f] < MaxTries
    BY <1>4 DEF EvIsTold, EvGoes, TypeInv, SdpTypeOK
  <2>4. Requests' \subseteq Requests /\ Responses' \subseteq Responses
    BY <2>1 DEF Requests, Responses
  <2>5. told' \in [EVs -> Securities \cup {"none"}]
    BY <2>1, <2>2 DEF TypeInv, SdpTypeOK
  <2>6. /\ Requests' \subseteq Datagrams
        /\ Responses' \subseteq {Response(f, s) : f \in EVs, s \in Securities}
    BY <2>4 DEF TypeInv, SdpTypeOK
  <2> QED BY <2>1, <2>3, <2>5, <2>6 DEF TypeInv, SdpTypeOK
<1>5. ASSUME EvConnects(e) \/ EvIsRefused(e) PROVE TypeInv'
  <2>1. UNCHANGED <<timely, secc, received, granted, wire, tries, asked, told>>
    BY <1>5 DEF EvConnects, EvIsRefused, seccVars
  <2>2. /\ ev' \in [EVs -> {"ask", "wait", "told", "connected", "gaveUp"}]
        /\ \A f \in EVs : ev'[f] = "ask" => tries[f] < MaxTries
        /\ mishaps' \subseteq {"lost", "late", "refused"}
    <3>1. mishaps' \in {mishaps, mishaps \cup {"refused"}}
      BY <1>5 DEF EvConnects, EvIsRefused
    <3>2. ev' = [ev EXCEPT ![e] = "connected"] \/ ev' = [ev EXCEPT ![e] = "gaveUp"]
      BY <1>5 DEF EvConnects, EvIsRefused, EvGoes
    <3> QED BY <3>1, <3>2 DEF TypeInv, SdpTypeOK
  <2> QED BY <2>1, <2>2 DEF TypeInv, SdpTypeOK, Requests, Responses
<1> QED BY <1>2, <1>3, <1>4, <1>5 DEF EvStep

LEMMA TypeLine ==
  ASSUME TypeInv,
         \/ \E d \in Requests : Arrives(d) \/ LosesRequest(d)
         \/ \E d \in Responses : LosesResponse(d)
         \/ \E e \in EVs : \E d \in Foreign(e) : ForeignArrives(d)
  PROVE  TypeInv'
<1>1. /\ UNCHANGED <<timely, secc, granted, ev, tries, asked, told>>
      /\ wire' \subseteq wire
      /\ \/ received' = received \/ received' \in Requests
         \/ \E e \in EVs : received' \in Foreign(e)
      /\ mishaps' \in {mishaps, mishaps \cup {"lost"}}
  BY DEF Arrives, LosesRequest, LosesResponse, ForeignArrives, seccVars, evVars
<1>2. Requests' \subseteq Requests /\ Responses' \subseteq Responses
  BY <1>1 DEF Requests, Responses
<1>3. received' \in Datagrams \cup {NoDatagram} \cup UNION {Foreign(e) : e \in EVs}
  BY <1>1 DEF TypeInv, SdpTypeOK
<1> QED BY <1>1, <1>2, <1>3 DEF TypeInv, SdpTypeOK

LEMMA TypeNext ==
  ASSUME SdpInv, TypeInv, [SdpNext]_sdpVars PROVE TypeInv'
<1>1. CASE UNCHANGED sdpVars
  BY <1>1 DEF TypeInv, SdpTypeOK, Requests, Responses, sdpVars, seccVars, evVars
<1> QED BY <1>1, TypeSecc, TypeRespond, TypeEv, TypeLine DEF SdpNext, SeccStep

(* Every variable keeps its type; an EV never asks more often than allowed *)
(* and every datagram read or answered names an EV of the link.            *)
THEOREM SdpTypeCorrect == SdpSpec => []SdpTypeOK
<1>1. SdpInit => TypeInv
  BY SdpConstants
     DEF SdpInit, TypeInv, SdpTypeOK, Requests, Responses, Securities
<1>2. SdpSpec => []SdpInv
  BY SdpStart, SdpInvNext, PTL DEF SdpSpec
<1>3. TypeInv => SdpTypeOK
  BY DEF TypeInv
<1> QED BY <1>1, <1>2, <1>3, TypeNext, PTL DEF SdpSpec

----------------------------------------------------------------------------
(* The start of the session.                                               *)

(* What the session sees depends on these two alone. *)
LEMMA SessionSame ==
  ASSUME UNCHANGED <<secc, granted>> PROVE UNCHANGED Session!vars
BY DEF Session!vars, Session!streamVars, Session!sessionVars

LEMMA SessionStarts == SdpInit => Session!Init
BY DEF SdpInit, Session!Init

LEMMA LoopSame == UNCHANGED Session!loopVars
BY DEF Session!loopVars

LEMMA FailureMaps ==
  ASSUME secc \in {"open", "listen", "respond", "prepare", "accept"},
         secc' = "exited", granted' = granted
  PROVE  Session!Next
<1>1. CASE secc \in {"open", "listen", "respond"}
  <2>1. Session!SdpFails
    BY <1>1, LoopSame DEF Session!SdpFails, Session!MainFails
  <2> QED BY <2>1 DEF Session!Next, Session!StartSteps
<1>2. CASE secc \in {"prepare", "accept"}
  <2>1. Session!AcceptFails
    BY <1>2, LoopSame DEF Session!AcceptFails, Session!MainFails
  <2> QED BY <2>1 DEF Session!Next, Session!StartSteps
<1> QED BY <1>1, <1>2

LEMMA ResponseMaps ==
  ASSUME SdpInv, SeccResponds PROVE Session!Next
<1>1. /\ secc = "respond" /\ secc' = "prepare"
      /\ granted' \in {"TLS", "NONE"}
  BY DEF SeccResponds, SeccGoes, SdpInv, AskedInv, Acceptable, Securities
<1>2. Session!SdpAnswers(granted')
  BY <1>1, LoopSame DEF Session!SdpAnswers
<1> QED BY <1>1, <1>2 DEF Session!Next, Session!StartSteps

LEMMA AcceptMaps ==
  ASSUME SeccAccepts PROVE Session!Next
<1>1. secc = "accept" /\ secc' = "connected" /\ granted' = granted
  BY DEF SeccAccepts, SeccGoes
<1>2. Session!AcceptConnection
  BY <1>1, LoopSame DEF Session!AcceptConnection
<1> QED BY <1>2 DEF Session!Next, Session!StartSteps

LEMMA SessionStep ==
  ASSUME SdpInv, [SdpNext]_sdpVars
  PROVE  [Session!Next]_(Session!vars)
<1>1. CASE SeccFails \/ SeccRejects
  BY <1>1, FailureMaps DEF SeccFails, SeccRejects, SeccGoes
<1>2. CASE SeccResponds
  BY <1>2, ResponseMaps
<1>3. CASE SeccAccepts
  BY <1>3, AcceptMaps
<1>4. CASE SeccOpen \/ SeccReceive \/ SeccPrepares
  <2>1. /\ granted' = granted
        /\ \/ secc \in {"open", "listen"} /\ secc' \in {"listen", "respond"}
           \/ secc = "prepare" /\ secc' = "accept"
    BY <1>4 DEF SeccOpen, SeccReceive, SeccPrepares, SeccGoes
  <2> QED BY <2>1 DEF Session!vars, Session!streamVars, Session!sessionVars
<1>5. CASE UNCHANGED <<secc, granted>>
  BY <1>5, SessionSame
<1>6. ASSUME NEW e \in EVs,
             \/ EvStep(e) \/ EvIsRefused(e) \/ \E d \in Foreign(e) : ForeignArrives(d)
      PROVE  UNCHANGED <<secc, granted>>
  BY <1>6 DEF EvStep, EvAsks, EvTimeout, EvIsTold, EvConnects, EvIsRefused,
              ForeignArrives, seccVars
<1>7. ASSUME NEW d, Arrives(d) \/ LosesRequest(d) \/ LosesResponse(d)
      PROVE  UNCHANGED <<secc, granted>>
  BY <1>7 DEF Arrives, LosesRequest, LosesResponse, seccVars
<1> QED BY <1>1, <1>2, <1>3, <1>4, <1>5, <1>6, <1>7 DEF SdpNext, SeccStep, sdpVars, seccVars

(* Discovery and the accepted connection are the first steps of the        *)
(* session as SeccSession has them, for any EVs and any line.              *)
THEOREM SdpImplementsSessionStart == SdpSpec => ImplementsSessionStart
<1>1. SdpSpec => []SdpInv
  BY SdpStart, SdpInvNext, PTL DEF SdpSpec
<1>2. SdpSpec => Session!Spec
  BY <1>1, SessionStarts, SessionStep, PTL DEF SdpSpec, Session!Spec
<1> QED BY <1>2 DEF ImplementsSessionStart

============================================================================
