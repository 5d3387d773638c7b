---------------------------- MODULE Slac_proofs ----------------------------
(***************************************************************************)
(* Proofs about SLAC matching, for any number of EVs, EVSEs and sounds,    *)
(* any retry limit, and a line that may or may not repeat frames.          *)
(*                                                                         *)
(* SlacInv says of each frame, each EV and each EVSE what its being where  *)
(* it is implies about the others.  These facts are stable: once an EVSE   *)
(* has answered an EV it never changes its EV, and once an EV has chosen   *)
(* an EVSE it never changes its choice (Stable).  A step therefore only    *)
(* has to be examined for the node that takes it and the frames it adds.   *)
(***************************************************************************)
EXTENDS Slac, TLAPS, SequenceTheorems

EvBefore == {"SEND_PARM_REQ", "WAIT_PARM_CNF"}
EvAsked  == {"WAIT_MATCH_CNF", "MATCHED", "FAILED"}
EvseEarly == {"WAIT_PARM_REQ", "SEND_PARM_CNF"}
EvseHeard == {"SEND_ATTEN_CHAR", "WAIT_ATTEN_RSP", "WAIT_VALIDATE_REQ",
              "SEND_VALIDATE_CNF", "WAIT_MATCH_REQ", "SEND_MATCH_CNF", "MATCHED"}

(* The EVSE s has answered the EV e, and no other. *)
Taken(s, e) ==
  s \in EVSEs /\ e \in EVs /\ ev_mac[s] = e /\ evseState[s] \notin EvseEarly

Chose(e, s) == e \in EVs /\ s \in EVSEs /\ evse_mac[e] = s

Granted(s, e, k) ==
  /\ s \in EVSEs /\ e \in EVs /\ k \in Keys
  /\ evseState[s] = "MATCHED" /\ ev_mac[s] = e /\ evseNmk[s] = k

FrameOk(f) ==
  /\ f \in Frames
  /\ f.type = "PARM_REQ" => f.from \in EVs
  /\ f.type = "PARM_CNF" => Taken(f.from, f.to)
  /\ f.type = "MATCH_REQ" => Chose(f.from, f.to) /\ evState[f.from] \in EvAsked
  /\ f.type = "MATCH_CNF" => Granted(f.from, f.to, f.info)

EvOk(e) ==
  /\ evState[e] \in EvBefore => evse_mac[e] = Unset /\ retry_count[e] < C_EV_MATCH_RETRY
  /\ evState[e] \notin EvBefore \cup {"FAILED"} => evse_mac[e] \in EVSEs
  /\ evse_mac[e] # Unset => Taken(evse_mac[e], e)
  /\ evState[e] = "MATCHED" => Granted(evse_mac[e], e, evNmk[e])

EvseOk(s) ==
  /\ evseState[s] # "WAIT_PARM_REQ" => ev_mac[s] \in EVs
  /\ evseState[s] = "COLLECT_SOUNDS" => sound_count[s] < NUM_SOUNDS
  /\ evseState[s] \in EvseHeard => sound_count[s] > 0
  /\ evseState[s] \in {"SEND_MATCH_CNF", "MATCHED"} =>
       Chose(ev_mac[s], s) /\ evState[ev_mac[s]] \in EvAsked
  /\ evseState[s] = "MATCHED" => evseNmk[s] \in Keys

(* The types of what moves the nodes: all but the history. *)
NodeTypes ==
  /\ evState \in [EVs -> EvStates]
  /\ retry_count \in [EVs -> 0..C_EV_MATCH_RETRY]
  /\ evse_mac \in [EVs -> EVSEs \cup {Unset}]
  /\ evNmk \in [EVs -> Keys \cup {Unset}]
  /\ evseState \in [EVSEs -> EvseStates]
  /\ ev_mac \in [EVSEs -> EVs \cup {Unset}]
  /\ sound_count \in [EVSEs -> 0..NUM_SOUNDS]
  /\ aag \in [EVSEs -> 0..255]
  /\ evseNmk \in [EVSEs -> Keys \cup {Unset}]
  /\ net \subseteq Frames

(* The inductive invariant. *)
SlacInv ==
  /\ NodeTypes
  /\ \A f \in net : FrameOk(f)
  /\ \A e \in EVs : EvOk(e)
  /\ \A s \in EVSEs : EvseOk(s)

(* What a step never undoes. *)
EvStable(e) ==
  /\ evState[e] \in EvAsked => evState'[e] \in EvAsked
  /\ evse_mac[e] # Unset => evse_mac'[e] = evse_mac[e]

EvseStable(s) ==
  /\ evseState[s] # "WAIT_PARM_REQ" => ev_mac'[s] = ev_mac[s]
  /\ evseState[s] \notin EvseEarly => evseState'[s] \notin EvseEarly
  /\ evseState[s] = "MATCHED" => evseState'[s] = "MATCHED" /\ evseNmk'[s] = evseNmk[s]

Stable == (\A e \in EVs : EvStable(e)) /\ (\A s \in EVSEs : EvseStable(s))

EvKept(e) == /\ evState'[e] = evState[e] /\ retry_count'[e] = retry_count[e]
             /\ evse_mac'[e] = evse_mac[e] /\ evNmk'[e] = evNmk[e]
EvseKept(s) == /\ evseState'[s] = evseState[s] /\ ev_mac'[s] = ev_mac[s]
               /\ sound_count'[s] = sound_count[s] /\ evseNmk'[s] = evseNmk[s]

----------------------------------------------------------------------------
(* Stability carries the parts over.                                       *)

LEMMA TakenStable ==
  ASSUME Stable, NEW s, NEW e, Taken(s, e)
  PROVE  Taken(s, e)'
BY DEF Stable, EvseStable, Taken, EvseEarly

LEMMA ChoseStable ==
  ASSUME Stable, NEW e, NEW s, Chose(e, s)
  PROVE  Chose(e, s)'
BY SlacConstants DEF Stable, EvStable, Chose

LEMMA GrantedStable ==
  ASSUME Stable, NEW s, NEW e, NEW k, Granted(s, e, k)
  PROVE  Granted(s, e, k)'
BY DEF Stable, EvseStable, Granted

LEMMA FrameStable ==
  ASSUME Stable, NEW f, FrameOk(f)
  PROVE  FrameOk(f)'
<1>1. f.type = "PARM_CNF" => Taken(f.from, f.to)'
  BY TakenStable DEF FrameOk
<1>2. f.type = "MATCH_REQ" => Chose(f.from, f.to)' /\ (evState[f.from] \in EvAsked)'
  BY ChoseStable DEF FrameOk, Chose, Stable, EvStable
<1>3. f.type = "MATCH_CNF" => Granted(f.from, f.to, f.info)'
  BY GrantedStable DEF FrameOk
<1> QED BY <1>1, <1>2, <1>3 DEF FrameOk, Frames

LEMMA EvKeptOk ==
  ASSUME Stable, NEW e \in EVs, EvOk(e), EvKept(e)
  PROVE  EvOk(e)'
<1>1. CASE evse_mac[e] # Unset
  <2>1. PICK s : s = evse_mac[e] /\ Taken(s, e) /\ evse_mac'[e] = s
    BY <1>1 DEF EvOk, EvKept
  <2>2. Taken(s, e)'
    BY <2>1, TakenStable
  <2>3. evState[e] = "MATCHED" => Granted(s, e, evNmk[e])'
    BY <2>1 DEF EvOk, EvKept, Granted, Stable, EvseStable
  <2> QED BY <2>1, <2>2, <2>3 DEF EvOk, EvKept
<1>2. CASE evse_mac[e] = Unset
  BY <1>2, SlacConstants DEF EvOk, EvKept, Granted
<1> QED BY <1>1, <1>2

LEMMA EvseKeptOk ==
  ASSUME Stable, NEW s \in EVSEs, EvseOk(s), EvseKept(s)
  PROVE  EvseOk(s)'
<1>1. CASE evseState[s] \in {"SEND_MATCH_CNF", "MATCHED"}
  <2>1. PICK e : e = ev_mac[s] /\ Chose(e, s) /\ evState[e] \in EvAsked /\ ev_mac'[s] = e
    BY <1>1 DEF EvseOk, EvseKept
  <2>2. Chose(e, s)'
    BY <2>1, ChoseStable
  <2>3. evState'[e] \in EvAsked
    BY <2>1 DEF Stable, EvStable, Chose
  <2> QED BY <1>1, <2>1, <2>2, <2>3 DEF EvseOk, EvseKept
<1>2. CASE evseState[s] \notin {"SEND_MATCH_CNF", "MATCHED"}
  BY <1>2 DEF EvseOk, EvseKept
<1> QED BY <1>1, <1>2

(* A step of one EV keeps the invariant if it is stable, leaves the EV and *)
(* the frames it adds in order, and touches no other node.                 *)
LEMMA EvMoves ==
  ASSUME SlacInv, NEW e \in EVs, UNCHANGED evseVars, NodeTypes',
         EvStable(e), EvOk(e)',
         \A x \in EVs \ {e} : EvKept(x),
         \A f \in net' \ net : FrameOk(f)'
  PROVE  SlacInv'
<1>1. Stable
  <2>1. \A x \in EVs : EvStable(x)
    BY DEF EvStable, EvKept
  <2>2. \A s \in EVSEs : EvseStable(s)
    BY DEF EvseStable, evseVars
  <2> QED BY <2>1, <2>2 DEF Stable
<1>2. \A f \in net' : FrameOk(f)'
  BY <1>1, FrameStable DEF SlacInv
<1>3. \A x \in EVs : EvOk(x)'
  BY <1>1, EvKeptOk DEF SlacInv
<1>4. \A s \in EVSEs : EvseOk(s)'
  <2>1. \A s \in EVSEs : EvseKept(s)
    BY DEF EvseKept, evseVars
  <2> QED BY <1>1, <2>1, EvseKeptOk DEF SlacInv
<1> QED BY <1>2, <1>3, <1>4 DEF SlacInv

LEMMA EvseMoves ==
  ASSUME SlacInv, NEW s \in EVSEs, UNCHANGED evVars, NodeTypes',
         EvseStable(s), EvseOk(s)',
         \A x \in EVSEs \ {s} : EvseKept(x),
         \A f \in net' \ net : FrameOk(f)'
  PROVE  SlacInv'
<1>1. Stable
  <2>1. \A x \in EVSEs : EvseStable(x)
    BY DEF EvseStable, EvseKept
  <2>2. \A e \in EVs : EvStable(e)
    BY DEF EvStable, evVars
  <2> QED BY <2>1, <2>2 DEF Stable
<1>2. \A f \in net' : FrameOk(f)'
  BY <1>1, FrameStable DEF SlacInv
<1>3. \A x \in EVSEs : EvseOk(x)'
  BY <1>1, EvseKeptOk DEF SlacInv
<1>4. \A e \in EVs : EvOk(e)'
  <2>1. \A e \in EVs : EvKept(e)
    BY DEF EvKept, evVars
  <2> QED BY <1>1, <2>1, EvKeptOk DEF SlacInv
<1> QED BY <1>2, <1>3, <1>4 DEF SlacInv

----------------------------------------------------------------------------
(* The steps of an EV                                                      *)

LEMMA ReceiveShrinks ==
  ASSUME NEW n, NEW f, Receive(n, f)
  PROVE  f \in net /\ f.to = n /\ net' \subseteq net
BY DEF Receive

(* An EV goes from one state to another before the match, and at most      *)
(* counts a retry.                                                         *)
LEMMA EvGoesOn ==
  ASSUME SlacInv, NEW e \in EVs, NEW from, NEW to \in EvStates,
         EvGoes(e, from, to), UNCHANGED <<evse_mac, evNmk, evseVars>>,
         from # "MATCHED", from \in EvAsked => to \in EvAsked, to # "MATCHED",
         to \notin EvBefore \cup {"FAILED"} => from \notin EvBefore \cup {"FAILED"},
         to \in EvBefore => from \in EvBefore /\ retry_count'[e] < C_EV_MATCH_RETRY,
         retry_count' \in [EVs -> 0..C_EV_MATCH_RETRY],
         \A x \in EVs \ {e} : retry_count'[x] = retry_count[x],
         \A f \in net' \ net : FrameOk(f)'
  PROVE  SlacInv'
<1>1. /\ evState[e] = from /\ evState'[e] = to
      /\ \A x \in EVs \ {e} : evState'[x] = evState[x]
      /\ evState' \in [EVs -> EvStates]
  BY DEF SlacInv, NodeTypes, EvGoes
<1>2. NodeTypes'
  <2>1. net' \subseteq Frames
    BY DEF SlacInv, NodeTypes, FrameOk, Frames
  <2> QED BY <1>1, <2>1 DEF SlacInv, NodeTypes, Frames, evseVars
<1>3. EvStable(e)
  BY <1>1 DEF EvStable
<1>4. EvOk(e)'
  BY <1>1 DEF SlacInv, EvOk, Taken, evseVars
<1>5. \A x \in EVs \ {e} : EvKept(x)
  BY <1>1 DEF EvKept
<1> QED BY <1>2, <1>3, <1>4, <1>5, EvMoves

LEMMA EvSendsOn ==
  ASSUME SlacInv, NEW e \in EVs, NEW from, NEW to \in EvStates, NEW new,
         EvSends(e, from, to, new),
         from \notin EvAsked, to # "MATCHED",
         to \notin EvBefore \cup {"FAILED"} => from \notin EvBefore,
         to \in EvBefore => from \in EvBefore,
         \A f \in new : FrameOk(f)'
  PROVE  SlacInv'
<1>1. /\ EvGoes(e, from, to) /\ evState[e] = from
      /\ UNCHANGED <<retry_count, evse_mac, evNmk, evseVars>>
      /\ net' = net \cup new
  BY DEF EvSends, EvGoes
<1>2. /\ retry_count' \in [EVs -> 0..C_EV_MATCH_RETRY]
      /\ to \in EvBefore => retry_count'[e] < C_EV_MATCH_RETRY
  BY <1>1 DEF SlacInv, NodeTypes, EvOk
<1>3. from # "MATCHED" /\ from # "FAILED"
  BY DEF EvAsked
<1> QED BY <1>1, <1>2, <1>3, EvGoesOn

LEMMA BroadcastOk ==
  ASSUME NEW e \in EVs, NEW info \in Nat, NEW type,
         type \in {"PARM_REQ", "START_ATTEN_IND", "MNBC_SOUND_IND"},
         NEW f \in Broadcast(type, e, info)
  PROVE  FrameOk(f)'
<1>1. PICK s \in EVSEs : f = Frame(type, e, s, info)
  BY DEF Broadcast
<1>2. f \in Frames /\ f.type = type /\ f.from = e
  BY <1>1 DEF Frame, Frames
<1> QED BY <1>2 DEF FrameOk, Frames

LEMMA EvSendingSteps ==
  ASSUME SlacInv, NEW e \in EVs,
         \/ EvSendParmReq(e) \/ EvSendStartAtten(e) \/ EvSendSounds(e)
         \/ EvSendAttenRsp(e) \/ EvSendValidateReq(e) \/ EvSendMatchReq(e)
  PROVE  SlacInv'
<1>1. CASE EvSendParmReq(e)
  <2>1. retry_count[e] \in Nat
    BY SlacConstants DEF SlacInv, NodeTypes
  <2> DEFINE new == Broadcast("PARM_REQ", e, retry_count[e])
  <2>2. \A f \in new : FrameOk(f)'
    BY <2>1, BroadcastOk
  <2>3. EvSends(e, "SEND_PARM_REQ", "WAIT_PARM_CNF", new)
    BY <1>1 DEF EvSendParmReq
  <2> HIDE DEF new
  <2> QED BY <2>2, <2>3, EvSendsOn DEF EvBefore, EvAsked, EvStates
<1>2. CASE EvSendStartAtten(e)
  <2> DEFINE new == Broadcast("START_ATTEN_IND", e, 0)
  <2>1. \A f \in new : FrameOk(f)'
    BY BroadcastOk
  <2>2. EvSends(e, "SEND_START_ATTEN", "SEND_MNBC_SOUNDS", new)
    BY <1>2 DEF EvSendStartAtten
  <2> HIDE DEF new
  <2> QED BY <2>1, <2>2, EvSendsOn DEF EvBefore, EvAsked, EvStates
<1>3. CASE EvSendSounds(e)
  <2>1. ASSUME NEW cnt \in 0..(NUM_SOUNDS - 1),
               NEW f \in Broadcast("MNBC_SOUND_IND", e, cnt)
        PROVE  FrameOk(f)'
    <3>1. cnt \in Nat
      BY SlacConstants
    <3> QED BY <3>1, BroadcastOk
  <2> DEFINE new == UNION {Broadcast("MNBC_SOUND_IND", e, cnt) : cnt \in 0..(NUM_SOUNDS - 1)}
  <2>2. \A f \in new : FrameOk(f)'
    BY <2>1
  <2>3. EvSends(e, "SEND_MNBC_SOUNDS", "WAIT_ATTEN_CHAR", new)
    BY <1>3 DEF EvSendSounds
  <2> HIDE DEF new
  <2> QED BY <2>2, <2>3, EvSendsOn DEF EvBefore, EvAsked, EvStates
<1>4. CASE EvSendAttenRsp(e)
  <2>1. evse_mac[e] \in EVSEs
    BY <1>4 DEF SlacInv, EvOk, EvSendAttenRsp, EvSends, EvGoes, EvBefore
  <2> DEFINE new == {Frame("ATTEN_CHAR_RSP", e, evse_mac[e], 0)}
  <2>2. \A f \in new : FrameOk(f)'
    BY <2>1, <1>4 DEF FrameOk, Frames, Frame, EvSendAttenRsp, EvSends
  <2>3. EvSends(e, "SEND_ATTEN_RSP", "SEND_VALIDATE", new)
    BY <1>4 DEF EvSendAttenRsp
  <2> HIDE DEF new
  <2> QED BY <2>2, <2>3, EvSendsOn DEF EvBefore, EvAsked, EvStates
<1>5. CASE EvSendValidateReq(e)
  <2>1. evse_mac[e] \in EVSEs
    BY <1>5 DEF SlacInv, EvOk, EvSendValidateReq, EvSends, EvGoes, EvBefore
  <2> DEFINE new == {Frame("VALIDATE_REQ", e, evse_mac[e], 0)}
  <2>2. \A f \in new : FrameOk(f)'
    BY <2>1, <1>5 DEF FrameOk, Frames, Frame, EvSendValidateReq, EvSends
  <2>3. EvSends(e, "SEND_VALIDATE", "WAIT_VALIDATE_CNF", new)
    BY <1>5 DEF EvSendValidateReq
  <2> HIDE DEF new
  <2> QED BY <2>2, <2>3, EvSendsOn DEF EvBefore, EvAsked, EvStates
<1>6. CASE EvSendMatchReq(e)
  <2>1. evse_mac[e] \in EVSEs /\ UNCHANGED evse_mac /\ evState'[e] = "WAIT_MATCH_CNF"
    BY <1>6 DEF SlacInv, NodeTypes, EvOk, EvSendMatchReq, EvSends, EvGoes, EvBefore
  <2>2. PICK f : f = Frame("MATCH_REQ", e, evse_mac[e], 0)
    OBVIOUS
  <2>3. FrameOk(f)'
    <3>1. /\ f \in Frames /\ f.type = "MATCH_REQ" /\ f.from = e /\ f.to = evse_mac[e]
      BY <2>1, <2>2 DEF Frame, Frames
    <3> QED BY <3>1, <2>1 DEF FrameOk, Frames, Chose, EvAsked
  <2> DEFINE new == {f}
  <2>4. EvSends(e, "SEND_MATCH_REQ", "WAIT_MATCH_CNF", new)
    BY <1>6, <2>2 DEF EvSendMatchReq
  <2>5. \A g \in new : FrameOk(g)'
    BY <2>3
  <2> HIDE DEF new
  <2> QED BY <2>4, <2>5, EvSendsOn DEF EvBefore, EvAsked, EvStates
<1> QED BY <1>1, <1>2, <1>3, <1>4, <1>5, <1>6

LEMMA EvGivesUpOrRetries ==
  ASSUME SlacInv, NEW e \in EVs,
         EvParmTimeout(e) \/ EvTimeout(e) \/ EvSendParmReqFails(e)
  PROVE  SlacInv'
<1>0. /\ retry_count[e] \in 0..C_EV_MATCH_RETRY /\ C_EV_MATCH_RETRY \in Nat
      /\ retry_count \in [EVs -> 0..C_EV_MATCH_RETRY]
  BY SlacConstants DEF SlacInv, NodeTypes
<1>1. CASE EvParmTimeout(e)
  <2> DEFINE to == IF retry_count[e] + 1 >= C_EV_MATCH_RETRY THEN "FAILED"
                                                             ELSE "SEND_PARM_REQ"
  <2>1. retry_count[e] < C_EV_MATCH_RETRY
    BY <1>1 DEF SlacInv, EvOk, EvParmTimeout, EvGoes, EvBefore
  <2>2. /\ retry_count' = [retry_count EXCEPT ![e] = retry_count[e] + 1]
        /\ UNCHANGED <<evse_mac, evNmk, evseVars, net>>
        /\ EvGoes(e, "WAIT_PARM_CNF", to)
    BY <1>1 DEF EvParmTimeout
  <2>3. retry_count' \in [EVs -> 0..C_EV_MATCH_RETRY]
    BY <1>0, <2>1, <2>2
  <2>4. to = "SEND_PARM_REQ" => retry_count'[e] < C_EV_MATCH_RETRY
    BY <1>0, <2>1, <2>2
  <2>5. to \in {"FAILED", "SEND_PARM_REQ"}
    OBVIOUS
  <2> HIDE DEF to
  <2> QED BY <2>2, <2>3, <2>4, <2>5, EvGoesOn DEF EvBefore, EvAsked, EvStates
<1>2. CASE EvTimeout(e)
  <2>1. PICK from \in EvWaits \ {"WAIT_PARM_CNF"} : EvGoes(e, from, "FAILED")
    BY <1>2 DEF EvTimeout
  <2>2. UNCHANGED <<retry_count, evse_mac, evNmk, evseVars, net>>
    BY <1>2 DEF EvTimeout
  <2> QED BY <1>0, <2>1, <2>2, EvGoesOn DEF EvWaits, EvBefore, EvAsked, EvStates
<1>3. CASE EvSendParmReqFails(e)
  <2>1. /\ EvGoes(e, "SEND_PARM_REQ", "FAILED")
        /\ UNCHANGED <<retry_count, evse_mac, evNmk, evseVars, net>>
    BY <1>3 DEF EvSendParmReqFails
  <2> QED BY <1>0, <2>1, EvGoesOn DEF EvBefore, EvAsked, EvStates
<1> QED BY <1>1, <1>2, <1>3

(* A frame is dropped by its receiver. *)
LEMMA FrameDropped ==
  ASSUME SlacInv, UNCHANGED <<evVars, evseVars>>, net' \subseteq net
  PROVE  SlacInv'
<1>1. Stable
  BY DEF Stable, EvStable, EvseStable, evVars, evseVars
<1>2. \A f \in net' : FrameOk(f)'
  BY <1>1, FrameStable DEF SlacInv
<1>3. \A e \in EVs : EvOk(e)'
  BY <1>1, EvKeptOk DEF SlacInv, EvKept, evVars
<1>4. \A s \in EVSEs : EvseOk(s)'
  BY <1>1, EvseKeptOk DEF SlacInv, EvseKept, evseVars
<1>5. NodeTypes'
  BY DEF SlacInv, NodeTypes, evVars, evseVars, Frames
<1> QED BY <1>2, <1>3, <1>4, <1>5 DEF SlacInv

LEMMA EvGetsFrame ==
  ASSUME NEW e \in EVs, NEW f, NEW from, NEW type, NEW to,
         EvGets(e, f, from, type, to)
  PROVE  /\ EvGoes(e, from, to) /\ f.type = type /\ f \in net /\ f.to = e
         /\ net' \subseteq net /\ UNCHANGED <<retry_count, evseVars>>
BY ReceiveShrinks DEF EvGets

LEMMA EvParmCnfStep ==
  ASSUME SlacInv, NEW e \in EVs, NEW f, EvParmCnf(e, f)
  PROVE  SlacInv'
<1>1. /\ EvGoes(e, "WAIT_PARM_CNF", "SEND_START_ATTEN")
      /\ f.type = "PARM_CNF" /\ f \in net /\ f.to = e
      /\ net' \subseteq net /\ UNCHANGED <<retry_count, evseVars, evNmk>>
      /\ evse_mac' = [evse_mac EXCEPT ![e] = f.from]
  BY EvGetsFrame DEF EvParmCnf
<1>2. Taken(f.from, e)
  BY <1>1 DEF SlacInv, FrameOk
<1>3. /\ evState[e] = "WAIT_PARM_CNF" /\ evState'[e] = "SEND_START_ATTEN"
      /\ evse_mac[e] = Unset /\ evse_mac'[e] = f.from
      /\ \A x \in EVs \ {e} : EvKept(x)
  BY <1>1 DEF EvGoes, SlacInv, NodeTypes, EvOk, EvBefore, EvKept
<1>4. EvStable(e)
  BY <1>3 DEF EvStable, EvAsked
<1>5. EvOk(e)'
  BY <1>1, <1>2, <1>3 DEF EvOk, EvBefore, Taken, evseVars
<1>6. NodeTypes'
  <2>1. evState' \in [EVs -> EvStates] /\ evse_mac' \in [EVs -> EVSEs \cup {Unset}]
    BY <1>1, <1>2 DEF EvGoes, SlacInv, NodeTypes, EvStates, Taken
  <2> QED BY <1>1, <2>1 DEF SlacInv, NodeTypes, Frames, evseVars
<1> QED BY <1>1, <1>3, <1>4, <1>5, <1>6, EvMoves

(* The key is that of the station the EV chose, because no other station   *)
(* could have been asked for a match by this EV.                           *)
LEMMA MatchCnfFrom ==
  ASSUME SlacInv, NEW f \in net, f.type = "MATCH_CNF"
  PROVE  /\ Granted(f.from, f.to, f.info) /\ f.from \in EVSEs /\ f.to \in EVs
         /\ evse_mac[f.to] = f.from
BY DEF SlacInv, FrameOk, Granted, EvseOk, Chose

LEMMA EvMatchCnfStep ==
  ASSUME SlacInv, NEW e \in EVs, NEW f, EvMatchCnf(e, f)
  PROVE  SlacInv'
<1>1. /\ EvGoes(e, "WAIT_MATCH_CNF", "MATCHED")
      /\ f.type = "MATCH_CNF" /\ f \in net /\ f.to = e
      /\ net' \subseteq net /\ UNCHANGED <<retry_count, evseVars, evse_mac>>
      /\ evNmk' = [evNmk EXCEPT ![e] = f.info]
  BY EvGetsFrame DEF EvMatchCnf
<1>2. Granted(evse_mac[e], e, f.info)
  BY <1>1, MatchCnfFrom
<1>3. /\ evState[e] = "WAIT_MATCH_CNF" /\ evState'[e] = "MATCHED"
      /\ evNmk'[e] = f.info
      /\ \A x \in EVs \ {e} : EvKept(x)
  BY <1>1 DEF EvGoes, SlacInv, NodeTypes, EvKept
<1>4. EvStable(e)
  BY <1>1, <1>3 DEF EvStable, EvAsked
<1>5. EvOk(e)'
  BY <1>1, <1>2, <1>3 DEF EvOk, EvBefore, Taken, Granted, EvseEarly, evseVars
<1>6. NodeTypes'
  <2>1. evState' \in [EVs -> EvStates] /\ evNmk' \in [EVs -> Keys \cup {Unset}]
    BY <1>1, <1>2 DEF EvGoes, SlacInv, NodeTypes, EvStates, Granted
  <2> QED BY <1>1, <2>1 DEF SlacInv, NodeTypes, Frames, evseVars
<1> QED BY <1>1, <1>3, <1>4, <1>5, <1>6, EvMoves

LEMMA EvReceivingSteps ==
  ASSUME SlacInv, NEW e \in EVs, NEW f \in net,
         \/ EvParmCnf(e, f) \/ EvAttenChar(e, f) \/ EvValidateCnf(e, f)
         \/ EvMatchCnf(e, f) \/ EvDiscard(e, f)
  PROVE  SlacInv'
<1>0. retry_count \in [EVs -> 0..C_EV_MATCH_RETRY]
  BY DEF SlacInv, NodeTypes
<1>1. CASE EvAttenChar(e, f)
  <2>1. /\ EvGoes(e, "WAIT_ATTEN_CHAR", "SEND_ATTEN_RSP") /\ net' \subseteq net
        /\ UNCHANGED <<retry_count, evseVars, evse_mac, evNmk>>
    BY <1>1, EvGetsFrame DEF EvAttenChar
  <2> QED BY <1>0, <2>1, EvGoesOn DEF EvBefore, EvAsked, EvStates
<1>2. CASE EvValidateCnf(e, f)
  <2>1. /\ EvGoes(e, "WAIT_VALIDATE_CNF", "SEND_MATCH_REQ") /\ net' \subseteq net
        /\ UNCHANGED <<retry_count, evseVars, evse_mac, evNmk>>
    BY <1>2, EvGetsFrame DEF EvValidateCnf
  <2> QED BY <1>0, <2>1, EvGoesOn DEF EvBefore, EvAsked, EvStates
<1>3. CASE EvDiscard(e, f)
  BY <1>3, ReceiveShrinks, FrameDropped DEF EvDiscard
<1> QED BY <1>1, <1>2, <1>3, EvParmCnfStep, EvMatchCnfStep

----------------------------------------------------------------------------
(* The steps of an EVSE                                                    *)

(* An EVSE that keeps its EV goes from one state to another before the     *)
(* match, and at most counts sounds.                                       *)
LEMMA EvseGoesOn ==
  ASSUME SlacInv, NEW s \in EVSEs, NEW from, NEW to \in EvseStates,
         EvseGoes(s, from, to), UNCHANGED <<evVars, ev_mac, evseNmk>>,
         from \notin {"WAIT_PARM_REQ", "MATCHED"},
         from \notin EvseEarly => to \notin EvseEarly,
         to \notin {"WAIT_PARM_REQ", "MATCHED"},
         to = "COLLECT_SOUNDS" => sound_count'[s] < NUM_SOUNDS,
         to \in EvseHeard => sound_count'[s] > 0,
         to = "SEND_MATCH_CNF" =>
           Chose(ev_mac[s], s) /\ evState[ev_mac[s]] \in EvAsked,
         sound_count' \in [EVSEs -> 0..NUM_SOUNDS],
         \A x \in EVSEs \ {s} : sound_count'[x] = sound_count[x],
         aag' \in [EVSEs -> 0..255],
         \A f \in net' \ net : FrameOk(f)'
  PROVE  SlacInv'
<1>1. /\ evseState[s] = from /\ evseState'[s] = to
      /\ \A x \in EVSEs \ {s} : evseState'[x] = evseState[x]
      /\ evseState' \in [EVSEs -> EvseStates]
  BY DEF SlacInv, NodeTypes, EvseGoes
<1>2. NodeTypes'
  <2>1. net' \subseteq Frames
    BY DEF SlacInv, NodeTypes, FrameOk, Frames
  <2> QED BY <1>1, <2>1 DEF SlacInv, NodeTypes, Frames, evVars
<1>3. EvseStable(s)
  BY <1>1 DEF EvseStable
<1>4. EvseOk(s)'
  <2>1. ev_mac[s] \in EVs
    BY <1>1 DEF SlacInv, EvseOk
  <2> QED BY <1>1, <2>1 DEF EvseOk, Chose, evVars
<1>5. \A x \in EVSEs \ {s} : EvseKept(x)
  BY <1>1 DEF EvseKept
<1> QED BY <1>2, <1>3, <1>4, <1>5, EvseMoves

LEMMA EvseSendsOn ==
  ASSUME SlacInv, NEW s \in EVSEs, NEW from, NEW to \in EvseStates, NEW new,
         EvseSends(s, from, to, new), UNCHANGED evseNmk,
         from \notin {"WAIT_PARM_REQ", "MATCHED", "SEND_MATCH_CNF"},
         from \notin EvseEarly => to \notin EvseEarly,
         to \notin {"WAIT_PARM_REQ", "MATCHED", "SEND_MATCH_CNF", "COLLECT_SOUNDS"},
         to \in EvseHeard => from \in EvseHeard,
         FrameOk(new)'
  PROVE  SlacInv'
<1>1. /\ EvseGoes(s, from, to) /\ evseState[s] = from
      /\ UNCHANGED <<evVars, ev_mac, evseNmk, sound_count, aag>>
      /\ net' = net \cup {new}
  BY DEF EvseSends, EvseGoes
<1>2. /\ sound_count' \in [EVSEs -> 0..NUM_SOUNDS] /\ aag' \in [EVSEs -> 0..255]
      /\ to \in EvseHeard => sound_count'[s] > 0
  BY <1>1 DEF SlacInv, NodeTypes, EvseOk
<1> QED BY <1>1, <1>2, EvseGoesOn

LEMMA Division ==
  ASSUME NEW a \in Nat, NEW n \in Nat, n > 0
  PROVE  a \div n \in Nat /\ a % n \in 0..(n - 1)
OBVIOUS

LEMMA EvseSendingSteps ==
  ASSUME SlacInv, NEW s \in EVSEs,
         EvseSendParmCnf(s) \/ EvseSendAttenChar(s) \/ EvseSendValidateCnf(s)
  PROVE  SlacInv'
<1>0. evseState[s] # "WAIT_PARM_REQ" => ev_mac[s] \in EVs
  BY DEF SlacInv, EvseOk
<1>1. CASE EvseSendParmCnf(s)
  <2>1. PICK f : f = Frame("PARM_CNF", s, ev_mac[s], 0)
    OBVIOUS
  <2>2. EvseSends(s, "SEND_PARM_CNF", "WAIT_START_ATTEN", f) /\ UNCHANGED evseNmk
    BY <1>1, <2>1 DEF EvseSendParmCnf
  <2>3. ev_mac[s] \in EVs /\ UNCHANGED ev_mac /\ evseState'[s] = "WAIT_START_ATTEN"
    BY <1>0, <2>2 DEF EvseSends, EvseGoes, SlacInv, NodeTypes
  <2>4. FrameOk(f)'
    <3>1. f \in Frames /\ f.type = "PARM_CNF" /\ f.from = s /\ f.to = ev_mac[s]
      BY <2>1, <2>3 DEF Frame, Frames
    <3> QED BY <3>1, <2>3 DEF FrameOk, Frames, Taken, EvseEarly
  <2> QED BY <2>2, <2>4, EvseSendsOn DEF EvseEarly, EvseHeard, EvseStates
<1>2. CASE EvseSendAttenChar(s)
  <2>1. PICK f : f = Frame("ATTEN_CHAR_IND", s, ev_mac[s], AverageAttenuation(s))
    OBVIOUS
  <2>2. EvseSends(s, "SEND_ATTEN_CHAR", "WAIT_ATTEN_RSP", f) /\ UNCHANGED evseNmk
    BY <1>2, <2>1 DEF EvseSendAttenChar
  <2>3. ev_mac[s] \in EVs
    BY <1>0, <2>2 DEF EvseSends, EvseGoes
  <2>4. AverageAttenuation(s) \in Nat
    <3>1. aag[s] \in 0..255 /\ sound_count[s] \in 0..NUM_SOUNDS
      BY DEF SlacInv, NodeTypes
    <3>2. NUM_SOUNDS \in Nat
      BY SlacConstants
    <3>3. aag[s] \in Nat /\ sound_count[s] \in Nat
      BY <3>1, <3>2
    <3> QED BY <3>3, Division DEF AverageAttenuation
  <2>5. f \in Frames /\ f.type = "ATTEN_CHAR_IND"
    BY <2>1, <2>3, <2>4 DEF Frame, Frames
  <2>6. FrameOk(f)'
    BY <2>5 DEF FrameOk, Frames
  <2> QED BY <2>2, <2>6, EvseSendsOn DEF EvseEarly, EvseHeard, EvseStates
<1>3. CASE EvseSendValidateCnf(s)
  <2>1. PICK f : f = Frame("VALIDATE_CNF", s, ev_mac[s], 0)
    OBVIOUS
  <2>2. EvseSends(s, "SEND_VALIDATE_CNF", "WAIT_MATCH_REQ", f) /\ UNCHANGED evseNmk
    BY <1>3, <2>1 DEF EvseSendValidateCnf
  <2>3. ev_mac[s] \in EVs
    BY <1>0, <2>2 DEF EvseSends, EvseGoes
  <2>4. f \in Frames /\ f.type = "VALIDATE_CNF"
    BY <2>1, <2>3 DEF Frame, Frames
  <2>5. FrameOk(f)'
    BY <2>4 DEF FrameOk, Frames
  <2> QED BY <2>2, <2>5, EvseSendsOn DEF EvseEarly, EvseHeard, EvseStates
<1> QED BY <1>1, <1>2, <1>3

(* The key goes to the EV that chose this station: it is kept before the   *)
(* frame that carries it can arrive.                                       *)
LEMMA EvseSendMatchCnfStep ==
  ASSUME SlacInv, NEW s \in EVSEs, NEW k \in Keys, EvseSendMatchCnf(s, k)
  PROVE  SlacInv'
<1>1. PICK f : f = Frame("MATCH_CNF", s, ev_mac[s], k)
  OBVIOUS
<1>2. /\ EvseGoes(s, "SEND_MATCH_CNF", "MATCHED")
      /\ net' = net \cup {f} /\ UNCHANGED <<evVars, ev_mac, sound_count, aag>>
      /\ evseNmk' = [evseNmk EXCEPT ![s] = k]
  BY <1>1 DEF EvseSendMatchCnf, EvseSends
<1>3. /\ evseState[s] = "SEND_MATCH_CNF" /\ evseState'[s] = "MATCHED"
      /\ evseNmk'[s] = k
      /\ \A x \in EVSEs \ {s} : EvseKept(x)
  BY <1>2 DEF EvseGoes, SlacInv, NodeTypes, EvseKept
<1>4. ev_mac[s] \in EVs /\ sound_count[s] > 0
      /\ Chose(ev_mac[s], s) /\ evState[ev_mac[s]] \in EvAsked
  BY <1>3 DEF SlacInv, EvseOk, EvseHeard
<1>5. EvseStable(s)
  BY <1>2, <1>3 DEF EvseStable, EvseEarly
<1>6. EvseOk(s)'
  BY <1>2, <1>3, <1>4 DEF EvseOk, Chose, evVars
<1>7. f \in Frames /\ FrameOk(f)'
  <2>1. /\ f \in Frames /\ f.type = "MATCH_CNF"
        /\ f.from = s /\ f.to = ev_mac[s] /\ f.info = k
    BY <1>1, <1>4 DEF Frame, Frames
  <2> QED BY <2>1, <1>2, <1>3, <1>4 DEF FrameOk, Frames, Granted
<1>8. NodeTypes'
  <2>1. evseState' \in [EVSEs -> EvseStates] /\ evseNmk' \in [EVSEs -> Keys \cup {Unset}]
    BY <1>2 DEF EvseGoes, SlacInv, NodeTypes, EvseStates
  <2> QED BY <1>2, <1>7, <2>1 DEF SlacInv, NodeTypes, Frames, evVars
<1> QED BY <1>2, <1>3, <1>5, <1>6, <1>7, <1>8, EvseMoves

LEMMA EvseGetsFrame ==
  ASSUME NEW s \in EVSEs, NEW f, NEW from, NEW type, NEW to,
         EvseGets(s, f, from, type, to)
  PROVE  /\ EvseGoes(s, from, to) /\ f.type = type /\ f \in net /\ f.to = s
         /\ net' \subseteq net /\ UNCHANGED <<evVars, evseNmk>>
BY ReceiveShrinks DEF EvseGets

(* Only a station that has not taken up an EV takes one up. *)
LEMMA EvseParmReqStep ==
  ASSUME SlacInv, NEW s \in EVSEs, NEW f, EvseParmReq(s, f)
  PROVE  SlacInv'
<1>1. /\ EvseGoes(s, "WAIT_PARM_REQ", "SEND_PARM_CNF")
      /\ f.type = "PARM_REQ" /\ f \in net
      /\ net' \subseteq net /\ UNCHANGED <<evVars, evseNmk, sound_count, aag>>
      /\ ev_mac' = [ev_mac EXCEPT ![s] = f.from]
  BY EvseGetsFrame DEF EvseParmReq
<1>2. f.from \in EVs
  BY <1>1 DEF SlacInv, FrameOk
<1>3. /\ evseState[s] = "WAIT_PARM_REQ" /\ evseState'[s] = "SEND_PARM_CNF"
      /\ ev_mac'[s] \in EVs
      /\ \A x \in EVSEs \ {s} : EvseKept(x)
  BY <1>1, <1>2 DEF EvseGoes, SlacInv, NodeTypes, EvseKept
<1>4. EvseStable(s)
  BY <1>3 DEF EvseStable, EvseEarly
<1>5. EvseOk(s)'
  BY <1>3 DEF EvseOk, EvseHeard
<1>6. NodeTypes'
  <2>1. evseState' \in [EVSEs -> EvseStates] /\ ev_mac' \in [EVSEs -> EVs \cup {Unset}]
    BY <1>1, <1>2 DEF EvseGoes, SlacInv, NodeTypes, EvseStates
  <2> QED BY <1>1, <2>1 DEF SlacInv, NodeTypes, Frames, evVars
<1> QED BY <1>1, <1>3, <1>4, <1>5, <1>6, EvseMoves

LEMMA EvseSoundStep ==
  ASSUME SlacInv, NEW s \in EVSEs, NEW f, NEW dB \in Samples, EvseSound(s, f, dB)
  PROVE  SlacInv'
<1>0. PICK to : to = IF sound_count[s] + 1 >= NUM_SOUNDS THEN "SEND_ATTEN_CHAR"
                                                        ELSE "COLLECT_SOUNDS"
  OBVIOUS
<1>1. /\ EvseGoes(s, "COLLECT_SOUNDS", to) /\ net' \subseteq net
      /\ UNCHANGED <<evVars, ev_mac, evseNmk>>
      /\ aag' = [aag EXCEPT ![s] = (aag[s] + dB) % 256]
      /\ sound_count' = [sound_count EXCEPT ![s] = sound_count[s] + 1]
  BY <1>0, EvseGetsFrame DEF EvseSound
<1>2. /\ sound_count[s] \in Nat /\ NUM_SOUNDS \in Nat
      /\ sound_count \in [EVSEs -> 0..NUM_SOUNDS] /\ aag \in [EVSEs -> 0..255]
      /\ dB \in Nat
  BY SlacConstants DEF SlacInv, NodeTypes
<1>3. sound_count[s] < NUM_SOUNDS
  BY <1>1 DEF SlacInv, EvseOk, EvseGoes
<1>4. /\ sound_count' \in [EVSEs -> 0..NUM_SOUNDS] /\ sound_count'[s] > 0
      /\ to = "COLLECT_SOUNDS" => sound_count'[s] < NUM_SOUNDS
      /\ \A x \in EVSEs \ {s} : sound_count'[x] = sound_count[x]
  BY <1>0, <1>1, <1>2, <1>3
<1>5. aag' \in [EVSEs -> 0..255]
  <2>1. aag[s] + dB \in Nat
    BY <1>2
  <2>2. (aag[s] + dB) % 256 \in 0..255
    BY <2>1, Division
  <2> QED BY <1>1, <1>2, <2>2
<1>6. to \in {"SEND_ATTEN_CHAR", "COLLECT_SOUNDS"}
  BY <1>0
<1>7. /\ EvseGoes(s, "COLLECT_SOUNDS", to) /\ net' \subseteq net
      /\ UNCHANGED <<evVars, ev_mac, evseNmk>>
  BY <1>1
<1> QED BY <1>4, <1>5, <1>6, <1>7, EvseGoesOn DEF EvseEarly, EvseHeard, EvseStates

LEMMA EvseReceivingSteps ==
  ASSUME SlacInv, NEW s \in EVSEs, NEW f \in net,
         \/ EvseStartAtten(s, f) \/ EvseAttenRsp(s, f) \/ EvseValidateReq(s, f)
         \/ EvseMatchReq(s, f) \/ EvseDiscard(s, f)
  PROVE  SlacInv'
<1>0. /\ sound_count \in [EVSEs -> 0..NUM_SOUNDS] /\ aag \in [EVSEs -> 0..255]
      /\ NUM_SOUNDS \in Nat /\ NUM_SOUNDS > 0
      /\ evseState[s] \in EvseHeard => sound_count[s] > 0
  BY SlacConstants DEF SlacInv, NodeTypes, EvseOk
<1>1. CASE EvseStartAtten(s, f)
  <2>1. /\ EvseGoes(s, "WAIT_START_ATTEN", "COLLECT_SOUNDS") /\ net' \subseteq net
        /\ UNCHANGED <<evVars, evseNmk, ev_mac, aag>>
        /\ sound_count' = [sound_count EXCEPT ![s] = 0]
    BY <1>1, EvseGetsFrame DEF EvseStartAtten
  <2>2. /\ sound_count' \in [EVSEs -> 0..NUM_SOUNDS] /\ sound_count'[s] < NUM_SOUNDS
        /\ \A x \in EVSEs \ {s} : sound_count'[x] = sound_count[x]
    BY <1>0, <2>1
  <2> QED BY <1>0, <2>1, <2>2, EvseGoesOn DEF EvseEarly, EvseHeard, EvseStates
<1>2. CASE EvseAttenRsp(s, f)
  <2>1. /\ EvseGoes(s, "WAIT_ATTEN_RSP", "WAIT_VALIDATE_REQ") /\ net' \subseteq net
        /\ UNCHANGED <<evVars, evseNmk, ev_mac, sound_count, aag>>
        /\ evseState[s] \in EvseHeard
    BY <1>2, EvseGetsFrame DEF EvseAttenRsp, EvseGoes, EvseHeard
  <2> QED BY <1>0, <2>1, EvseGoesOn DEF EvseEarly, EvseStates
<1>3. CASE EvseValidateReq(s, f)
  <2>1. /\ EvseGoes(s, "WAIT_VALIDATE_REQ", "SEND_VALIDATE_CNF") /\ net' \subseteq net
        /\ UNCHANGED <<evVars, evseNmk, ev_mac, sound_count, aag>>
        /\ evseState[s] \in EvseHeard
    BY <1>3, EvseGetsFrame DEF EvseValidateReq, EvseGoes, EvseHeard
  <2> QED BY <1>0, <2>1, EvseGoesOn DEF EvseEarly, EvseStates
<1>4. CASE EvseMatchReq(s, f)
  <2>1. /\ EvseGoes(s, "WAIT_MATCH_REQ", "SEND_MATCH_CNF") /\ net' \subseteq net
        /\ UNCHANGED <<evVars, evseNmk, ev_mac, sound_count, aag>>
        /\ evseState[s] = "WAIT_MATCH_REQ" /\ f.to = s /\ f.type = "MATCH_REQ"
    BY <1>4, EvseGetsFrame DEF EvseMatchReq, EvseGoes
  <2>2. evseState[s] \in EvseHeard
    BY <2>1 DEF EvseHeard
  (* Whoever asks has chosen this station, which so has taken up the EV:  *)
  (* it is the station's own EV that asks.                                *)
  <2>3. Chose(f.from, s) /\ evState[f.from] \in EvAsked
    BY <2>1 DEF SlacInv, FrameOk
  <2>4. ev_mac[s] = f.from
    BY <2>3, SlacConstants DEF Chose, SlacInv, EvOk, Taken
  <2> QED BY <1>0, <2>1, <2>2, <2>3, <2>4, EvseGoesOn DEF EvseEarly, EvseStates
<1>5. CASE EvseDiscard(s, f)
  BY <1>5, ReceiveShrinks, FrameDropped DEF EvseDiscard
<1> QED BY <1>1, <1>2, <1>3, <1>4, <1>5

LEMMA EvseTimerSteps ==
  ASSUME SlacInv, NEW s \in EVSEs, EvseTimeouts(s)
  PROVE  SlacInv'
<1>0. sound_count \in [EVSEs -> 0..NUM_SOUNDS] /\ aag \in [EVSEs -> 0..255]
  BY DEF SlacInv, NodeTypes
<1>1. CASE EvseSoundTimeout(s)
  <2> DEFINE to == IF sound_count[s] > 0 THEN "SEND_ATTEN_CHAR" ELSE "FAILED"
  <2>1. EvseGoes(s, "COLLECT_SOUNDS", to)
        /\ UNCHANGED <<evVars, ev_mac, sound_count, aag, evseNmk, net>>
    BY <1>1 DEF EvseSoundTimeout
  <2>2. to \in {"SEND_ATTEN_CHAR", "FAILED"} /\ (to # "FAILED" => sound_count[s] > 0)
    OBVIOUS
  <2> HIDE DEF to
  <2> QED BY <1>0, <2>1, <2>2, EvseGoesOn DEF EvseEarly, EvseHeard, EvseStates
<1>2. CASE EvseTimeout(s)
  <2>1. PICK from \in EvseWaits \ {"WAIT_PARM_REQ", "COLLECT_SOUNDS"} :
               EvseGoes(s, from, "FAILED")
    BY <1>2 DEF EvseTimeout
  <2>2. UNCHANGED <<evVars, ev_mac, sound_count, aag, evseNmk, net>>
    BY <1>2 DEF EvseTimeout
  <2> QED BY <1>0, <2>1, <2>2, EvseGoesOn DEF EvseWaits, EvseEarly, EvseHeard, EvseStates
<1> QED BY <1>1, <1>2 DEF EvseTimeouts

----------------------------------------------------------------------------
(* The invariant                                                           *)

LEMMA SlacInitInv == SlacInit => SlacInv
<1> SUFFICES ASSUME SlacInit PROVE SlacInv
  OBVIOUS
<1>1. NUM_SOUNDS \in Nat /\ C_EV_MATCH_RETRY \in Nat /\ C_EV_MATCH_RETRY > 0
  BY SlacConstants
<1>2. NodeTypes
  BY <1>1 DEF SlacInit, NodeTypes, EvStates, EvseStates
<1>3. \A e \in EVs : EvOk(e)
  BY <1>1 DEF SlacInit, EvOk, EvBefore
<1>4. \A s \in EVSEs : EvseOk(s)
  BY DEF SlacInit, EvseOk, EvseHeard
<1> QED BY <1>2, <1>3, <1>4 DEF SlacInv, SlacInit

LEMMA SlacNextInv == SlacInv /\ [SlacNext]_slacVars => SlacInv'
<1> SUFFICES ASSUME SlacInv, [SlacNext]_slacVars PROVE SlacInv'
  OBVIOUS
<1>1. ASSUME NEW e \in EVs, EvStep(e)
      PROVE  SlacInv'
  BY <1>1, EvSendingSteps, EvReceivingSteps DEF EvStep
<1>2. ASSUME NEW e \in EVs, EvTimeouts(e) \/ EvSendParmReqFails(e)
      PROVE  SlacInv'
  BY <1>2, EvGivesUpOrRetries DEF EvTimeouts
<1>3. ASSUME NEW s \in EVSEs, EvseStep(s)
      PROVE  SlacInv'
  BY <1>3, EvseSendingSteps, EvseSendMatchCnfStep, EvseParmReqStep, EvseSoundStep,
     EvseReceivingSteps DEF EvseStep
<1>4. ASSUME NEW s \in EVSEs, EvseTimeouts(s)
      PROVE  SlacInv'
  BY <1>4, EvseTimerSteps
<1>5. CASE UNCHANGED slacVars
  BY <1>5, FrameDropped DEF slacVars
<1> QED BY <1>1, <1>2, <1>3, <1>4, <1>5 DEF SlacNext

LEMMA SlacInvariant == SlacSpec => []SlacInv
BY SlacInitInv, SlacNextInv, PTL DEF SlacSpec

(* Agreement: slac_run returns 0 on an EV only with the key of the station *)
(* it chose, and that station is matched to this EV, although ev_step and  *)
(* evse_step take frames of the right type from anybody.                   *)
THEOREM KeyAgreementCorrect == SlacSpec => []KeyAgreement
<1>1. SlacInv => KeyAgreement
  BY DEF SlacInv, EvOk, KeyAgreement, Granted
<1> QED BY <1>1, SlacInvariant, PTL

(* A station is matched only to an EV that chose it and asked it for the   *)
(* match, and after a sound at least: what evse_step does between PARM_REQ *)
(* and MATCH_CNF cannot be cut short by the frames of other EVs.           *)
THEOREM MatchEarnedCorrect == SlacSpec => []MatchEarned
<1>1. ASSUME SlacInv, NEW s \in EVSEs, evseState[s] = "MATCHED"
      PROVE  /\ ev_mac[s] \in EVs /\ evse_mac[ev_mac[s]] = s
             /\ evState[ev_mac[s]] \in {"WAIT_MATCH_CNF", "MATCHED", "FAILED"}
             /\ sound_count[s] > 0
  BY <1>1 DEF SlacInv, EvseOk, Chose, EvAsked, EvseHeard
<1>2. SlacInv => MatchEarned
  BY <1>1 DEF MatchEarned
<1> QED BY <1>2, SlacInvariant, PTL

----------------------------------------------------------------------------
(* The refinement                                                          *)

(* A step that matches nobody, and keeps the choices, is a stutter. *)
LEMMA Stutters ==
  ASSUME UNCHANGED <<evse_mac, evNmk>>,
         \A e \in EVs : evState'[e] = "MATCHED" <=> evState[e] = "MATCHED",
         \A s \in EVSEs : evseState'[s] = "MATCHED" <=> evseState[s] = "MATCHED",
         \A s \in EVSEs : evseState[s] = "MATCHED" =>
                           ev_mac'[s] = ev_mac[s] /\ evseNmk'[s] = evseNmk[s]
  PROVE  UNCHANGED Matching!vars
BY DEF Matching!vars

LEMMA EvStepMatches ==
  ASSUME SlacInv, NEW e \in EVs, EvStep(e) \/ EvTimeouts(e) \/ EvSendParmReqFails(e)
  PROVE  [Matching!Next]_(Matching!vars)
<1>1. ASSUME NEW from, NEW to, EvGoes(e, from, to), from # "MATCHED", to # "MATCHED",
             UNCHANGED <<evse_mac, evNmk, evseVars>>
      PROVE  UNCHANGED Matching!vars
  <2>1. \A x \in EVs : evState'[x] = "MATCHED" <=> evState[x] = "MATCHED"
    BY <1>1 DEF EvGoes, SlacInv, NodeTypes
  <2> QED BY <1>1, <2>1, Stutters DEF evseVars
<1>2. CASE EvTimeouts(e) \/ EvSendParmReqFails(e)
  BY <1>1, <1>2 DEF EvTimeouts, EvParmTimeout, EvTimeout, EvSendParmReqFails, EvWaits
<1>3. CASE \/ EvSendParmReq(e) \/ EvSendStartAtten(e) \/ EvSendSounds(e)
           \/ EvSendAttenRsp(e) \/ EvSendValidateReq(e) \/ EvSendMatchReq(e)
  <2>1. PICK from, to : EvGoes(e, from, to) /\ from # "MATCHED" /\ to # "MATCHED"
    BY <1>3 DEF EvSendParmReq, EvSendStartAtten, EvSendSounds,
       EvSendAttenRsp, EvSendValidateReq, EvSendMatchReq, EvSends
  <2>2. UNCHANGED <<evse_mac, evNmk, evseVars>>
    BY <1>3 DEF EvSendParmReq, EvSendStartAtten, EvSendSounds,
       EvSendAttenRsp, EvSendValidateReq, EvSendMatchReq, EvSends
  <2> QED BY <1>1, <2>1, <2>2
<1>4. ASSUME NEW f, EvAttenChar(e, f) \/ EvValidateCnf(e, f)
      PROVE  UNCHANGED Matching!vars
  BY <1>1, <1>4 DEF EvAttenChar, EvValidateCnf, EvGets
<1>5. ASSUME NEW f, EvDiscard(e, f)
      PROVE  UNCHANGED Matching!vars
  BY <1>5, Stutters DEF EvDiscard, evVars, evseVars
<1>6. ASSUME NEW f, EvParmCnf(e, f)
      PROVE  Matching!Next
  <2>1. /\ EvGoes(e, "WAIT_PARM_CNF", "SEND_START_ATTEN")
        /\ f.type = "PARM_CNF" /\ f \in net /\ f.to = e
        /\ UNCHANGED <<retry_count, evseVars, evNmk>>
        /\ evse_mac' = [evse_mac EXCEPT ![e] = f.from]
    BY <1>6, EvGetsFrame DEF EvParmCnf
  <2>2. PICK s : s = f.from /\ Taken(s, e)
    BY <2>1 DEF SlacInv, FrameOk
  <2>3. s \in EVSEs /\ evse_mac[e] = Unset /\ evse_mac \in [EVs -> EVSEs \cup {Unset}]
    BY <2>1, <2>2 DEF Taken, EvGoes, SlacInv, NodeTypes, EvOk, EvBefore
  <2>4. \A x \in EVs : evse_mac[x] # s
    BY <2>2, <2>3, SlacConstants DEF SlacInv, EvOk, Taken
  <2>5. \A x \in EVs : evState'[x] = "MATCHED" <=> evState[x] = "MATCHED"
    BY <2>1 DEF EvGoes, SlacInv, NodeTypes
  <2>6. Matching!Choose(e, s)
    <3>1. \A c \in EVs \X EVSEs : evse_mac[c[1]] = c[2] => c[1] # e /\ c[2] # s
      BY <2>3, <2>4, SlacConstants
    <3>2. {c \in EVs \X EVSEs : evse_mac'[c[1]] = c[2]}
            = {c \in EVs \X EVSEs : evse_mac[c[1]] = c[2]} \cup {<<e, s>>}
      BY <2>1, <2>2, <2>3, SlacConstants
    <3> QED BY <2>1, <2>5, <3>1, <3>2 DEF Matching!Choose, evseVars
  <2> QED BY <2>3, <2>6 DEF Matching!Next
<1>7. ASSUME NEW f, EvMatchCnf(e, f)
      PROVE  Matching!Next
  <2>1. /\ EvGoes(e, "WAIT_MATCH_CNF", "MATCHED")
        /\ f.type = "MATCH_CNF" /\ f \in net /\ f.to = e
        /\ UNCHANGED <<retry_count, evseVars, evse_mac>>
        /\ evNmk' = [evNmk EXCEPT ![e] = f.info]
    BY <1>7, EvGetsFrame DEF EvMatchCnf
  <2>2. PICK s, k : k = f.info /\ Granted(s, e, k)
    BY <2>1, MatchCnfFrom
  <2>3. /\ s \in EVSEs /\ k \in Keys /\ evseState[s] = "MATCHED"
        /\ ev_mac[s] = e /\ evseNmk[s] = k
    BY <2>2 DEF Granted
  <2>4. /\ \A x \in EVs \ {e} : evState'[x] = evState[x] /\ evNmk'[x] = evNmk[x]
        /\ evState[e] # "MATCHED" /\ evState'[e] = "MATCHED" /\ evNmk'[e] = k
    BY <2>1, <2>2 DEF EvGoes, SlacInv, NodeTypes
  <2>5. Matching!Join(s, e, k)
    <3>1. <<s, e, k>> \in {g \in EVSEs \X EVs \X Keys :
                evseState[g[1]] = "MATCHED" /\ ev_mac[g[1]] = g[2] /\ evseNmk[g[1]] = g[3]}
      BY <2>3
    <3>2. {j \in EVs \X Keys : evState'[j[1]] = "MATCHED" /\ evNmk'[j[1]] = j[2]}
            = {j \in EVs \X Keys : evState[j[1]] = "MATCHED" /\ evNmk[j[1]] = j[2]}
                \cup {<<e, k>>}
      BY <2>3, <2>4
    <3> QED BY <2>1, <2>4, <3>1, <3>2 DEF Matching!Join, evseVars
  <2> QED BY <2>3, <2>5 DEF Matching!Next
<1> QED BY <1>2, <1>3, <1>4, <1>5, <1>6, <1>7 DEF EvStep

LEMMA EvseStepMatches ==
  ASSUME SlacInv, NEW s \in EVSEs, EvseStep(s) \/ EvseTimeouts(s)
  PROVE  [Matching!Next]_(Matching!vars)
<1>1. ASSUME NEW from, NEW to, EvseGoes(s, from, to), from # "MATCHED", to # "MATCHED",
             \A x \in EVSEs \ {s} : ev_mac'[x] = ev_mac[x],
             UNCHANGED <<evVars, evseNmk>>
      PROVE  UNCHANGED Matching!vars
  <2>1. /\ \A x \in EVSEs : evseState'[x] = "MATCHED" <=> evseState[x] = "MATCHED"
        /\ evseState[s] # "MATCHED"
    BY <1>1 DEF EvseGoes, SlacInv, NodeTypes
  <2> QED BY <1>1, <2>1, Stutters DEF evVars
<1>2. CASE EvseTimeouts(s)
  BY <1>1, <1>2 DEF EvseTimeouts, EvseSoundTimeout, EvseTimeout, EvseWaits
<1>3. CASE EvseSendParmCnf(s) \/ EvseSendAttenChar(s) \/ EvseSendValidateCnf(s)
  BY <1>1, <1>3 DEF EvseSendParmCnf, EvseSendAttenChar, EvseSendValidateCnf, EvseSends
<1>4. ASSUME NEW f, EvseParmReq(s, f)
      PROVE  UNCHANGED Matching!vars
  <2>1. \A x \in EVSEs \ {s} : ev_mac'[x] = ev_mac[x]
    BY <1>4 DEF EvseParmReq, SlacInv, NodeTypes
  <2> QED BY <1>1, <1>4, <2>1 DEF EvseParmReq, EvseGets
<1>5. ASSUME NEW f,
             \/ EvseStartAtten(s, f) \/ (\E dB \in Samples : EvseSound(s, f, dB))
             \/ EvseAttenRsp(s, f) \/ EvseValidateReq(s, f) \/ EvseMatchReq(s, f)
      PROVE  UNCHANGED Matching!vars
  BY <1>1, <1>5 DEF EvseStartAtten, EvseSound, EvseAttenRsp, EvseValidateReq,
     EvseMatchReq, EvseGets
<1>6. ASSUME NEW f, EvseDiscard(s, f)
      PROVE  UNCHANGED Matching!vars
  BY <1>6, Stutters DEF EvseDiscard, evVars, evseVars
<1>7. ASSUME NEW k \in Keys, EvseSendMatchCnf(s, k)
      PROVE  Matching!Next
  <2>1. /\ EvseGoes(s, "SEND_MATCH_CNF", "MATCHED")
        /\ UNCHANGED <<evVars, ev_mac>>
        /\ evseNmk' = [evseNmk EXCEPT ![s] = k]
    BY <1>7 DEF EvseSendMatchCnf, EvseSends
  <2>2. PICK e : e = ev_mac[s] /\ Chose(e, s)
    BY <2>1 DEF EvseGoes, SlacInv, EvseOk
  <2>3. e \in EVs /\ ev_mac[s] = e /\ evse_mac[e] = s
    BY <2>2 DEF Chose
  <2>4. /\ \A x \in EVSEs \ {s} : evseState'[x] = evseState[x] /\ evseNmk'[x] = evseNmk[x]
        /\ evseState[s] # "MATCHED" /\ evseState'[s] = "MATCHED" /\ evseNmk'[s] = k
    BY <2>1 DEF EvseGoes, SlacInv, NodeTypes
  <2>5. Matching!Grant(s, e, k)
    <3>1. <<e, s>> \in {c \in EVs \X EVSEs : evse_mac[c[1]] = c[2]}
      BY <2>3
    <3>2. {g \in EVSEs \X EVs \X Keys :
             evseState'[g[1]] = "MATCHED" /\ ev_mac[g[1]] = g[2] /\ evseNmk'[g[1]] = g[3]}
            = {g \in EVSEs \X EVs \X Keys :
                 evseState[g[1]] = "MATCHED" /\ ev_mac[g[1]] = g[2] /\ evseNmk[g[1]] = g[3]}
                \cup {<<s, e, k>>}
      BY <2>3, <2>4
    <3> QED BY <2>1, <2>4, <3>1, <3>2 DEF Matching!Grant, evVars
  <2> QED BY <2>3, <2>5 DEF Matching!Next
<1> QED BY <1>2, <1>3, <1>4, <1>5, <1>6, <1>7 DEF EvseStep

(* The nodes of slac.c, whatever the line does, only choose, grant and     *)
(* join as the abstract matching allows: no station is chosen by two EVs,  *)
(* and every key an EV joins with was granted to it by its station.        *)
THEOREM SlacImplementsMatching == SlacSpec => ImplementsMatching
<1>1. SlacInit => Matching!Init
  BY SlacConstants DEF SlacInit, Matching!Init
<1>2. SlacInv /\ [SlacNext]_slacVars => [Matching!Next]_(Matching!vars)
  <2> SUFFICES ASSUME SlacInv, [SlacNext]_slacVars
               PROVE  [Matching!Next]_(Matching!vars)
    OBVIOUS
  <2>1. CASE UNCHANGED <<evVars, evseVars>>
    <3>1. UNCHANGED Matching!vars
      BY <2>1, Stutters DEF evVars, evseVars
    <3> QED BY <3>1
  <2>2. ASSUME NEW e \in EVs, EvStep(e) \/ EvTimeouts(e) \/ EvSendParmReqFails(e)
        PROVE  [Matching!Next]_(Matching!vars)
    BY <2>2, EvStepMatches
  <2>3. ASSUME NEW s \in EVSEs, EvseStep(s) \/ EvseTimeouts(s)
        PROVE  [Matching!Next]_(Matching!vars)
    BY <2>3, EvseStepMatches
  <2>4. CASE UNCHANGED slacVars
    BY <2>1, <2>4 DEF slacVars
  <2> QED BY <2>2, <2>3, <2>4 DEF SlacNext
<1> QED BY <1>1, <1>2, SlacInvariant, PTL DEF SlacSpec, ImplementsMatching, Matching!Spec
----------------------------------------------------------------------------
(* The average                                                             *)

Added == INSTANCE FoldTheorems WITH Op <- Plus

LEMMA TotalIsFold ==
  ASSUME NEW q \in Seq(Samples)
  PROVE  Total(q) = Added!Fold(0, q)
<1>1. PICK n \in Nat : DOMAIN q = 1..n
  OBVIOUS
<1> QED BY <1>1 DEF Total, FoldLeft, MapThenFoldSet, Max, Added!Fold, Added!FoldLeft,
                    Added!MapThenFoldSet, Added!Max

(* One more sound adds its sample. *)
LEMMA TotalFacts ==
  ASSUME NEW q \in Seq(Samples)
  PROVE  /\ Total(<<>>) = 0
         /\ \A dB \in Samples : Total(Append(q, dB)) = Total(q) + dB
<1>1. Total(<<>>) = 0
  <2>1. <<>> \in Seq(Samples)
    BY EmptySeq
  <2> QED BY <2>1, TotalIsFold, Added!FoldOfEmpty
<1>2. ASSUME NEW dB \in Samples PROVE Total(Append(q, dB)) = Total(q) + dB
  <2>1. Append(q, dB) \in Seq(Samples)
    BY AppendProperties
  <2>2. Added!Fold(0, Append(q, dB)) = Plus(Added!Fold(0, q), dB)
    BY Added!FoldOfAppend
  <2> QED BY <2>1, <2>2, TotalIsFold DEF Plus
<1> QED BY <1>1, <1>2

(* A uint8_t that is added to remains the sum, but for multiples of 256.   *)
LEMMA AddedModulo ==
  ASSUME NEW a \in Nat, NEW d \in Nat
  PROVE  ((a % 256) + d) % 256 = (a + d) % 256
<1>1. PICK q \in Nat, r \in 0..255 : a = 256 * q + r /\ a % 256 = r
  OBVIOUS
<1>2. (r + d) \in Nat /\ a + d = 256 * q + (r + d)
  BY <1>1
<1>3. PICK u \in Nat, v \in 0..255 : r + d = 256 * u + v /\ (r + d) % 256 = v
  BY <1>2
<1>4. a + d = 256 * (q + u) + v /\ q + u \in Nat
  BY <1>2, <1>3
<1>5. (a + d) % 256 = v
  BY <1>4
<1> QED BY <1>1, <1>3, <1>5

(* A station has counted and added up the samples it heard, in a uint8_t;  *)
(* before START_ATTEN there are none.                                      *)
SoundsAre(q, n, a) ==
  /\ q \in Seq(Samples) /\ n = Len(q)
  /\ Total(q) \in Nat /\ a = Total(q) % 256

Silent == {"WAIT_PARM_REQ", "SEND_PARM_CNF", "WAIT_START_ATTEN"}

Reported == {"WAIT_ATTEN_RSP", "WAIT_VALIDATE_REQ", "SEND_VALIDATE_CNF",
             "WAIT_MATCH_REQ", "SEND_MATCH_CNF", "MATCHED", "FAILED"}

SumInv(s) ==
  /\ SoundsAre(heard[s], sound_count[s], aag[s])
  /\ evseState[s] \in Silent => heard[s] = <<>>

(* Once a station has reported it hears nothing any more: that is what     *)
(* ties a frame on the line to what its sender still holds.                *)
ReportOk(f) ==
  f.type = "ATTEN_CHAR_IND" =>
    /\ f.from \in EVSEs /\ evseState[f.from] \in Reported
    /\ sound_count[f.from] > 0
    /\ f.info = aag[f.from] \div sound_count[f.from]

AverageInv ==
  /\ heard \in [EVSEs -> Seq(Samples)]
  /\ \A s \in EVSEs : SumInv(s)
  /\ \A f \in net : ReportOk(f)

LEMMA NothingHeard == SoundsAre(<<>>, 0, 0)
<1>1. <<>> \in Seq(Samples) /\ Len(<<>>) = 0
  BY EmptySeq
<1>2. Total(<<>>) = 0
  BY <1>1, TotalFacts
<1> QED BY <1>1, <1>2 DEF SoundsAre

LEMMA OneMoreSound ==
  ASSUME NEW q, NEW n, NEW a, SoundsAre(q, n, a), NEW dB \in Samples
  PROVE  SoundsAre(Append(q, dB), n + 1, (a + dB) % 256)
<1>1. /\ q \in Seq(Samples) /\ n = Len(q) /\ dB \in Nat
      /\ Total(q) \in Nat /\ a = Total(q) % 256
  BY SlacConstants DEF SoundsAre
<1>2. Append(q, dB) \in Seq(Samples) /\ Len(Append(q, dB)) = n + 1
  BY <1>1, AppendProperties
<1>3. Total(Append(q, dB)) = Total(q) + dB
  BY <1>1, TotalFacts
<1>4. PICK t \in Nat : t = Total(q)
  BY <1>1
<1>5. (a + dB) % 256 = (t + dB) % 256 /\ t + dB \in Nat
  BY <1>1, <1>4, AddedModulo
<1> QED BY <1>2, <1>3, <1>4, <1>5 DEF SoundsAre

(* A step keeps what it does not touch. *)
LEMMA AverageKept ==
  ASSUME AverageInv, heard' \in [EVSEs -> Seq(Samples)],
         \A s \in EVSEs : SumInv(s)',
         \A s \in EVSEs : evseState[s] \in Reported =>
           /\ evseState'[s] \in Reported
           /\ sound_count'[s] = sound_count[s] /\ aag'[s] = aag[s],
         \A f \in net' \ net : ReportOk(f)'
  PROVE  AverageInv'
<1>1. ASSUME NEW f \in net PROVE ReportOk(f)'
  BY DEF AverageInv, ReportOk
<1> QED BY <1>1 DEF AverageInv

(* EVs neither measure nor report. *)
LEMMA EvAverage ==
  ASSUME AverageInv, NEW e \in EVs, EvStep(e) \/ EvTimeouts(e) \/ EvSendParmReqFails(e)
  PROVE  AverageInv'
<1>1. UNCHANGED evseVars
  BY DEF EvStep, EvTimeouts, EvSendParmReqFails, EvSendParmReq, EvSendStartAtten, EvSendSounds,
     EvSendAttenRsp, EvSendValidateReq, EvSendMatchReq, EvParmCnf, EvAttenChar, EvValidateCnf,
     EvMatchCnf, EvDiscard, EvParmTimeout, EvTimeout, EvSends, EvGets, evVars
<1>2. ASSUME NEW f \in net' \ net PROVE f.type # "ATTEN_CHAR_IND"
  <2>1. CASE EvTimeouts(e) \/ EvSendParmReqFails(e)
    BY <1>2, <2>1 DEF EvTimeouts, EvParmTimeout, EvTimeout, EvSendParmReqFails
  <2>2. CASE \E g \in net : \/ EvParmCnf(e, g) \/ EvAttenChar(e, g) \/ EvValidateCnf(e, g)
                           \/ EvMatchCnf(e, g) \/ EvDiscard(e, g)
    <3>1. net' \subseteq net
      BY <2>2, ReceiveShrinks DEF EvParmCnf, EvAttenChar, EvValidateCnf, EvMatchCnf, EvDiscard,
         EvGets
    <3> QED BY <1>2, <3>1
  <2>3. CASE EvSendParmReq(e) \/ EvSendStartAtten(e) \/ EvSendSounds(e)
    BY <1>2, <2>3 DEF EvSendParmReq, EvSendStartAtten, EvSendSounds, EvSends, Broadcast, Frame
  <2>4. CASE EvSendAttenRsp(e) \/ EvSendValidateReq(e) \/ EvSendMatchReq(e)
    BY <1>2, <2>4 DEF EvSendAttenRsp, EvSendValidateReq, EvSendMatchReq, EvSends, Frame
  <2> QED BY <2>1, <2>2, <2>3, <2>4 DEF EvStep
<1>3. \A f \in net' \ net : ReportOk(f)'
  BY <1>2 DEF ReportOk
<1>4. /\ \A s \in EVSEs : SumInv(s)'
      /\ UNCHANGED <<evseState, sound_count, aag, heard>>
  BY <1>1 DEF AverageInv, SumInv, evseVars
<1>5. heard' \in [EVSEs -> Seq(Samples)]
  BY <1>4 DEF AverageInv
<1> QED BY <1>3, <1>4, <1>5, AverageKept

(* A station moves without adding anything up. *)
LEMMA EvseAverageKept ==
  ASSUME NodeTypes, AverageInv, NEW s \in EVSEs, NEW from, NEW to, EvseGoes(s, from, to),
         UNCHANGED <<sound_count, aag, heard>>,
         from \in Reported => to \in Reported,
         to \in Silent => from \in Silent,
         \A f \in net' \ net : ReportOk(f)'
  PROVE  AverageInv'
<1>1. /\ evseState[s] = from /\ evseState'[s] = to
      /\ \A x \in EVSEs \ {s} : evseState'[x] = evseState[x]
  BY DEF EvseGoes, NodeTypes
<1>2. \A x \in EVSEs : SumInv(x)'
  BY <1>1 DEF AverageInv, SumInv
<1>3. \A x \in EVSEs : evseState[x] \in Reported =>
        evseState'[x] \in Reported /\ sound_count'[x] = sound_count[x] /\ aag'[x] = aag[x]
  BY <1>1
<1>4. heard' \in [EVSEs -> Seq(Samples)]
  BY DEF AverageInv
<1> QED BY <1>2, <1>3, <1>4, AverageKept

(* The report itself. *)
LEMMA AttenCharAverage ==
  ASSUME SlacInv, AverageInv, NEW s \in EVSEs, EvseSendAttenChar(s)
  PROVE  AverageInv'
<1>1. PICK f : f = Frame("ATTEN_CHAR_IND", s, ev_mac[s], AverageAttenuation(s))
  OBVIOUS
<1>2. /\ EvseGoes(s, "SEND_ATTEN_CHAR", "WAIT_ATTEN_RSP") /\ net' = net \cup {f}
      /\ UNCHANGED <<sound_count, aag, heard>> /\ evseState[s] = "SEND_ATTEN_CHAR"
  BY <1>1 DEF EvseSendAttenChar, EvseSends, EvseGoes
<1>3. f.from = s /\ f.info = AverageAttenuation(s)
  BY <1>1 DEF Frame
<1>4. evseState'[s] = "WAIT_ATTEN_RSP"
  BY <1>2 DEF EvseGoes, SlacInv, NodeTypes
<1>5. sound_count[s] > 0
  BY <1>2 DEF SlacInv, EvseOk, EvseHeard
<1>6. ReportOk(f)'
  BY <1>2, <1>3, <1>4, <1>5 DEF ReportOk, Reported, AverageAttenuation
<1>7. \A g \in net' \ net : ReportOk(g)'
  BY <1>2, <1>6
<1> QED BY <1>2, <1>7, EvseAverageKept DEF SlacInv, Reported, Silent

LEMMA SoundAverage ==
  ASSUME SlacInv, AverageInv, NEW s \in EVSEs, NEW f, NEW dB \in Samples, EvseSound(s, f, dB)
  PROVE  AverageInv'
<1>0. PICK to : to = IF sound_count[s] + 1 >= NUM_SOUNDS THEN "SEND_ATTEN_CHAR"
                                                        ELSE "COLLECT_SOUNDS"
  OBVIOUS
<1>1. /\ EvseGoes(s, "COLLECT_SOUNDS", to) /\ net' \subseteq net
      /\ aag' = [aag EXCEPT ![s] = (aag[s] + dB) % 256]
      /\ sound_count' = [sound_count EXCEPT ![s] = sound_count[s] + 1]
      /\ heard' = [heard EXCEPT ![s] = Append(heard[s], dB)]
  BY <1>0, EvseGetsFrame DEF EvseSound
<1>2. /\ sound_count \in [EVSEs -> 0..NUM_SOUNDS] /\ aag \in [EVSEs -> 0..255]
      /\ evseState \in [EVSEs -> EvseStates] /\ heard \in [EVSEs -> Seq(Samples)]
  BY DEF SlacInv, NodeTypes, AverageInv
<1>3. /\ evseState[s] = "COLLECT_SOUNDS" /\ evseState'[s] \notin Silent
      /\ \A x \in EVSEs \ {s} : /\ evseState'[x] = evseState[x] /\ aag'[x] = aag[x]
                               /\ sound_count'[x] = sound_count[x] /\ heard'[x] = heard[x]
  BY <1>0, <1>1, <1>2 DEF EvseGoes, Silent
<1>4. SoundsAre(Append(heard[s], dB), sound_count[s] + 1, (aag[s] + dB) % 256)
  BY OneMoreSound DEF AverageInv, SumInv
<1>5. /\ aag'[s] = (aag[s] + dB) % 256 /\ sound_count'[s] = sound_count[s] + 1
      /\ heard'[s] = Append(heard[s], dB)
  BY <1>1, <1>2
<1>6. SumInv(s)'
  BY <1>3, <1>4, <1>5 DEF SumInv
<1>7. \A x \in EVSEs : SumInv(x)'
  BY <1>3, <1>6 DEF AverageInv, SumInv
<1>8. heard' \in [EVSEs -> Seq(Samples)]
  <2>1. Append(heard[s], dB) \in Seq(Samples)
    BY <1>2, AppendProperties
  <2> QED BY <1>1, <1>2, <2>1
<1>9. \A x \in EVSEs : evseState[x] \in Reported =>
        evseState'[x] \in Reported /\ sound_count'[x] = sound_count[x] /\ aag'[x] = aag[x]
  BY <1>3 DEF Reported
<1> QED BY <1>1, <1>7, <1>8, <1>9, AverageKept

(* A station counts from zero, with nothing added up before. *)
LEMMA StartAverage ==
  ASSUME SlacInv, AverageInv, NEW s \in EVSEs, NEW f, EvseStartAtten(s, f)
  PROVE  AverageInv'
<1>1. /\ EvseGoes(s, "WAIT_START_ATTEN", "COLLECT_SOUNDS") /\ net' \subseteq net
      /\ UNCHANGED aag /\ sound_count' = [sound_count EXCEPT ![s] = 0]
      /\ heard' = [heard EXCEPT ![s] = <<>>]
      /\ evseState[s] = "WAIT_START_ATTEN"
  BY EvseGetsFrame DEF EvseStartAtten, EvseGoes
<1>2. heard[s] = <<>> /\ sound_count[s] = 0
  BY <1>1, EmptySeq DEF AverageInv, SumInv, SoundsAre, Silent
<1>3. sound_count \in [EVSEs -> 0..NUM_SOUNDS] /\ heard \in [EVSEs -> Seq(Samples)]
  BY DEF AverageInv, SlacInv, NodeTypes
<1>4. sound_count' = sound_count /\ heard' = heard
  BY <1>1, <1>2, <1>3
<1> QED BY <1>1, <1>4, EvseAverageKept DEF SlacInv, Reported, Silent

LEMMA EvseAverage ==
  ASSUME SlacInv, AverageInv, NEW s \in EVSEs, EvseStep(s) \/ EvseTimeouts(s)
  PROVE  AverageInv'
<1>0. NodeTypes
  BY DEF SlacInv
<1>1. CASE EvseSendParmCnf(s)
  <2>1. PICK f : f = Frame("PARM_CNF", s, ev_mac[s], 0)
    OBVIOUS
  <2>2. /\ EvseGoes(s, "SEND_PARM_CNF", "WAIT_START_ATTEN") /\ net' = net \cup {f}
        /\ UNCHANGED <<sound_count, aag, heard>> /\ f.type = "PARM_CNF"
    BY <1>1, <2>1 DEF EvseSendParmCnf, EvseSends, Frame
  <2> QED BY <1>0, <2>2, EvseAverageKept DEF ReportOk, Reported, Silent
<1>2. CASE EvseSendValidateCnf(s)
  <2>1. PICK f : f = Frame("VALIDATE_CNF", s, ev_mac[s], 0)
    OBVIOUS
  <2>2. /\ EvseGoes(s, "SEND_VALIDATE_CNF", "WAIT_MATCH_REQ") /\ net' = net \cup {f}
        /\ UNCHANGED <<sound_count, aag, heard>> /\ f.type = "VALIDATE_CNF"
    BY <1>2, <2>1 DEF EvseSendValidateCnf, EvseSends, Frame
  <2> QED BY <1>0, <2>2, EvseAverageKept DEF ReportOk, Reported, Silent
<1>3. ASSUME NEW k \in Keys, EvseSendMatchCnf(s, k) PROVE AverageInv'
  <2>1. PICK f : f = Frame("MATCH_CNF", s, ev_mac[s], k)
    OBVIOUS
  <2>2. /\ EvseGoes(s, "SEND_MATCH_CNF", "MATCHED") /\ net' = net \cup {f}
        /\ UNCHANGED <<sound_count, aag, heard>> /\ f.type = "MATCH_CNF"
    BY <1>3, <2>1 DEF EvseSendMatchCnf, EvseSends, Frame
  <2> QED BY <1>0, <2>2, EvseAverageKept DEF ReportOk, Reported, Silent
<1>4. ASSUME NEW f, EvseParmReq(s, f) PROVE AverageInv'
  <2>1. /\ EvseGoes(s, "WAIT_PARM_REQ", "SEND_PARM_CNF") /\ net' \subseteq net
        /\ UNCHANGED <<sound_count, aag, heard>>
    BY <1>4, EvseGetsFrame DEF EvseParmReq
  <2> QED BY <1>0, <2>1, EvseAverageKept DEF Reported, Silent
<1>5. ASSUME NEW f, EvseAttenRsp(s, f) \/ EvseValidateReq(s, f) \/ EvseMatchReq(s, f)
      PROVE  AverageInv'
  <2>1. PICK from, to \in Reported :
           /\ EvseGoes(s, from, to) /\ net' \subseteq net /\ UNCHANGED <<sound_count, aag, heard>>
    BY <1>5, EvseGetsFrame DEF EvseAttenRsp, EvseValidateReq, EvseMatchReq, Reported
  <2>2. to \notin Silent
    BY DEF Reported, Silent
  <2> QED BY <1>0, <2>1, <2>2, EvseAverageKept
<1>6. ASSUME NEW f, EvseDiscard(s, f) PROVE AverageInv'
  <2>1. UNCHANGED evseVars /\ net' \subseteq net
    BY <1>6, ReceiveShrinks DEF EvseDiscard
  <2> QED BY <2>1, AverageKept DEF AverageInv, SumInv, evseVars
<1>7. CASE EvseTimeouts(s)
  <2>1. PICK from \in EvseWaits, to \in {"SEND_ATTEN_CHAR", "FAILED"} :
           EvseGoes(s, from, to) /\ (to = "SEND_ATTEN_CHAR" => from = "COLLECT_SOUNDS")
    BY <1>7 DEF EvseTimeouts, EvseSoundTimeout, EvseTimeout, EvseWaits
  <2>2. UNCHANGED <<sound_count, aag, heard, net>>
    BY <1>7 DEF EvseTimeouts, EvseSoundTimeout, EvseTimeout
  <2> QED BY <1>0, <2>1, <2>2, EvseAverageKept DEF Reported, Silent
<1> QED
  BY <1>1, <1>2, <1>3, <1>4, <1>5, <1>6, <1>7, AttenCharAverage, SoundAverage, StartAverage
  DEF EvseStep

LEMMA AverageInvariant == SlacSpec => []AverageInv
<1>1. SlacInit => AverageInv
  <2> SUFFICES ASSUME SlacInit PROVE AverageInv
    OBVIOUS
  <2>1. heard \in [EVSEs -> Seq(Samples)]
    BY EmptySeq DEF SlacInit
  <2>2. \A s \in EVSEs : SumInv(s)
    BY NothingHeard DEF SlacInit, SumInv
  <2> QED BY <2>1, <2>2 DEF SlacInit, AverageInv
<1>2. SlacInv /\ AverageInv /\ [SlacNext]_slacVars => AverageInv'
  <2> SUFFICES ASSUME SlacInv, AverageInv, [SlacNext]_slacVars PROVE AverageInv'
    OBVIOUS
  <2>1. CASE UNCHANGED slacVars
    BY <2>1, AverageKept DEF AverageInv, SumInv, slacVars, evseVars
  <2> QED BY <2>1, EvAverage, EvseAverage DEF SlacNext
<1> QED BY <1>1, <1>2, SlacInvariant, PTL DEF SlacSpec

(* The attenuation a station reports is the average, rounded down, of what *)
(* it measured, for any number of sounds that got through and any samples, *)
(* as long as their sum fits: the uint8_t of slac.c:488 is all that is     *)
(* wrong with it.                                                          *)
THEOREM AverageCorrect == SlacSpec => []AverageWhileSumFits
<1>1. AverageInv => AverageWhileSumFits
  <2> SUFFICES ASSUME AverageInv, NEW f \in net, f.type = "ATTEN_CHAR_IND"
               PROVE  /\ heard[f.from] # <<>>
                      /\ Total(heard[f.from]) < 256 =>
                           f.info = Total(heard[f.from]) \div Len(heard[f.from])
    BY DEF AverageWhileSumFits
  <2>1. /\ f.from \in EVSEs /\ sound_count[f.from] > 0
        /\ f.info = aag[f.from] \div sound_count[f.from]
    BY DEF AverageInv, ReportOk
  <2>2. SoundsAre(heard[f.from], sound_count[f.from], aag[f.from])
    BY <2>1 DEF AverageInv, SumInv
  <2>3. heard[f.from] # <<>>
    BY <2>1, <2>2, EmptySeq DEF SoundsAre
  <2>4. ASSUME Total(heard[f.from]) < 256 PROVE aag[f.from] = Total(heard[f.from])
    BY <2>2, <2>4 DEF SoundsAre
  <2> QED BY <2>1, <2>2, <2>3, <2>4 DEF SoundsAre
<1> QED BY <1>1, AverageInvariant, PTL

(* Types: in particular, the increment inside the argument of LOG in       *)
(* ev_step keeps retry_count within its limit, and no frame is addressed   *)
(* to a MAC address that is still zeroed.                                  *)
THEOREM SlacTypeCorrect == SlacSpec => []SlacTypeOK
<1>1. SlacInv /\ AverageInv => SlacTypeOK
  BY Zenon DEF SlacInv, NodeTypes, AverageInv, SlacTypeOK
<1> QED BY <1>1, SlacInvariant, AverageInvariant, PTL

----------------------------------------------------------------------------
(* The moves                                                               *)

(* An EV that moves ahead, or back with one try more on its count.         *)
LEMMA EvMoveSpends ==
  ASSUME NEW e \in EVs, NodeTypes, EvStep(e) \/ EvTimeouts(e) \/ EvSendParmReqFails(e)
  PROVE  /\ UNCHANGED evseState
         /\ \A x \in EVs : evState'[x] # evState[x] => EvMovesLeft(x)' < EvMovesLeft(x)
<1>0. /\ evState \in [EVs -> EvStates]
      /\ retry_count[e] \in Int /\ C_EV_MATCH_RETRY \in Int
      /\ retry_count \in [EVs -> 0..C_EV_MATCH_RETRY]
  BY SlacConstants DEF NodeTypes
<1>1. CASE EvParmTimeout(e)
  <2>1. PICK to \in {"SEND_PARM_REQ", "FAILED"} : EvGoes(e, "WAIT_PARM_CNF", to)
    BY <1>1 DEF EvParmTimeout
  <2>2. retry_count'[e] = retry_count[e] + 1 /\ UNCHANGED evseState
    BY <1>0, <1>1 DEF EvParmTimeout, evseVars
  <2>3. /\ evState[e] = "WAIT_PARM_CNF" /\ evState'[e] = to
        /\ \A x \in EVs \ {e} : evState'[x] = evState[x]
    BY <1>0, <2>1 DEF EvGoes
  <2>4. EvMovesLeft(e)' < EvMovesLeft(e)
    BY <1>0, <2>2, <2>3 DEF EvMovesLeft
  <2> QED BY <2>2, <2>3, <2>4
<1>2. ASSUME NEW from, NEW to, EvGoes(e, from, to), UNCHANGED <<retry_count, evseVars>>,
             <<from, to>> \in
               {<<"SEND_PARM_REQ", "WAIT_PARM_CNF">>, <<"WAIT_PARM_CNF", "SEND_START_ATTEN">>,
                <<"SEND_START_ATTEN", "SEND_MNBC_SOUNDS">>,
                <<"SEND_MNBC_SOUNDS", "WAIT_ATTEN_CHAR">>,
                <<"WAIT_ATTEN_CHAR", "SEND_ATTEN_RSP">>, <<"SEND_ATTEN_RSP", "SEND_VALIDATE">>,
                <<"SEND_VALIDATE", "WAIT_VALIDATE_CNF">>,
                <<"WAIT_VALIDATE_CNF", "SEND_MATCH_REQ">>,
                <<"SEND_MATCH_REQ", "WAIT_MATCH_CNF">>, <<"WAIT_MATCH_CNF", "MATCHED">>,
                <<"SEND_PARM_REQ", "FAILED">>, <<"WAIT_ATTEN_CHAR", "FAILED">>,
                <<"WAIT_VALIDATE_CNF", "FAILED">>, <<"WAIT_MATCH_CNF", "FAILED">>}
      PROVE  /\ UNCHANGED evseState
             /\ \A x \in EVs : evState'[x] # evState[x] => EvMovesLeft(x)' < EvMovesLeft(x)
  <2>1. /\ evState[e] = from /\ evState'[e] = to
        /\ \A x \in EVs \ {e} : evState'[x] = evState[x]
    BY <1>0, <1>2 DEF EvGoes
  <2>2. retry_count'[e] = retry_count[e]
    BY <1>2
  <2>3. EvMovesLeft(e)' < EvMovesLeft(e)
    BY <1>0, <1>2, <2>1, <2>2 DEF EvMovesLeft
  <2> QED BY <1>2, <2>1, <2>3 DEF evseVars
<1>3. CASE EvSendParmReq(e) \/ EvSendStartAtten(e) \/ EvSendSounds(e) \/ EvSendAttenRsp(e)
             \/ EvSendValidateReq(e) \/ EvSendMatchReq(e)
  BY <1>2, <1>3 DEF EvSendParmReq, EvSendStartAtten, EvSendSounds, EvSendAttenRsp,
     EvSendValidateReq, EvSendMatchReq, EvSends
<1>4. ASSUME NEW f \in net,
             EvParmCnf(e, f) \/ EvAttenChar(e, f) \/ EvValidateCnf(e, f) \/ EvMatchCnf(e, f)
      PROVE  /\ UNCHANGED evseState
             /\ \A x \in EVs : evState'[x] # evState[x] => EvMovesLeft(x)' < EvMovesLeft(x)
  BY <1>2, <1>4 DEF EvParmCnf, EvAttenChar, EvValidateCnf, EvMatchCnf, EvGets
<1>5. CASE EvSendParmReqFails(e)
  BY <1>2, <1>5 DEF EvSendParmReqFails
<1>6. CASE EvTimeout(e)
  BY <1>2, <1>6 DEF EvTimeout, EvWaits
<1>7. ASSUME NEW f \in net, EvDiscard(e, f)
      PROVE  UNCHANGED <<evState, evseState>>
  BY <1>7 DEF EvDiscard, evVars, evseVars
<1> QED BY <1>1, <1>3, <1>4, <1>5, <1>6, <1>7 DEF EvStep, EvTimeouts

(* A station only ever moves ahead. *)
LEMMA EvseMoveSpends ==
  ASSUME NEW s \in EVSEs, NodeTypes, EvseStep(s) \/ EvseTimeouts(s)
  PROVE  /\ UNCHANGED evState
         /\ \A x \in EVSEs : evseState'[x] # evseState[x] => EvseMovesLeft(x)' < EvseMovesLeft(x)
<1>0. evseState \in [EVSEs -> EvseStates]
  BY DEF NodeTypes
<1>1. ASSUME NEW from, NEW to, EvseGoes(s, from, to), UNCHANGED evVars,
             <<from, to>> \in
               {<<"WAIT_PARM_REQ", "SEND_PARM_CNF">>, <<"SEND_PARM_CNF", "WAIT_START_ATTEN">>,
                <<"WAIT_START_ATTEN", "COLLECT_SOUNDS">>,
                <<"COLLECT_SOUNDS", "COLLECT_SOUNDS">>,
                <<"COLLECT_SOUNDS", "SEND_ATTEN_CHAR">>,
                <<"SEND_ATTEN_CHAR", "WAIT_ATTEN_RSP">>,
                <<"WAIT_ATTEN_RSP", "WAIT_VALIDATE_REQ">>,
                <<"WAIT_VALIDATE_REQ", "SEND_VALIDATE_CNF">>,
                <<"SEND_VALIDATE_CNF", "WAIT_MATCH_REQ">>,
                <<"WAIT_MATCH_REQ", "SEND_MATCH_CNF">>, <<"SEND_MATCH_CNF", "MATCHED">>,
                <<"WAIT_START_ATTEN", "FAILED">>, <<"COLLECT_SOUNDS", "FAILED">>,
                <<"WAIT_ATTEN_RSP", "FAILED">>, <<"WAIT_VALIDATE_REQ", "FAILED">>,
                <<"WAIT_MATCH_REQ", "FAILED">>}
      PROVE  /\ UNCHANGED evState
             /\ \A x \in EVSEs : evseState'[x] # evseState[x] =>
                                   EvseMovesLeft(x)' < EvseMovesLeft(x)
  <2>1. /\ evseState[s] = from /\ evseState'[s] = to
        /\ \A x \in EVSEs \ {s} : evseState'[x] = evseState[x]
    BY <1>0, <1>1 DEF EvseGoes
  <2>2. from = to \/ EvseMovesLeft(s)' < EvseMovesLeft(s)
    BY <1>1, <2>1 DEF EvseMovesLeft
  <2> QED BY <1>1, <2>1, <2>2 DEF evVars
<1>2. CASE EvseSendParmCnf(s) \/ EvseSendAttenChar(s) \/ EvseSendValidateCnf(s)
             \/ \E k \in Keys : EvseSendMatchCnf(s, k)
  BY <1>1, <1>2 DEF EvseSendParmCnf, EvseSendAttenChar, EvseSendValidateCnf, EvseSendMatchCnf,
     EvseSends
<1>3. ASSUME NEW f \in net,
             \/ EvseParmReq(s, f) \/ EvseStartAtten(s, f) \/ EvseAttenRsp(s, f)
             \/ EvseValidateReq(s, f) \/ EvseMatchReq(s, f)
             \/ \E dB \in Samples : EvseSound(s, f, dB)
      PROVE  /\ UNCHANGED evState
             /\ \A x \in EVSEs : evseState'[x] # evseState[x] =>
                                   EvseMovesLeft(x)' < EvseMovesLeft(x)
  BY <1>1, <1>3 DEF EvseParmReq, EvseStartAtten, EvseAttenRsp, EvseValidateReq, EvseMatchReq,
     EvseSound, EvseGets
<1>4. CASE EvseTimeouts(s)
  BY <1>1, <1>4 DEF EvseTimeouts, EvseSoundTimeout, EvseTimeout, EvseWaits
<1>5. ASSUME NEW f \in net, EvseDiscard(s, f)
      PROVE  UNCHANGED <<evState, evseState>>
  BY <1>5 DEF EvseDiscard, evVars, evseVars
<1> QED BY <1>2, <1>3, <1>4, <1>5 DEF EvseStep

(* Every move of a node uses up one it has left, and what it has left is a *)
(* natural number: slac_run makes at most EvMovesLeft moves, whatever the  *)
(* line does, the retries of ev_step included.                             *)
THEOREM MovesAreUsedUpCorrect ==
  SlacSpec => /\ MovesAreUsedUp
              /\ [](\A e \in EVs : EvMovesLeft(e) \in Nat)
<1>1. NodeTypes /\ [SlacNext]_slacVars =>
        [/\ \A e \in EVs : evState'[e] # evState[e] => EvMovesLeft(e)' < EvMovesLeft(e)
         /\ \A s \in EVSEs : evseState'[s] # evseState[s] => EvseMovesLeft(s)' < EvseMovesLeft(s)
        ]_slacVars
  BY EvMoveSpends, EvseMoveSpends DEF SlacNext
<1>2. NodeTypes => \A e \in EVs : EvMovesLeft(e) \in Nat
  <2> SUFFICES ASSUME NodeTypes, NEW e \in EVs PROVE EvMovesLeft(e) \in Nat
    OBVIOUS
  <2>1. /\ evState[e] \in EvStates /\ retry_count[e] \in 0..C_EV_MATCH_RETRY
        /\ C_EV_MATCH_RETRY \in Nat
    BY SlacConstants DEF NodeTypes
  <2> QED BY <2>1 DEF EvMovesLeft, EvStates
<1>3. SlacInv => NodeTypes
  BY DEF SlacInv
<1> QED BY <1>1, <1>2, <1>3, SlacInvariant, PTL DEF SlacSpec, MovesAreUsedUp

============================================================================
