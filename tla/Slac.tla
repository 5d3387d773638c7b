-------------------------------- MODULE Slac --------------------------------
(***************************************************************************)
(* SLAC matching on the power line (slac.c): EVs and EVSEs, each a process *)
(* in slac_run stepping its own state machine, over raw Ethernet frames    *)
(* that the line may delay, reorder, lose and, with Duplicates, repeat.    *)
(*                                                                         *)
(* Time is abstracted: a frame may be arbitrarily late, so a node that     *)
(* waits may time out whatever has been sent to it.  recv_frame hands over *)
(* any frame on its way to the node; one of the wrong type is dropped.     *)
(* RUN_ID is left out: every node copies it and none compares it.          *)
(***************************************************************************)
EXTENDS Integers, SequencesExt

CONSTANTS
  EVs, EVSEs,        \* the nodes, named by their MAC addresses
  Unset,             \* a zeroed MAC address or key
  Keys,              \* NMK and NID pairs that rand_bytes may produce
  Samples,           \* attenuation in dB measured for one sound
  NUM_SOUNDS,        \* 10 in the code
  C_EV_MATCH_RETRY,  \* 3 in the code
  Duplicates         \* whether the line may deliver a frame more than once

ASSUME SlacConstants ==
  /\ EVs \cap EVSEs = {} /\ Unset \notin EVs \cup EVSEs
  /\ Samples \subseteq Nat
  /\ NUM_SOUNDS \in 1..255
  /\ C_EV_MATCH_RETRY \in Nat \ {0}
  /\ Duplicates \in BOOLEAN

VARIABLES
  evState, retry_count,  \* an EV's ctx->state, ctx->retry_count
  evse_mac,              \* its station: the static evse_mac of slac_step
  evNmk,                 \* its ctx->nmk (and nid)
  evseState,             \* an EVSE's ctx->state
  ev_mac,                \* its EV: the static ev_mac of slac_step
  sound_count, aag,      \* ctx->sound_count; ctx->aag[g] for one group g
  evseNmk,               \* its ctx->nmk (and nid)
  heard,                 \* history: the samples it measured since START_ATTEN
  net                    \* frames on the line

evVars   == <<evState, retry_count, evse_mac, evNmk>>
evseVars == <<evseState, ev_mac, sound_count, aag, evseNmk, heard>>
slacVars == <<evVars, evseVars, net>>

EvStates ==
  {"SEND_PARM_REQ", "WAIT_PARM_CNF", "SEND_START_ATTEN", "SEND_MNBC_SOUNDS",
   "WAIT_ATTEN_CHAR", "SEND_ATTEN_RSP", "SEND_VALIDATE", "WAIT_VALIDATE_CNF",
   "SEND_MATCH_REQ", "WAIT_MATCH_CNF", "MATCHED", "FAILED"}

EvseStates ==
  {"WAIT_PARM_REQ", "SEND_PARM_CNF", "WAIT_START_ATTEN", "COLLECT_SOUNDS",
   "SEND_ATTEN_CHAR", "WAIT_ATTEN_RSP", "WAIT_VALIDATE_REQ",
   "SEND_VALIDATE_CNF", "WAIT_MATCH_REQ", "SEND_MATCH_CNF", "MATCHED", "FAILED"}

Final == {"MATCHED", "FAILED"}
EvWaits == {"WAIT_PARM_CNF", "WAIT_ATTEN_CHAR", "WAIT_VALIDATE_CNF", "WAIT_MATCH_CNF"}
EvseWaits == {"WAIT_PARM_REQ", "WAIT_START_ATTEN", "COLLECT_SOUNDS",
              "WAIT_ATTEN_RSP", "WAIT_VALIDATE_REQ", "WAIT_MATCH_REQ"}

(* slac_init, and slac_run up to its loop, on every node. *)
SlacInit ==
  /\ evState = [e \in EVs |-> "SEND_PARM_REQ"]
  /\ retry_count = [e \in EVs |-> 0]
  /\ evse_mac = [e \in EVs |-> Unset]
  /\ evNmk = [e \in EVs |-> Unset]
  /\ evseState = [s \in EVSEs |-> "WAIT_PARM_REQ"]
  /\ ev_mac = [s \in EVSEs |-> Unset]
  /\ sound_count = [s \in EVSEs |-> 0]
  /\ aag = [s \in EVSEs |-> 0]
  /\ evseNmk = [s \in EVSEs |-> Unset]
  /\ heard = [s \in EVSEs |-> <<>>]
  /\ net = {}

----------------------------------------------------------------------------
(* The line                                                                *)

(* info: the number of the try, the sound's cnt, the averaged attenuation, *)
(* or the key, as the type of frame has it; else 0.                        *)
Frame(type, from, to, info) ==
  [type |-> type, from |-> from, to |-> to, info |-> info]

(* send_frame to the broadcast address reaches every EVSE (an EV drops the *)
(* frames of other EVs unread).                                            *)
Broadcast(type, e, info) == {Frame(type, e, s, info) : s \in EVSEs}

(* recv_frame at node n returns f. *)
Receive(n, f) ==
  /\ f \in net /\ f.to = n
  /\ net' = IF Duplicates THEN net ELSE net \ {f}

(* A frame is lost.  In SlacSpec a lost frame is one that is never         *)
(* received, as no node has to receive what is on the line; MCSlac says    *)
(* which frames a line loses.                                              *)
Lose(f) ==
  /\ f \in net /\ ~Duplicates
  /\ net' = net \ {f}
  /\ UNCHANGED <<evVars, evseVars>>

----------------------------------------------------------------------------
(* ev_step                                                                 *)

EvGoes(e, from, to) ==
  /\ evState[e] = from
  /\ evState' = [evState EXCEPT ![e] = to]

(* A sending state: the frames go out, and the EV moves on whether or not  *)
(* send_frame succeeded (a failed send is a lost frame).                   *)
EvSends(e, from, to, frames) ==
  /\ EvGoes(e, from, to)
  /\ net' = net \cup frames
  /\ UNCHANGED <<retry_count, evse_mac, evNmk, evseVars>>

(* A waiting state gets the frame it waits for. *)
EvGets(e, f, from, type, to) ==
  /\ EvGoes(e, from, to)
  /\ f.type = type
  /\ Receive(e, f)
  /\ UNCHANGED <<retry_count, evseVars>>

EvSendParmReq(e) ==
  EvSends(e, "SEND_PARM_REQ", "WAIT_PARM_CNF",
          Broadcast("PARM_REQ", e, retry_count[e]))

(* The one send whose failure is checked. *)
EvSendParmReqFails(e) ==
  /\ EvGoes(e, "SEND_PARM_REQ", "FAILED")
  /\ UNCHANGED <<retry_count, evse_mac, evNmk, evseVars, net>>

EvParmCnf(e, f) ==
  /\ EvGets(e, f, "WAIT_PARM_CNF", "PARM_CNF", "SEND_START_ATTEN")
  /\ evse_mac' = [evse_mac EXCEPT ![e] = f.from]
  /\ UNCHANGED evNmk

(* Faulty variants: a LOG that does not evaluate its argument, and with it *)
(* the increment; one try fewer; one too many.                             *)
RetryUncounted(e) ==
  /\ EvGoes(e, "WAIT_PARM_CNF", "SEND_PARM_REQ")
  /\ UNCHANGED <<retry_count, evse_mac, evNmk, evseVars, net>>

RetryOneShort(e) ==
  /\ EvGoes(e, "WAIT_PARM_CNF",
            IF retry_count[e] + 2 >= C_EV_MATCH_RETRY THEN "FAILED"
                                                      ELSE "SEND_PARM_REQ")
  /\ retry_count' = [retry_count EXCEPT ![e] = @ + 1]
  /\ UNCHANGED <<evse_mac, evNmk, evseVars, net>>

RetryOneMore(e) ==
  /\ EvGoes(e, "WAIT_PARM_CNF",
            IF retry_count[e] + 1 > C_EV_MATCH_RETRY THEN "FAILED"
                                                     ELSE "SEND_PARM_REQ")
  /\ retry_count' = [retry_count EXCEPT ![e] = @ + 1]
  /\ UNCHANGED <<evse_mac, evNmk, evseVars, net>>

(* The increment stands inside the argument of LOG. *)
EvParmTimeout(e) ==
  /\ EvGoes(e, "WAIT_PARM_CNF",
            IF retry_count[e] + 1 >= C_EV_MATCH_RETRY THEN "FAILED"
                                                      ELSE "SEND_PARM_REQ")
  /\ retry_count' = [retry_count EXCEPT ![e] = @ + 1]
  /\ UNCHANGED <<evse_mac, evNmk, evseVars, net>>

EvSendStartAtten(e) ==
  EvSends(e, "SEND_START_ATTEN", "SEND_MNBC_SOUNDS",
          Broadcast("START_ATTEN_IND", e, 0))

EvSendSounds(e) ==
  EvSends(e, "SEND_MNBC_SOUNDS", "WAIT_ATTEN_CHAR",
          UNION {Broadcast("MNBC_SOUND_IND", e, cnt) : cnt \in 0..(NUM_SOUNDS - 1)})

(* From any station: the sender is not compared with evse_mac, and of the  *)
(* attenuation nothing is used.                                            *)
EvAttenChar(e, f) ==
  /\ EvGets(e, f, "WAIT_ATTEN_CHAR", "ATTEN_CHAR_IND", "SEND_ATTEN_RSP")
  /\ UNCHANGED <<evse_mac, evNmk>>

EvSendAttenRsp(e) ==
  EvSends(e, "SEND_ATTEN_RSP", "SEND_VALIDATE",
          {Frame("ATTEN_CHAR_RSP", e, evse_mac[e], 0)})

EvSendValidateReq(e) ==
  EvSends(e, "SEND_VALIDATE", "WAIT_VALIDATE_CNF",
          {Frame("VALIDATE_REQ", e, evse_mac[e], 0)})

(* The EVSE sends no other result than 0, success. *)
EvValidateCnf(e, f) ==
  /\ EvGets(e, f, "WAIT_VALIDATE_CNF", "VALIDATE_CNF", "SEND_MATCH_REQ")
  /\ UNCHANGED <<evse_mac, evNmk>>

EvSendMatchReq(e) ==
  EvSends(e, "SEND_MATCH_REQ", "WAIT_MATCH_CNF",
          {Frame("MATCH_REQ", e, evse_mac[e], 0)})

EvMatchCnf(e, f) ==
  /\ EvGets(e, f, "WAIT_MATCH_CNF", "MATCH_CNF", "MATCHED")
  /\ evNmk' = [evNmk EXCEPT ![e] = f.info]
  /\ UNCHANGED evse_mac

EvTimeout(e) ==
  /\ \E from \in EvWaits \ {"WAIT_PARM_CNF"} : EvGoes(e, from, "FAILED")
  /\ UNCHANGED <<retry_count, evse_mac, evNmk, evseVars, net>>

EvExpects ==
  [WAIT_PARM_CNF |-> "PARM_CNF", WAIT_ATTEN_CHAR |-> "ATTEN_CHAR_IND",
   WAIT_VALIDATE_CNF |-> "VALIDATE_CNF", WAIT_MATCH_CNF |-> "MATCH_CNF"]

(* A frame of another type is read and dropped. *)
EvDiscard(e, f) ==
  /\ evState[e] \in EvWaits
  /\ f.type # EvExpects[evState[e]]
  /\ Receive(e, f)
  /\ UNCHANGED <<evVars, evseVars>>

----------------------------------------------------------------------------
(* evse_step                                                               *)

EvseGoes(s, from, to) ==
  /\ evseState[s] = from
  /\ evseState' = [evseState EXCEPT ![s] = to]

EvseGets(s, f, from, type, to) ==
  /\ EvseGoes(s, from, to)
  /\ f.type = type
  /\ Receive(s, f)
  /\ UNCHANGED <<evVars, evseNmk>>

EvseSends(s, from, to, frame) ==
  /\ EvseGoes(s, from, to)
  /\ net' = net \cup {frame}
  /\ UNCHANGED <<evVars, ev_mac, sound_count, aag, heard>>

(* Faulty variant: a request that comes while the EVSE waits for the       *)
(* sounds, perhaps of another EV, starts it again.                         *)
EvseParmReqAgain(s, f) ==
  /\ \E from \in {"WAIT_PARM_REQ", "WAIT_START_ATTEN"} :
       EvseGets(s, f, from, "PARM_REQ", "SEND_PARM_CNF")
  /\ ev_mac' = [ev_mac EXCEPT ![s] = f.from]
  /\ UNCHANGED <<sound_count, aag, heard>>

EvseParmReq(s, f) ==
  /\ EvseGets(s, f, "WAIT_PARM_REQ", "PARM_REQ", "SEND_PARM_CNF")
  /\ ev_mac' = [ev_mac EXCEPT ![s] = f.from]
  /\ UNCHANGED <<sound_count, aag, heard>>

EvseSendParmCnf(s) ==
  /\ EvseSends(s, "SEND_PARM_CNF", "WAIT_START_ATTEN",
               Frame("PARM_CNF", s, ev_mac[s], 0))
  /\ UNCHANGED evseNmk

(* Of any EV: the sender is not compared with ev_mac, here or below. *)
EvseStartAtten(s, f) ==
  /\ EvseGets(s, f, "WAIT_START_ATTEN", "START_ATTEN_IND", "COLLECT_SOUNDS")
  /\ sound_count' = [sound_count EXCEPT ![s] = 0]
  /\ heard' = [heard EXCEPT ![s] = <<>>]
  /\ UNCHANGED <<ev_mac, aag>>

(* aag is an array of uint8_t. *)
EvseSound(s, f, dB) ==
  /\ EvseGets(s, f, "COLLECT_SOUNDS", "MNBC_SOUND_IND",
              IF sound_count[s] + 1 >= NUM_SOUNDS THEN "SEND_ATTEN_CHAR"
                                                  ELSE "COLLECT_SOUNDS")
  /\ aag' = [aag EXCEPT ![s] = (@ + dB) % 256]
  /\ sound_count' = [sound_count EXCEPT ![s] = @ + 1]
  /\ heard' = [heard EXCEPT ![s] = Append(@, dB)]
  /\ UNCHANGED ev_mac

(* Faulty variant: goes on without having heard any sound. *)
SoundTimeoutUnheard(s) ==
  /\ EvseGoes(s, "COLLECT_SOUNDS", "SEND_ATTEN_CHAR")
  /\ UNCHANGED <<evVars, ev_mac, sound_count, aag, heard, evseNmk, net>>

EvseSoundTimeout(s) ==
  /\ EvseGoes(s, "COLLECT_SOUNDS",
              IF sound_count[s] > 0 THEN "SEND_ATTEN_CHAR" ELSE "FAILED")
  /\ UNCHANGED <<evVars, ev_mac, sound_count, aag, heard, evseNmk, net>>

(* Faulty variant: divides by the sounds there should have been.           *)
AverageOfAll(s) == aag[s] \div NUM_SOUNDS

AverageAttenuation(s) ==
  IF sound_count[s] > 0 THEN aag[s] \div sound_count[s] ELSE 0

EvseSendAttenChar(s) ==
  /\ EvseSends(s, "SEND_ATTEN_CHAR", "WAIT_ATTEN_RSP",
               Frame("ATTEN_CHAR_IND", s, ev_mac[s], AverageAttenuation(s)))
  /\ UNCHANGED evseNmk

EvseAttenRsp(s, f) ==
  /\ EvseGets(s, f, "WAIT_ATTEN_RSP", "ATTEN_CHAR_RSP", "WAIT_VALIDATE_REQ")
  /\ UNCHANGED <<ev_mac, sound_count, aag, heard>>

EvseValidateReq(s, f) ==
  /\ EvseGets(s, f, "WAIT_VALIDATE_REQ", "VALIDATE_REQ", "SEND_VALIDATE_CNF")
  /\ UNCHANGED <<ev_mac, sound_count, aag, heard>>

EvseSendValidateCnf(s) ==
  /\ EvseSends(s, "SEND_VALIDATE_CNF", "WAIT_MATCH_REQ",
               Frame("VALIDATE_CNF", s, ev_mac[s], 0))
  /\ UNCHANGED evseNmk

EvseMatchReq(s, f) ==
  /\ EvseGets(s, f, "WAIT_MATCH_REQ", "MATCH_REQ", "SEND_MATCH_CNF")
  /\ UNCHANGED <<ev_mac, sound_count, aag, heard>>

(* Faulty variant: the EVSE keeps another key than the one it sends. *)
MatchCnfKeyNotKept(s, k) ==
  /\ EvseSends(s, "SEND_MATCH_CNF", "MATCHED", Frame("MATCH_CNF", s, ev_mac[s], k))
  /\ \E other \in Keys : evseNmk' = [evseNmk EXCEPT ![s] = other]

(* The keys are drawn, kept and sent; matched, even if the frame is lost. *)
EvseSendMatchCnf(s, k) ==
  /\ EvseSends(s, "SEND_MATCH_CNF", "MATCHED", Frame("MATCH_CNF", s, ev_mac[s], k))
  /\ evseNmk' = [evseNmk EXCEPT ![s] = k]

(* Faulty variant: no timeout for the match request either. *)
NoMatchTimeout(s) ==
  /\ \E from \in {"WAIT_START_ATTEN", "WAIT_ATTEN_RSP", "WAIT_VALIDATE_REQ"} :
       EvseGoes(s, from, "FAILED")
  /\ UNCHANGED <<evVars, ev_mac, sound_count, aag, heard, evseNmk, net>>

(* WAIT_PARM_REQ has no timeout. *)
EvseTimeout(s) ==
  /\ \E from \in EvseWaits \ {"WAIT_PARM_REQ", "COLLECT_SOUNDS"} :
       EvseGoes(s, from, "FAILED")
  /\ UNCHANGED <<evVars, ev_mac, sound_count, aag, heard, evseNmk, net>>

EvseExpects ==
  [WAIT_PARM_REQ |-> "PARM_REQ", WAIT_START_ATTEN |-> "START_ATTEN_IND",
   COLLECT_SOUNDS |-> "MNBC_SOUND_IND", WAIT_ATTEN_RSP |-> "ATTEN_CHAR_RSP",
   WAIT_VALIDATE_REQ |-> "VALIDATE_REQ", WAIT_MATCH_REQ |-> "MATCH_REQ"]

EvseDiscard(s, f) ==
  /\ evseState[s] \in EvseWaits
  /\ f.type # EvseExpects[evseState[s]]
  /\ Receive(s, f)
  /\ UNCHANGED <<evVars, evseVars>>

----------------------------------------------------------------------------
(* The specification                                                       *)

EvStep(e) ==
  \/ EvSendParmReq(e) \/ EvSendStartAtten(e) \/ EvSendSounds(e)
  \/ EvSendAttenRsp(e) \/ EvSendValidateReq(e) \/ EvSendMatchReq(e)
  \/ \E f \in net : \/ EvParmCnf(e, f) \/ EvAttenChar(e, f) \/ EvValidateCnf(e, f)
                    \/ EvMatchCnf(e, f) \/ EvDiscard(e, f)

EvTimeouts(e) == EvParmTimeout(e) \/ EvTimeout(e)

EvseStep(s) ==
  \/ EvseSendParmCnf(s) \/ EvseSendAttenChar(s) \/ EvseSendValidateCnf(s)
  \/ \E k \in Keys : EvseSendMatchCnf(s, k)
  \/ \E f \in net : \/ EvseParmReq(s, f) \/ EvseStartAtten(s, f)
                    \/ \E dB \in Samples : EvseSound(s, f, dB)
                    \/ EvseAttenRsp(s, f) \/ EvseValidateReq(s, f)
                    \/ EvseMatchReq(s, f) \/ EvseDiscard(s, f)

EvseTimeouts(s) == EvseSoundTimeout(s) \/ EvseTimeout(s)

SlacNext ==
  \/ \E e \in EVs : EvStep(e) \/ EvTimeouts(e) \/ EvSendParmReqFails(e)
  \/ \E s \in EVSEs : EvseStep(s) \/ EvseTimeouts(s)

SlacSpec == SlacInit /\ [][SlacNext]_slacVars

(* Each node's slac_run keeps stepping: while it waits, recv_frame returns *)
(* after 500 ms at most, and its timer runs.  Nothing makes a frame arrive *)
(* in time, and a send need not fail.                                      *)
FairSlacSpec ==
  /\ SlacSpec
  /\ \A e \in EVs : WF_slacVars(EvStep(e) \/ EvTimeouts(e))
  /\ \A s \in EVSEs : WF_slacVars(EvseStep(s) \/ EvseTimeouts(s))

(* A timely line: frames take much less than the shortest timeout, so a    *)
(* timer runs out only when no frame is under way to a node that listens,  *)
(* and nobody is about to send one; an EV's frames arrive in the order in  *)
(* which it sent them; and none is lost but requests that are not the last *)
(* try.                                                                    *)
Quiet ==
  /\ \A f \in net : IF f.to \in EVs THEN evState[f.to] \in Final
                                    ELSE evseState[f.to] \in Final
  /\ \A e \in EVs : evState[e] \in EvWaits \cup Final
  /\ \A s \in EVSEs : evseState[s] \in EvseWaits \cup Final

(* The order in which an EV sends; the EVSEs' frames may come in any order. *)
SendOrder == [PARM_REQ |-> 1, START_ATTEN_IND |-> 2, MNBC_SOUND_IND |-> 3,
              ATTEN_CHAR_RSP |-> 4, VALIDATE_REQ |-> 5, MATCH_REQ |-> 6]

InOrder ==
  \A f \in net \ net', g \in net :
    (f.from \in EVs /\ g.from = f.from /\ g.to = f.to)
      => SendOrder[f.type] <= SendOrder[g.type]

TimelyEv(e) == (EvStep(e) /\ InOrder) \/ (Quiet /\ EvTimeouts(e))
TimelyEvse(s) == (EvseStep(s) /\ InOrder) \/ (Quiet /\ EvseTimeouts(s))

----------------------------------------------------------------------------
(* Properties                                                              *)

Frames ==
  {f \in [type : {"PARM_REQ", "PARM_CNF", "START_ATTEN_IND", "MNBC_SOUND_IND",
                  "ATTEN_CHAR_IND", "ATTEN_CHAR_RSP", "VALIDATE_REQ",
                  "VALIDATE_CNF", "MATCH_REQ", "MATCH_CNF"},
          from : EVs \cup EVSEs, to : EVs \cup EVSEs, info : Nat \cup Keys] :
     f.type = "MATCH_CNF" => f.info \in Keys}

(* Every variable has the values the code's types and limits give it: the  *)
(* retry count stops at its limit, a uint8_t stays one, and each frame has *)
(* a sender and a receiver (no unicast to an address still zeroed).        *)
SlacTypeOK ==
  /\ evState \in [EVs -> EvStates]
  /\ retry_count \in [EVs -> 0..C_EV_MATCH_RETRY]
  /\ evse_mac \in [EVs -> EVSEs \cup {Unset}]
  /\ evNmk \in [EVs -> Keys \cup {Unset}]
  /\ evseState \in [EVSEs -> EvseStates]
  /\ ev_mac \in [EVSEs -> EVs \cup {Unset}]
  /\ sound_count \in [EVSEs -> 0..NUM_SOUNDS]
  /\ aag \in [EVSEs -> 0..255]
  /\ evseNmk \in [EVSEs -> Keys \cup {Unset}]
  /\ heard \in [EVSEs -> Seq(Samples)]
  /\ net \subseteq Frames

(* Agreement: an EV that is matched (slac_run returned 0) shares its key   *)
(* with the station it chose, and that station is matched to this EV.      *)
KeyAgreement ==
  \A e \in EVs : evState[e] = "MATCHED" =>
    LET s == evse_mac[e] IN
    /\ s \in EVSEs
    /\ evseState[s] = "MATCHED" /\ ev_mac[s] = e
    /\ evNmk[e] = evseNmk[s]

(* A station grants its key only to an EV that chose it and has asked for  *)
(* the match, and only after it heard at least one sound, although no      *)
(* receiver compares the sender or the run of a frame with its own.        *)
MatchEarned ==
  \A s \in EVSEs : evseState[s] = "MATCHED" =>
    LET e == ev_mac[s] IN
    /\ e \in EVs
    /\ evse_mac[e] = s
    /\ evState[e] \in {"WAIT_MATCH_CNF", "MATCHED", "FAILED"}
    /\ sound_count[s] > 0

(* The attenuation a station reports is the average, rounded down, of the  *)
(* samples it measured since START_ATTEN, however many sounds got through  *)
(* and whoever sent them, as long as their sum fits the uint8_t in which   *)
(* they are added up.  sound_count starts afresh with START_ATTEN and aag  *)
(* does not; and the report stays on the line while the station goes on.   *)
Plus(a, b) == a + b
Total(samples) == FoldLeft(Plus, 0, samples)

AverageWhileSumFits ==
  \A f \in net : f.type = "ATTEN_CHAR_IND" =>
    LET samples == heard[f.from] IN
    /\ samples # <<>>
    /\ Total(samples) < 256 => f.info = Total(samples) \div Len(samples)

(* How many moves a node has left at most: its place in the protocol, and  *)
(* for an EV two for each try it has not used up.                          *)
EvMovesLeft(e) ==
  LET after == [SEND_PARM_REQ |-> 11, WAIT_PARM_CNF |-> 10, SEND_START_ATTEN |-> 9,
                SEND_MNBC_SOUNDS |-> 8, WAIT_ATTEN_CHAR |-> 7, SEND_ATTEN_RSP |-> 6,
                SEND_VALIDATE |-> 5, WAIT_VALIDATE_CNF |-> 4, SEND_MATCH_REQ |-> 3,
                WAIT_MATCH_CNF |-> 2, MATCHED |-> 0, FAILED |-> 0]
  IN  after[evState[e]] + 2 * (C_EV_MATCH_RETRY - retry_count[e])

EvseMovesLeft(s) ==
  LET after == [WAIT_PARM_REQ |-> 10, SEND_PARM_CNF |-> 9, WAIT_START_ATTEN |-> 8,
                COLLECT_SOUNDS |-> 7, SEND_ATTEN_CHAR |-> 6, WAIT_ATTEN_RSP |-> 5,
                WAIT_VALIDATE_REQ |-> 4, SEND_VALIDATE_CNF |-> 3, WAIT_MATCH_REQ |-> 2,
                SEND_MATCH_CNF |-> 1, MATCHED |-> 0, FAILED |-> 0]
  IN  after[evseState[s]]

(* No node goes round in circles: each move of its state machine, also the *)
(* one back to asking again, uses up one of the moves it has left.         *)
MovesAreUsedUp ==
  [][/\ \A e \in EVs : evState'[e] # evState[e] => EvMovesLeft(e)' < EvMovesLeft(e)
     /\ \A s \in EVSEs : evseState'[s] # evseState[s] => EvseMovesLeft(s)' < EvseMovesLeft(s)
    ]_slacVars

(* The EV's slac_run always returns: its retries are counted and every     *)
(* wait has a timeout.                                                     *)
EvTerminates == \A e \in EVs : <>(evState[e] \in Final)

(* The station's slac_run returns once it has taken up an EV. *)
EvseTerminates ==
  \A s \in EVSEs : (evseState[s] # "WAIT_PARM_REQ") ~> (evseState[s] \in Final)

(* The retries do what they are for: on a timely line that loses requests, *)
(* but not the last try, an EV is matched, even if a second station hears  *)
(* it and answers too, and although it may take that station's attenuation *)
(* for its own's.                                                          *)
LostRequestsSurvived == \A e \in EVs : <>(evState[e] = "MATCHED")

(* Every behaviour of the nodes is one of the abstract matching. *)
Matching == INSTANCE SlacMatching WITH
  chosen  <- {c \in EVs \X EVSEs : evse_mac[c[1]] = c[2]},
  granted <- {g \in EVSEs \X EVs \X Keys :
                evseState[g[1]] = "MATCHED" /\ ev_mac[g[1]] = g[2]
                  /\ evseNmk[g[1]] = g[3]},
  joined  <- {j \in EVs \X Keys : evState[j[1]] = "MATCHED" /\ evNmk[j[1]] = j[2]}

ImplementsMatching == Matching!Spec

----------------------------------------------------------------------------
(* What comments in the source say and the code does not do.               *)

(* slac.h:118 "Average Attenuation per Group (dB)", slac.c:282 "Average    *)
(* the accumulated group attenuations": an average lies between the least  *)
(* and the greatest of what was measured.                                  *)
AverageWithinSamples ==
  \A f \in net : f.type = "ATTEN_CHAR_IND" =>
    /\ \E dB \in Samples : dB <= f.info
    /\ \E dB \in Samples : f.info <= dB

(* slac.h:36 "EVSE waits for first PARM.REQ", 20000 ms: the wait ends. *)
EvseWaitIsBounded == \A s \in EVSEs : <>(evseState[s] # "WAIT_PARM_REQ")
============================================================================
