---------------------------- MODULE V2gMessages ----------------------------
(***************************************************************************)
(* The ISO 15118-2 messages as the SECC sees them: how a request is        *)
(* classified, which session state it routes to, and the document the SECC *)
(* answers it with.  Everything here is a constant-level operator; the     *)
(* state machines that use them are V2gtpStream and SeccSession.           *)
(*                                                                         *)
(* EXI itself is abstracted: a request is a record that already says what  *)
(* the OpenV2G decoder would find in it, a response is a record with the   *)
(* fields of the document the builder fills in and encodes.                *)
(***************************************************************************)
EXTENDS Integers, SequencesExt

CONSTANTS
  Payloads,      \* the V2GTP messages the EV may send (records, see IsPayload)
  HDR,           \* V2GTP_HEADER_LEN, 8 in the code
  CodecRejects   \* responses OpenV2G fails to encode, flush or decode back

(* exi_msg_type_t without UNKNOWN. *)
ExiMsgTypes ==
  {"SupportedAppProtocol", "SessionSetup", "ServiceDiscovery", "ServiceDetail",
   "PaymentServiceSelection", "Authorization", "ChargeParameterDiscovery",
   "CableCheck", "PreCharge", "PowerDelivery", "CurrentDemand",
   "WeldingDetection", "SessionStop"}

(* secc_state_t. *)
SeccStates ==
  {"IDLE", "SLAC_INIT", "SLAC_MATCHING", "SLAC_MATCHED", "TCP_CONNECTED",
   "TLS_HANDSHAKE", "SESSION_SETUP", "SERVICE_DISCOVERY", "PAYMENT_SELECTION",
   "AUTHORIZATION", "CHARGE_PARAMETER", "CABLE_CHECK", "PRECHARGE",
   "POWER_DELIVERY", "CURRENT_DEMAND", "WELDING_DETECTION", "SESSION_STOP",
   "ERROR"}

(* An AppProtocol entry: its SchemaID and Priority, each a uint8_t. *)
AppProtocols == [schema : 0..255, priority : 0..255]

(* A V2GTP message: its payload type, its length with the header, the      *)
(* request its EXI payload decodes to ("UNKNOWN" when neither decoder      *)
(* accepts it) and the entries of a SupportedAppProtocolReq.               *)
IsPayload(p) ==
  /\ p.payload_type \in {"EXI", "OTHER"}
  /\ p.size \in Nat /\ p.size >= HDR
  /\ p.msg \in ExiMsgTypes \cup {"UNKNOWN"}
  /\ p.apps \in Seq(AppProtocols)

ASSUME MessageConstants ==
  /\ HDR \in Nat \ {0}
  /\ \A p \in Payloads : IsPayload(p)

----------------------------------------------------------------------------
(* exi_decode_message                                                      *)

(* An empty payload is UNKNOWN before any decoder looks at it. *)
DecodedType(p) == IF p.size <= HDR THEN "UNKNOWN" ELSE p.msg

(* "No priority seen yet": above every uint8_t Priority, as UINT_MAX is. *)
NoPriority == 256

(* Faulty variant: a later entry of the same Priority wins. *)
LaterOfEquals(best, entry) ==
  IF entry.priority <= best.priority THEN entry ELSE best

(* The loop over AppProtocol entries: an entry replaces the choice only    *)
(* when its Priority is strictly smaller than the best one so far.         *)
BetterEntry(best, entry) ==
  IF entry.priority < best.priority THEN entry ELSE best

ChooseSchema(apps) ==
  IF apps = <<>> THEN 1
  ELSE FoldLeft(BetterEntry,
                [schema |-> apps[1].schema, priority |-> NoPriority],
                apps).schema

SchemaIds == {1} \cup {ChooseSchema(p.apps) : p \in Payloads}

----------------------------------------------------------------------------
(* secc_handle_v2g_message                                                 *)

RoutedState ==
  [SessionSetup             |-> "SESSION_SETUP",
   ServiceDiscovery         |-> "SERVICE_DISCOVERY",
   PaymentServiceSelection  |-> "PAYMENT_SELECTION",
   Authorization            |-> "AUTHORIZATION",
   ChargeParameterDiscovery |-> "CHARGE_PARAMETER",
   CableCheck               |-> "CABLE_CHECK",
   PreCharge                |-> "PRECHARGE",
   PowerDelivery            |-> "POWER_DELIVERY",
   CurrentDemand            |-> "CURRENT_DEMAND",
   WeldingDetection         |-> "WELDING_DETECTION",
   SessionStop              |-> "SESSION_STOP"]

(* The router has no case for ServiceDetail: like UNKNOWN, it falls to the *)
(* default branch.                                                         *)
StateFor(m) == IF m \in DOMAIN RoutedState THEN RoutedState[m] ELSE "ERROR"

----------------------------------------------------------------------------
(* The response documents.  A physical value is Value * 10^Multiplier.     *)

SESSION_ID == 1

PhysicalValue(value, multiplier) == [value |-> value, multiplier |-> multiplier]

(* What the builders of plain ISO documents share: the name of the         *)
(* response, its code and the session id copied from the context.          *)
OkRes(name) == [res |-> name, code |-> "OK", sid |-> SESSION_ID]

FinishedRes(name) ==
  [res |-> name, code |-> "OK", sid |-> SESSION_ID, processing |-> "Finished"]

SupportedAppProtocolRes(schema) ==
  [res |-> "SupportedAppProtocolRes", code |-> "OK_SuccessfulNegotiation",
   schema |-> schema]

SessionSetupRes ==
  [res |-> "SessionSetupRes", code |-> "OK_NewSessionEstablished",
   sid |-> SESSION_ID]

ServiceDiscoveryRes ==
  [res |-> "ServiceDiscoveryRes", code |-> "OK", sid |-> SESSION_ID,
   serviceId |-> 1, modes |-> {"DC_extended"}, payment |-> {"ExternalPayment"}]

ServiceDetailRes ==
  [res |-> "ServiceDetailRes", code |-> "OK", sid |-> SESSION_ID,
   serviceId |-> 1, MaxVoltage |-> 500, MaxCurrent |-> 125]

PaymentServiceSelectionRes == OkRes("PaymentServiceSelectionRes")

AuthorizationRes == FinishedRes("AuthorizationRes")

ChargeParameterDiscoveryRes ==
  [res |-> "ChargeParameterDiscoveryRes", code |-> "OK", sid |-> SESSION_ID,
   processing |-> "Finished",
   maxCurrent |-> PhysicalValue(32, 1), maxVoltage |-> PhysicalValue(400, 1),
   maxPower |-> PhysicalValue(11000, 1),
   minVoltage |-> PhysicalValue(200, 1), minCurrent |-> PhysicalValue(6, 1)]

CableCheckRes == FinishedRes("CableCheckRes")

PreChargeRes ==
  [res |-> "PreChargeRes", code |-> "OK", sid |-> SESSION_ID,
   presentVoltage |-> PhysicalValue(400, 0)]

PowerDeliveryRes == OkRes("PowerDeliveryRes")

CurrentDemandRes ==
  [res |-> "CurrentDemandRes", code |-> "OK", sid |-> SESSION_ID,
   presentVoltage |-> PhysicalValue(400, 0),
   presentCurrent |-> PhysicalValue(16, 0),
   maxVoltage |-> PhysicalValue(1000, 0), maxCurrent |-> PhysicalValue(32, 0),
   maxPower |-> PhysicalValue(11000, 0)]

WeldingDetectionRes ==
  [res |-> "WeldingDetectionRes", code |-> "OK", sid |-> SESSION_ID,
   presentVoltage |-> PhysicalValue(40, 0)]

SessionStopRes == OkRes("SessionStopRes")

(* secc_build_response: the switch over the request type. *)
Response(m, schema) ==
  CASE m = "SupportedAppProtocol"     -> SupportedAppProtocolRes(schema)
    [] m = "SessionSetup"             -> SessionSetupRes
    [] m = "ServiceDiscovery"         -> ServiceDiscoveryRes
    [] m = "ServiceDetail"            -> ServiceDetailRes
    [] m = "PaymentServiceSelection"  -> PaymentServiceSelectionRes
    [] m = "Authorization"            -> AuthorizationRes
    [] m = "ChargeParameterDiscovery" -> ChargeParameterDiscoveryRes
    [] m = "CableCheck"               -> CableCheckRes
    [] m = "PreCharge"                -> PreChargeRes
    [] m = "PowerDelivery"            -> PowerDeliveryRes
    [] m = "CurrentDemand"            -> CurrentDemandRes
    [] m = "WeldingDetection"         -> WeldingDetectionRes
    [] m = "SessionStop"              -> SessionStopRes

(* verify_session_setup_response decodes the document it has just encoded  *)
(* and insists on the response code as well.                               *)
VerifySessionSetupRes(doc) ==
  /\ doc.res \notin CodecRejects
  /\ doc.code = "OK_NewSessionEstablished"

(* Every other verify_* function only insists that the document decodes.   *)
VerifyRes(doc) == doc.res \notin CodecRejects

(* secc_build_response returns 0: the request has a builder, its document  *)
(* encodes, and decodes back.                                              *)
CanBuild(m, schema) ==
  /\ m \in ExiMsgTypes
  /\ LET doc == Response(m, schema) IN
     IF m = "SessionSetup" THEN VerifySessionSetupRes(doc) ELSE VerifyRes(doc)

ResponseDocs == {Response(m, s) : m \in ExiMsgTypes, s \in SchemaIds}
============================================================================
