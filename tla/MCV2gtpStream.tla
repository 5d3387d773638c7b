--------------------------- MODULE MCV2gtpStream ---------------------------
(* Payload sets for the runs of V2gtpStream.  Sizes count the header, which *)
(* is 2 bytes long in every run.                                            *)
EXTENDS V2gtpStream

Exi(m, n) ==
  [payload_type |-> "EXI", size |-> n, msg |-> m, apps |-> <<>>]

Other(n) ==
  [payload_type |-> "OTHER", size |-> n, msg |-> "UNKNOWN", apps |-> <<>>]

AppReq(n, apps) ==
  [payload_type |-> "EXI", size |-> n, msg |-> "SupportedAppProtocol", apps |-> apps]

Entry(schema, priority) == [schema |-> schema, priority |-> priority]

(* Short and long messages, an empty EXI payload, an unsupported payload    *)
(* type, two negotiations that must not be mixed up, and answerable         *)
(* requests that the router sends to different states, ERROR among them.    *)
MixedPayloads ==
  {AppReq(4, <<Entry(7, 2), Entry(3, 1)>>), AppReq(3, <<>>),
   Exi("ServiceDetail", 3), Exi("Authorization", 4), Exi("SessionStop", 3),
   Exi("UNKNOWN", 2), Other(2), Other(5)}

(* Every order of priorities of up to three entries, ties included. *)
NegotiationPayloads ==
  {AppReq(3, <<Entry(1, a), Entry(2, b), Entry(3, c)>>) : a, b, c \in 1..3}
    \cup {AppReq(3, <<Entry(5, a), Entry(6, b)>>) : a, b \in {1, 255}}
    \cup {AppReq(3, <<>>), Exi("SessionSetup", 3)}

(* One message of each type of the DC EIM sequence, and ServiceDetail. *)
SequencePayloads == {Exi(m, 3) : m \in ExiMsgTypes}

(* Both: negotiations before, after and without other requests. *)
AnswerPayloads == NegotiationPayloads \cup SequencePayloads

(* Messages up to the size of the buffer itself. *)
LockstepPayloads == {Exi("CurrentDemand", 5), Exi("SessionStop", 3), Other(4), Other(2)}
============================================================================
