------------------------------- MODULE MCSlac -------------------------------
(***************************************************************************)
(* The liveness run of Slac: a behaviour is either on a timely line, where *)
(* every station hears the EVs, or on an arbitrary one, which delays,      *)
(* reorders and loses, and where (a bound) one station hears them.  Which  *)
(* line it is, is chosen at the start.                                     *)
(***************************************************************************)
EXTENDS Slac

VARIABLE timely
lineVars == <<slacVars, timely>>

Hearing == IF timely THEN EVSEs ELSE {CHOOSE s \in EVSEs : TRUE}

LineEv(e) ==
  /\ IF timely THEN TimelyEv(e) ELSE EvStep(e) \/ EvTimeouts(e)
  /\ UNCHANGED timely

LineEvse(s) ==
  /\ IF timely THEN TimelyEvse(s) ELSE EvseStep(s) \/ EvseTimeouts(s)
  /\ UNCHANGED timely

LineLoses ==
  /\ \E f \in net :
       /\ f.to \in EVs \cup Hearing
       /\ timely => f.type = "PARM_REQ" /\ f.info < C_EV_MATCH_RETRY - 1
       /\ Lose(f)
  /\ UNCHANGED timely

SendFails ==
  /\ ~timely
  /\ \E e \in EVs : EvSendParmReqFails(e)
  /\ UNCHANGED timely

LineNext ==
  \/ \E e \in EVs : LineEv(e)
  \/ \E s \in Hearing : LineEvse(s)
  \/ LineLoses
  \/ SendFails

LineSpec ==
  /\ SlacInit /\ timely \in BOOLEAN
  /\ [][LineNext]_lineVars
  /\ \A e \in EVs : WF_lineVars(LineEv(e))
  /\ \A s \in EVSEs : WF_lineVars(s \in Hearing /\ LineEvse(s))

(* The retries do what they are for: on a timely line that loses requests, *)
(* but not the last try, an EV is matched (ev_step's count of retries).    *)
LostRequestsSurvivedInTime == timely => LostRequestsSurvived
=============================================================================
