---------------------------- MODULE SlacMatching ----------------------------
(***************************************************************************)
(* What SLAC matching promises, without frames, timers or states: an EV    *)
(* settles on one station, no two EVs on the same one; a station grants a  *)
(* network key once, to an EV that has settled on it; an EV joins with the *)
(* key its own station granted it.  Nothing has to happen: either side may *)
(* give up at any point, and a granted key may never be taken up.          *)
(***************************************************************************)
CONSTANTS EVs, EVSEs, Keys

VARIABLES
  chosen,    \* pairs <<ev, evse>>
  granted,   \* triples <<evse, ev, key>>
  joined     \* pairs <<ev, key>>
vars == <<chosen, granted, joined>>

Init == chosen = {} /\ granted = {} /\ joined = {}

Choose(e, s) ==
  /\ \A c \in chosen : c[1] # e /\ c[2] # s
  /\ chosen' = chosen \cup {<<e, s>>}
  /\ UNCHANGED <<granted, joined>>

Grant(s, e, k) ==
  /\ <<e, s>> \in chosen
  /\ \A g \in granted : g[1] # s
  /\ granted' = granted \cup {<<s, e, k>>}
  /\ UNCHANGED <<chosen, joined>>

Join(s, e, k) ==
  /\ <<s, e, k>> \in granted
  /\ \A j \in joined : j[1] # e
  /\ joined' = joined \cup {<<e, k>>}
  /\ UNCHANGED <<chosen, granted>>

Next ==
  \E e \in EVs, s \in EVSEs :
    Choose(e, s) \/ \E k \in Keys : Grant(s, e, k) \/ Join(s, e, k)

Spec == Init /\ [][Next]_vars
============================================================================
