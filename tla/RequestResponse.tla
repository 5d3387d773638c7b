-------------------------- MODULE RequestResponse --------------------------
(***************************************************************************)
(* What the V2G message loop promises its EV, with no bytes, buffers or    *)
(* decoder state in it: requests are dealt with one at a time in the order *)
(* they were sent; each that calls for a response gets exactly one, which  *)
(* depends on that request alone; the server may stop at any moment, and   *)
(* then deals with nothing more.                                           *)
(***************************************************************************)
EXTENDS Naturals, Sequences

CONSTANTS
  Requests,      \* what the EV may send
  Expects(_),    \* whether a request calls for a response
  Doc(_),        \* the response it calls for
  Answerable(_), \* whether the server is able to produce it
  Limit,         \* bound: requests in a behaviour
  Outstanding    \* requests the EV may have outstanding

VARIABLES asked, served, answers, open
vars == <<asked, served, answers, open>>

Init == asked = <<>> /\ served = 0 /\ answers = <<>> /\ open = TRUE

Ask(r) ==
  /\ Len(asked) < Limit
  /\ Len(asked) - served < Outstanding
  /\ asked' = Append(asked, r)
  /\ UNCHANGED <<served, answers, open>>

Pass ==
  /\ open /\ served < Len(asked)
  /\ ~Expects(asked[served + 1])
  /\ served' = served + 1
  /\ UNCHANGED <<asked, answers, open>>

Answer ==
  /\ open /\ served < Len(asked)
  /\ Expects(asked[served + 1]) /\ Answerable(asked[served + 1])
  /\ answers' = Append(answers, [req |-> served + 1,
                                 doc |-> Doc(asked[served + 1])])
  /\ served' = served + 1
  /\ UNCHANGED <<asked, open>>

Stop ==
  /\ open
  /\ open' = FALSE
  /\ UNCHANGED <<asked, served, answers>>

Next == (\E r \in Requests : Ask(r)) \/ Pass \/ Answer \/ Stop

Spec == Init /\ [][Next]_vars
============================================================================
