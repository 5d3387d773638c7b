------------------------------ MODULE LogQueue ------------------------------
(***************************************************************************)
(* What the structured log promises its callers, with no ring, mutex or    *)
(* file in it: a queue of at most Capacity entries; a new entry drops the  *)
(* oldest one when the queue is full; a reader gets, in one instant, the   *)
(* oldest entries of the queue.                                            *)
(***************************************************************************)
EXTENDS Naturals, Sequences

CONSTANTS
  Callers,   \* the threads that read the log
  Entries,   \* what may be logged
  Capacity   \* entries the log keeps

VARIABLES
  queue,     \* the entries kept, the oldest first
  got        \* what each reader has been given and not yet returned with
vars == <<queue, got>>

Init == queue = <<>> /\ got = [c \in Callers |-> <<>>]

Add(e) ==
  /\ queue' = IF Len(queue) < Capacity THEN Append(queue, e)
                                       ELSE Append(Tail(queue), e)
  /\ UNCHANGED got

Give(c, n) ==
  /\ got' = [got EXCEPT ![c] = [i \in 1..n |-> queue[i]]]
  /\ UNCHANGED queue

Taken(c) == got' = [got EXCEPT ![c] = <<>>] /\ UNCHANGED queue

(* A new session of the log begins with an empty queue. *)
Restart == queue' = <<>> /\ UNCHANGED got

Next ==
  \/ \E e \in Entries : Add(e)
  \/ \E c \in Callers : Taken(c) \/ \E n \in 0..Len(queue) : Give(c, n)
  \/ Restart

Spec == Init /\ [][Next]_vars
=============================================================================
