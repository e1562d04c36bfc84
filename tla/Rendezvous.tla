----------------------------- MODULE Rendezvous -----------------------------
(***************************************************************************)
(* What the parallel kernels need from their barrier: a worker that came   *)
(* to its k-th meeting goes on only after every worker came to its k-th.   *)
(***************************************************************************)
EXTENDS Naturals

CONSTANT Workers

VARIABLES
  arrivals,   \* how many meetings each worker has come to
  inside      \* whether it is still waiting at the last of them

vars == <<arrivals, inside>>

Init ==
  /\ arrivals = [w \in Workers |-> 0]
  /\ inside = [w \in Workers |-> FALSE]

Come(w) ==
  /\ ~inside[w]
  /\ arrivals' = [arrivals EXCEPT ![w] = arrivals[w] + 1]
  /\ inside' = [inside EXCEPT ![w] = TRUE]

GoOn(w) ==
  /\ inside[w]
  /\ \A v \in Workers : arrivals[v] >= arrivals[w]
  /\ inside' = [inside EXCEPT ![w] = FALSE]
  /\ UNCHANGED arrivals

Next == \E w \in Workers : Come(w) \/ GoOn(w)

Spec == Init /\ [][Next]_vars
=============================================================================
