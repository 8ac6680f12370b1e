-------------------------------- MODULE Breaker --------------------------------
(***************************************************************************)
(* The circuit breaker as the docstring of services/gateway/               *)
(* circuit_breaker.py describes it: requests pass while it is closed, fail *)
(* at once while it is open, and an open circuit is tested again after a   *)
(* while.  Gateway refines it: counters, clock and callers are hidden.     *)
(***************************************************************************)

VARIABLE circuit

Init == circuit = "closed"

Trip ==
  /\ circuit = "closed"
  /\ circuit' = "open"

\* The timeout since the last failure has elapsed.
Elapse ==
  /\ circuit = "open"
  /\ circuit' = "half_open"

Reopen ==
  /\ circuit = "half_open"
  /\ circuit' = "open"

Recover ==
  /\ circuit = "half_open"
  /\ circuit' = "closed"

Next == Trip \/ Elapse \/ Reopen \/ Recover

Safety == Init /\ [][Next]_circuit

\* No circuit stays open for ever: the service is always tried again.
Spec == Safety /\ WF_circuit(Elapse)

================================================================================
