-------------------------------- MODULE Gateway --------------------------------
(***************************************************************************)
(* The bot's client of the remote assistant: GatewayClient._request with   *)
(* its circuit breaker and its retries, and the requests that              *)
(* AICommunicationService makes through it or, when it fails, past it.     *)
(*                                                                         *)
(* One breaker is shared by all requests to one server.  A caller is a     *)
(* coroutine; it gives up the event loop wherever it waits: for a reply    *)
(* (trying), between attempts (waiting), for the local history server      *)
(* (local) and for a request that bypasses the gateway (legacy).           *)
(***************************************************************************)
EXTENDS Integers

CONSTANTS
  Callers,           \* coroutines
  FailureThreshold,  \* consecutive failures that open the circuit (5)
  SuccessThreshold,  \* successes that close it again (2)
  Timeout,           \* ticks after which an open circuit is tried again (30 s)
  MaxAttempts        \* attempts of one request (3)

ASSUME GatewayAssumption ==
  /\ FailureThreshold \in Nat \ {0}
  /\ SuccessThreshold \in Nat \ {0}
  /\ Timeout \in Nat \ {0}
  /\ MaxAttempts \in Nat \ {0}

VARIABLES
  breaker,  \* counters of the breaker, its flag and the age of its last failure
  request   \* request[c]: what caller c is doing, or how its last request ended

gatewayVars == <<breaker, request>>

\* A semantic search is treated like an answer.
Kinds == {"answer", "gift", "brewing", "history"}

\* How a request ended for the customer.
Outcomes == {"result", "notice", "raised"}

AtRest == {"idle"} \cup Outcomes

Busy == {"local", "trying", "waiting", "legacy"}

--------------------------------------------------------------------------------
\* The breaker.  Its flag is open or closed; half-open is an open flag whose
\* last failure is old enough.

AtMost(n, bound) == IF n > bound THEN bound ELSE n

Circuit(b) ==
  IF ~b.open THEN "closed" ELSE IF b.age >= Timeout THEN "half_open" ELSE "open"

\* Deliberate bug: any success closes the circuit, also one of a request that
\* was sent before it opened.
ClosesAtOnce(b) == [b EXCEPT !.failures = 0, !.open = FALSE]

\* Deliberate bug: the closing success leaves the failures counted.
KeepsFailures(b) ==
  LET n == AtMost(b.successes + 1, SuccessThreshold)
  IN IF Circuit(b) # "half_open"
     THEN [b EXCEPT !.failures = 0]
     ELSE [b EXCEPT !.successes = n, !.open = n < SuccessThreshold]

\* Deliberate bug: a success that does not close the circuit counts for nothing.
StartsOver(b) ==
  IF Circuit(b) = "half_open" /\ b.successes + 1 > SuccessThreshold
  THEN [b EXCEPT !.failures = 0, !.open = FALSE]
  ELSE [b EXCEPT !.failures = 0]

\* The successes are never reset: later recoveries need fewer of them.
Succeeded(b) ==
  IF Circuit(b) # "half_open"
  THEN [b EXCEPT !.failures = 0]
  ELSE LET n == b.successes + 1
       IN [failures |-> 0, successes |-> AtMost(n, SuccessThreshold),
           open |-> n < SuccessThreshold, age |-> b.age]

\* The clock is set before the state is read, so the branch that opens a
\* half-open circuit is dead: the young failure alone has reopened it.
Failed(b) ==
  LET n == b.failures + 1
  IN [failures |-> AtMost(n, FailureThreshold), successes |-> b.successes,
      open |-> IF n >= FailureThreshold THEN TRUE ELSE b.open, age |-> 0]

--------------------------------------------------------------------------------
\* What AICommunicationService makes of the end of a request: "legacy" is a
\* second request outside the gateway, "notice" a text that says there is no
\* answer (or an empty list), "raised" an exception that leaves the service.

AfterGateway(kind, end) ==
  CASE end = "ok"       -> "result"
    [] end = "accepted" -> CASE kind = "answer" -> "result"
                             [] kind = "history" -> "legacy"
                             [] OTHER -> "notice"
    [] end = "open"     -> IF kind = "answer" THEN "notice" ELSE "legacy"
    [] end = "failed"   -> IF kind \in {"brewing", "history"} THEN "legacy" ELSE "raised"
    [] end = "garbled"  -> "raised"

AfterLegacy(kind, end) ==
  CASE end = "ok"       -> "result"
    [] end = "accepted" -> "notice"
    [] end = "failed"   -> IF kind = "history" THEN "notice" ELSE "raised"
    [] end = "garbled"  -> "raised"

Resting(result) == [stage |-> result, kind |-> "answer", attempt |-> 0]

\* What caller c does when the gateway is done with its request.
Concluded(kind, end) ==
  LET then == AfterGateway(kind, end)
  IN IF then = "legacy"
     THEN [stage |-> "legacy", kind |-> kind, attempt |-> 0]
     ELSE Resting(then)

\* The breaker lets a request in, or it fails at once.
Entered(kind) ==
  IF Circuit(breaker) = "open"
  THEN Concluded(kind, "open")
  ELSE [stage |-> "trying", kind |-> kind, attempt |-> 1]

--------------------------------------------------------------------------------

GatewayInit ==
  /\ breaker = [failures |-> 0, successes |-> 0, open |-> FALSE, age |-> Timeout]
  /\ request = [c \in Callers |-> Resting("idle")]

\* A customer asks for an answer, a search, greetings or a recipe.
Ask(c, kind) ==
  /\ request[c].stage \in AtRest
  /\ kind # "history"
  /\ request' = [request EXCEPT ![c] = Entered(kind)]
  /\ UNCHANGED breaker

\* The history is asked of a local server first.
AskHistory(c) ==
  /\ request[c].stage \in AtRest
  /\ request' = [request EXCEPT ![c] = [stage |-> "local", kind |-> "history", attempt |-> 0]]
  /\ UNCHANGED breaker

\* The local server answers; a body that is not JSON is an exception nobody
\* expects.
LocalAnswers(c) ==
  /\ request[c].stage = "local"
  /\ \E result \in {"result", "raised"} : request' = [request EXCEPT ![c] = Resting(result)]
  /\ UNCHANGED breaker

LocalFails(c) ==
  /\ request[c].stage = "local"
  /\ request' = [request EXCEPT ![c] = Entered("history")]
  /\ UNCHANGED breaker

\* A 2xx reply: the breaker counts it before its body is read.
Replied(c) ==
  /\ request[c].stage = "trying"
  /\ breaker' = Succeeded(breaker)
  /\ \E end \in {"ok", "accepted", "garbled"} :
       request' = [request EXCEPT ![c] = Concluded(@.kind, end)]

\* A 4xx reply or an error that is not retried.  raise_for_status raises
\* inside the breaker, so that a 4xx counts as a failure of the server.
Refused(c) ==
  /\ request[c].stage = "trying"
  /\ breaker' = Failed(breaker)
  /\ request' = [request EXCEPT ![c] = Concluded(@.kind, "failed")]

\* Deliberate bug: an attempt that will be retried is not counted as one.
RetriesForEver(c) ==
  /\ request[c].stage = "trying"
  /\ request' = [request EXCEPT ![c].stage = "waiting"]
  /\ UNCHANGED breaker

\* Deliberate bug: the last attempt is followed by another.
OneMoreAttempt(c) ==
  /\ request[c].stage = "trying"
  /\ IF request[c].attempt <= MaxAttempts
     THEN /\ request' = [request EXCEPT ![c] = [stage |-> "waiting", kind |-> @.kind,
                                              attempt |-> @.attempt + 1]]
          /\ UNCHANGED breaker
     ELSE /\ breaker' = Failed(breaker)
          /\ request' = [request EXCEPT ![c] = Concluded(@.kind, "failed")]

\* A timeout, a broken connection, a 429 or a 5xx: waited out and tried again
\* until the attempts are spent.  The retries are inside the breaker.
Unavailable(c) ==
  /\ request[c].stage = "trying"
  /\ IF request[c].attempt < MaxAttempts
     THEN /\ request' = [request EXCEPT ![c] = [stage |-> "waiting", kind |-> @.kind,
                                              attempt |-> @.attempt + 1]]
          /\ UNCHANGED breaker
     ELSE /\ breaker' = Failed(breaker)
          /\ request' = [request EXCEPT ![c] = Concluded(@.kind, "failed")]

\* The delay is over.  The circuit is not looked at again.
TryAgain(c) ==
  /\ request[c].stage = "waiting"
  /\ request' = [request EXCEPT ![c].stage = "trying"]
  /\ UNCHANGED breaker

\* The request past the gateway ends; the breaker hears nothing of it.
LegacyEnds(c) ==
  /\ request[c].stage = "legacy"
  /\ \E end \in {"ok", "accepted", "failed", "garbled"} :
       request' = [request EXCEPT ![c] = Resting(AfterLegacy(@.kind, end))]
  /\ UNCHANGED breaker

Tick ==
  /\ breaker.age < Timeout
  /\ breaker' = [breaker EXCEPT !.age = @ + 1]
  /\ UNCHANGED request

\* The steps of a request under way.
Proceed(c) ==
  \/ LocalAnswers(c) \/ LocalFails(c)
  \/ Replied(c) \/ Refused(c) \/ Unavailable(c)
  \/ TryAgain(c) \/ LegacyEnds(c)

GatewayNext ==
  \/ \E c \in Callers : \/ \E kind \in Kinds : Ask(c, kind)
                        \/ AskHistory(c)
                        \/ Proceed(c)
  \/ Tick

GatewaySpec == GatewayInit /\ [][GatewayNext]_gatewayVars

--------------------------------------------------------------------------------
\* Properties.

\* Every variable has its type; the counters stay within their thresholds.
GatewayTypeOK ==
  /\ breaker \in [failures : 0 .. FailureThreshold, successes : 0 .. SuccessThreshold,
                  open : BOOLEAN, age : 0 .. Timeout]
  /\ request \in [Callers -> [stage : AtRest \cup Busy, kind : Kinds, attempt : 0 .. MaxAttempts]]

\* A closed circuit has not seen as many failures in a row as open it, however
\* the requests that were sent before it opened or closed end.
ClosedBelowThreshold == ~breaker.open => breaker.failures < FailureThreshold

\* The counters, the clock and the concurrent callers make up the circuit
\* breaker that the docstring describes: every step is one of its steps or
\* none, and an open circuit is tried again.
AbstractBreaker == INSTANCE Breaker WITH circuit <- Circuit(breaker)
CircuitBreaks == AbstractBreaker!Spec

\* An attempt of c ends, and its request with it.
Ends(c) ==
  /\ request[c].stage = "trying"
  /\ request'[c].stage \notin {"trying", "waiting"}

\* Once the server no longer fails and keeps being asked, the circuit closes
\* and stays closed.
GatewayRecovers ==
  (/\ <>[](breaker.age = Timeout)
   /\ \E c \in Callers : []<><<Ends(c)>>_gatewayVars)
  => <>[](~breaker.open)

\* Every request ends: with a result, a notice or an exception.
RequestsEnd == \A c \in Callers : request[c].stage \in Busy ~> request[c].stage \in AtRest

================================================================================
