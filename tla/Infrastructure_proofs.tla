------------------------- MODULE Infrastructure_proofs -------------------------
(***************************************************************************)
(* What holds of the parts below the bot for any number of callers, pods,  *)
(* events and requests and any thresholds: the gateway's client refines    *)
(* the breaker of its docstring, a stale copy has a bounded age, a key has *)
(* one effect each time it is remembered, and no dead letter is lost.      *)
(***************************************************************************)
EXTENDS Gateway, ConfigCache, Idempotency, DeadLetters, Filtering_proofs, FiniteSetTheorems

--------------------------------------------------------------------------------
\* Gateway.

USE GatewayAssumption

\* The counters of the breaker.
Breakers == [failures : 0 .. FailureThreshold, successes : 0 .. SuccessThreshold,
             open : BOOLEAN, age : 0 .. Timeout]

Requests == [stage : AtRest \cup Busy, kind : Kinds, attempt : 0 .. MaxAttempts]

Ends4 == {"ok", "accepted", "failed", "garbled"}

\* A success keeps the counters within their thresholds.
LEMMA SucceededType == ASSUME NEW b \in Breakers PROVE Succeeded(b) \in Breakers
<1> DEFINE n == b.successes + 1
<1>1. AtMost(n, SuccessThreshold) \in 0 .. SuccessThreshold
  BY DEF AtMost, Breakers
<1>2. CASE Circuit(b) # "half_open"
  BY <1>2 DEF Succeeded, Breakers
<1>3. CASE Circuit(b) = "half_open"
  <2> DEFINE shut == n < SuccessThreshold
             m == AtMost(n, SuccessThreshold)
  <2>1. Succeeded(b) = [failures |-> 0, successes |-> m, open |-> shut, age |-> b.age]
    BY <1>3 DEF Succeeded
  <2>2. shut \in BOOLEAN /\ m \in 0 .. SuccessThreshold
    BY <1>1
  <2> HIDE DEF shut, m
  <2> QED
    BY <2>1, <2>2 DEF Breakers
<1> QED
  BY <1>2, <1>3

\* A failure does, too.
LEMMA FailedType == ASSUME NEW b \in Breakers PROVE Failed(b) \in Breakers
<1>1. AtMost(b.failures + 1, FailureThreshold) \in 0 .. FailureThreshold
  BY DEF AtMost, Breakers
<1> DEFINE m == AtMost(b.failures + 1, FailureThreshold)
           opens == IF b.failures + 1 >= FailureThreshold THEN TRUE ELSE b.open
<1>2. Failed(b) = [failures |-> m, successes |-> b.successes, open |-> opens, age |-> 0]
  BY DEF Failed
<1>3. opens \in BOOLEAN /\ m \in 0 .. FailureThreshold
  BY <1>1 DEF Breakers
<1> HIDE DEF opens, m
<1> QED
  BY <1>2, <1>3 DEF Breakers

\* What becomes of a request whose gateway call ended.
LEMMA ConcludedType ==
  ASSUME NEW kind \in Kinds, NEW end \in Ends4 \cup {"open"}
  PROVE  Concluded(kind, end) \in Requests
<1>1. AfterGateway(kind, end) \in Outcomes \cup {"legacy"}
  BY DEF AfterGateway, Outcomes, Kinds, Ends4
<1>2. CASE AfterGateway(kind, end) = "legacy"
  BY <1>2 DEF Concluded, Requests, Busy
<1>3. CASE AfterGateway(kind, end) # "legacy"
  BY <1>1, <1>3 DEF Concluded, Requests, Resting, AtRest, Kinds
<1> QED
  BY <1>2, <1>3

LEMMA EnteredType == ASSUME NEW kind \in Kinds PROVE Entered(kind) \in Requests
<1>1. CASE Circuit(breaker) = "open"
  BY <1>1, ConcludedType DEF Entered
<1>2. CASE Circuit(breaker) # "open"
  BY <1>2 DEF Entered, Requests, Busy
<1> QED
  BY <1>1, <1>2

LEMMA LegacyType ==
  ASSUME NEW kind \in Kinds, NEW end \in Ends4
  PROVE  Resting(AfterLegacy(kind, end)) \in Requests
<1>1. AfterLegacy(kind, end) \in Outcomes
  BY DEF AfterLegacy, Outcomes, Ends4
<1> QED
  BY <1>1 DEF Resting, Requests, AtRest, Kinds

LEMMA TypeForm == GatewayTypeOK <=> breaker \in Breakers /\ request \in [Callers -> Requests]
  BY DEF GatewayTypeOK, Breakers, Requests

LEMMA InitTypes == GatewayInit => GatewayTypeOK
  BY DEF GatewayInit, GatewayTypeOK, Resting, AtRest, Kinds

LEMMA NextTypes == GatewayTypeOK /\ [GatewayNext]_gatewayVars => GatewayTypeOK'
<1> SUFFICES ASSUME breaker \in Breakers, request \in [Callers -> Requests],
                    [GatewayNext]_gatewayVars
             PROVE  breaker' \in Breakers /\ request' \in [Callers -> Requests]
  BY TypeForm DEF GatewayTypeOK, Breakers, Requests
<1> DEFINE Goal == breaker' \in Breakers /\ request' \in [Callers -> Requests]
<1>0. \A c \in Callers : request[c].kind \in Kinds /\ request[c] \in Requests
  BY DEF Requests
<1>1. ASSUME NEW c \in Callers, NEW kind \in Kinds, Ask(c, kind) PROVE Goal
  BY <1>1, EnteredType DEF Ask
<1>2. ASSUME NEW c \in Callers, AskHistory(c) PROVE Goal
  BY <1>2 DEF AskHistory, Requests, Busy, Kinds
<1>3. ASSUME NEW c \in Callers, LocalAnswers(c) PROVE Goal
  BY <1>3 DEF LocalAnswers, Resting, Requests, AtRest, Outcomes, Kinds
<1>4. ASSUME NEW c \in Callers, LocalFails(c) PROVE Goal
  BY <1>4, EnteredType DEF LocalFails, Kinds
<1>5. ASSUME NEW c \in Callers, Replied(c) PROVE Goal
  BY <1>0, <1>5, SucceededType, ConcludedType DEF Replied, Ends4
<1>6. ASSUME NEW c \in Callers, Refused(c) PROVE Goal
  BY <1>0, <1>6, FailedType, ConcludedType DEF Refused, Ends4
<1>7. ASSUME NEW c \in Callers, Unavailable(c) PROVE Goal
  <2>1. CASE request[c].attempt < MaxAttempts
    BY <1>0, <1>7, <2>1 DEF Unavailable, Requests, Busy
  <2>2. CASE ~(request[c].attempt < MaxAttempts)
    BY <1>0, <1>7, <2>2, FailedType, ConcludedType DEF Unavailable, Ends4
  <2> QED
    BY <2>1, <2>2
<1>8. ASSUME NEW c \in Callers, TryAgain(c) PROVE Goal
  BY <1>0, <1>8 DEF TryAgain, Requests, Busy
<1>9. ASSUME NEW c \in Callers, LegacyEnds(c) PROVE Goal
  BY <1>0, <1>9, LegacyType DEF LegacyEnds, Ends4
<1>10. ASSUME Tick PROVE Goal
  BY <1>10 DEF Tick, Breakers
<1>11. CASE UNCHANGED gatewayVars
  BY <1>11 DEF gatewayVars
<1> QED
  BY <1>1, <1>2, <1>3, <1>4, <1>5, <1>6, <1>7, <1>8, <1>9, <1>10, <1>11
     DEF GatewayNext, Proceed

\* Every reachable state has its types: no counter leaves its bounds.
THEOREM GatewayTypes == GatewaySpec => []GatewayTypeOK
<1> QED
  BY InitTypes, NextTypes, PTL DEF GatewaySpec

\* What a step can do to the breaker.
LEMMA BreakerSteps ==
  ASSUME [GatewayNext]_gatewayVars
  PROVE  \/ breaker' = breaker
         \/ breaker' = Succeeded(breaker)
         \/ breaker' = Failed(breaker)
         \/ breaker.age < Timeout /\ breaker' = [breaker EXCEPT !.age = @ + 1]
<1>1. ASSUME NEW c \in Callers, Unavailable(c)
      PROVE  breaker' = breaker \/ breaker' = Failed(breaker)
  BY <1>1 DEF Unavailable
<1> QED
  BY <1>1 DEF GatewayNext, Proceed, Ask, AskHistory, LocalAnswers, LocalFails, Replied,
              Refused, TryAgain, LegacyEnds, Tick, gatewayVars

LEMMA InitThreshold == GatewayInit => ClosedBelowThreshold
  BY DEF GatewayInit, ClosedBelowThreshold

LEMMA NextThreshold ==
  ASSUME GatewayTypeOK, ClosedBelowThreshold, [GatewayNext]_gatewayVars
  PROVE  ClosedBelowThreshold'
<1>0. breaker \in Breakers
  BY TypeForm
<1>1. CASE breaker' = breaker
  BY <1>1 DEF ClosedBelowThreshold
<1>2. CASE breaker' = Succeeded(breaker)
  <2>1. breaker'.failures = 0
    BY <1>0, <1>2 DEF Succeeded, Breakers
  <2> QED
    BY <2>1 DEF ClosedBelowThreshold
<1>3. CASE breaker' = Failed(breaker)
  <2>1. breaker'.failures = AtMost(breaker.failures + 1, FailureThreshold)
    BY <1>0, <1>3 DEF Failed, Breakers
  <2>2. breaker'.open = IF breaker.failures + 1 >= FailureThreshold THEN TRUE ELSE breaker.open
    BY <1>0, <1>3 DEF Failed, Breakers
  <2> QED
    BY <1>0, <2>1, <2>2 DEF ClosedBelowThreshold, AtMost, Breakers
<1>4. CASE breaker.age < Timeout /\ breaker' = [breaker EXCEPT !.age = @ + 1]
  BY <1>0, <1>4 DEF ClosedBelowThreshold, Breakers
<1> QED
  BY <1>1, <1>2, <1>3, <1>4, BreakerSteps

\* A closed circuit never carries as many failures as open it.
THEOREM ThresholdKept == GatewaySpec => []ClosedBelowThreshold
<1>1. GatewayTypeOK /\ ClosedBelowThreshold /\ [GatewayNext]_gatewayVars
      => ClosedBelowThreshold'
  BY NextThreshold
<1> QED
  BY <1>1, InitThreshold, GatewayTypes, PTL DEF GatewaySpec

\* Every step of the counters is a step of the three-state breaker, or none:
\* requests that were sent before the circuit opened cannot close it, and
\* only the clock half-opens it.
THEOREM BreakerRefined == GatewaySpec => AbstractBreaker!Safety
<1>1. GatewayInit => AbstractBreaker!Init
  <2>1. GatewayInit => ~breaker.open
    BY DEF GatewayInit
  <2> QED
    BY <2>1 DEF AbstractBreaker!Init, Circuit
<1>2. GatewayTypeOK /\ [GatewayNext]_gatewayVars
      => [AbstractBreaker!Next]_(Circuit(breaker))
  <2> SUFFICES ASSUME breaker \in Breakers, [GatewayNext]_gatewayVars,
                      Circuit(breaker)' # Circuit(breaker)
               PROVE  AbstractBreaker!Next
    BY TypeForm
  <2>1. CASE breaker' = breaker
    BY <2>1 DEF Circuit
  <2>2. CASE breaker' = Succeeded(breaker)
    <3>1. CASE Circuit(breaker) = "half_open"
      <4>1. breaker'.age = breaker.age /\ breaker'.open \in BOOLEAN
        BY <2>2, <3>1, SucceededType DEF Succeeded, Breakers
      <4> QED
        BY <3>1, <4>1 DEF Circuit, AbstractBreaker!Next, AbstractBreaker!Recover, Breakers
    <3>2. CASE Circuit(breaker) # "half_open"
      BY <2>2, <3>2 DEF Circuit, Succeeded, Breakers
    <3> QED
      BY <3>1, <3>2
  <2>3. CASE breaker' = Failed(breaker)
    <3>1. breaker'.age = 0 /\ breaker'.open \in BOOLEAN /\ (breaker.open => breaker'.open)
      BY <2>3 DEF Failed, Breakers
    <3> QED
      BY <3>1 DEF Circuit, AbstractBreaker!Next, AbstractBreaker!Trip,
                  AbstractBreaker!Reopen, Breakers
  <2>4. CASE breaker.age < Timeout /\ breaker' = [breaker EXCEPT !.age = @ + 1]
    BY <2>4 DEF Circuit, AbstractBreaker!Next, AbstractBreaker!Elapse, Breakers
  <2> QED
    BY <2>1, <2>2, <2>3, <2>4, BreakerSteps
<1> QED
  BY <1>1, <1>2, GatewayTypes, PTL DEF GatewaySpec, AbstractBreaker!Safety

\* What a request has before it at most: attempts and the waits between them,
\* and the one request past the gateway.
Left(r) ==
  IF r.stage = "local" THEN 2 * MaxAttempts + 1
  ELSE IF r.stage = "waiting" THEN 2 * (MaxAttempts - r.attempt) + 3
  ELSE IF r.stage = "trying" THEN 2 * (MaxAttempts - r.attempt) + 2
  ELSE IF r.stage = "legacy" THEN 1
  ELSE 0

LEMMA LeftType == ASSUME NEW r \in Requests PROVE Left(r) \in Nat
  BY DEF Left, Requests

\* The gateway is done with a request: at most the request past it is left.
LEMMA ConcludedLeft ==
  ASSUME NEW kind \in Kinds, NEW end \in Ends4 \cup {"open"}
  PROVE  Left(Concluded(kind, end)) \in 0 .. 1
<1>1. AfterGateway(kind, end) \in Outcomes \cup {"legacy"}
  BY DEF AfterGateway, Outcomes, Kinds, Ends4
<1>2. CASE AfterGateway(kind, end) = "legacy"
  BY <1>2 DEF Concluded, Left
<1>3. CASE AfterGateway(kind, end) # "legacy"
  BY <1>1, <1>3 DEF Concluded, Left, Resting, Outcomes
<1> QED
  BY <1>2, <1>3

LEMMA EnteredLeft ==
  ASSUME NEW kind \in Kinds PROVE Left(Entered(kind)) \in 0 .. 2 * MaxAttempts
<1>1. CASE Circuit(breaker) = "open"
  BY <1>1, ConcludedLeft DEF Entered
<1>2. CASE Circuit(breaker) # "open"
  BY <1>2 DEF Entered, Left
<1> QED
  BY <1>1, <1>2

\* A request under way that takes a step comes nearer to its end.
LEMMA ProceedLeft ==
  ASSUME NEW c \in Callers, request \in [Callers -> Requests], Proceed(c)
  PROVE  Left(request'[c]) < Left(request[c])
<1> DEFINE r == request[c]
           s == request'[c]
           Nearer == Left(s) < Left(r)
<1>0. r \in Requests /\ r.kind \in Kinds /\ r.attempt \in 0 .. MaxAttempts
  BY DEF Requests
<1>1. ASSUME LocalAnswers(c) PROVE Nearer
  BY <1>1 DEF LocalAnswers, Left, Resting
<1>2. ASSUME LocalFails(c) PROVE Nearer
  <2>1. s = Entered("history") /\ Left(r) = 2 * MaxAttempts + 1
    BY <1>2 DEF LocalFails, Left
  <2>2. Left(s) \in 0 .. 2 * MaxAttempts
    BY <2>1, EnteredLeft DEF Kinds
  <2> QED
    BY <2>1, <2>2
<1>3. ASSUME r.stage = "trying", NEW end \in Ends4, s = Concluded(r.kind, end) PROVE Nearer
  <2>1. Left(s) \in 0 .. 1
    BY <1>0, <1>3, ConcludedLeft
  <2>2. Left(r) = 2 * (MaxAttempts - r.attempt) + 2
    BY <1>3 DEF Left
  <2> QED
    BY <1>0, <2>1, <2>2
<1>4. ASSUME Replied(c) PROVE Nearer
  BY <1>3, <1>4 DEF Replied, Ends4
<1>5. ASSUME Refused(c) PROVE Nearer
  BY <1>3, <1>5 DEF Refused, Ends4
<1>6. ASSUME Unavailable(c) PROVE Nearer
  <2>1. CASE r.attempt < MaxAttempts
    <3>1. /\ r.stage = "trying"
          /\ s = [stage |-> "waiting", kind |-> r.kind, attempt |-> r.attempt + 1]
      BY <1>6, <2>1 DEF Unavailable
    <3> QED
      BY <1>0, <3>1 DEF Left
  <2>2. CASE ~(r.attempt < MaxAttempts)
    BY <1>3, <1>6, <2>2 DEF Unavailable, Ends4
  <2> QED
    BY <2>1, <2>2
<1>7. ASSUME TryAgain(c) PROVE Nearer
  <2>1. r.stage = "waiting" /\ s.stage = "trying" /\ s.attempt = r.attempt
    BY <1>0, <1>7 DEF TryAgain, Requests
  <2> QED
    BY <1>0, <2>1 DEF Left
<1>8. ASSUME LegacyEnds(c) PROVE Nearer
  <2>1. PICK end \in Ends4 : s = Resting(AfterLegacy(r.kind, end))
    BY <1>8 DEF LegacyEnds, Ends4
  <2>2. AfterLegacy(r.kind, end) \in Outcomes
    BY DEF AfterLegacy, Outcomes, Ends4
  <2>3. Left(s) = 0
    BY <2>1, <2>2 DEF Left, Resting, Outcomes
  <2> QED
    BY <1>8, <2>3 DEF LegacyEnds, Left
<1> HIDE DEF Nearer
<1>9. Nearer
  BY <1>1, <1>2, <1>4, <1>5, <1>6, <1>7, <1>8 DEF Proceed
<1> QED
  BY <1>9 DEF Nearer

\* Nobody else touches it.
LEMMA OthersLeft ==
  ASSUME NEW c \in Callers, request \in [Callers -> Requests], request[c].stage \in Busy,
         [GatewayNext]_gatewayVars, ~Proceed(c)
  PROVE  request'[c] = request[c]
<1>1. request[c].stage \notin AtRest
  BY DEF AtRest, Outcomes, Busy
<1>2. ASSUME NEW d \in Callers, d # c, \E kind \in Kinds : Ask(d, kind)
      PROVE  request'[c] = request[c]
  BY <1>2 DEF Ask
<1>3. ASSUME NEW d \in Callers, d # c, AskHistory(d) PROVE request'[c] = request[c]
  BY <1>3 DEF AskHistory
<1>4. ASSUME NEW d \in Callers, d # c, Proceed(d) PROVE request'[c] = request[c]
  BY <1>4 DEF Proceed, LocalAnswers, LocalFails, Replied, Refused, Unavailable,
              TryAgain, LegacyEnds
<1>5. ~AskHistory(c) /\ \A kind \in Kinds : ~Ask(c, kind)
  BY <1>1 DEF Ask, AskHistory
<1>6. Tick \/ UNCHANGED gatewayVars => request'[c] = request[c]
  BY DEF Tick, gatewayVars
<1> QED
  BY <1>2, <1>3, <1>4, <1>5, <1>6 DEF GatewayNext

\* No request goes on for ever, whatever the server answers and whatever the
\* other callers do to the breaker meanwhile: a bound on the steps it has
\* before it falls with each of them, and nothing else raises it.  What
\* RequestsEnd needs beside this is that the event loop takes these steps.
THEOREM RequestsWindDown ==
  GatewaySpec =>
    [][\A c \in Callers : request[c].stage \in Busy =>
         /\ Left(request'[c]) \in Nat
         /\ IF Proceed(c) THEN Left(request'[c]) < Left(request[c])
                          ELSE request'[c] = request[c]]_gatewayVars
<1>1. GatewayTypeOK /\ GatewayTypeOK' /\ [GatewayNext]_gatewayVars
      => \A c \in Callers : request[c].stage \in Busy =>
           /\ Left(request'[c]) \in Nat
           /\ IF Proceed(c) THEN Left(request'[c]) < Left(request[c])
                            ELSE request'[c] = request[c]
  <2> SUFFICES ASSUME request \in [Callers -> Requests], request' \in [Callers -> Requests],
                      [GatewayNext]_gatewayVars, NEW c \in Callers,
                      request[c].stage \in Busy
               PROVE  /\ Left(request'[c]) \in Nat
                      /\ IF Proceed(c) THEN Left(request'[c]) < Left(request[c])
                                       ELSE request'[c] = request[c]
    BY DEF GatewayTypeOK, Requests
  <2>1. Left(request'[c]) \in Nat
    BY LeftType
  <2>2. Proceed(c) => Left(request'[c]) < Left(request[c])
    BY ProceedLeft
  <2>3. ~Proceed(c) => request'[c] = request[c]
    BY OthersLeft
  <2> QED
    BY <2>1, <2>2, <2>3
<1> QED
  BY <1>1, GatewayTypes, PTL DEF GatewaySpec

\* What is done with a breaker whose last failure stays old: nothing, or a
\* success is counted, in the step that ends the attempt of a caller.
LEMMA OldFailureSteps ==
  ASSUME GatewayTypeOK, [GatewayNext]_gatewayVars,
         breaker.age = Timeout, breaker'.age = Timeout
  PROVE  IF \E c \in Callers : Ends(c) THEN breaker' = Succeeded(breaker)
                                       ELSE breaker' = breaker
<1>0. breaker \in Breakers /\ request \in [Callers -> Requests]
  BY TypeForm
<1>1. breaker' # Failed(breaker)
  <2>1. Failed(breaker).age = 0
    BY DEF Failed
  <2> QED
    BY <2>1
<1>2. ~Tick
  BY DEF Tick
<1>3. ASSUME NEW c \in Callers, Replied(c)
      PROVE  breaker' = Succeeded(breaker) /\ Ends(c)
  <2>1. PICK end \in {"ok", "accepted", "garbled"} :
          request' = [request EXCEPT ![c] = Concluded(@.kind, end)]
    BY <1>3 DEF Replied
  <2>2. request'[c] = Concluded(request[c].kind, end) /\ request[c].kind \in Kinds
    BY <1>0, <2>1 DEF Requests
  <2>3. AfterGateway(request[c].kind, end) \in Outcomes \cup {"legacy"}
    BY <2>2 DEF AfterGateway, Outcomes, Kinds
  <2>4. request'[c].stage \in Outcomes \cup {"legacy"}
    BY <2>2, <2>3 DEF Concluded, Resting
  <2> QED
    BY <1>3, <2>4 DEF Replied, Ends, Outcomes
<1>4. ASSUME NEW c \in Callers, Proceed(c), ~Replied(c)
      PROVE  breaker' = breaker /\ \A d \in Callers : ~Ends(d)
  <2>1. ~Refused(c)
    BY <1>1 DEF Refused
  <2>2. ASSUME LocalAnswers(c) \/ LocalFails(c) \/ TryAgain(c) \/ LegacyEnds(c)
        PROVE  /\ breaker' = breaker /\ request[c].stage # "trying"
               /\ \A d \in Callers \ {c} : request'[d] = request[d]
    BY <1>0, <2>2 DEF LocalAnswers, LocalFails, TryAgain, LegacyEnds
  <2>3. ASSUME Unavailable(c)
        PROVE  /\ breaker' = breaker /\ request'[c].stage = "waiting"
               /\ \A d \in Callers \ {c} : request'[d] = request[d]
    BY <1>0, <1>1, <2>3 DEF Unavailable
  <2> QED
    BY <1>4, <2>1, <2>2, <2>3 DEF Proceed, Ends
<1>5. ASSUME NEW c \in Callers, AskHistory(c) \/ \E kind \in Kinds : Ask(c, kind)
      PROVE  breaker' = breaker /\ \A d \in Callers : ~Ends(d)
  <2>1. /\ breaker' = breaker /\ request[c].stage # "trying"
        /\ \A d \in Callers \ {c} : request'[d] = request[d]
    BY <1>0, <1>5 DEF Ask, AskHistory, AtRest, Outcomes
  <2> QED
    BY <2>1 DEF Ends
<1>6. UNCHANGED gatewayVars => breaker' = breaker /\ \A d \in Callers : ~Ends(d)
  BY DEF gatewayVars, Ends
<1> QED
  BY <1>2, <1>3, <1>4, <1>5, <1>6 DEF GatewayNext

\* While the server does not fail, every attempt that ends brings an open circuit
\* one success nearer to closing, or closes it; nothing else, in particular no
\* attempt that was under way before, sets it back or opens a closed one.  Its
\* successes are bounded (GatewayTypes): this is how GatewayRecovers comes about.
THEOREM RecoveryAdvances ==
  GatewaySpec =>
    [][breaker.age = Timeout /\ breaker'.age = Timeout =>
         IF breaker.open /\ \E c \in Callers : Ends(c)
         THEN ~breaker'.open \/ breaker'.successes = breaker.successes + 1
         ELSE /\ breaker'.open = breaker.open
              /\ breaker'.successes = breaker.successes]_gatewayVars
<1>1. GatewayTypeOK /\ [GatewayNext]_gatewayVars =>
        (breaker.age = Timeout /\ breaker'.age = Timeout =>
           IF breaker.open /\ \E c \in Callers : Ends(c)
           THEN ~breaker'.open \/ breaker'.successes = breaker.successes + 1
           ELSE /\ breaker'.open = breaker.open
                /\ breaker'.successes = breaker.successes)
  <2> SUFFICES ASSUME GatewayTypeOK, [GatewayNext]_gatewayVars,
                      breaker.age = Timeout, breaker'.age = Timeout
               PROVE  IF breaker.open /\ \E c \in Callers : Ends(c)
                      THEN ~breaker'.open \/ breaker'.successes = breaker.successes + 1
                      ELSE /\ breaker'.open = breaker.open
                           /\ breaker'.successes = breaker.successes
    OBVIOUS
  <2>0. breaker \in Breakers
    BY TypeForm
  <2>1. CASE ~\E c \in Callers : Ends(c)
    BY <2>1, OldFailureSteps
  <2>2. CASE \E c \in Callers : Ends(c)
    <3>1. breaker' = Succeeded(breaker)
      BY <2>2, OldFailureSteps
    <3>2. CASE ~breaker.open
      <4>1. Circuit(breaker) = "closed"
        BY <3>2 DEF Circuit
      <4>2. breaker' = [breaker EXCEPT !.failures = 0]
        BY <3>1, <4>1 DEF Succeeded
      <4> QED
        BY <2>0, <3>2, <4>2 DEF Breakers
    <3>3. CASE breaker.open
      <4>1. Circuit(breaker) = "half_open"
        BY <3>3 DEF Circuit
      <4>2. /\ breaker'.successes = AtMost(breaker.successes + 1, SuccessThreshold)
            /\ breaker'.open = (breaker.successes + 1 < SuccessThreshold)
        BY <3>1, <4>1 DEF Succeeded
      <4>3. breaker.successes + 1 < SuccessThreshold
              => breaker'.successes = breaker.successes + 1
        BY <2>0, <4>2 DEF AtMost, Breakers
      <4> QED
        BY <2>2, <3>3, <4>2, <4>3
    <3> QED
      BY <2>0, <3>2, <3>3 DEF Breakers
  <2> QED
    BY <2>1, <2>2
<1> QED
  BY <1>1, GatewayTypes, PTL DEF GatewaySpec

--------------------------------------------------------------------------------
\* ConfigCache.

HIDE GatewayAssumption
USE CacheAssumption

OpKinds == {"none", "get", "got", "set", "delete", "publish"}

Ops == [kind : OpKinds, value : Values, age : 0 .. Flight]

Copies == [value : Values, age : 0 .. Ttl]

\* A value that Redis holds, that is being written or that is yet to come.
Living(v) == v = shared \/ v > writes \/ Pending(v)

\* The clock of a value only starts when it no longer lives.
LivingIsNotGone == \A v \in Values \ {0} : Living(v) => gone[v] = 0

\* A delete writes no value.
DeleteWritesNone == \A p \in Pods : op[p].kind = "delete" => op[p].value = 0

\* An answer under way is at most as stale as it is old.
AnswersAgeWithValue ==
  \A p \in Pods : op[p].kind = "got" /\ op[p].value # 0 => gone[op[p].value] <= op[p].age

\* The inductive invariant.
CacheInv ==
  /\ CacheTypeOK
  /\ LivingIsNotGone
  /\ DeleteWritesNone
  /\ AnswersAgeWithValue
  /\ StalenessBounded

\* A capped counter stays below its cap and grows by one at most.
LEMMA OlderBounds ==
  ASSUME NEW bound \in Nat, NEW n \in 0 .. bound
  PROVE  Older(n, bound) \in 0 .. bound /\ n <= Older(n, bound) /\ Older(n, bound) <= n + 1
         /\ (Older(n, bound) < bound => Older(n, bound) = n + 1)
  BY DEF Older

LEMMA InitInv == CacheInit => CacheInv
<1> SUFFICES ASSUME CacheInit PROVE CacheInv
  OBVIOUS
<1>1. CacheTypeOK
  BY DEF CacheInit, CacheTypeOK, Values, NoCopy, NoOp, Oldest
<1>2. LivingIsNotGone
  BY DEF CacheInit, LivingIsNotGone, Values
<1>3. DeleteWritesNone /\ AnswersAgeWithValue
  BY DEF CacheInit, DeleteWritesNone, AnswersAgeWithValue, NoOp
<1>4. StalenessBounded
  BY DEF CacheInit, StalenessBounded, Fresh, NoCopy
<1> QED
  BY <1>1, <1>2, <1>3, <1>4 DEF CacheInv

\* What a step that leaves the clocks of values alone must keep.
LEMMA SameClocks ==
  ASSUME CacheInv, CacheTypeOK', UNCHANGED gone,
         \A v \in Values \ {0} : Living(v)' => Living(v),
         \A p \in Pods :
           \/ op'[p] = op[p]
           \/ /\ op'[p].kind = "delete" => op'[p].value = 0
              /\ op'[p].kind = "got" /\ op'[p].value # 0 => Living(op'[p].value),
         \A p \in Pods :
           \/ local'[p] = local[p]
           \/ local'[p].value = 0
           \/ Living(local'[p].value)
           \/ op[p].kind = "got" /\ local'[p].value = op[p].value
  PROVE  CacheInv'
<1> USE DEF CacheInv
<1>1. LivingIsNotGone'
  BY DEF LivingIsNotGone, Living
<1>2. DeleteWritesNone'
  BY DEF DeleteWritesNone
<1>3. AnswersAgeWithValue'
  <2> SUFFICES ASSUME NEW p \in Pods, op'[p].kind = "got", op'[p].value # 0
               PROVE  gone[op'[p].value] <= op'[p].age
    BY DEF AnswersAgeWithValue
  <2>1. CASE op'[p] = op[p]
    BY <2>1 DEF AnswersAgeWithValue
  <2>2. CASE Living(op'[p].value)
    <3>1. op'[p].value \in Values \ {0} /\ op'[p].age \in Nat
      BY DEF CacheTypeOK
    <3> QED
      BY <2>2, <3>1 DEF LivingIsNotGone
  <2> QED
    BY <2>1, <2>2
<1>4. StalenessBounded'
  <2> SUFFICES ASSUME NEW p \in Pods, Fresh(p)'
               PROVE  gone[local'[p].value] <= local'[p].age + Flight
    BY DEF StalenessBounded
  <2>1. local'[p].value \in Values \ {0} /\ local'[p].age \in Nat
    BY DEF CacheTypeOK, Fresh
  <2>2. CASE local'[p] = local[p]
    BY <2>2 DEF StalenessBounded, Fresh
  <2>3. CASE Living(local'[p].value)
    BY <2>1, <2>3 DEF LivingIsNotGone
  <2>4. CASE op[p].kind = "got" /\ local'[p].value = op[p].value
    <3>1. gone[op[p].value] <= op[p].age
      BY <2>1, <2>4 DEF AnswersAgeWithValue
    <3>2. op[p].age \in 0 .. Flight /\ gone[op[p].value] \in Nat
      BY <2>1, <2>4 DEF CacheTypeOK, Oldest
    <3> QED
      BY <2>1, <2>4, <3>1, <3>2
  <2> QED
    BY <2>1, <2>2, <2>3, <2>4
<1> QED
  BY <1>1, <1>2, <1>3, <1>4

LEMMA OpTypes ==
  /\ NoOp \in Ops /\ NoCopy \in Copies
  /\ \A kind \in OpKinds, v \in Values : [kind |-> kind, value |-> v, age |-> 0] \in Ops
  /\ \A v \in Values : [value |-> v, age |-> 0] \in Copies
  BY DEF NoOp, NoCopy, Ops, Copies, OpKinds, Values

\* The operations and the messages of a pod.
LEMMA PodInv ==
  ASSUME CacheInv, NEW p \in Pods,
         \/ Miss(p) \/ Set(p) \/ Delete(p)
         \/ Read(p) \/ Got(p) \/ Write(p) \/ Publish(p) \/ Break(p)
         \/ Invalidate(p) \/ Disconnect(p)
  PROVE  CacheInv'
<1> USE DEF CacheInv
<1>t. /\ shared \in Values /\ writes \in Values /\ 0 \in Values
      /\ local \in [Pods -> Copies] /\ op \in [Pods -> Ops]
  BY DEF CacheTypeOK, Ops, Copies, OpKinds, Values
<1>1. CASE Miss(p)
  <2>1. CacheTypeOK'
    BY <1>1, <1>t, OpTypes DEF Miss, Waits, CacheTypeOK, Ops, Copies, OpKinds
  <2>2. \A v \in Values : Living(v)' => Living(v)
    BY <1>1, <1>t DEF Miss, Waits, Living, Pending
  <2> QED
    BY <1>1, <1>t, <2>1, <2>2, SameClocks DEF Miss, Waits, NoCopy
<1>2. CASE Set(p)
  <2>1. writes' = writes + 1 /\ writes' \in Values
    BY <1>2, <1>t DEF Set, Values
  <2>2. CacheTypeOK'
    BY <1>2, <1>t, <2>1, OpTypes DEF Set, Waits, CacheTypeOK, Ops, Copies, OpKinds
  <2>3. Living(writes')
    BY <1>t, <2>1 DEF Living, Values
  <2>4. \A v \in Values : Living(v)' => Living(v)
    BY <1>2, <1>t, <2>1 DEF Set, Waits, Living, Pending, Values
  <2> QED
    BY <1>2, <1>t, <2>2, <2>3, <2>4, SameClocks DEF Set, Waits
<1>3. CASE Delete(p)
  <2>1. CacheTypeOK'
    BY <1>3, <1>t, OpTypes DEF Delete, Waits, CacheTypeOK, Ops, Copies, OpKinds
  <2>2. \A v \in Values : Living(v)' => Living(v)
    BY <1>3, <1>t DEF Delete, Waits, Living, Pending
  <2> QED
    BY <1>3, <1>t, <2>1, <2>2, SameClocks DEF Delete, Waits, NoCopy
<1>4. CASE Read(p)
  <2>1. CacheTypeOK'
    BY <1>4, <1>t, OpTypes DEF Read, Waits, CacheTypeOK, Ops, Copies, OpKinds
  <2>2. \A v \in Values : Living(v)' => Living(v)
    BY <1>4, <1>t DEF Read, Waits, Living, Pending
  <2>3. Living(shared)
    BY DEF Living
  <2> QED
    BY <1>4, <1>t, <2>1, <2>2, <2>3, SameClocks DEF Read, Waits
<1>5. CASE Got(p)
  <2>1. op[p].value \in Values
    BY <1>t DEF Ops
  <2>2. CacheTypeOK'
    BY <1>5, <1>t, <2>1, OpTypes DEF Got, Returns, CacheTypeOK, Ops, Copies, OpKinds
  <2>3. \A v \in Values : Living(v)' => Living(v)
    BY <1>5, <1>t DEF Got, Returns, NoOp, Living, Pending
  <2> QED
    BY <1>5, <1>t, <2>2, <2>3, SameClocks DEF Got, Returns, NoOp
<1>6. CASE Write(p)
  <2>1. op[p].value \in Values
    BY <1>t DEF Ops
  <2>2. CacheTypeOK'
    BY <1>6, <1>t, <2>1, OpTypes DEF Write, Waits, CacheTypeOK, Ops, Copies, OpKinds
  <2>3. op[p].value # 0 => Living(op[p].value)
    BY <1>6 DEF Write, Living, Pending, DeleteWritesNone
  <2>4. \A v \in Values \ {0} : Living(v)' => Living(v)
    BY <1>6, <1>t, <2>3 DEF Write, Waits, Living, Pending
  <2> QED
    BY <1>6, <1>t, <2>2, <2>4, SameClocks DEF Write, Waits
<1>7. CASE Publish(p)
  <2>1. CacheTypeOK'
    BY <1>7, <1>t, OpTypes DEF Publish, Returns, CacheTypeOK, Ops, Copies, OpKinds
  <2>2. \A v \in Values : Living(v)' => Living(v)
    BY <1>7, <1>t DEF Publish, Returns, NoOp, Living, Pending
  <2> QED
    BY <1>7, <1>t, <2>1, <2>2, SameClocks DEF Publish, Returns, NoOp
<1>8. CASE Break(p)
  <2>1. failures' \in [Pods -> 0 .. RedisThreshold]
    <3>1. failures \in [Pods -> 0 .. RedisThreshold]
      BY DEF CacheTypeOK
    <3>2. Older(failures[p], RedisThreshold) \in 0 .. RedisThreshold
      BY <3>1, OlderBounds
    <3>3. \/ failures' = failures
          \/ failures' = [failures EXCEPT ![p] = Older(@, RedisThreshold)]
      BY <1>8 DEF Break
    <3> QED
      BY <3>1, <3>2, <3>3
  <2>2. CacheTypeOK'
    BY <1>8, <1>t, <2>1, OpTypes DEF Break, Returns, CacheTypeOK, Ops, Copies, OpKinds
  <2>3. \A v \in Values : Living(v)' => Living(v)
    BY <1>8, <1>t DEF Break, Returns, NoOp, Living, Pending
  <2> QED
    BY <1>8, <1>t, <2>2, <2>3, SameClocks DEF Break, Returns, NoOp
<1>9. CASE Invalidate(p)
  <2>1. CacheTypeOK'
    BY <1>9, <1>t, OpTypes DEF Invalidate, CacheTypeOK, Ops, Copies, OpKinds
  <2>2. \A v \in Values : Living(v)' => Living(v)
    BY <1>9, <1>t DEF Invalidate, Living, Pending
  <2> QED
    BY <1>9, <1>t, <2>1, <2>2, SameClocks DEF Invalidate, NoCopy
<1>10. CASE Disconnect(p)
  <2>1. CacheTypeOK'
    BY <1>10 DEF Disconnect, CacheTypeOK
  <2>2. \A v \in Values : Living(v)' => Living(v)
    BY <1>10, <1>t DEF Disconnect, Living, Pending
  <2> QED
    BY <1>10, <1>t, <2>1, <2>2, SameClocks DEF Disconnect
<1> QED
  BY <1>1, <1>2, <1>3, <1>4, <1>5, <1>6, <1>7, <1>8, <1>9, <1>10

LEMMA ExpireInv == ASSUME CacheInv, Expire PROVE CacheInv'
<1> USE DEF CacheInv, Expire
<1>1. CacheTypeOK'
  BY DEF CacheTypeOK, Values
<1>2. \A v \in Values \ {0} : Living(v)' => Living(v)
  BY DEF Living, Pending
<1> QED
  BY <1>1, <1>2, SameClocks

\* Copies, answers and the clocks of values grow old together.
LEMMA TickInv == ASSUME CacheInv, CacheTick PROVE CacheInv'
<1> USE DEF CacheInv
<1>t. /\ local \in [Pods -> Copies] /\ op \in [Pods -> Ops]
      /\ gone \in [Values -> 0 .. Oldest] /\ Oldest \in Nat
  BY DEF CacheTypeOK, Ops, Copies, OpKinds, Oldest
<1>1. ASSUME NEW p \in Pods
      PROVE  /\ local'[p].value = local[p].value
             /\ local'[p].age = Older(local[p].age, Ttl)
             /\ local'[p] \in Copies
  <2>1. local'[p] = [local[p] EXCEPT !.age = Older(@, Ttl)]
    BY DEF CacheTick
  <2>2. Older(local[p].age, Ttl) \in 0 .. Ttl
    BY <1>t, OlderBounds DEF Copies
  <2> QED
    BY <1>t, <2>1, <2>2 DEF Copies
<1>2. ASSUME NEW p \in Pods
      PROVE  /\ op'[p].value = op[p].value /\ op'[p].kind = op[p].kind
             /\ op[p].kind = "got" => op'[p].age = op[p].age + 1
             /\ op'[p] \in Ops
  <2>1. op'[p] = IF op[p].kind = "got" THEN [op[p] EXCEPT !.age = @ + 1] ELSE op[p]
    BY DEF CacheTick
  <2>2. op[p].kind = "got" => op[p].age + 1 \in 0 .. Flight
    BY <1>t DEF CacheTick, Ops
  <2> QED
    BY <1>t, <2>1, <2>2 DEF Ops
<1>3. ASSUME NEW v \in Values
      PROVE  gone'[v] \in 0 .. Oldest /\ gone'[v] <= gone[v] + 1
             /\ (Living(v) => gone'[v] = gone[v])
  <2>1. gone'[v] = IF Living(v) THEN gone[v] ELSE Older(gone[v], Oldest)
    BY DEF CacheTick, Living
  <2> HIDE DEF Living
  <2>2. /\ Older(gone[v], Oldest) \in 0 .. Oldest /\ Older(gone[v], Oldest) <= gone[v] + 1
    BY <1>t, OlderBounds
  <2>3. gone[v] \in 0 .. Oldest
    BY <1>t
  <2> QED
    BY <2>1, <2>2, <2>3
<1>4. CacheTypeOK'
  <2>1. local' \in [Pods -> Copies] /\ op' \in [Pods -> Ops]
    BY <1>1, <1>2 DEF CacheTick
  <2>2. gone' \in [Values -> 0 .. Oldest]
    BY <1>3 DEF CacheTick
  <2> QED
    BY <2>1, <2>2 DEF CacheTick, CacheTypeOK, Copies, Ops, OpKinds
<1>5. LivingIsNotGone'
  <2>1. ASSUME NEW v \in Values, Living(v)' PROVE Living(v)
    BY <2>1, <1>2 DEF Living, Pending, CacheTick
  <2> QED
    BY <2>1, <1>3 DEF LivingIsNotGone
<1>6. DeleteWritesNone'
  BY <1>2 DEF DeleteWritesNone
<1>7. AnswersAgeWithValue'
  <2> SUFFICES ASSUME NEW p \in Pods, op'[p].kind = "got", op'[p].value # 0
               PROVE  gone'[op'[p].value] <= op'[p].age
    BY DEF AnswersAgeWithValue
  <2>1. op[p].kind = "got" /\ op[p].value \in Values /\ op[p].age \in Nat
        /\ gone[op[p].value] <= op[p].age /\ gone[op[p].value] \in Nat
    BY <1>2, <1>t DEF AnswersAgeWithValue, Ops
  <2> QED
    BY <2>1, <1>2, <1>3
<1>8. StalenessBounded'
  <2> SUFFICES ASSUME NEW p \in Pods, local'[p].value # 0, local'[p].age < Ttl
               PROVE  gone'[local'[p].value] <= local'[p].age + Flight
    BY DEF StalenessBounded, Fresh
  <2>1. local[p].value \in Values /\ local[p].age \in 0 .. Ttl /\ gone[local[p].value] \in Nat
    BY <1>t DEF Copies
  <2>2. local'[p].age = local[p].age + 1 /\ local[p].age < Ttl
    <3>1. local'[p].age = Older(local[p].age, Ttl)
      BY <1>1
    <3> QED
      BY <2>1, <3>1 DEF Older
  <2>3. gone[local[p].value] <= local[p].age + Flight
    BY <1>1, <2>2 DEF StalenessBounded, Fresh
  <2>4. gone'[local[p].value] \in 0 .. Oldest /\ gone'[local[p].value] <= gone[local[p].value] + 1
    BY <1>3, <2>1
  <2> QED
    BY <1>1, <1>t, <2>1, <2>2, <2>3, <2>4
<1> QED
  BY <1>4, <1>5, <1>6, <1>7, <1>8

LEMMA StutterInv == ASSUME CacheInv, UNCHANGED cacheVars PROVE CacheInv'
  BY DEF cacheVars, CacheInv, CacheTypeOK, LivingIsNotGone, Living, Pending, DeleteWritesNone,
         AnswersAgeWithValue, StalenessBounded, Fresh

LEMMA CacheInvariant == CacheSpec => []CacheInv
<1>1. ASSUME CacheInv, [CacheNext]_cacheVars PROVE CacheInv'
  BY <1>1, PodInv, ExpireInv, TickInv, StutterInv DEF CacheNext
<1> QED
  BY <1>1, InitInv, PTL DEF CacheSpec

\* Every variable of the cache has its type: in particular only listeners that
\* are alive have messages, and no answer is older than the socket timeout.
THEOREM CacheTypes == CacheSpec => []CacheTypeOK
<1>1. CacheInv => CacheTypeOK
  BY DEF CacheInv
<1> QED
  BY <1>1, CacheInvariant, PTL

\* However many pods miss however many invalidations, none serves a value that
\* left Redis longer ago than the life of a copy and the time of an answer.
THEOREM NeverTooStale == CacheSpec => []StalenessBounded
<1>1. CacheInv => StalenessBounded
  BY DEF CacheInv
<1> QED
  BY <1>1, CacheInvariant, PTL

--------------------------------------------------------------------------------
\* Idempotency.

HIDE CacheAssumption
USE IdempotencyAssumption

\* The key of an order that is being made names how far it is; it is completed
\* before the order is there, so that an effect more than there are forgotten
\* keys is still named by the key.
OrdersFollowKey ==
  /\ stage = "checked" => key = "none"
  /\ stage \in {"started", "worked"} => key = "processing"
  /\ stage = "completed" => key = "completed"
  /\ Cardinality(effects) <= IF key = "completed" /\ stage # "completed"
                             THEN forgotten + 1 ELSE forgotten

\* A request works on a key of its own: unless the key says so, nothing has been
\* done since it expired.
WorkFollowsKey ==
  /\ stage # "completed"
  /\ stage = "checked" => key = "none"
  /\ stage \in {"started", "worked"} => key = "processing"
  /\ Cardinality(effects) <= expiries + 1
  /\ key = "none" \/ stage = "started" => Cardinality(effects) <= expiries

\* The inductive invariant.
IdemInv ==
  /\ IdemTypeOK
  /\ stage # "idle" => requests # 0
  /\ IF Transactional THEN OrdersFollowKey ELSE WorkFollowsKey

\* One effect more is at most one more to count.
LEMMA OneMoreEffect ==
  ASSUME IdemTypeOK, NEW r
  PROVE  /\ Cardinality(effects) \in Nat
         /\ Cardinality(effects \cup {r}) \in Nat
         /\ Cardinality(effects \cup {r}) <= Cardinality(effects) + 1
<1>1. IsFiniteSet(1 .. MaxRequests)
  BY FS_Interval
<1>2. IsFiniteSet(effects)
  BY <1>1, FS_Subset DEF IdemTypeOK
<1>3. IsFiniteSet(effects \cup {r}) /\ (\/ Cardinality(effects \cup {r}) = Cardinality(effects)
                                        \/ Cardinality(effects \cup {r}) = Cardinality(effects) + 1)
  BY <1>2, FS_AddElement
<1>4. Cardinality(effects) \in Nat /\ Cardinality(effects \cup {r}) \in Nat
  BY <1>2, <1>3, FS_CardinalityType
<1> QED
  BY <1>3, <1>4

\* It holds of every reachable state: one step per step of a request.
LEMMA IdemInvariant == IdemSpec => []IdemInv
<1>1. IdemInit => IdemInv
  BY FS_EmptySet DEF IdemInit, IdemInv, IdemTypeOK, Stages, Transactional, OrdersFollowKey,
     WorkFollowsKey
<1>2. ASSUME IdemInv, [IdemNext]_idemVars PROVE IdemInv'
  <2> DEFINE n == Cardinality(effects)
             m == Cardinality(effects \cup {requests})
  <2>0. /\ IdemTypeOK /\ n \in Nat /\ m \in Nat /\ m <= n + 1
        /\ stage # "idle" => requests # 0
        /\ IF Transactional THEN OrdersFollowKey ELSE WorkFollowsKey
    BY <1>2, OneMoreEffect DEF IdemInv
  <2>1. CASE Check
    BY <2>0, <2>1 DEF Check, IdemInv, IdemTypeOK, Transactional, OrdersFollowKey, WorkFollowsKey,
                      Stages
  <2>2. CASE Start
    BY <2>0, <2>2 DEF Start, IdemInv, IdemTypeOK, Transactional, OrdersFollowKey, WorkFollowsKey,
                      Stages
  <2>3. CASE Work
    BY <2>0, <2>3 DEF Work, IdemInv, IdemTypeOK, Transactional, OrdersFollowKey, WorkFollowsKey,
                      Stages
  <2>4. CASE Complete
    BY <2>0, <2>4 DEF Complete, IdemInv, IdemTypeOK, Transactional, OrdersFollowKey,
                      WorkFollowsKey, Stages
  <2>5. CASE Commit
    BY <2>0, <2>5 DEF Commit, IdemInv, IdemTypeOK, Transactional, OrdersFollowKey, WorkFollowsKey,
                      Stages
  <2>6. CASE Fail
    BY <2>0, <2>6 DEF Fail, IdemInv, IdemTypeOK, Transactional, OrdersFollowKey, WorkFollowsKey,
                      Stages
  <2>7. CASE ExpireKey
    BY <2>0, <2>7 DEF ExpireKey, IdemInv, IdemTypeOK, Transactional, OrdersFollowKey,
                      WorkFollowsKey, Stages
  <2>8. CASE UNCHANGED idemVars
    BY <2>0, <2>8 DEF idemVars, IdemInv, IdemTypeOK, Transactional, OrdersFollowKey,
                      WorkFollowsKey, Stages
  <2> QED
    BY <1>2, <2>1, <2>2, <2>3, <2>4, <2>5, <2>6, <2>7, <2>8 DEF IdemNext
<1> QED
  BY <1>1, <1>2, PTL DEF IdemSpec

\* Types: the key, the request under way and the numbers of requests and
\* expiries stay what IdempotencyService and its callers make them.
THEOREM IdempotencyTypes == IdemSpec => []IdemTypeOK
<1>1. IdemInv => IdemTypeOK
  BY DEF IdemInv
<1> QED
  BY <1>1, IdemInvariant, PTL

\* A key has one effect for each time it was forgotten, and one more: a retry of a
\* request whose order was made never makes another while the key is remembered
\* (IdempotencyService.check, start and complete).
THEOREM EffectsPerKey == IdemSpec => []OneEffectPerKey
<1>1. ASSUME IdemInv PROVE OneEffectPerKey
  <2>1. Cardinality(effects) \in Nat
    BY <1>1, OneMoreEffect DEF IdemInv
  <2> QED
    BY <1>1, <2>1 DEF IdemInv, OneEffectPerKey, OrdersFollowKey, WorkFollowsKey, IdemTypeOK
<1> QED
  BY <1>1, IdemInvariant, PTL

--------------------------------------------------------------------------------
\* DeadLetters.

HIDE IdempotencyAssumption
USE DeadLettersAssumption

\* Every variable has its type.
DlqTypeOK ==
  /\ wired \in BOOLEAN
  /\ queue \in Seq(Events) /\ batch \in Seq(Events)
  /\ copied \in Seq(Events) /\ remaining \in Seq(Events)
  /\ dead \subseteq Events /\ handled \subseteq Events /\ failed \subseteq Events
  /\ inHand \in Events \cup {None}
  /\ task \in Tasks
  /\ process \in {"up", "draining", "down"}

\* A cycle runs while the process is up, and has an event in hand.
CycleWhileUp == task = "cycle" => process = "up" /\ inHand # None

\* What a cycle has copied is handled, put aside again, in hand or still to be
\* tried.
CopiesAccounted ==
  task = "cycle" =>
    ToSet(copied) \subseteq handled \cup ToSet(remaining) \cup ToSet(batch) \cup {inHand}

\* The cycle leaves the queue alone until its end; only the drain takes events
\* out before they are handled.
Kept ==
  wired =>
    dead \subseteq ToSet(queue) \cup handled \cup failed
                   \cup (IF process = "draining" THEN {inHand} ELSE {})

\* The inductive invariant.
DlqInv ==
  /\ DlqTypeOK
  /\ process # "up" => task = "ended"
  /\ CycleWhileUp
  /\ CopiesAccounted
  /\ Kept

\* A cycle starts with all it copied still to be tried.
LEMMA StartCycleInv == ASSUME DlqInv, StartCycle PROVE DlqInv'
<1> DEFINE n == IF Len(queue) < BatchSize THEN Len(queue) ELSE BatchSize
           c == SubSeq(queue, 1, n)
<1>1. /\ DlqTypeOK /\ queue \in Seq(Events) /\ queue # <<>> /\ process = "up"
      /\ copied' = c /\ batch' = Tail(c) /\ inHand' = Head(c) /\ remaining' = <<>>
      /\ UNCHANGED <<wired, queue, dead, handled, failed, process>> /\ task' = "cycle"
  BY DEF StartCycle, DlqInv, DlqTypeOK, Tasks
<1>2. n \in 1 .. Len(queue)
  BY <1>1
<1> HIDE DEF n
<1>3. c \in Seq(Events) /\ Len(c) = n
  BY <1>1, <1>2
<1>4. c # <<>>
  BY <1>2, <1>3
<1> HIDE DEF c
<1>5. Head(c) \in Events /\ Tail(c) \in Seq(Events) /\ ToSet(c) = {Head(c)} \cup ToSet(Tail(c))
  BY <1>3, <1>4, ElementsOfLists
<1>6. DlqTypeOK'
  BY <1>1, <1>3, <1>5 DEF DlqTypeOK, Tasks
<1>7. CycleWhileUp' /\ CopiesAccounted' /\ Kept'
  BY <1>1, <1>5 DEF CycleWhileUp, CopiesAccounted, Kept, DlqInv
<1> QED
  BY <1>1, <1>6, <1>7 DEF DlqInv

\* The end of a turn of the cycle: accepted is what the handler has accepted.
LEMMA AdvanceInv ==
  ASSUME DlqInv, task = "cycle", NEW rest \in Seq(Events), Advance(rest),
         handled \subseteq handled', handled' \subseteq Events,
         ToSet(rest) \cup handled' = ToSet(remaining) \cup handled \cup {inHand},
         UNCHANGED <<wired, dead, failed, process>>
  PROVE  DlqInv'
<1>1. /\ DlqTypeOK /\ process = "up"
      /\ ToSet(copied) \subseteq handled' \cup ToSet(rest) \cup ToSet(batch)
      /\ wired => dead \subseteq ToSet(queue) \cup handled \cup failed
  BY DEF DlqInv, CycleWhileUp, CopiesAccounted, Kept
<1>2. CASE batch # <<>>
  <2>1. Head(batch) \in Events /\ Tail(batch) \in Seq(Events)
        /\ ToSet(batch) = {Head(batch)} \cup ToSet(Tail(batch))
    BY <1>1, <1>2, ElementsOfLists DEF DlqTypeOK
  <2>2. /\ inHand' = Head(batch) /\ batch' = Tail(batch) /\ remaining' = rest
        /\ UNCHANGED <<queue, copied, task>>
    BY <1>2 DEF Advance
  <2>3. DlqTypeOK'
    BY <1>1, <2>1, <2>2 DEF DlqTypeOK
  <2>4. CycleWhileUp' /\ CopiesAccounted' /\ Kept'
    BY <1>1, <2>1, <2>2 DEF CycleWhileUp, CopiesAccounted, Kept
  <2> QED
    BY <1>1, <2>2, <2>3, <2>4 DEF DlqInv
<1>3. CASE batch = <<>>
  <2> DEFINE left == Dropping(queue, ToSet(copied))
  <2>1. left \in Seq(Events) /\ ToSet(left) = ToSet(queue) \ ToSet(copied)
    BY <1>1, DroppingElements DEF DlqTypeOK
  <2>2. /\ queue' = left \o rest
        /\ batch' = <<>> /\ copied' = <<>> /\ remaining' = <<>> /\ inHand' = None
        /\ task' = "asleep"
    BY <1>3 DEF Advance, Requeue
  <2> HIDE DEF left
  <2>3. queue' \in Seq(Events) /\ ToSet(queue') = ToSet(left) \cup ToSet(rest)
    BY <2>1, <2>2, ElementsOfLists
  <2>4. ToSet(batch) = {}
    BY <1>3, ElementsOfLists DEF ToSet
  <2>5. Kept'
    BY <1>1, <2>1, <2>3, <2>4 DEF Kept
  <2>6. DlqTypeOK'
    BY <1>1, <2>2, <2>3 DEF DlqTypeOK, Tasks
  <2> QED
    BY <1>1, <2>2, <2>5, <2>6 DEF DlqInv, CycleWhileUp, CopiesAccounted
<1> QED
  BY <1>2, <1>3

\* What the cycle does with the event in hand.
LEMMA CycleInv == ASSUME DlqInv, Cycle PROVE DlqInv'
<1> USE DEF DlqInv
<1>1. CASE CycleAccepts
  <2>1. inHand \in Events /\ handled' = handled \cup {inHand} /\ task = "cycle"
        /\ remaining \in Seq(Events) /\ handled \subseteq Events
    BY <1>1 DEF CycleAccepts, CycleWhileUp, DlqTypeOK
  <2> QED
    BY <1>1, <2>1, AdvanceInv DEF CycleAccepts
<1>2. CASE CycleRejects
  <2>1. inHand \in Events /\ handled' = handled /\ task = "cycle" /\ handled \subseteq Events
        /\ remaining \in Seq(Events)
    BY <1>2 DEF CycleRejects, CycleWhileUp, DlqTypeOK
  <2>2. /\ Append(remaining, inHand) \in Seq(Events)
        /\ ToSet(Append(remaining, inHand)) = ToSet(remaining) \cup {inHand}
    BY <2>1, ElementsOfLists
  <2> QED
    BY <1>2, <2>1, <2>2, AdvanceInv DEF CycleRejects
<1>3. CASE CycleBreaks
  BY <1>3 DEF CycleBreaks, DlqTypeOK, Tasks, CycleWhileUp, CopiesAccounted, Kept
<1> QED
  BY <1>1, <1>2, <1>3, StartCycleInv DEF Cycle

\* What the drain at shutdown does with an event.
LEMMA DrainInv == ASSUME DlqInv, Drain PROVE DlqInv'
<1> USE DEF DlqInv
<1>0. process = "draining" /\ task = "ended"
  BY DEF Drain, DrainNext, DrainAccepts, DrainRejects, DrainBreaks, DrainEnds
<1>1. CASE DrainNext
  <2>1. /\ Head(queue) \in Events /\ Tail(queue) \in Seq(Events)
        /\ ToSet(queue) = {Head(queue)} \cup ToSet(Tail(queue))
    BY <1>1, ElementsOfLists DEF DrainNext, DlqTypeOK
  <2>2. DlqTypeOK'
    BY <1>1, <2>1 DEF DrainNext, DlqTypeOK
  <2>3. Kept'
    BY <1>0, <1>1, <2>1 DEF DrainNext, DlqTypeOK, Kept
  <2> QED
    BY <1>0, <1>1, <2>2, <2>3 DEF DrainNext, CycleWhileUp, CopiesAccounted
<1>2. CASE DrainAccepts
  BY <1>0, <1>2 DEF DrainAccepts, DlqTypeOK, CycleWhileUp, CopiesAccounted, Kept
<1>3. CASE DrainRejects
  <2>1. inHand \in Events /\ queue \in Seq(Events) /\ <<inHand>> \in Seq(Events)
    BY <1>3 DEF DrainRejects, DlqTypeOK
  <2>2. queue' \in Seq(Events) /\ ToSet(queue') = ToSet(<<inHand>>) \cup ToSet(queue)
    <3> DEFINE front == <<inHand>>
    <3>1. front \in Seq(Events) /\ queue' = front \o queue
      BY <1>3, <2>1 DEF DrainRejects
    <3> HIDE DEF front
    <3>2. queue' \in Seq(Events) /\ ToSet(queue') = ToSet(front) \cup ToSet(queue)
      BY <2>1, <3>1, ElementsOfLists
    <3> QED
      BY <3>2 DEF front
  <2>3. ToSet(<<inHand>>) = {inHand}
    BY DEF ToSet
  <2>4. DlqTypeOK'
    BY <1>3, <2>2 DEF DrainRejects, DlqTypeOK
  <2>5. Kept'
    BY <1>0, <1>3, <2>2, <2>3 DEF DrainRejects, Kept
  <2> QED
    BY <1>0, <1>3, <2>4, <2>5 DEF DrainRejects, CycleWhileUp, CopiesAccounted
<1>4. CASE DrainBreaks
  BY <1>0, <1>4 DEF DrainBreaks, DlqTypeOK, CycleWhileUp, CopiesAccounted, Kept
<1>5. CASE DrainEnds
  <2>1. None \notin dead
    BY DEF DlqTypeOK
  <2> QED
    BY <1>0, <1>5, <2>1 DEF DrainEnds, cycleVars, DlqTypeOK, CycleWhileUp, CopiesAccounted, Kept
<1> QED
  BY <1>1, <1>2, <1>3, <1>4, <1>5 DEF Drain

\* It holds of every reachable state.
LEMMA DlqInvariant == DlqSpec => []DlqInv
<1>1. DlqInit => DlqInv
  BY DEF DlqInit, DlqInv, DlqTypeOK, CycleWhileUp, CopiesAccounted, Kept, Tasks
<1>2. ASSUME DlqInv, [DlqNext]_dlqVars PROVE DlqInv'
  <2> USE DEF DlqInv
  <2>1. ASSUME NEW e \in Events, Put(e) PROVE DlqInv'
    <3>1. /\ Append(queue, e) \in Seq(Events)
          /\ ToSet(Append(queue, e)) = ToSet(queue) \cup {e}
      BY <1>2, ElementsOfLists DEF DlqTypeOK
    <3>2. Kept'
      BY <1>2, <2>1, <3>1 DEF Put, Kept, cycleVars
    <3> QED
      BY <1>2, <2>1, <3>1, <3>2 DEF Put, cycleVars, DlqTypeOK, CycleWhileUp, CopiesAccounted
  <2>2. CASE Shutdown
    <3>1. queue' \in Seq(Events) /\ process' \in {"draining", "down"} /\ <<>> \in Seq(Events)
      <4>1. queue \in Seq(Events) /\ <<>> \in Seq(Events)
        BY <1>2 DEF DlqTypeOK
      <4>2. CASE wired
        BY <2>2, <4>1, <4>2 DEF Shutdown
      <4>3. CASE ~wired
        BY <2>2, <4>1, <4>3 DEF Shutdown
      <4> QED
        BY <4>2, <4>3
    <3>2. DlqTypeOK'
      BY <1>2, <2>2, <3>1 DEF Shutdown, DlqTypeOK, Tasks
    <3> QED
      BY <1>2, <2>2, <3>2 DEF Shutdown, CycleWhileUp, CopiesAccounted, Kept
  <2>3. CASE UNCHANGED dlqVars
    BY <1>2, <2>3 DEF dlqVars, DlqTypeOK, CycleWhileUp, CopiesAccounted, Kept
  <2> QED
    BY <1>2, <2>1, <2>2, <2>3, CycleInv, DrainInv DEF DlqNext
<1> QED
  BY <1>1, <1>2, PTL DEF DlqSpec

\* Types: the queue, the batch, what a cycle copied and what remains are lists of
\* events (infrastructure/dlq.py).
THEOREM DeadLetterTypes == DlqSpec => []DlqTypeOK
<1>1. DlqInv => DlqTypeOK
  BY DEF DlqInv
<1> QED
  BY <1>1, DlqInvariant, PTL

\* While a handler is set, an event that was put aside is in the queue, in hand,
\* handled, or broke a drain: no interleaving of put, the cycles of reprocess,
\* their cancellation and the drain loses one.
THEOREM DeadLettersKept == DlqSpec => []NoEventLost
<1>1. DlqInv => NoEventLost
  BY DEF DlqInv, Kept, NoEventLost
<1> QED
  BY <1>1, DlqInvariant, PTL

\* A cycle works through a copy of the front of the queue, one event after the
\* other, and has put aside again only events that it has tried.
InTurn ==
  task = "cycle" =>
    /\ Len(copied) <= Len(queue) /\ \A i \in 1 .. Len(copied) : copied[i] = queue[i]
    /\ \E j \in 1 .. Len(copied) :
         /\ inHand = copied[j]
         /\ batch = SubSeq(copied, j + 1, Len(copied))
         /\ EachOnce(remaining) /\ ToSet(remaining) \subseteq FirstOf(copied, j - 1)

\* No event is in the queue twice, or in the queue and in a drain's hand.
OrderInv ==
  /\ EachOnce(queue) /\ ToSet(queue) \subseteq dead
  /\ process = "draining" /\ inHand # None => inHand \in dead \ ToSet(queue)
  /\ InTurn

\* A cycle starts with the first event it has copied.
LEMMA StartCycleOrder == ASSUME DlqInv, OrderInv, StartCycle PROVE OrderInv'
<1> DEFINE n == IF Len(queue) < BatchSize THEN Len(queue) ELSE BatchSize
           c == SubSeq(queue, 1, n)
<1>1. /\ queue \in Seq(Events) /\ queue # <<>> /\ process = "up"
      /\ copied' = c /\ batch' = Tail(c) /\ inHand' = Head(c) /\ remaining' = <<>>
      /\ UNCHANGED <<queue, dead, process>>
  BY DEF StartCycle, DlqInv, DlqTypeOK, Tasks
<1>2. n \in 1 .. Len(queue)
  BY <1>1
<1> HIDE DEF n
<1>3. c \in Seq(Events) /\ Len(c) = n /\ \A i \in 1 .. n : c[i] = queue[i]
  BY <1>1, <1>2
<1> HIDE DEF c
<1>4. c # <<>> /\ 1 \in 1 .. Len(c)
  BY <1>2, <1>3
<1>5. Head(c) = c[1] /\ Tail(c) = SubSeq(c, 1 + 1, Len(c))
  BY <1>3, <1>4, TailIsSubSeq
<1>6. EachOnce(<<>>) /\ ToSet(<<>>) = {}
  BY DEF EachOnce, ToSet
<1>7. InTurn'
  BY <1>1, <1>2, <1>3, <1>4, <1>5, <1>6 DEF InTurn
<1> QED
  BY <1>1, <1>7 DEF OrderInv

\* The end of a turn of the cycle; rest is what it has put aside again so far.
LEMMA AdvanceOrder ==
  ASSUME DlqInv, OrderInv, task = "cycle", NEW rest \in Seq(Events), Advance(rest),
         NEW j \in 1 .. Len(copied), batch = SubSeq(copied, j + 1, Len(copied)),
         EachOnce(rest), ToSet(rest) \subseteq FirstOf(copied, j),
         UNCHANGED <<dead, process>>
  PROVE  /\ OrderInv'
         /\ task' = "cycle" => queue' = queue
         /\ task' = "asleep" =>
              IsPrefix(SubSeq(queue, Len(copied) + 1, Len(queue)), queue')
<1> DEFINE k == Len(copied)
<1>1. /\ queue \in Seq(Events) /\ copied \in Seq(Events) /\ batch \in Seq(Events)
      /\ process = "up" /\ EachOnce(queue) /\ ToSet(queue) \subseteq dead
      /\ k <= Len(queue) /\ \A i \in 1 .. k : copied[i] = queue[i]
  BY DEF DlqInv, DlqTypeOK, CycleWhileUp, OrderInv, InTurn
<1>2. CASE batch # <<>>
  <2>1. /\ inHand' = Head(batch) /\ batch' = Tail(batch) /\ remaining' = rest
        /\ UNCHANGED <<queue, copied, task>>
    BY <1>2 DEF Advance
  <2>2. j + 1 \in 1 .. Len(copied)
    <3>1. CASE j + 1 > Len(copied)
      BY <1>1, <1>2, <3>1, SubSeqEmpty
    <3> QED
      BY <1>1, <3>1
  <2>3. Head(batch) = copied[j + 1] /\ Tail(batch) = SubSeq(copied, (j + 1) + 1, Len(copied))
    <3>1. k \in j + 1 .. Len(copied)
      BY <1>1, <2>2
    <3> HIDE DEF k
    <3>2. k = Len(copied)
      BY DEF k
    <3> QED
      BY <1>1, <2>2, <3>1, <3>2, HeadTailOfSubSeq
  <2>4. ToSet(rest) \subseteq FirstOf(copied, (j + 1) - 1)
    <3>1. (j + 1) - 1 = j
      OBVIOUS
    <3> QED
      BY <3>1
  <2>5. InTurn'
    BY <1>1, <2>1, <2>2, <2>3, <2>4 DEF InTurn
  <2> QED
    BY <1>1, <2>1, <2>5 DEF OrderInv
<1>3. CASE batch = <<>>
  <2> DEFINE left == SubSeq(queue, k + 1, Len(queue))
  <2>1. \A i \in 1 .. Len(queue) : queue[i] \in ToSet(copied) <=> i <= k
    <3>1. \A x : x \in ToSet(copied) <=> \E i \in 1 .. k : x = copied[i]
      BY <1>1 DEF ToSet
    <3>2. ASSUME NEW i \in 1 .. Len(queue), queue[i] \in ToSet(copied) PROVE i <= k
      <4>1. PICK l \in 1 .. k : queue[i] = copied[l]
        BY <3>1, <3>2
      <4>2. l \in 1 .. Len(queue) /\ queue[i] = queue[l]
        BY <1>1, <4>1
      <4>3. i = l
        BY <1>1, <4>2 DEF EachOnce
      <4> QED
        BY <1>1, <4>3
    <3>3. ASSUME NEW i \in 1 .. Len(queue), i <= k PROVE queue[i] \in ToSet(copied)
      BY <1>1, <3>1, <3>3
    <3> QED
      BY <3>2, <3>3
  <2>2. k \in 0 .. Len(queue)
    BY <1>1
  <2>3. Dropping(queue, ToSet(copied)) = left
    <3> HIDE DEF k
    <3> QED
      BY <1>1, <2>1, <2>2, DroppingFront
  <2>4. FirstOf(queue, k) = FirstOf(copied, k)
    BY <1>1 DEF FirstOf
  <2>5. left \in Seq(Events) /\ EachOnce(left) /\ ToSet(left) = ToSet(queue) \ FirstOf(queue, k)
    <3> HIDE DEF k
    <3> QED
      BY <1>1, <2>2, DistinctRest
  <2>6. ToSet(rest) \subseteq FirstOf(queue, k)
    <3>1. FirstOf(copied, j) \subseteq FirstOf(copied, k)
      BY <1>1 DEF FirstOf
    <3> QED
      BY <2>4, <3>1
  <2>7. FirstOf(queue, k) \subseteq ToSet(queue)
    BY <1>1, <2>2 DEF FirstOf, ToSet
  <2>8. /\ queue' = left \o rest
        /\ task' = "asleep"
    BY <1>3, <2>3 DEF Advance, Requeue
  <2> HIDE DEF left, k
  <2>9. EachOnce(queue')
    <3>1. ToSet(left) \cap ToSet(rest) = {}
      BY <2>5, <2>6
    <3> QED
      BY <2>5, <2>8, <3>1, DistinctJoined
  <2>10. ToSet(queue') \subseteq dead'
    <3>1. ToSet(queue') = ToSet(left) \cup ToSet(rest)
      BY <2>5, <2>8, ElementsOfLists
    <3> QED
      BY <1>1, <2>5, <2>6, <2>7, <3>1
  <2>11. OrderInv'
    BY <1>1, <2>8, <2>9, <2>10 DEF OrderInv, InTurn
  <2>12. IsPrefix(left, queue')
    BY <2>5, <2>8, PrefixOfJoined
  <2> QED
    BY <2>8, <2>11, <2>12 DEF left, k
<1> QED
  BY <1>2, <1>3

\* A cycle keeps the order, and the events it has not tried move up.
LEMMA CycleOrder ==
  ASSUME DlqInv, OrderInv, Cycle
  PROVE  /\ OrderInv'
         /\ ~(task = "cycle" /\ task' = "asleep") => queue' = queue
         /\ task = "cycle" /\ task' = "asleep" =>
              IsPrefix(SubSeq(queue, Len(copied) + 1, Len(queue)), queue')
<1>1. CASE StartCycle
  BY <1>1, StartCycleOrder DEF StartCycle
<1>2. CASE CycleBreaks
  BY <1>2 DEF CycleBreaks, OrderInv, InTurn, DlqInv, CycleWhileUp
<1>3. CASE CycleAccepts \/ CycleRejects
  <2>1. /\ task = "cycle" /\ remaining \in Seq(Events) /\ inHand \in Events
        /\ copied \in Seq(Events) /\ UNCHANGED <<dead, process>>
    BY <1>3 DEF CycleAccepts, CycleRejects, DlqInv, DlqTypeOK, CycleWhileUp
  <2>2. PICK j \in 1 .. Len(copied) :
          /\ inHand = copied[j]
          /\ batch = SubSeq(copied, j + 1, Len(copied))
          /\ EachOnce(remaining) /\ ToSet(remaining) \subseteq FirstOf(copied, j - 1)
    BY <2>1 DEF OrderInv, InTurn
  <2>3. /\ FirstOf(copied, j - 1) \cup {copied[j]} \subseteq FirstOf(copied, j)
        /\ copied[j] \notin FirstOf(copied, j - 1)
    <3>1. FirstOf(copied, j - 1) \cup {copied[j]} \subseteq FirstOf(copied, j)
      BY DEF FirstOf
    <3>2. ASSUME NEW i \in 1 .. j - 1, copied[i] = copied[j] PROVE FALSE
      <4>1. /\ queue[i] = queue[j] /\ i \in 1 .. Len(queue) /\ j \in 1 .. Len(queue)
            /\ EachOnce(queue)
        BY <2>1, <3>2 DEF OrderInv, InTurn, DlqInv, DlqTypeOK
      <4> QED
        BY <4>1 DEF EachOnce
    <3> QED
      BY <3>1, <3>2 DEF FirstOf
  <2>4. PICK rest \in {remaining, Append(remaining, inHand)} : Advance(rest)
    BY <1>3 DEF CycleAccepts, CycleRejects
  <2>5. rest \in Seq(Events) /\ EachOnce(rest) /\ ToSet(rest) \subseteq FirstOf(copied, j)
    <3>1. /\ Append(remaining, inHand) \in Seq(Events)
          /\ ToSet(Append(remaining, inHand)) = ToSet(remaining) \cup {inHand}
      BY <2>1, ElementsOfLists
    <3>2. EachOnce(Append(remaining, inHand))
      BY <2>1, <2>2, <2>3, DistinctMore
    <3> QED
      BY <2>1, <2>2, <2>3, <2>4, <3>1, <3>2
  <2>6. /\ OrderInv'
        /\ task' = "cycle" => queue' = queue
        /\ task' = "asleep" => IsPrefix(SubSeq(queue, Len(copied) + 1, Len(queue)), queue')
    BY <2>1, <2>2, <2>4, <2>5, AdvanceOrder
  <2>7. task' \in {"cycle", "asleep"}
    BY <2>1, <2>4 DEF Advance
  <2> QED
    BY <2>1, <2>6, <2>7
<1> QED
  BY <1>1, <1>2, <1>3 DEF Cycle

\* The drain takes events from the front, and puts one back at most.
LEMMA DrainOrder == ASSUME DlqInv, OrderInv, Drain PROVE OrderInv' /\ process' # "up"
<1>0. /\ process = "draining" /\ task = "ended" /\ queue \in Seq(Events)
      /\ EachOnce(queue) /\ ToSet(queue) \subseteq dead
      /\ inHand # None => inHand \in dead \ ToSet(queue)
      /\ inHand \in Events \cup {None}
  BY DEF Drain, DrainNext, DrainAccepts, DrainRejects, DrainBreaks, DrainEnds, DlqInv,
         DlqTypeOK, OrderInv
<1>1. CASE DrainNext
  <2>1. /\ Head(queue) \in Events /\ Tail(queue) \in Seq(Events)
        /\ ToSet(queue) = {Head(queue)} \cup ToSet(Tail(queue))
        /\ EachOnce(Tail(queue)) /\ Head(queue) \notin ToSet(Tail(queue))
    BY <1>0, <1>1, ElementsOfLists, DistinctTail DEF DrainNext
  <2> QED
    BY <1>0, <1>1, <2>1 DEF DrainNext, OrderInv, InTurn
<1>2. CASE DrainRejects
  <2> DEFINE front == <<inHand>>
  <2>1. front \in Seq(Events) /\ EachOnce(front) /\ ToSet(front) = {inHand}
        /\ inHand \in dead \ ToSet(queue) /\ queue' = front \o queue
    BY <1>0, <1>2, DistinctOne DEF DrainRejects
  <2> HIDE DEF front
  <2>2. EachOnce(queue') /\ ToSet(queue') = ToSet(front) \cup ToSet(queue)
    BY <1>0, <2>1, DistinctJoined, ElementsOfLists
  <2> QED
    BY <1>0, <1>2, <2>1, <2>2 DEF DrainRejects, OrderInv, InTurn
<1>3. CASE DrainAccepts
  BY <1>0, <1>3 DEF DrainAccepts, OrderInv, InTurn
<1>4. CASE DrainBreaks
  BY <1>0, <1>4 DEF DrainBreaks, OrderInv, InTurn
<1>5. CASE DrainEnds
  BY <1>0, <1>5 DEF DrainEnds, cycleVars, OrderInv, InTurn
<1> QED
  BY <1>1, <1>2, <1>3, <1>4, <1>5 DEF Drain

\* What UntriedMoveUp says of a step.
Untried ==
  process' = "up" =>
    LET tried == IF task = "cycle" /\ task' = "asleep" THEN Len(copied) ELSE 0
    IN  IsPrefix(SubSeq(queue, tried + 1, Len(queue)), queue')

LEMMA OrderStep ==
  ASSUME DlqInv, OrderInv, [DlqNext]_dlqVars PROVE OrderInv' /\ Untried
<1>0. /\ queue \in Seq(Events) /\ SubSeq(queue, 0 + 1, Len(queue)) = queue
      /\ IsPrefix(queue, queue)
  <2>1. queue \in Seq(Events) /\ SubSeq(queue, 1, Len(queue)) = queue /\ Len(queue) <= Len(queue)
    BY SubSeqFull DEF DlqInv, DlqTypeOK
  <2>2. 0 + 1 = 1
    OBVIOUS
  <2> QED
    BY <2>1, <2>2 DEF IsPrefix
<1>1. ASSUME NEW e \in Events, Put(e) PROVE OrderInv' /\ Untried
  <2>1. /\ e \notin ToSet(queue) /\ queue' = Append(queue, e) /\ dead' = dead \cup {e}
        /\ EachOnce(queue) /\ ToSet(queue) \subseteq dead
        /\ UNCHANGED <<process, batch, copied, remaining, inHand, task>>
    BY <1>1 DEF Put, OrderInv, cycleVars
  <2>2. /\ queue' \in Seq(Events) /\ Len(queue') = Len(queue) + 1 /\ Len(queue) \in Nat
        /\ \A i \in 1 .. Len(queue) : queue'[i] = queue[i]
        /\ ToSet(queue') = ToSet(queue) \cup {e} /\ queue' = queue \o <<e>>
    <3>1. ToSet(Append(queue, e)) = ToSet(queue) \cup {e}
      BY <1>0, ElementsOfLists
    <3>2. Append(queue, e) = queue \o <<e>>
      BY <1>0, AppendIsConcat
    <3> QED
      BY <1>0, <2>1, <3>1, <3>2
  <2>3. EachOnce(queue')
    BY <1>0, <2>1, DistinctMore
  <2>4. InTurn'
    <3> SUFFICES ASSUME task = "cycle" PROVE InTurn'
      BY <2>1 DEF InTurn
    <3>1. /\ Len(copied) <= Len(queue) /\ \A i \in 1 .. Len(copied) : copied[i] = queue[i]
          /\ Len(copied) \in Nat
      BY DEF OrderInv, InTurn, DlqInv, DlqTypeOK
    <3>2. \A i \in 1 .. Len(copied) : copied[i] = queue'[i]
      BY <2>2, <3>1
    <3>3. Len(copied) <= Len(queue')
      BY <2>2, <3>1
    <3>4. \E j \in 1 .. Len(copied) :
            /\ inHand = copied[j]
            /\ batch = SubSeq(copied, j + 1, Len(copied))
            /\ EachOnce(remaining) /\ ToSet(remaining) \subseteq FirstOf(copied, j - 1)
      BY DEF OrderInv, InTurn
    <3> QED
      BY <2>1, <3>2, <3>3, <3>4 DEF InTurn
  <2>5. process = "draining" /\ inHand # None => inHand' \in dead' \ ToSet(queue')
    BY <1>1, <2>1, <2>2 DEF OrderInv, Put
  <2>6. OrderInv'
    BY <2>1, <2>2, <2>3, <2>4, <2>5 DEF OrderInv
  <2>7. IsPrefix(queue, queue')
    <3>1. <<e>> \in Seq(Events)
      OBVIOUS
    <3> QED
      BY <1>0, <2>2, <3>1, PrefixOfJoined
  <2> QED
    BY <1>0, <2>1, <2>6, <2>7 DEF Untried
<1>2. CASE Cycle
  BY <1>0, <1>2, CycleOrder DEF Untried
<1>3. CASE Drain
  BY <1>3, DrainOrder DEF Untried
<1>4. CASE Shutdown
  <2>1. EachOnce(<<>>) /\ ToSet(<<>>) = {}
    BY DEF EachOnce, ToSet
  <2>2. EachOnce(queue') /\ ToSet(queue') \subseteq dead'
    BY <1>4, <2>1 DEF Shutdown, OrderInv
  <2> QED
    BY <1>4, <2>2 DEF Shutdown, OrderInv, InTurn, Untried
<1>5. CASE UNCHANGED dlqVars
  BY <1>0, <1>5 DEF dlqVars, OrderInv, InTurn, Untried
<1> QED
  BY <1>1, <1>2, <1>3, <1>4, <1>5 DEF DlqNext

\* What the queue, the cycles and the drain know of the order holds of every
\* reachable state.
LEMMA DlqOrder == DlqSpec => []OrderInv
<1>1. DlqInit => OrderInv
  BY DEF DlqInit, OrderInv, InTurn, EachOnce, ToSet
<1>2. DlqInv /\ OrderInv /\ [DlqNext]_dlqVars => OrderInv'
  BY OrderStep
<1> QED
  BY <1>1, <1>2, DlqInvariant, PTL DEF DlqSpec

\* While the process is up no event is overtaken: each cycle brings those that
\* it has not tried nearer to the front, by the number it has tried, whatever is
\* put meanwhile and however many of the tried are put aside again.  This is
\* why the events of Poison do not hold up the others.
THEOREM NobodyOvertaken == DlqSpec => UntriedMoveUp
<1>1. DlqInv /\ OrderInv /\ [DlqNext]_dlqVars => Untried
  BY OrderStep
<1> QED
  BY <1>1, DlqInvariant, DlqOrder, PTL DEF DlqSpec, UntriedMoveUp, Untried

================================================================================
