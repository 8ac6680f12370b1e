------------------------------ MODULE Idempotency ------------------------------
(***************************************************************************)
(* One operation under one idempotency key (infrastructure/idempotency.py) *)
(* and the repeated requests for it: the creation of an order, a change of *)
(* its status (order_service.py) or a payment form (payment_service.py).   *)
(*                                                                         *)
(* The key lives in Redis, the effect in the database or at the            *)
(* integration service.  A request may fail or its process may crash       *)
(* between any two steps.  The bot handles one update at a time, so that   *)
(* requests do not overlap.  No handler passes a key yet.                  *)
(***************************************************************************)
EXTENDS Naturals, FiniteSets

CONSTANTS
  MaxRequests,  \* bound: requests
  MaxExpiries   \* bound: times the key expires (24 hours after it was written)

ASSUME IdempotencyAssumption == MaxRequests \in Nat /\ MaxExpiries \in Nat

VARIABLES
  scope,      \* what the key stands for
  key,        \* its value in Redis
  made,       \* the request that the completed key names
  stage,      \* how far the request under way is
  requests,   \* requests so far; the last one is under way
  effects,    \* requests whose effect is durable
  expiries,   \* times the key expired
  forgotten   \* times it expired when it was completed

idemVars == <<scope, key, made, stage, requests, effects, expiries, forgotten>>

Scopes == {"order:create", "order:status", "payment:create"}

Stages == {"idle", "checked", "started", "worked", "completed"}

\* create_order writes the key inside its transaction; the other two act at
\* once and write the key afterwards.
Transactional == scope = "order:create"

--------------------------------------------------------------------------------

IdemInit ==
  /\ scope \in Scopes
  /\ key = "none" /\ made = 0
  /\ stage = "idle"
  /\ requests = 0 /\ effects = {} /\ expiries = 0 /\ forgotten = 0

\* A key that is there ends the request: with the first result, or with an
\* error when the first one is under way, failed, or left no order behind.
Check ==
  /\ stage = "idle"
  /\ requests < MaxRequests
  /\ requests' = requests + 1
  /\ stage' = IF key = "none" THEN "checked" ELSE "idle"
  /\ UNCHANGED <<scope, key, made, effects, expiries, forgotten>>

Start ==
  /\ stage = "checked"
  /\ key' = "processing"
  /\ stage' = "started"
  /\ UNCHANGED <<scope, made, requests, effects, expiries, forgotten>>

\* The rows of the order are written but not committed; the status or the
\* payment form is there at once.
Work ==
  /\ stage = "started"
  /\ stage' = "worked"
  /\ effects' = IF Transactional THEN effects ELSE effects \cup {requests}
  /\ UNCHANGED <<scope, key, made, requests, expiries, forgotten>>

\* Deliberate bug: the key is never completed.
LeaveProcessing ==
  /\ stage = "worked"
  /\ stage' = IF Transactional THEN "completed" ELSE "idle"
  /\ UNCHANGED <<scope, key, made, requests, effects, expiries, forgotten>>

\* The key is completed with the id of the order or the address of the form.
Complete ==
  /\ stage = "worked"
  /\ key' = "completed"
  /\ made' = requests
  /\ stage' = IF Transactional THEN "completed" ELSE "idle"
  /\ UNCHANGED <<scope, requests, effects, expiries, forgotten>>

Commit ==
  /\ stage = "completed"
  /\ effects' = effects \cup {requests}
  /\ stage' = "idle"
  /\ UNCHANGED <<scope, key, made, requests, expiries, forgotten>>

\* A total that is not positive, a transition that is not allowed, an error of
\* Redis, of the database or of the integration service, or a crash: what was
\* not committed is rolled back, and the key stays as it is.
Fail ==
  /\ stage # "idle"
  /\ stage' = "idle"
  /\ UNCHANGED <<scope, key, made, requests, effects, expiries, forgotten>>

ExpireKey ==
  /\ stage = "idle"
  /\ key # "none"
  /\ expiries < MaxExpiries
  /\ key' = "none"
  /\ expiries' = expiries + 1
  /\ forgotten' = IF key = "completed" THEN forgotten + 1 ELSE forgotten
  /\ UNCHANGED <<scope, made, stage, requests, effects>>

IdemNext == Check \/ Start \/ Work \/ Complete \/ Commit \/ Fail \/ ExpireKey

IdemSpec == IdemInit /\ [][IdemNext]_idemVars

--------------------------------------------------------------------------------
\* Properties.

\* Every variable has its type.
IdemTypeOK ==
  /\ scope \in Scopes
  /\ key \in {"none", "processing", "completed"}
  /\ made \in 0 .. MaxRequests
  /\ stage \in Stages
  /\ requests \in 0 .. MaxRequests
  /\ effects \subseteq 1 .. MaxRequests
  /\ expiries \in 0 .. MaxExpiries /\ forgotten \in 0 .. expiries

\* Requests with one key have one effect until the key expires.  An order is
\* not even made twice when the key of a failed request expires: its key is
\* completed before it is committed, so that only a completed key that was
\* forgotten lets a second one through.
OneEffectPerKey ==
  IF Transactional
  THEN Cardinality(effects) <= 1 + forgotten
  ELSE Cardinality(effects) <= 1 + expiries

================================================================================
