------------------------------ MODULE ConfigCache ------------------------------
(***************************************************************************)
(* One key of the two-level cache (infrastructure/cache.py) in config      *)
(* mode: every pod has a local copy in front of the shared Redis, and pods *)
(* tell each other through Pub/Sub to drop theirs.                         *)
(*                                                                         *)
(* An operation gives up the event loop at each Redis command, which is    *)
(* executed at one moment and answered within the socket timeout, or       *)
(* fails.  Messages may be missed.  Values are numbered in the order in    *)
(* which they are written; 0 is no value.                                  *)
(***************************************************************************)
EXTENDS Naturals

CONSTANTS
  Pods,              \* processes that share the Redis
  Ttl,               \* ticks a local copy is fresh (an hour)
  Flight,            \* ticks until a command is answered (the socket timeout)
  RedisThreshold,  \* failures that open the circuit (5)
  MaxWrites          \* bound: values written

ASSUME CacheAssumption ==
  /\ Ttl \in Nat \ {0} /\ Flight \in Nat
  /\ RedisThreshold \in Nat \ {0} /\ MaxWrites \in Nat

VARIABLES
  shared,     \* the value in Redis
  writes,     \* values written so far
  gone,       \* gone[v]: ticks since Redis no longer holds value v
  local,      \* local[p]: the local copy of pod p and its age
  op,         \* op[p]: the operation of pod p that waits for Redis
  failures,   \* failures[p]: failures in a row that pod p counted
  listening,  \* pods whose listener task is alive
  inbox       \* pods with an invalidation to receive

cacheVars == <<shared, writes, gone, local, op, failures, listening, inbox>>

Values == 0 .. MaxWrites

Oldest == Ttl + Flight + 1

NoCopy == [value |-> 0, age |-> 0]

NoOp == [kind |-> "none", value |-> 0, age |-> 0]

\* Deliberate bug: the age of a copy is not looked at.
NeverOld(p) == local[p].value # 0

Fresh(p) == local[p].value # 0 /\ local[p].age < Ttl

\* is_closed looks at the flag alone, and only a success clears the flag: a
\* pod whose circuit opened never asks Redis again.
Closed(p) == failures[p] < RedisThreshold

Older(n, bound) == IF n < bound THEN n + 1 ELSE n

--------------------------------------------------------------------------------

CacheInit ==
  /\ shared = 0 /\ writes = 0
  /\ gone = [v \in Values |-> 0]
  /\ local = [p \in Pods |-> NoCopy]
  /\ op = [p \in Pods |-> NoOp]
  /\ failures = [p \in Pods |-> 0]
  /\ listening = Pods /\ inbox = {}

Waits(p, kind, value) == op' = [op EXCEPT ![p] = [kind |-> kind, value |-> value, age |-> 0]]

Returns(p) == op' = [op EXCEPT ![p] = NoOp]

\* A get that finds no fresh copy; an old one is dropped.
Miss(p) ==
  /\ op[p] = NoOp
  /\ ~Fresh(p)
  /\ local' = [local EXCEPT ![p] = NoCopy]
  /\ IF Closed(p) THEN Waits(p, "get", 0) ELSE UNCHANGED op
  /\ UNCHANGED <<shared, writes, gone, failures, listening, inbox>>

\* A set writes the local copy first.
Set(p) ==
  /\ op[p] = NoOp
  /\ writes < MaxWrites
  /\ writes' = writes + 1
  /\ local' = [local EXCEPT ![p] = [value |-> writes', age |-> 0]]
  /\ IF Closed(p) THEN Waits(p, "set", writes') ELSE UNCHANGED op
  /\ UNCHANGED <<shared, gone, failures, listening, inbox>>

\* delete and clear.
Delete(p) ==
  /\ op[p] = NoOp
  /\ local' = [local EXCEPT ![p] = NoCopy]
  /\ IF Closed(p) THEN Waits(p, "delete", 0) ELSE UNCHANGED op
  /\ UNCHANGED <<shared, writes, gone, failures, listening, inbox>>

\* Redis executes the command and answers: the answer to a get is on its way
\* while the value may be replaced.
Read(p) ==
  /\ op[p].kind = "get"
  /\ Waits(p, "got", shared)
  /\ UNCHANGED <<shared, writes, gone, local, failures, listening, inbox>>

\* The answer to the get arrives and becomes the local copy.
Got(p) ==
  /\ op[p].kind = "got"
  /\ local' = IF op[p].value = 0 THEN local
              ELSE [local EXCEPT ![p] = [value |-> op[p].value, age |-> 0]]
  /\ failures' = [failures EXCEPT ![p] = 0]
  /\ Returns(p)
  /\ UNCHANGED <<shared, writes, gone, listening, inbox>>

\* setex or delete is executed; the invalidation is published next.
Write(p) ==
  /\ op[p].kind \in {"set", "delete"}
  /\ shared' = op[p].value
  /\ failures' = [failures EXCEPT ![p] = 0]
  /\ Waits(p, "publish", 0)
  /\ UNCHANGED <<writes, gone, local, listening, inbox>>

\* Every listener hears it, also that of the pod itself, which drops the value
\* it has just stored.
Publish(p) ==
  /\ op[p].kind = "publish"
  /\ inbox' = inbox \cup listening
  /\ Returns(p)
  /\ UNCHANGED <<shared, writes, gone, local, failures, listening>>

\* A command fails.  get and set count the failure of a Redis client error;
\* delete and clear expect only the built-in ones and let it escape.
Break(p) ==
  /\ op[p] # NoOp
  /\ \E counted \in BOOLEAN :
       /\ counted \/ op[p].kind \in {"delete", "publish"}
       /\ failures' = IF counted
                      THEN [failures EXCEPT ![p] = Older(@, RedisThreshold)]
                      ELSE failures
  /\ Returns(p)
  /\ UNCHANGED <<shared, writes, gone, local, listening, inbox>>

Invalidate(p) ==
  /\ p \in inbox
  /\ inbox' = inbox \ {p}
  /\ local' = [local EXCEPT ![p] = NoCopy]
  /\ UNCHANGED <<shared, writes, gone, op, failures, listening>>

\* The connection of a listener breaks: it reconnects and has missed what was
\* sent, or, after an error of the Redis client, its task has ended.
Disconnect(p) ==
  /\ p \in listening
  /\ inbox' = inbox \ {p}
  /\ listening' \in {listening, listening \ {p}}
  /\ UNCHANGED <<shared, writes, gone, local, op, failures>>

\* The key expires in Redis.
Expire ==
  /\ shared # 0
  /\ shared' = 0
  /\ UNCHANGED <<writes, gone, local, op, failures, listening, inbox>>

\* A value that is being written is not gone, nor one that Redis holds.
Pending(v) == \E p \in Pods : op[p].kind = "set" /\ op[p].value = v

\* A tick of the clock.  No answer is older than the socket timeout.
CacheTick ==
  /\ \A p \in Pods : op[p].kind = "got" => op[p].age < Flight
  /\ gone' = [v \in Values |-> IF v = shared \/ v > writes \/ Pending(v) THEN gone[v]
                               ELSE Older(gone[v], Oldest)]
  /\ local' = [p \in Pods |-> [local[p] EXCEPT !.age = Older(@, Ttl)]]
  /\ op' = [p \in Pods |-> IF op[p].kind = "got" THEN [op[p] EXCEPT !.age = @ + 1] ELSE op[p]]
  /\ UNCHANGED <<shared, writes, failures, listening, inbox>>

CacheNext ==
  \/ \E p \in Pods :
       \/ Miss(p) \/ Set(p) \/ Delete(p)
       \/ Read(p) \/ Got(p) \/ Write(p) \/ Publish(p) \/ Break(p)
       \/ Invalidate(p) \/ Disconnect(p)
  \/ Expire
  \/ CacheTick

CacheSpec == CacheInit /\ [][CacheNext]_cacheVars

--------------------------------------------------------------------------------
\* Properties.

\* Every variable has its type.
CacheTypeOK ==
  /\ shared \in Values /\ writes \in Values
  /\ gone \in [Values -> 0 .. Oldest]
  /\ local \in [Pods -> [value : Values, age : 0 .. Ttl]]
  /\ op \in [Pods -> [kind : {"none", "get", "got", "set", "delete", "publish"},
                      value : Values, age : 0 .. Flight]]
  /\ failures \in [Pods -> 0 .. RedisThreshold]
  /\ listening \subseteq Pods /\ inbox \subseteq listening

\* Whatever messages are missed and however reads and writes overlap, no pod
\* serves a value that left Redis (or did not get there) longer ago than a
\* copy stays fresh plus the time its answer was under way.
StalenessBounded ==
  \A p \in Pods : Fresh(p) => gone[local[p].value] <= local[p].age + Flight

================================================================================
