------------------------------ MODULE DeadLetters ------------------------------
(***************************************************************************)
(* The dead letter queue (infrastructure/dlq.py): events that could not be *)
(* handled are put aside, reprocessed in batches by a task of main.py and  *)
(* drained at shutdown.                                                    *)
(*                                                                         *)
(* Everything waits for the event handler, and during that wait other      *)
(* coroutines put events.  The queue lives in memory: nothing writes it to *)
(* Redis, where only keys that do not exist are deleted.  main.py sets no  *)
(* handler; wired says whether one is set.                                 *)
(***************************************************************************)
EXTENDS Filtering, SequencesExt

CONSTANTS
  Events,    \* events that fail the first time
  Poison,    \* events that no handler ever accepts
  BatchSize, \* events of one cycle (10)
  None       \* no event

ASSUME DeadLettersAssumption ==
  Poison \subseteq Events /\ None \notin Events /\ BatchSize \in Nat \ {0}

VARIABLES
  wired,      \* a handler is set
  queue,      \* the queue
  dead,       \* every event that was ever put
  handled,    \* events the handler accepted
  failed,     \* events whose handling raised what nobody expects
  batch,      \* the events of the cycle under way that are not yet tried
  copied,     \* those it started with: to_process
  remaining,  \* those it could not handle
  inHand,     \* the event the handler works on
  task,       \* the reprocess task: asleep, in a cycle, or ended
  process     \* the process: up, draining, or down

dlqVars == <<wired, queue, dead, handled, failed, batch, copied, remaining, inHand, task, process>>

cycleVars == <<batch, copied, remaining, inHand, task>>

Tasks == {"asleep", "cycle", "ended"}

--------------------------------------------------------------------------------

DlqInit ==
  /\ wired \in BOOLEAN
  /\ queue = <<>> /\ dead = {} /\ handled = {} /\ failed = {}
  /\ batch = <<>> /\ copied = <<>> /\ remaining = <<>> /\ inHand = None
  /\ task = "asleep"
  /\ process = "up"

\* Deliberate bug: a new event is put in front.
PutInFront(e) ==
  /\ process # "down"
  /\ e \notin dead
  /\ queue' = <<e>> \o queue
  /\ dead' = dead \cup {e}
  /\ UNCHANGED <<wired, handled, failed, process>> /\ UNCHANGED cycleVars

Put(e) ==
  /\ process # "down"
  /\ e \notin dead
  /\ queue' = Append(queue, e)
  /\ dead' = dead \cup {e}
  /\ UNCHANGED <<wired, handled, failed, process>> /\ UNCHANGED cycleVars

\* The five minutes are over.  Without a handler the cycle does nothing.
StartCycle ==
  /\ task = "asleep"
  /\ wired
  /\ queue # <<>>
  /\ copied' = SubSeq(queue, 1, IF Len(queue) < BatchSize THEN Len(queue) ELSE BatchSize)
  /\ batch' = Tail(copied')
  /\ inHand' = Head(copied')
  /\ remaining' = <<>>
  /\ task' = "cycle"
  /\ UNCHANGED <<wired, queue, dead, handled, failed, process>>

\* Deliberate bug: the queue is replaced by what remains of the copy.
ReplaceQueue(q, taken, rest) == rest

\* Deliberate bug: what remains goes back to the front.
RetryFirst(q, taken, rest) == rest \o Dropping(q, ToSet(taken))

\* Events put during the cycle stay; those that failed go behind them.
Requeue(q, taken, rest) == Dropping(q, ToSet(taken)) \o rest

\* The next event of the cycle is tried, or the cycle ends.
Advance(rest) ==
  IF batch # <<>>
  THEN /\ inHand' = Head(batch)
       /\ batch' = Tail(batch)
       /\ remaining' = rest
       /\ UNCHANGED <<queue, copied, task>>
  ELSE /\ queue' = Requeue(queue, copied, rest)
       /\ batch' = <<>> /\ copied' = <<>> /\ remaining' = <<>> /\ inHand' = None
       /\ task' = "asleep"

CycleAccepts ==
  /\ task = "cycle"
  /\ inHand \notin Poison
  /\ handled' = handled \cup {inHand}
  /\ Advance(remaining)
  /\ UNCHANGED <<wired, dead, failed, process>>

\* The handler says no, or raises an error the cycle expects.
CycleRejects ==
  /\ task = "cycle"
  /\ Advance(Append(remaining, inHand))
  /\ UNCHANGED <<wired, dead, handled, failed, process>>

\* The handler raises anything else: the cycle is abandoned before the queue
\* is written, and the exception ends the task for good.
CycleBreaks ==
  /\ task = "cycle"
  /\ batch' = <<>> /\ copied' = <<>> /\ remaining' = <<>> /\ inHand' = None
  /\ task' = "ended"
  /\ UNCHANGED <<wired, queue, dead, handled, failed, process>>

\* Shutdown cancels the task, wherever it is, and drains the queue; without a
\* handler it clears it.
Shutdown ==
  /\ process = "up"
  /\ task' = "ended"
  /\ batch' = <<>> /\ copied' = <<>> /\ remaining' = <<>> /\ inHand' = None
  /\ IF wired
     THEN process' = "draining" /\ UNCHANGED queue
     ELSE process' = "down" /\ queue' = <<>>
  /\ UNCHANGED <<wired, dead, handled, failed>>

DrainNext ==
  /\ process = "draining"
  /\ inHand = None
  /\ queue # <<>>
  /\ inHand' = Head(queue)
  /\ queue' = Tail(queue)
  /\ UNCHANGED <<wired, dead, handled, failed, batch, copied, remaining, task, process>>

DrainAccepts ==
  /\ process = "draining"
  /\ inHand \notin Poison \cup {None}
  /\ handled' = handled \cup {inHand}
  /\ inHand' = None
  /\ UNCHANGED <<wired, queue, dead, failed, batch, copied, remaining, task, process>>

\* One event the handler rejects ends the drain; it is put back in front.
DrainRejects ==
  /\ process = "draining"
  /\ inHand # None
  /\ queue' = <<inHand>> \o queue
  /\ inHand' = None
  /\ process' = "down"
  /\ UNCHANGED <<wired, dead, handled, failed, batch, copied, remaining, task>>

\* An exception that nobody expects leaves drain with the event in hand.
DrainBreaks ==
  /\ process = "draining"
  /\ inHand # None
  /\ failed' = failed \cup {inHand}
  /\ inHand' = None
  /\ process' = "down"
  /\ UNCHANGED <<wired, queue, dead, handled, batch, copied, remaining, task>>

\* The queue is empty or the five seconds are over.
DrainEnds ==
  /\ process = "draining"
  /\ inHand = None
  /\ process' = "down"
  /\ UNCHANGED <<wired, queue, dead, handled, failed>> /\ UNCHANGED cycleVars

Cycle == StartCycle \/ CycleAccepts \/ CycleRejects \/ CycleBreaks

Drain == DrainNext \/ DrainAccepts \/ DrainRejects \/ DrainBreaks \/ DrainEnds

DlqNext == (\E e \in Events : Put(e)) \/ Cycle \/ Shutdown \/ Drain

DlqSpec == DlqInit /\ [][DlqNext]_dlqVars

--------------------------------------------------------------------------------
\* Properties.

\* While a handler is set, an event that was put aside is in the queue, in
\* hand, or was handled, although events arrive during cycles, cycles are
\* cancelled and drains are cut short; only the event whose handling raised an
\* exception nobody expects during a drain is gone.
NoEventLost == wired => dead \subseteq ToSet(queue) \cup {inHand} \cup handled \cup failed

\* Events that are never accepted do not hold up the others, although each
\* cycle takes only the first few of the queue.
GoodEventsHandled ==
  \A e \in Events \ Poison :
    (wired /\ e \in dead) ~> (e \in handled \/ task = "ended")

\* While the process is up, no event is overtaken by one that comes behind it or
\* is put aside again: the events that a cycle has not tried move up by as many
\* places as it took, and everything else leaves them where they are.
UntriedMoveUp ==
  [][process' = "up" =>
       LET tried == IF task = "cycle" /\ task' = "asleep" THEN Len(copied) ELSE 0
       IN  IsPrefix(SubSeq(queue, tried + 1, Len(queue)), queue')]_dlqVars

================================================================================
