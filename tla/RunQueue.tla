------------------------------ MODULE RunQueue ------------------------------
(***************************************************************************)
(* src/queue.mjs: createQueue().  submit() is synchronous; pump() starts   *)
(* run() and registers settle() on the promise it returns.  JavaScript     *)
(* runs each of submit() and settle() to its end, so each is one action;   *)
(* what interleaves is the order in which callers submit and in which the  *)
(* promises of the started runs are settled, as a result or as an error.   *)
(*                                                                         *)
(* A task is one call of submit().  `executing' stands for the promises    *)
(* run() has returned and that are not settled yet: it is what really      *)
(* runs, and runningCount and perKeyCount are only the code's account of   *)
(* it.                                                                     *)
(***************************************************************************)
EXTENDS Naturals, Sequences, FiniteSets

CONSTANTS
    Tasks,            \* the calls of submit()
    Keys,             \* the callers' keys
    KeyOf,            \* the key each call is made with
    MaxConcurrency,   \* cfg.maxConcurrency
    MaxQueueLength,   \* cfg.maxQueueLength
    MaxPerKey         \* cfg.maxPerKey

ASSUME KeyAssumption == KeyOf \in [Tasks -> Keys]

ASSUME LimitsAssumption ==
    /\ MaxConcurrency \in Nat
    /\ MaxQueueLength \in Nat
    /\ MaxPerKey \in Nat

VARIABLES
    waiting,        \* the array `waiting'
    perKeyCount,    \* the Map `perKeyCount': a function on the keys it holds
    runningCount,   \* the counter `runningCount'
    executing,      \* the runs started by pump() and not settled
    ticket,         \* what submit() returned: accepted, or the verdict
    position,       \* the position submit() returned
    answer,         \* how the promise of the ticket was resolved
    arrivals        \* history: the accepted calls, in the order of arrival

vars == <<waiting, perKeyCount, runningCount, executing,
          ticket, position, answer, arrivals>>

(***************************************************************************)
(* The helpers of createQueue().                                           *)
(***************************************************************************)
countFor(counts, k) == IF k \in DOMAIN counts THEN counts[k] ELSE 0

\* Map.set and Map.delete: a key whose count falls to zero leaves the map.
AddToKeyCount(counts, k) ==
    [j \in DOMAIN counts \cup {k} |->
        IF j = k THEN countFor(counts, k) + 1 ELSE counts[j]]

\* Mutant: the count falls to zero and the key stays in the Map.
TakeFromKeyCountKeepsKey(counts, k) ==
    [counts EXCEPT ![k] = @ - 1]

TakeFromKeyCount(counts, k) ==
    IF countFor(counts, k) <= 1
    THEN [j \in DOMAIN counts \ {k} |-> counts[j]]
    ELSE [counts EXCEPT ![k] = @ - 1]

\* How often the loop of pump() turns: while a slot is free and a run waits.
PumpCount(queue, running) ==
    IF running >= MaxConcurrency THEN 0
    ELSE IF Len(queue) < MaxConcurrency - running
         THEN Len(queue)
         ELSE MaxConcurrency - running

Elements(queue) == {queue[i] : i \in 1..Len(queue)}

\* Mutant: pop() for shift(), the youngest run is started.
PumpYoungest(queue, running, live) ==
    LET n == PumpCount(queue, running)
    IN  /\ waiting' = SubSeq(queue, 1, Len(queue) - n)
        /\ runningCount' = running + n
        /\ executing' = live \cup
               {queue[i] : i \in (Len(queue) - n + 1)..Len(queue)}

\* pump(), called with `queue' and `running' as the caller left them and with
\* `live' the promises that are not settled.
Pump(queue, running, live) ==
    LET n == PumpCount(queue, running)
    IN  /\ waiting' = SubSeq(queue, n + 1, Len(queue))
        /\ runningCount' = running + n
        /\ executing' = live \cup {queue[i] : i \in 1..n}

(***************************************************************************)
(* The operations.                                                         *)
(***************************************************************************)
Init ==
    /\ waiting = <<>>
    /\ perKeyCount = [k \in {} |-> 0]
    /\ runningCount = 0
    /\ executing = {}
    /\ ticket = [t \in Tasks |-> "none"]
    /\ position = [t \in Tasks |-> 0]
    /\ answer = [t \in Tasks |-> "pending"]
    /\ arrivals = <<>>

Reject(t, verdict) ==
    /\ ticket' = [ticket EXCEPT ![t] = verdict]
    /\ answer' = [answer EXCEPT ![t] = "rejected"]
    /\ UNCHANGED <<waiting, perKeyCount, runningCount, executing,
                   position, arrivals>>

KeyLimitReached(k) == countFor(perKeyCount, k) >= MaxPerKey

\* Mutant: the running sandboxes are counted against the waiting places.
QueueFullCountingRunning == Len(waiting) + runningCount >= MaxQueueLength

QueueFull == Len(waiting) >= MaxQueueLength

SubmitKeyLimit(t) ==
    /\ ticket[t] = "none"
    /\ KeyLimitReached(KeyOf[t])
    /\ Reject(t, "key_limit")

SubmitQueueFull(t) ==
    /\ ticket[t] = "none"
    /\ ~KeyLimitReached(KeyOf[t])
    /\ QueueFull
    /\ Reject(t, "queue_full")

\* Mutant: unshift() for push().
SubmitAcceptedInFront(t) ==
    /\ ticket[t] = "none"
    /\ ~KeyLimitReached(KeyOf[t])
    /\ ~QueueFull
    /\ perKeyCount' = AddToKeyCount(perKeyCount, KeyOf[t])
    /\ position' = [position EXCEPT ![t] = Len(waiting)]
    /\ ticket' = [ticket EXCEPT ![t] = "accepted"]
    /\ arrivals' = Append(arrivals, t)
    /\ Pump(<<t>> \o waiting, runningCount, executing)
    /\ UNCHANGED answer

SubmitAccepted(t) ==
    /\ ticket[t] = "none"
    /\ ~KeyLimitReached(KeyOf[t])
    /\ ~QueueFull
    /\ perKeyCount' = AddToKeyCount(perKeyCount, KeyOf[t])
    /\ position' = [position EXCEPT ![t] = Len(waiting)]
    /\ ticket' = [ticket EXCEPT ![t] = "accepted"]
    /\ arrivals' = Append(arrivals, t)
    /\ Pump(Append(waiting, t), runningCount, executing)
    /\ UNCHANGED answer

Submit(t) == SubmitKeyLimit(t) \/ SubmitQueueFull(t) \/ SubmitAccepted(t)

\* Mutant: the error path keeps the slot.
SettleKeepsSlotOnError(t, kind) ==
    /\ t \in executing
    /\ perKeyCount' = TakeFromKeyCount(perKeyCount, KeyOf[t])
    /\ Pump(waiting, runningCount - (IF kind = "error" THEN 0 ELSE 1),
            executing \ {t})
    /\ answer' = [answer EXCEPT ![t] = kind]
    /\ UNCHANGED <<ticket, position, arrivals>>

\* Mutant: settle() does not call pump().
SettleWithoutPump(t, kind) ==
    /\ t \in executing
    /\ perKeyCount' = TakeFromKeyCount(perKeyCount, KeyOf[t])
    /\ runningCount' = runningCount - 1
    /\ executing' = executing \ {t}
    /\ answer' = [answer EXCEPT ![t] = kind]
    /\ UNCHANGED <<waiting, ticket, position, arrivals>>

\* settle(): the promise of a started run was fulfilled ("result"), or was
\* rejected and the task is answered with an error of the queue's own.
Settle(t, kind) ==
    /\ t \in executing
    /\ perKeyCount' = TakeFromKeyCount(perKeyCount, KeyOf[t])
    /\ Pump(waiting, runningCount - 1, executing \ {t})
    /\ answer' = [answer EXCEPT ![t] = kind]
    /\ UNCHANGED <<ticket, position, arrivals>>

SettleAny(t) == Settle(t, "result") \/ Settle(t, "error")

Next == \E t \in Tasks : Submit(t) \/ SettleAny(t)

Spec == Init /\ [][Next]_vars

\* run() settles: SandboxRun shows it.  Callers need not submit.
Fairness == \A t \in Tasks : WF_vars(SettleAny(t))

FairSpec == Spec /\ Fairness

(***************************************************************************)
(* Type correctness.                                                       *)
(***************************************************************************)
\* Every variable has its type: the queue holds tasks and the Map holds
\* counts of known keys.
TypeOK ==
    /\ waiting \in Seq(Tasks)
    /\ DOMAIN perKeyCount \subseteq Keys
    /\ perKeyCount \in [DOMAIN perKeyCount -> Nat]
    /\ runningCount \in Nat
    /\ executing \in SUBSET Tasks
    /\ ticket \in [Tasks -> {"none", "accepted", "key_limit", "queue_full"}]
    /\ position \in [Tasks -> Nat]
    /\ answer \in [Tasks -> {"pending", "rejected", "result", "error"}]
    /\ arrivals \in Seq(Tasks)

(***************************************************************************)
(* Safety.                                                                 *)
(***************************************************************************)
\* The accepted calls that have not been answered.
InFlight == {t \in Tasks : ticket[t] = "accepted" /\ answer[t] = "pending"}

InFlightOf(k) == {t \in InFlight : KeyOf[t] = k}

\* The counter runningCount is the number of sandboxes that really run, and
\* that never passes maxConcurrency: neither a failing run nor a burst of
\* settlements leaks a slot or frees one twice.
SlotAccounting ==
    /\ runningCount = Cardinality(executing)
    /\ runningCount <= MaxConcurrency

\* Every accepted, unanswered call is in exactly one place: once in the array
\* or running.  None is lost between shift() and run(), none started twice.
InFlightPlaced ==
    /\ InFlight = Elements(waiting) \cup executing
    /\ Elements(waiting) \cap executing = {}
    /\ \A i, j \in 1..Len(waiting) : waiting[i] = waiting[j] => i = j

\* The Map holds exactly the keys with unanswered calls, each with their
\* number, and no key passes maxPerKey: a key is never blocked by counts left
\* behind by runs that are over, and the Map does not grow with dead keys.
KeyAccounting ==
    /\ DOMAIN perKeyCount = {KeyOf[t] : t \in InFlight}
    /\ \A k \in DOMAIN perKeyCount :
          /\ perKeyCount[k] = Cardinality(InFlightOf(k))
          /\ perKeyCount[k] <= MaxPerKey

\* A run waits only while every slot is taken, and the array never passes
\* maxQueueLength.
WorkConserving ==
    /\ waiting # <<>> => runningCount = MaxConcurrency
    /\ Len(waiting) <= MaxQueueLength

\* First come, first served: the array is the tail of the order of arrival,
\* so no run has started before one that was accepted earlier, whatever the
\* order in which runs finish.
FirstComeFirstServed ==
    /\ Len(waiting) <= Len(arrivals)
    /\ \A i \in 1..Len(waiting) :
          waiting[i] = arrivals[Len(arrivals) - Len(waiting) + i]

\* The position a ticket was given bounds the number of runs ahead of it for
\* as long as it waits.
PositionIsHonest ==
    \A i \in 1..Len(waiting) : i - 1 <= position[waiting[i]]

\* A call is turned away as "queue_full" only by a queue that is at capacity:
\* every slot busy and every place taken.  loadtest.mjs counts on a capacity
\* of maxConcurrency + maxQueueLength.
QueueFullMeansCapacity ==
    [][\A t \in Tasks :
          (ticket[t] = "none" /\ ticket'[t] = "queue_full") =>
             Cardinality(InFlight) >= MaxConcurrency + MaxQueueLength]_vars

\* Keys are independent: a call is turned away as "key_limit" only on account
\* of maxPerKey unanswered calls of its own key.
KeyLimitIsOwnFault ==
    [][\A t \in Tasks :
          (ticket[t] = "none" /\ ticket'[t] = "key_limit") =>
             Cardinality(InFlightOf(KeyOf[t])) >= MaxPerKey]_vars

(***************************************************************************)
(* Liveness and refinement.                                                *)
(***************************************************************************)
\* Every call of submit() is answered in the end.
EveryTicketAnswered ==
    \A t \in Tasks : ticket[t] # "none" ~> answer[t] # "pending"

Pool == INSTANCE WorkPool WITH
    backlog  <- waiting,
    active   <- executing,
    finished <- {t \in Tasks : answer[t] \in {"result", "error"}},
    refused  <- {t \in Tasks : answer[t] = "rejected"}

\* The queue with its counters implements the pool without them.
ImplementsPool == Pool!Spec
=============================================================================
