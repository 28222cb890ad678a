----------------------------- MODULE RateLimiter -----------------------------
(***************************************************************************)
(* src/ratelimit.mjs: the fixed-window counter behind POST /runs and       *)
(* POST /keys, with the hourly sweep that server.mjs gives it.             *)
(*                                                                         *)
(* A bucket stays in the Map after its window is over, until the next      *)
(* check of its id or a sweep takes it out: check(), peek() and sweep()    *)
(* each decide by themselves whether it still counts.  Date.now() is taken *)
(* not to go backwards.                                                    *)
(***************************************************************************)
EXTENDS Naturals, Sequences, FiniteSets

CONSTANTS
    Ids,            \* "key:..." and "ip:..." ids
    Limit,          \* requests per window of each id
    Window,         \* windowMs, in ticks
    SweepInterval,  \* SWEEP_INTERVAL_MS, in ticks
    MaxTime         \* bound: where the clock stops

ASSUME LimiterAssumption ==
    /\ Limit \in [Ids -> Nat]
    /\ Window \in Nat \ {0}
    /\ SweepInterval \in Nat \ {0}
    /\ MaxTime \in Nat

VARIABLES
    now,        \* Date.now()
    buckets,    \* the Map: a function on the ids it holds
    answer,     \* what check() returned last
    lastSweep,  \* when the timer of the sweep fired last
    grants      \* history: when the checks of each id were granted

vars == <<now, buckets, answer, lastSweep, grants>>

Bucket == [count : Nat, resetAt : Nat]

NoAnswer == [id |-> "none"]

Init ==
    /\ now = 0
    /\ buckets = [id \in {} |-> [count |-> 0, resetAt |-> 0]]
    /\ answer = NoAnswer
    /\ lastSweep = 0
    /\ grants = [id \in Ids |-> <<>>]

\* Mutant: off by one, the window includes its end.
LiveToTheEnd(id) == id \in DOMAIN buckets /\ now <= buckets[id].resetAt

\* existing && now < existing.resetAt
Live(id) == id \in DOMAIN buckets /\ now < buckets[id].resetAt

bucketFor(id) ==
    IF Live(id) THEN buckets[id]
    ELSE [count |-> 0, resetAt |-> now + Window]

Put(id, bucket) ==
    buckets' = [i \in DOMAIN buckets \cup {id} |->
                    IF i = id THEN bucket ELSE buckets[i]]

Answer(id, allowed, remaining, resetAt) ==
    answer' = [id |-> id, allowed |-> allowed, remaining |-> remaining,
               resetAt |-> resetAt]

Exhausted(bucket, id) == bucket.count >= Limit[id]

\* A refused check leaves the bucket it looked at in the Map.
CheckRefused(id) ==
    LET bucket == bucketFor(id)
    IN  /\ Exhausted(bucket, id)
        /\ Put(id, bucket)
        /\ Answer(id, FALSE, 0, bucket.resetAt)
        /\ UNCHANGED <<now, lastSweep, grants>>

CheckAllowed(id) ==
    LET bucket == bucketFor(id)
    IN  /\ ~Exhausted(bucket, id)
        /\ Put(id, [bucket EXCEPT !.count = @ + 1])
        /\ Answer(id, TRUE, Limit[id] - (bucket.count + 1), bucket.resetAt)
        /\ grants' = [grants EXCEPT ![id] = Append(@, now)]
        /\ UNCHANGED <<now, lastSweep>>

\* peek(): what GET /keys/:key shows, without counting as a check.
peek(id) ==
    IF Live(id) THEN buckets[id]
    ELSE [count |-> 0, resetAt |-> now + Window]

Due == now >= lastSweep + SweepInterval

\* Mutant: the buckets of live windows are deleted with the others.
SweepAll ==
    /\ Due
    /\ lastSweep' = now
    /\ buckets' = [id \in {} |-> [count |-> 0, resetAt |-> 0]]
    /\ UNCHANGED <<now, answer, grants>>

\* Mutant: nothing is deleted.
SweepNothing ==
    /\ Due
    /\ lastSweep' = now
    /\ UNCHANGED <<now, buckets, answer, grants>>

\* sweep(), from the timer of the server.
Sweep ==
    /\ Due
    /\ lastSweep' = now
    /\ buckets' = [id \in {i \in DOMAIN buckets : now < buckets[i].resetAt}
                       |-> buckets[id]]
    /\ UNCHANGED <<now, answer, grants>>

\* Time passes while no timer is due.
Tick ==
    /\ now < MaxTime
    /\ ~Due
    /\ now' = now + 1
    /\ UNCHANGED <<buckets, answer, lastSweep, grants>>

Next ==
    \/ Sweep \/ Tick
    \/ \E id \in Ids : CheckRefused(id) \/ CheckAllowed(id)

Spec == Init /\ [][Next]_vars

(***************************************************************************)
(* Properties.                                                             *)
(***************************************************************************)
Answers == [id : Ids, allowed : BOOLEAN, remaining : Nat, resetAt : Nat]

\* Every variable has its type, and no bucket counts past its limit.
TypeOK ==
    /\ now \in Nat
    /\ DOMAIN buckets \subseteq Ids
    /\ buckets \in [DOMAIN buckets -> Bucket]
    /\ \A id \in DOMAIN buckets : buckets[id].count <= Limit[id]
    /\ answer \in Answers \cup {NoAnswer}
    /\ lastSweep \in Nat
    /\ grants \in [Ids -> Seq(Nat)]

\* However checks, sweeps and the ends of windows fall, an id is never granted
\* more than twice its limit in a span as long as a window: the checks at
\* either side of the end of a window, and no more.
RateBounded ==
    \A id \in Ids : \A i, j \in DOMAIN grants[id] :
        j = i + 2 * Limit[id] => grants[id][j] > grants[id][i] + Window

\* A check is refused only when the whole limit of the id was granted in the
\* last span as long as a window: a window that is over is never held against
\* a caller, swept or not.
RefusalIsEarned ==
    [][\A id \in Ids :
          CheckRefused(id) =>
              LET n == Len(grants[id])
              IN  /\ n >= Limit[id]
                  /\ Limit[id] > 0 =>
                        grants[id][n - Limit[id] + 1] + Window > now]_vars

\* No bucket outlives its window by more than the interval of the sweep: the
\* Map does not grow with every id ever seen.
StaleForgotten ==
    \A id \in DOMAIN buckets : now <= buckets[id].resetAt + SweepInterval

\* What peek() shows of each id is the state of the abstract limiter.
Used == [id \in Ids |-> peek(id).count]

Ends == [id \in Ids |-> IF Live(id) THEN peek(id).resetAt ELSE 0]

Limiter == INSTANCE WindowLimiter WITH used <- Used, ends <- Ends

\* The answers are those of a limiter that forgets a window the moment it is
\* over, and that needs no sweep; and peek() shows how much of it is used.
ImplementsWindow == Limiter!Spec
=============================================================================
