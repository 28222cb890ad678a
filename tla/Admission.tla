----------------------------- MODULE Admission -----------------------------
(***************************************************************************)
(* src/server.mjs: POST /runs from the moment its body has been read, with *)
(* submitRun() up to the queue; POST /keys and GET /keys/:key; and the     *)
(* counters of metrics.mjs behind GET /metrics/data.                       *)
(*                                                                         *)
(* The handlers compose components, each specified by its own module.      *)
(* POST /runs loads the caller's key from the Store, which takes time, and *)
(* then, in one go, checks the Limiter and submits to the Queue.  While a  *)
(* key is loaded other requests overtake this one, keys are issued, expire *)
(* and are swept, and runs end.  POST /keys has a limiter of its own, the  *)
(* Issuance.                                                               *)
(***************************************************************************)
EXTENDS Naturals, Sequences, FiniteSets

CONSTANTS
    Requests,         \* the calls of POST /runs and of GET /keys/:key
    Keys,             \* well-formed keys: issued, or never
    Ips,              \* the callers' addresses
    NoKey,            \* no x-sandbin-key header, or an ill-formed one
    HeaderOf,         \* the key each request shows
    IpOf,             \* the address each request comes from
    Issuers,          \* the addresses that ask for a key
    Allowance,        \* requests per window of each key and address
    KeyAllowance,     \* KEY_ISSUANCE_PER_HOUR, of each issuer
    MaxConcurrency, MaxQueueLength, MaxPerKey,  \* of the queue
    Window, SweepInterval,                      \* of the limiter
    Ttl,                                        \* of a key
    MaxTime           \* bound: where the clock stops

Partitions == Keys \cup Ips

ASSUME CallersAssumption ==
    /\ HeaderOf \in [Requests -> Keys \cup {NoKey}]
    /\ IpOf \in [Requests -> Ips]
    /\ Issuers \subseteq Ips
    /\ Allowance \in [Partitions -> Nat]
    /\ KeyAllowance \in [Issuers -> Nat]
    /\ NoKey \notin Keys
    /\ Keys \cap Ips = {}

ASSUME BoundsAssumption ==
    /\ MaxConcurrency \in Nat
    /\ MaxQueueLength \in Nat
    /\ MaxPerKey \in Nat
    /\ Window \in Nat \ {0}
    /\ SweepInterval \in Nat \ {0}
    /\ Ttl \in Nat
    /\ MaxTime \in Nat

VARIABLES
    now,
    file, stamp, save, load, sweep, crashes,    \* the store of keys
    buckets, checked, lastSweep, grants,        \* the limiter
    keyBuckets, keyChecked, keyGrants,          \* the limiter of POST /keys
    waiting, perKeyCount, runningCount, executing,
    ticket, position, outcome, arrivals,        \* the queue
    reply,          \* the status each request was answered with
    pc,             \* where the handler of each request stands
    metrics,        \* the counters of metrics.mjs
    up              \* the process has not ended

storeVars == <<file, stamp, save, load, sweep, crashes>>
limiterVars == <<buckets, checked, grants>>
issuanceVars == <<keyBuckets, keyChecked, keyGrants>>
queueVars == <<waiting, perKeyCount, runningCount, executing, ticket,
               position, outcome, arrivals>>
requestVars == <<reply, pc, metrics>>
vars == <<now, lastSweep, storeVars, limiterVars, issuanceVars, queueVars,
          requestVars, up>>

Sweeper == "sweepAll"

Store == INSTANCE TtlStore WITH
    Ids <- Keys, Loaders <- Requests, Sweepers <- {Sweeper}, MaxCrashes <- 0

Limiter == INSTANCE RateLimiter WITH
    Ids <- Partitions, Limit <- Allowance, answer <- checked

Issuance == INSTANCE RateLimiter WITH
    Ids <- Issuers, Limit <- KeyAllowance, answer <- keyChecked,
    buckets <- keyBuckets, grants <- keyGrants

\* A call of submit(): the request it is for, and its key in the queue, the
\* header or the address of the request.
Calls ==
    {call \in Requests \X Partitions :
        call[2] \in {HeaderOf[call[1]], IpOf[call[1]]}}

Queue == INSTANCE RunQueue WITH
    Tasks <- Calls, Keys <- Partitions,
    KeyOf <- [call \in Calls |-> call[2]], answer <- outcome

NoReply == 0

NoCounts ==
    [submitted |-> 0, accepted |-> 0, rejected |-> 0, finished |-> 0,
     errors |-> 0, keysIssued |-> 0]

Init ==
    /\ up = TRUE
    /\ Store!Init
    /\ Limiter!Init
    /\ Issuance!Init
    /\ Queue!Init
    /\ reply = [r \in Requests |-> NoReply]
    /\ pc = [r \in Requests |-> "new"]
    /\ metrics = NoCounts

Reply(r, code) ==
    /\ reply' = [reply EXCEPT ![r] = code]
    /\ pc' = [pc EXCEPT ![r] = "done"]

\* recordSubmitted(), and recordAccepted() or recordRejected() on the way out.
CountAs(way) ==
    metrics' = [metrics EXCEPT !.submitted = @ + 1, ![way] = @ + 1]

\* recordFinished(): in all, and those with the verdict "error".
CountFinished(kind) ==
    metrics' = [metrics EXCEPT !.finished = @ + 1,
                    !.errors = IF kind = "error" THEN @ + 1 ELSE @]

\* recordKeyIssued()
CountKeyIssued == metrics' = [metrics EXCEPT !.keysIssued = @ + 1]

(***************************************************************************)
(* submitRun().                                                            *)
(***************************************************************************)
RateLimited(r, partition) ==
    /\ Limiter!CheckRefused(partition)
    /\ CountAs("rejected")
    /\ Reply(r, 429)
    /\ UNCHANGED queueVars

\* Mutant: a bad request is not counted as rejected.
BadRequestUncounted(r, partition) ==
    /\ Limiter!CheckAllowed(partition)
    /\ metrics' = [metrics EXCEPT !.submitted = @ + 1]
    /\ Reply(r, 400)
    /\ UNCHANGED queueVars

\* An unknown language, or code that is not a string: the check is spent.
BadRequest(r, partition) ==
    /\ Limiter!CheckAllowed(partition)
    /\ CountAs("rejected")
    /\ Reply(r, 400)
    /\ UNCHANGED queueVars

QueueRefuses(r, partition) ==
    /\ Limiter!CheckAllowed(partition)
    /\ \/ Queue!SubmitKeyLimit(<<r, partition>>)
       \/ Queue!SubmitQueueFull(<<r, partition>>)
    /\ CountAs("rejected")
    /\ Reply(r, 429)

Accepted(r, partition) ==
    /\ Limiter!CheckAllowed(partition)
    /\ Queue!SubmitAccepted(<<r, partition>>)
    /\ CountAs("accepted")
    /\ Reply(r, 202)

submitRun(r, partition) ==
    /\ \/ RateLimited(r, partition) \/ BadRequest(r, partition)
       \/ QueueRefuses(r, partition) \/ Accepted(r, partition)
    /\ UNCHANGED <<storeVars, issuanceVars, up>>

(***************************************************************************)
(* The handler of POST /runs.                                              *)
(***************************************************************************)
\* readJsonBody() rejects: too large, of another type, or not JSON.
Unreadable(r) ==
    /\ pc[r] = "new"
    /\ Reply(r, 400)
    /\ UNCHANGED <<now, lastSweep, storeVars, limiterVars, issuanceVars,
                   queueVars, metrics, up>>

Anonymous(r) ==
    /\ pc[r] = "new"
    /\ HeaderOf[r] = NoKey
    /\ submitRun(r, IpOf[r])

BeginLoad(r, place) ==
    /\ pc[r] = "new"
    /\ HeaderOf[r] # NoKey
    /\ Store!LoadBegin(r, HeaderOf[r])
    /\ pc' = [pc EXCEPT ![r] = place]
    /\ UNCHANGED <<lastSweep, limiterVars, issuanceVars, queueVars, reply,
                   metrics, up>>

ShowKey(r) == BeginLoad(r, "loading")

\* The file operations of the load.
LoadKey(r) ==
    /\ \/ Store!LoadMisses(r) \/ Store!LoadHits(r)
       \/ Store!LoadFindsExpired(r) \/ Store!LoadUnlinks(r)
    /\ UNCHANGED <<lastSweep, limiterVars, issuanceVars, queueVars,
                   requestVars, up>>

\* Mutant: the header is trusted whatever load() has answered.
PartitionOfHeader(r) == HeaderOf[r]

\* The key if it is an issued one, and the address otherwise.
PartitionOf(r) ==
    IF load[r].answer = "record" THEN HeaderOf[r] ELSE IpOf[r]

\* Mutant: a key that is not found is never answered.
KeyLoadedIfFound(r) ==
    /\ pc[r] = "loading"
    /\ load[r].pc = "done"
    /\ load[r].answer = "record"
    /\ submitRun(r, PartitionOf(r))

KeyLoaded(r) ==
    /\ pc[r] = "loading"
    /\ load[r].pc = "done"
    /\ submitRun(r, PartitionOf(r))

(***************************************************************************)
(* GET /keys/:key, and POST /keys.                                         *)
(***************************************************************************)
AskUsage(r) == BeginLoad(r, "asking")

\* The answer shows what peek() says of the key, and charges nothing.
UsageAnswered(r) ==
    /\ pc[r] = "asking"
    /\ load[r].pc = "done"
    /\ Reply(r, IF load[r].answer = "record" THEN 200 ELSE 404)
    /\ UNCHANGED <<now, lastSweep, storeVars, limiterVars, issuanceVars,
                   queueVars, metrics, up>>

KeyRefused(ip) ==
    /\ Issuance!CheckRefused(ip)
    /\ UNCHANGED <<storeVars, limiterVars, queueVars, requestVars, up>>

\* The check is spent before issue() is called, whatever comes of it.
AskKey(ip, k) ==
    /\ Issuance!CheckAllowed(ip)
    /\ Store!SaveBegin(k)
    /\ UNCHANGED <<limiterVars, queueVars, requestVars, up>>

\* The record of the key is whole, and issue() has yet to resolve.
KeyWritten(k) ==
    /\ Store!SaveWrite(k)
    /\ UNCHANGED <<lastSweep, limiterVars, issuanceVars, queueVars,
                   requestVars, up>>

\* issue() resolves.
KeyIssued(k) ==
    /\ Store!SaveResolve(k)
    /\ CountKeyIssued
    /\ UNCHANGED <<lastSweep, limiterVars, issuanceVars, queueVars, reply, pc, up>>

\* issue() rejects, in mkdir() or writeFile(), maybe with the record on disk.
\* Nobody handles the rejection, which ends the process with every run and
\* request in it.
IssueRejects(k) ==
    /\ save[k] \in {"writing", "written"}
    /\ Store!SaveFail(k)
    /\ up' = FALSE
    /\ UNCHANGED <<lastSweep, limiterVars, issuanceVars, queueVars, requestVars>>

(***************************************************************************)
(* What goes on meanwhile.                                                 *)
(***************************************************************************)
\* A run ends, with a result or because run() rejected: settle() of the queue,
\* and recordFinished().
Finish(call, kind) ==
    /\ Queue!Settle(call, kind)
    /\ CountFinished(kind)
    /\ UNCHANGED <<now, lastSweep, storeVars, limiterVars, issuanceVars, reply,
                   pc, up>>

\* sweepAll(): the limiters at once, the store step by step.
SweepAll ==
    /\ Limiter!Sweep
    /\ Issuance!Sweep
    /\ Store!SweepBegin(Sweeper)
    /\ UNCHANGED <<queueVars, requestVars, up>>

SweepKeys ==
    /\ \/ Store!SweepLists(Sweeper) \/ Store!SweepReads(Sweeper)
       \/ Store!SweepUnlinks(Sweeper) \/ Store!SweepEnds(Sweeper)
    /\ UNCHANGED <<lastSweep, limiterVars, issuanceVars, queueVars,
                   requestVars, up>>

Tick ==
    /\ Limiter!Tick
    /\ Issuance!Tick
    /\ Store!Tick
    /\ UNCHANGED <<queueVars, requestVars, up>>

Handler(r) ==
    \/ Unreadable(r) \/ Anonymous(r) \/ ShowKey(r) \/ LoadKey(r) \/ KeyLoaded(r)
    \/ AskUsage(r) \/ UsageAnswered(r)

KeyHandler ==
    \/ \E ip \in Issuers : KeyRefused(ip) \/ \E k \in Keys : AskKey(ip, k)
    \/ \E k \in Keys : KeyWritten(k) \/ KeyIssued(k) \/ IssueRejects(k)

Next ==
    /\ up
    /\ \/ \E r \in Requests : Handler(r)
       \/ KeyHandler
       \/ \E call \in Calls, kind \in {"result", "error"} : Finish(call, kind)
       \/ SweepAll \/ SweepKeys \/ Tick

Spec == Init /\ [][Next]_vars

WithKey == {r \in Requests : HeaderOf[r] # NoKey}

\* The file operations of loads return, and the handlers go on, in any order.
\* Keys need not be issued, and runs need not end.
GoesOn ==
    up /\ \E r \in WithKey : LoadKey(r) \/ KeyLoaded(r) \/ UsageAnswered(r)

FairSpec == Spec /\ WF_vars(GoesOn)

(***************************************************************************)
(* GET /metrics/data: what both components say at one moment.              *)
(***************************************************************************)
snapshot ==
    [submitted |-> metrics.submitted, accepted |-> metrics.accepted,
     rejected |-> metrics.rejected,
     finished |-> [total |-> metrics.finished, errors |-> metrics.errors],
     keysIssued |-> metrics.keysIssued]

stats == [running |-> runningCount, waiting |-> Len(waiting),
          keys |-> Cardinality(DOMAIN perKeyCount)]

MetricsData == [counts |-> snapshot, queue |-> stats]

(***************************************************************************)
(* Properties.                                                             *)
(***************************************************************************)
\* The requests of an address that have shown no issued key.
Unverified(ip) ==
    {r \in Requests : IpOf[r] = ip /\ load[r].answer # "record"}

InFlightOf(rs) == {call \in Queue!InFlight : call[1] \in rs}

GrantsOf(p) == Len(grants[p])

\* Whatever headers the requests of one address carry, and however long their
\* keys take to load, those without an issued key share the budget of the
\* address: they never have more than maxPerKey runs in flight together, and
\* what they were granted was charged to the address.
SharedBudget ==
    \A ip \in Ips :
        /\ Cardinality(InFlightOf(Unverified(ip))) <= MaxPerKey
        /\ Cardinality({call \in Calls : /\ call[1] \in Unverified(ip)
                                         /\ ticket[call] # "none"})
               <= GrantsOf(ip)

Answered(codes) == {r \in Requests : reply[r] \in codes}

\* What GET /metrics/data shows adds up whenever it is asked: every submission
\* was accepted or rejected, every accepted run has finished, runs or waits,
\* as the queue counts them apart, for no fewer callers than there are keys in
\* it; the callers were told the same, and so were those of the keys.
CountsAddUp ==
    LET shown == MetricsData
        counts == shown.counts
        queue == shown.queue
    IN  /\ counts.submitted = counts.accepted + counts.rejected
        /\ counts.accepted = counts.finished.total + queue.running + queue.waiting
        /\ queue.keys <= queue.running + queue.waiting
        /\ counts.accepted = Cardinality(Answered({202}))
        /\ counts.rejected <= Cardinality(Answered({400, 429}))
        /\ counts.finished.errors = Cardinality({call \in Calls : outcome[call] = "error"})
        /\ counts.keysIssued = Cardinality({k \in Keys : save[k] = "resolved"})

\* Every request whose key is being loaded is answered in the end, whether the
\* key is found, unknown, expired, or swept away meanwhile: unless a key could
\* not be written, which ends the process.
EveryRequestAnswered ==
    \A r \in WithKey :
        pc[r] \in {"loading", "asking"} ~> (pc[r] = "done" \/ ~up)
=============================================================================
