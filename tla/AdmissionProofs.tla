-------------------------- MODULE AdmissionProofs --------------------------
(***************************************************************************)
(* Proofs about Admission, for any requests, keys, addresses and limits.    *)
(*                                                                         *)
(* The first part shows that the server does to each of its components only *)
(* what the component's own specification allows: every step of Admission   *)
(* is a step of the queue or leaves it alone, and the same holds of the two *)
(* limiters and the store.  What is proved about the components therefore   *)
(* holds inside the server.  The second part relates them to each other:    *)
(* a call of submit() is charged to the partition it is queued under, and   *)
(* the counters of metrics.mjs follow the queue.                            *)
(***************************************************************************)
EXTENDS Admission, FiniteSetTheorems, SequenceTheorems, TLAPS

\* The components again, with what is proved about them.
QueueOf == INSTANCE RunQueueProofs WITH
    Tasks <- Calls, Keys <- Partitions,
    KeyOf <- [call \in Calls |-> call[2]], answer <- outcome

RunsOf == INSTANCE RateLimiterProofs WITH
    Ids <- Partitions, Limit <- Allowance, answer <- checked

KeysOf == INSTANCE RateLimiterProofs WITH
    Ids <- Issuers, Limit <- KeyAllowance, answer <- keyChecked,
    buckets <- keyBuckets, grants <- keyGrants

StoreOf == INSTANCE TtlStoreProofs WITH
    Ids <- Keys, Loaders <- Requests, Sweepers <- {Sweeper}, MaxCrashes <- 0

(***************************************************************************)
(* The assumptions of the components hold.                                 *)
(***************************************************************************)
LEMMA QueueAssumptions ==
    /\ [call \in Calls |-> call[2]] \in [Calls -> Partitions]
    /\ MaxConcurrency \in Nat /\ MaxQueueLength \in Nat /\ MaxPerKey \in Nat
BY BoundsAssumption DEF Calls

LEMMA LimiterAssumptions ==
    /\ Allowance \in [Partitions -> Nat]
    /\ KeyAllowance \in [Issuers -> Nat]
    /\ Window \in Nat \ {0} /\ SweepInterval \in Nat \ {0} /\ MaxTime \in Nat
BY BoundsAssumption, CallersAssumption

LEMMA StoreAssumptions == Ttl \in Nat /\ MaxTime \in Nat /\ 0 \in Nat
BY BoundsAssumption

(***************************************************************************)
(* Every step of the server is a step of each component, or leaves it.     *)
(***************************************************************************)
\* The actions of Next, as the proofs take them.
LEMMA StepCases ==
    ASSUME Next
    PROVE  \/ \E r \in Requests : Unreadable(r) \/ UsageAnswered(r)
           \/ \E r \in Requests : Anonymous(r) \/ KeyLoaded(r)
           \/ \E r \in Requests : ShowKey(r) \/ AskUsage(r)
           \/ \E r \in Requests : LoadKey(r)
           \/ \E ip \in Issuers : KeyRefused(ip)
           \/ \E ip \in Issuers, k \in Keys : AskKey(ip, k)
           \/ \E k \in Keys : KeyIssued(k)
           \/ \E k \in Keys : KeyWritten(k) \/ IssueRejects(k)
           \/ \E call \in Calls, kind \in {"result", "error"} : Finish(call, kind)
           \/ SweepAll \/ SweepKeys \/ Tick
BY DEF Next, Handler, KeyHandler

\* Where the handlers stand, and that only requests with a key load one.
HandlersKept ==
    /\ pc \in [Requests -> {"new", "loading", "asking", "done"}]
    /\ reply \in [Requests -> Nat]
    /\ \A r \in Requests : pc[r] \in {"loading", "asking"} => HeaderOf[r] \in Keys

\* A request is submitted under its header's key or under its address.
LEMMA SubmitsOf ==
    ASSUME HandlersKept, NEW r \in Requests, Anonymous(r) \/ KeyLoaded(r)
    PROVE  \E p \in Partitions :
              /\ submitRun(r, p)
              /\ <<r, p>> \in Calls
              /\ pc[r] \in {"new", "loading"}
              /\ pc[r] = "loading" => load[r].pc = "done"
              /\ p = IpOf[r] \/ load[r].answer = "record"
<1>1. IpOf[r] \in Partitions /\ <<r, IpOf[r]>> \in Calls
  BY CallersAssumption DEF Partitions, Calls
<1>2. HeaderOf[r] \in Keys => HeaderOf[r] \in Partitions /\ <<r, HeaderOf[r]>> \in Calls
  BY DEF Partitions, Calls
<1>3. CASE Anonymous(r)
  BY <1>1, <1>3 DEF Anonymous
<1>4. CASE KeyLoaded(r)
  <2>1. submitRun(r, PartitionOf(r)) /\ pc[r] = "loading" /\ load[r].pc = "done"
    BY <1>4 DEF KeyLoaded
  <2>2. CASE load[r].answer = "record"
    BY <1>2, <2>1, <2>2 DEF HandlersKept, PartitionOf
  <2>3. CASE load[r].answer # "record"
    BY <1>1, <2>1, <2>3 DEF PartitionOf
  <2> QED
    BY <2>2, <2>3
<1> QED
  BY <1>3, <1>4

LEMMA HandlersStep ==
    ASSUME HandlersKept, [Next]_vars
    PROVE  HandlersKept'
<1> USE DEF HandlersKept
<1>1. ASSUME NEW r \in Requests, NEW code \in Nat, Reply(r, code)
      PROVE  HandlersKept'
  BY <1>1 DEF Reply
<1>2. CASE UNCHANGED <<pc, reply>>
  BY <1>2
<1>3. ASSUME NEW r \in Requests, NEW p, submitRun(r, p)
      PROVE  HandlersKept'
  BY <1>1, <1>3 DEF submitRun, RateLimited, BadRequest, QueueRefuses, Accepted
<1>4. ASSUME NEW r \in Requests, NEW place \in {"loading", "asking"},
             BeginLoad(r, place)
      PROVE  HandlersKept'
  <2>1. HeaderOf[r] \in Keys
    BY <1>4, CallersAssumption DEF BeginLoad
  <2> QED
    BY <1>4, <2>1 DEF BeginLoad
<1>5. ASSUME Next PROVE HandlersKept'
  <2>1. CASE \E r \in Requests : Unreadable(r) \/ UsageAnswered(r)
    BY <1>1, <2>1 DEF Unreadable, UsageAnswered
  <2>2. CASE \E r \in Requests : Anonymous(r) \/ KeyLoaded(r)
    BY <1>3, <2>2 DEF Anonymous, KeyLoaded
  <2>3. CASE \E r \in Requests : ShowKey(r) \/ AskUsage(r)
    BY <1>4, <2>3 DEF ShowKey, AskUsage
  <2>4. CASE \E r \in Requests : LoadKey(r)
    BY <1>2, <2>4 DEF LoadKey, requestVars
  <2>5. CASE \E ip \in Issuers : KeyRefused(ip)
    BY <1>2, <2>5 DEF KeyRefused, requestVars
  <2>6. CASE \E ip \in Issuers, k \in Keys : AskKey(ip, k)
    BY <1>2, <2>6 DEF AskKey, requestVars
  <2>7. CASE \E k \in Keys : KeyIssued(k)
    BY <1>2, <2>7 DEF KeyIssued
  <2>8. CASE \E k \in Keys : KeyWritten(k) \/ IssueRejects(k)
    BY <1>2, <2>8 DEF KeyWritten, IssueRejects, requestVars
  <2>9. CASE \E call \in Calls, kind \in {"result", "error"} : Finish(call, kind)
    BY <1>2, <2>9 DEF Finish
  <2>10. CASE SweepAll \/ SweepKeys \/ Tick
    BY <1>2, <2>10 DEF SweepAll, SweepKeys, Tick, requestVars
  <2> QED
    BY <1>5, <2>1, <2>2, <2>3, <2>4, <2>5, <2>6, <2>7, <2>8, <2>9, <2>10, StepCases
<1> QED
  BY <1>2, <1>5 DEF vars, requestVars

LEMMA HandlersInit == Init => HandlersKept
BY DEF Init, HandlersKept, NoReply

\* The queue.
LEMMA QueueStep ==
    ASSUME HandlersKept, [Next]_vars
    PROVE  [Queue!Next]_(Queue!vars)
<1>1. UNCHANGED queueVars => UNCHANGED Queue!vars
  BY DEF queueVars, Queue!vars
<1>2. ASSUME NEW call \in Calls,
             \/ Queue!SubmitKeyLimit(call) \/ Queue!SubmitQueueFull(call)
             \/ Queue!SubmitAccepted(call)
             \/ \E kind \in {"result", "error"} : Queue!Settle(call, kind)
      PROVE  Queue!Next
  BY <1>2 DEF Queue!Next, Queue!Submit, Queue!SettleAny
<1>3. ASSUME NEW r \in Requests, Anonymous(r) \/ KeyLoaded(r)
      PROVE  [Queue!Next]_(Queue!vars)
  <2>1. PICK p \in Partitions : submitRun(r, p) /\ <<r, p>> \in Calls
    BY <1>3, SubmitsOf
  <2>2. CASE RateLimited(r, p) \/ BadRequest(r, p)
    BY <1>1, <2>2 DEF RateLimited, BadRequest
  <2>3. CASE QueueRefuses(r, p) \/ Accepted(r, p)
    BY <1>2, <2>1, <2>3 DEF QueueRefuses, Accepted
  <2> QED
    BY <2>1, <2>2, <2>3 DEF submitRun
<1>4. ASSUME Next PROVE [Queue!Next]_(Queue!vars)
  <2>1. CASE \E r \in Requests : Unreadable(r) \/ UsageAnswered(r)
    BY <1>1, <2>1 DEF Unreadable, UsageAnswered
  <2>2. CASE \E r \in Requests : Anonymous(r) \/ KeyLoaded(r)
    BY <1>3, <2>2
  <2>3. CASE \E r \in Requests : ShowKey(r) \/ AskUsage(r)
    BY <1>1, <2>3 DEF ShowKey, AskUsage, BeginLoad
  <2>4. CASE \E r \in Requests : LoadKey(r)
    BY <1>1, <2>4 DEF LoadKey
  <2>5. CASE \E ip \in Issuers : KeyRefused(ip)
    BY <1>1, <2>5 DEF KeyRefused
  <2>6. CASE \E ip \in Issuers, k \in Keys : AskKey(ip, k)
    BY <1>1, <2>6 DEF AskKey
  <2>7. CASE \E k \in Keys : KeyIssued(k)
    BY <1>1, <2>7 DEF KeyIssued
  <2>8. CASE \E k \in Keys : KeyWritten(k) \/ IssueRejects(k)
    BY <1>1, <2>8 DEF KeyWritten, IssueRejects
  <2>9. CASE \E call \in Calls, kind \in {"result", "error"} : Finish(call, kind)
    BY <1>2, <2>9 DEF Finish
  <2>10. CASE SweepAll \/ SweepKeys \/ Tick
    BY <1>1, <2>10 DEF SweepAll, SweepKeys, Tick
  <2> QED
    BY <1>4, <2>1, <2>2, <2>3, <2>4, <2>5, <2>6, <2>7, <2>8, <2>9, <2>10, StepCases
<1> QED
  BY <1>1, <1>4 DEF vars

\* The limiter of POST /runs.
LEMMA LimiterStep ==
    ASSUME HandlersKept, [Next]_vars
    PROVE  [Limiter!Next]_(Limiter!vars)
<1>1. UNCHANGED <<now, lastSweep, limiterVars>> => UNCHANGED Limiter!vars
  BY DEF limiterVars, Limiter!vars
<1>2. ASSUME NEW r \in Requests, Anonymous(r) \/ KeyLoaded(r)
      PROVE  [Limiter!Next]_(Limiter!vars)
  <2>1. PICK p \in Partitions : submitRun(r, p)
    BY <1>2, SubmitsOf
  <2>2. Limiter!CheckRefused(p) \/ Limiter!CheckAllowed(p)
    BY <2>1 DEF submitRun, RateLimited, BadRequest, QueueRefuses, Accepted
  <2> QED
    BY <2>2 DEF Limiter!Next
<1>3. ASSUME Next PROVE [Limiter!Next]_(Limiter!vars)
  <2>1. CASE \E r \in Requests : Unreadable(r) \/ UsageAnswered(r)
    BY <1>1, <2>1 DEF Unreadable, UsageAnswered
  <2>2. CASE \E r \in Requests : Anonymous(r) \/ KeyLoaded(r)
    BY <1>2, <2>2
  <2>3. CASE \E r \in Requests : ShowKey(r) \/ AskUsage(r)
    BY <1>1, <2>3 DEF ShowKey, AskUsage, BeginLoad, Store!LoadBegin
  <2>4. CASE \E r \in Requests : LoadKey(r)
    BY <1>1, <2>4 DEF LoadKey, Store!LoadMisses, Store!LoadHits,
       Store!LoadFindsExpired, Store!LoadUnlinks
  <2>5. CASE \E ip \in Issuers : KeyRefused(ip)
    BY <1>1, <2>5 DEF KeyRefused, Issuance!CheckRefused
  <2>6. CASE \E ip \in Issuers, k \in Keys : AskKey(ip, k)
    BY <1>1, <2>6 DEF AskKey, Issuance!CheckAllowed
  <2>7. CASE \E k \in Keys : KeyIssued(k)
    BY <1>1, <2>7 DEF KeyIssued, Store!SaveResolve
  <2>8. CASE \E k \in Keys : KeyWritten(k) \/ IssueRejects(k)
    BY <1>1, <2>8 DEF KeyWritten, IssueRejects, Store!SaveWrite, Store!SaveFail
  <2>9. CASE \E call \in Calls, kind \in {"result", "error"} : Finish(call, kind)
    BY <1>1, <2>9 DEF Finish
  <2>10. CASE SweepAll \/ Tick
    BY <2>10 DEF SweepAll, Tick, Limiter!Next
  <2>11. CASE SweepKeys
    BY <1>1, <2>11 DEF SweepKeys, Store!SweepLists, Store!SweepReads,
       Store!SweepUnlinks, Store!SweepEnds
  <2> QED
    BY <1>3, <2>1, <2>2, <2>3, <2>4, <2>5, <2>6, <2>7, <2>8, <2>9, <2>10,
       <2>11, StepCases
<1> QED
  BY <1>1, <1>3 DEF vars

\* The limiter of POST /keys.
LEMMA IssuanceStep ==
    ASSUME HandlersKept, [Next]_vars
    PROVE  [Issuance!Next]_(Issuance!vars)
<1>1. UNCHANGED <<now, lastSweep, issuanceVars>> => UNCHANGED Issuance!vars
  BY DEF issuanceVars, Issuance!vars
<1>2. ASSUME NEW r \in Requests, Anonymous(r) \/ KeyLoaded(r)
      PROVE  [Issuance!Next]_(Issuance!vars)
  <2>1. PICK p \in Partitions : submitRun(r, p)
    BY <1>2, SubmitsOf
  <2>2. Limiter!CheckRefused(p) \/ Limiter!CheckAllowed(p)
    BY <2>1 DEF submitRun, RateLimited, BadRequest, QueueRefuses, Accepted
  <2> QED
    BY <1>1, <2>1, <2>2 DEF submitRun, Limiter!CheckRefused, Limiter!CheckAllowed
<1>3. ASSUME Next PROVE [Issuance!Next]_(Issuance!vars)
  <2>1. CASE \E r \in Requests : Unreadable(r) \/ UsageAnswered(r)
    BY <1>1, <2>1 DEF Unreadable, UsageAnswered
  <2>2. CASE \E r \in Requests : Anonymous(r) \/ KeyLoaded(r)
    BY <1>2, <2>2
  <2>3. CASE \E r \in Requests : ShowKey(r) \/ AskUsage(r)
    BY <1>1, <2>3 DEF ShowKey, AskUsage, BeginLoad, Store!LoadBegin
  <2>4. CASE \E r \in Requests : LoadKey(r)
    BY <1>1, <2>4 DEF LoadKey, Store!LoadMisses, Store!LoadHits,
       Store!LoadFindsExpired, Store!LoadUnlinks
  <2>5. CASE \E ip \in Issuers : KeyRefused(ip)
    BY <2>5 DEF KeyRefused, Issuance!Next
  <2>6. CASE \E ip \in Issuers, k \in Keys : AskKey(ip, k)
    BY <2>6 DEF AskKey, Issuance!Next
  <2>7. CASE \E k \in Keys : KeyIssued(k)
    BY <1>1, <2>7 DEF KeyIssued, Store!SaveResolve
  <2>8. CASE \E k \in Keys : KeyWritten(k) \/ IssueRejects(k)
    BY <1>1, <2>8 DEF KeyWritten, IssueRejects, Store!SaveWrite, Store!SaveFail
  <2>9. CASE \E call \in Calls, kind \in {"result", "error"} : Finish(call, kind)
    BY <1>1, <2>9 DEF Finish
  <2>10. CASE SweepAll \/ Tick
    BY <2>10 DEF SweepAll, Tick, Issuance!Next
  <2>11. CASE SweepKeys
    BY <1>1, <2>11 DEF SweepKeys, Store!SweepLists, Store!SweepReads,
       Store!SweepUnlinks, Store!SweepEnds
  <2> QED
    BY <1>3, <2>1, <2>2, <2>3, <2>4, <2>5, <2>6, <2>7, <2>8, <2>9, <2>10,
       <2>11, StepCases
<1> QED
  BY <1>1, <1>3 DEF vars

\* The store of keys.
LEMMA StoreStep ==
    ASSUME HandlersKept, [Next]_vars
    PROVE  [Store!Next]_(Store!vars)
<1>1. UNCHANGED <<now, storeVars>> => UNCHANGED Store!vars
  BY DEF storeVars, Store!vars
<1>2. ASSUME NEW r \in Requests, Anonymous(r) \/ KeyLoaded(r)
      PROVE  [Store!Next]_(Store!vars)
  <2>1. PICK p \in Partitions : submitRun(r, p)
    BY <1>2, SubmitsOf
  <2>2. Limiter!CheckRefused(p) \/ Limiter!CheckAllowed(p)
    BY <2>1 DEF submitRun, RateLimited, BadRequest, QueueRefuses, Accepted
  <2> QED
    BY <1>1, <2>1, <2>2 DEF submitRun, Limiter!CheckRefused, Limiter!CheckAllowed
<1>3. ASSUME Next PROVE [Store!Next]_(Store!vars)
  <2>1. CASE \E r \in Requests : Unreadable(r) \/ UsageAnswered(r)
    BY <1>1, <2>1 DEF Unreadable, UsageAnswered
  <2>2. CASE \E r \in Requests : Anonymous(r) \/ KeyLoaded(r)
    BY <1>2, <2>2
  <2>3. CASE \E r \in Requests : ShowKey(r) \/ AskUsage(r)
    <3>1. PICK r \in Requests : Store!LoadBegin(r, HeaderOf[r]) /\ HeaderOf[r] # NoKey
      BY <2>3 DEF ShowKey, AskUsage, BeginLoad
    <3>2. HeaderOf[r] \in Keys
      BY <3>1, CallersAssumption
    <3> QED
      BY <3>1, <3>2 DEF Store!Next, Store!LoadStep
  <2>4. CASE \E r \in Requests : LoadKey(r)
    BY <2>4 DEF LoadKey, Store!Next, Store!LoadStep
  <2>5. CASE \E ip \in Issuers : KeyRefused(ip)
    BY <1>1, <2>5 DEF KeyRefused, Issuance!CheckRefused
  <2>6. CASE \E ip \in Issuers, k \in Keys : AskKey(ip, k)
    BY <2>6 DEF AskKey, Store!Next, Store!SaveStep
  <2>7. CASE \E k \in Keys : KeyIssued(k)
    BY <2>7 DEF KeyIssued, Store!Next, Store!SaveStep
  <2>8. CASE \E k \in Keys : KeyWritten(k) \/ IssueRejects(k)
    BY <2>8 DEF KeyWritten, IssueRejects, Store!Next, Store!SaveStep
  <2>9. CASE \E call \in Calls, kind \in {"result", "error"} : Finish(call, kind)
    BY <1>1, <2>9 DEF Finish
  <2>10. CASE SweepAll \/ SweepKeys \/ Tick
    BY <2>10 DEF SweepAll, SweepKeys, Tick, Store!Next, Store!SweepStep
  <2> QED
    BY <1>3, <2>1, <2>2, <2>3, <2>4, <2>5, <2>6, <2>7, <2>8, <2>9, <2>10,
       StepCases
<1> QED
  BY <1>1, <1>3 DEF vars

(***************************************************************************)
(* What is proved about the components holds inside the server.            *)
(***************************************************************************)
LEMMA SameCalls ==
    ASSUME NEW t
    PROVE  /\ Queue!SubmitKeyLimit(t) <=> QueueOf!SubmitKeyLimit(t)
           /\ Queue!SubmitQueueFull(t) <=> QueueOf!SubmitQueueFull(t)
           /\ Queue!SubmitAccepted(t) <=> QueueOf!SubmitAccepted(t)
           /\ \A kind : Queue!Settle(t, kind) <=> QueueOf!Settle(t, kind)
<1> USE DEF Queue!countFor, QueueOf!countFor
<1>1. /\ Queue!SubmitKeyLimit(t) <=> QueueOf!SubmitKeyLimit(t)
      /\ Queue!SubmitQueueFull(t) <=> QueueOf!SubmitQueueFull(t)
  BY DEF Queue!SubmitKeyLimit, QueueOf!SubmitKeyLimit, Queue!SubmitQueueFull,
     QueueOf!SubmitQueueFull, Queue!Reject, QueueOf!Reject,
     Queue!KeyLimitReached, QueueOf!KeyLimitReached, Queue!QueueFull, QueueOf!QueueFull
<1>2. ASSUME NEW queue, NEW running, NEW live
      PROVE  Queue!Pump(queue, running, live) <=> QueueOf!Pump(queue, running, live)
  BY DEF Queue!Pump, QueueOf!Pump, Queue!PumpCount, QueueOf!PumpCount
<1>3. Queue!SubmitAccepted(t) <=> QueueOf!SubmitAccepted(t)
  BY <1>2 DEF Queue!SubmitAccepted, QueueOf!SubmitAccepted,
     Queue!AddToKeyCount, QueueOf!AddToKeyCount,
     Queue!KeyLimitReached, QueueOf!KeyLimitReached, Queue!QueueFull, QueueOf!QueueFull
<1>4. \A kind : Queue!Settle(t, kind) <=> QueueOf!Settle(t, kind)
  BY <1>2 DEF Queue!Settle, QueueOf!Settle, Queue!TakeFromKeyCount, QueueOf!TakeFromKeyCount
<1> QED
  BY <1>1, <1>3, <1>4

LEMMA SameQueue ==
    /\ Queue!Init <=> QueueOf!Init
    /\ [Queue!Next]_(Queue!vars) <=> [QueueOf!Next]_(QueueOf!vars)
<1>1. Queue!Init <=> QueueOf!Init
  BY DEF Queue!Init, QueueOf!Init
<1>2. Queue!Next <=> QueueOf!Next
  BY SameCalls DEF Queue!Next, QueueOf!Next, Queue!Submit, QueueOf!Submit,
     Queue!SettleAny, QueueOf!SettleAny
<1> QED
  BY <1>1, <1>2 DEF Queue!vars, QueueOf!vars

LEMMA SameLimiter ==
    /\ Limiter!Init <=> RunsOf!Init
    /\ [Limiter!Next]_(Limiter!vars) <=> [RunsOf!Next]_(RunsOf!vars)
<1>1. Limiter!Init <=> RunsOf!Init
  BY DEF Limiter!Init, RunsOf!Init, Limiter!NoAnswer, RunsOf!NoAnswer
<1>2. Limiter!Next <=> RunsOf!Next
  BY DEF Limiter!Next, RunsOf!Next, Limiter!Sweep, RunsOf!Sweep, Limiter!Tick, RunsOf!Tick,
     Limiter!Due, RunsOf!Due, Limiter!CheckRefused, RunsOf!CheckRefused,
     Limiter!CheckAllowed, RunsOf!CheckAllowed, Limiter!bucketFor, RunsOf!bucketFor,
     Limiter!Live, RunsOf!Live, Limiter!Put, RunsOf!Put, Limiter!Answer, RunsOf!Answer,
     Limiter!Exhausted, RunsOf!Exhausted
<1> QED
  BY <1>1, <1>2 DEF Limiter!vars, RunsOf!vars

LEMMA SameIssuance ==
    /\ Issuance!Init <=> KeysOf!Init
    /\ [Issuance!Next]_(Issuance!vars) <=> [KeysOf!Next]_(KeysOf!vars)
<1>1. Issuance!Init <=> KeysOf!Init
  BY DEF Issuance!Init, KeysOf!Init, Issuance!NoAnswer, KeysOf!NoAnswer
<1>2. Issuance!Next <=> KeysOf!Next
  BY DEF Issuance!Next, KeysOf!Next, Issuance!Sweep, KeysOf!Sweep, Issuance!Tick, KeysOf!Tick,
     Issuance!Due, KeysOf!Due, Issuance!CheckRefused, KeysOf!CheckRefused,
     Issuance!CheckAllowed, KeysOf!CheckAllowed, Issuance!bucketFor, KeysOf!bucketFor,
     Issuance!Live, KeysOf!Live, Issuance!Put, KeysOf!Put, Issuance!Answer, KeysOf!Answer,
     Issuance!Exhausted, KeysOf!Exhausted
<1> QED
  BY <1>1, <1>2 DEF Issuance!vars, KeysOf!vars

LEMMA SameStore ==
    /\ Store!Init <=> StoreOf!Init
    /\ [Store!Next]_(Store!vars) <=> [StoreOf!Next]_(StoreOf!vars)
<1>1. Store!Init <=> StoreOf!Init
  BY DEF Store!Init, StoreOf!Init, Store!NoLoad, StoreOf!NoLoad, Store!NoSweep, StoreOf!NoSweep
<1>2. ASSUME NEW id PROVE Store!SaveStep(id) <=> StoreOf!SaveStep(id)
  BY DEF Store!SaveStep, StoreOf!SaveStep, Store!SaveBegin, StoreOf!SaveBegin,
     Store!SaveWrite, StoreOf!SaveWrite, Store!SaveResolve, StoreOf!SaveResolve,
     Store!SaveFail, StoreOf!SaveFail
<1>3. ASSUME NEW l PROVE Store!LoadStep(l) <=> StoreOf!LoadStep(l)
  BY DEF Store!LoadStep, StoreOf!LoadStep, Store!LoadMisses, StoreOf!LoadMisses,
     Store!LoadHits, StoreOf!LoadHits, Store!LoadFindsExpired, StoreOf!LoadFindsExpired,
     Store!LoadUnlinks, StoreOf!LoadUnlinks, Store!LoadBegin, StoreOf!LoadBegin,
     Store!Answer, StoreOf!Answer, Store!NoLoad, StoreOf!NoLoad,
     Store!Expired, StoreOf!Expired,
     Store!Unlink, StoreOf!Unlink
<1>4. ASSUME NEW s PROVE Store!SweepStep(s) <=> StoreOf!SweepStep(s)
  BY DEF Store!SweepStep, StoreOf!SweepStep, Store!SweepBegin, StoreOf!SweepBegin,
     Store!SweepLists, StoreOf!SweepLists, Store!SweepReads, StoreOf!SweepReads,
     Store!SweepUnlinks, StoreOf!SweepUnlinks, Store!SweepEnds, StoreOf!SweepEnds,
     Store!SweepsAway, StoreOf!SweepsAway, Store!Expired, StoreOf!Expired,
     Store!Unlink, StoreOf!Unlink, Store!NoSweep, StoreOf!NoSweep
<1>5. Store!Next <=> StoreOf!Next
  BY <1>2, <1>3, <1>4 DEF Store!Next, StoreOf!Next, Store!Crash, StoreOf!Crash,
     Store!Tick, StoreOf!Tick, Store!NoLoad, StoreOf!NoLoad, Store!NoSweep, StoreOf!NoSweep
<1> QED
  BY <1>1, <1>5 DEF Store!vars, StoreOf!vars

\* The server does to each of its components only what the component allows:
\* whatever the handlers do is a behaviour of createQueue(), of both calls of
\* createRateLimiter() and of the store of keys.
THEOREM ComponentsKept ==
    Spec => Queue!Spec /\ Limiter!Spec /\ Issuance!Spec /\ Store!Spec
<1>1. Init => HandlersKept /\ Queue!Init /\ Limiter!Init /\ Issuance!Init /\ Store!Init
  BY HandlersInit DEF Init
<1>2. HandlersKept /\ [Next]_vars =>
        /\ HandlersKept'
        /\ [Queue!Next]_(Queue!vars) /\ [Limiter!Next]_(Limiter!vars)
        /\ [Issuance!Next]_(Issuance!vars) /\ [Store!Next]_(Store!vars)
  BY HandlersStep, QueueStep, LimiterStep, IssuanceStep, StoreStep
<1> QED
  BY <1>1, <1>2, PTL DEF Spec, Queue!Spec, Limiter!Spec, Issuance!Spec, Store!Spec

\* What their own proofs establish of the components.
Components == QueueOf!IInv /\ RunsOf!IInv /\ KeysOf!IInv /\ StoreOf!IInv

LEMMA ComponentsInvariant == Spec => []Components
<1>1. QueueOf!Spec => []QueueOf!IInv
  BY QueueAssumptions, QueueOf!InductiveInvariant
<1>2. RunsOf!Spec => []RunsOf!IInv
  BY LimiterAssumptions, RunsOf!Invariance
<1>3. KeysOf!Spec => []KeysOf!IInv
  BY LimiterAssumptions, KeysOf!Invariance
<1>4. StoreOf!Spec => []StoreOf!IInv
  BY StoreAssumptions, StoreOf!InductiveInvariant
<1>5. Spec => QueueOf!Spec
  BY ComponentsKept, SameQueue, PTL DEF Queue!Spec, QueueOf!Spec
<1>6. Spec => RunsOf!Spec
  BY ComponentsKept, SameLimiter, PTL DEF Limiter!Spec, RunsOf!Spec
<1>7. Spec => KeysOf!Spec
  BY ComponentsKept, SameIssuance, PTL DEF Issuance!Spec, KeysOf!Spec
<1>8. Spec => StoreOf!Spec
  BY ComponentsKept, SameStore, PTL DEF Store!Spec, StoreOf!Spec
<1> QED
  BY <1>1, <1>2, <1>3, <1>4, <1>5, <1>6, <1>7, <1>8, PTL DEF Components

(***************************************************************************)
(* How the components are related.                                         *)
(***************************************************************************)
\* The calls of submit() that were made under a partition.
CallsUnder(p) == {call \in Calls : call[2] = p /\ ticket[call] # "none"}

\* A request that was submitted without an issued key went under its address;
\* a load that is under way belongs to a handler that waits for it.
RequestsKept ==
    /\ \A r \in Requests : reply[r] # NoReply => pc[r] = "done"
    /\ \A r \in Requests :
          load[r].pc \in {"reading", "unlinking"} => pc[r] \in {"loading", "asking"}
    /\ \A call \in Calls : ticket[call] # "none" =>
          /\ pc[call[1]] = "done"
          /\ call[2] = IpOf[call[1]] \/ load[call[1]].answer = "record"

\* The limiter has granted every call that was made.
ChargesKept ==
    \A p \in Partitions :
        /\ IsFiniteSet(CallsUnder(p))
        /\ Cardinality(CallsUnder(p)) <= Len(grants[p])

Counters ==
    [submitted : Nat, accepted : Nat, rejected : Nat, finished : Nat,
     errors : Nat, keysIssued : Nat]

Failed == {call \in Calls : outcome[call] = "error"}

Issued == {k \in Keys : save[k] = "resolved"}

Taken == Answered({202})

Refused == Answered({400, 429})

\* Each counter, by what it counts.
CountsSum ==
    /\ metrics.submitted = metrics.accepted + metrics.rejected
    /\ metrics.accepted = metrics.finished + runningCount + Len(waiting)

AcceptedTold == IsFiniteSet(Taken) /\ metrics.accepted = Cardinality(Taken)

RejectedTold == IsFiniteSet(Refused) /\ metrics.rejected <= Cardinality(Refused)

ErrorsCounted == IsFiniteSet(Failed) /\ metrics.errors = Cardinality(Failed)

KeysCounted == IsFiniteSet(Issued) /\ metrics.keysIssued = Cardinality(Issued)

CountersKept ==
    /\ metrics \in Counters
    /\ CountsSum /\ AcceptedTold /\ RejectedTold /\ ErrorsCounted /\ KeysCounted

IInv == HandlersKept /\ RequestsKept /\ ChargesKept /\ CountersKept

(***************************************************************************)
(* What the components say of their variables, and of their steps.         *)
(***************************************************************************)
\* The sizes that the proofs of the queue speak of are the sizes of this module.
LEMMA SameSizes ==
    \A S : /\ QueueOf!IsFiniteSet(S) <=> IsFiniteSet(S)
           /\ QueueOf!Cardinality(S) = Cardinality(S)
<1>1. \A S : QueueOf!IsFiniteSet(S) <=> IsFiniteSet(S)
  BY DEF QueueOf!IsFiniteSet, IsFiniteSet
<1>2. \A S : QueueOf!Cardinality(S) = Cardinality(S)
  BY <1>1 DEF QueueOf!Cardinality, Cardinality
<1> QED
  BY <1>1, <1>2

LEMMA QueueTypes ==
    ASSUME Components
    PROVE  /\ ticket \in [Calls -> {"none", "accepted", "key_limit", "queue_full"}]
           /\ outcome \in [Calls -> {"pending", "rejected", "result", "error"}]
           /\ waiting \in Seq(Calls) /\ runningCount \in Nat /\ Len(waiting) \in Nat
           /\ \A call \in Calls : ticket[call] = "none" => outcome[call] = "pending"
           /\ \A call \in executing : call \in Calls /\ ticket[call] = "accepted"
                                      /\ outcome[call] = "pending"
<1>1. QueueOf!TypeOK /\ QueueOf!AnswersAgree /\ QueueOf!InFlightPlaced
  BY DEF Components, QueueOf!IInv
<1>2. QueueOf!InFlight = QueueOf!Elements(waiting) \cup executing
  BY <1>1 DEF QueueOf!InFlightPlaced
<1>3. \A call \in executing : call \in Calls /\ ticket[call] = "accepted"
                              /\ outcome[call] = "pending"
  BY <1>2 DEF QueueOf!InFlight
<1> QED
  BY <1>1, <1>3 DEF QueueOf!TypeOK, QueueOf!AnswersAgree

LEMMA OtherTypes ==
    ASSUME Components
    PROVE  /\ now \in Nat /\ grants \in [Partitions -> Seq(Nat)]
           /\ save \in [Keys -> {"none", "writing", "written", "resolved", "rejected"}]
           /\ load = [r \in Requests |-> load[r]]
<1>1. RunsOf!TypeOK /\ StoreOf!TypeOK
  BY DEF Components, RunsOf!IInv, StoreOf!IInv
<1>2. now \in Nat /\ grants \in [Partitions -> Seq(Nat)]
  BY <1>1 DEF RunsOf!TypeOK
<1>3. /\ save \in [Keys -> {"none", "writing", "written", "resolved", "rejected"}]
      /\ load \in [Requests -> StoreOf!Loads]
  BY <1>1 DEF StoreOf!TypeOK
<1> QED
  BY <1>2, <1>3

\* An accepted call runs or waits.
LEMMA AcceptEffect ==
    ASSUME Components, NEW call \in Calls, Queue!SubmitAccepted(call)
    PROVE  /\ ticket[call] = "none"
           /\ ticket' = [ticket EXCEPT ![call] = "accepted"]
           /\ outcome' = outcome
           /\ runningCount' + Len(waiting') = runningCount + Len(waiting) + 1
           /\ runningCount' \in Nat /\ Len(waiting') \in Nat
<1>1. QueueOf!SubmitAccepted(call)
  BY SameCalls
<1>2. QueueOf!TypeOK /\ QueueOf!SlotAccounting /\ QueueOf!WorkConserving
  BY DEF Components, QueueOf!IInv
<1>3. \/ /\ runningCount < MaxConcurrency
         /\ waiting = <<>>
         /\ waiting' = <<>>
         /\ runningCount' = runningCount + 1
         /\ executing' = executing \cup {call}
      \/ /\ runningCount = MaxConcurrency
         /\ waiting' = Append(waiting, call)
         /\ runningCount' = runningCount
         /\ executing' = executing
  BY <1>1, <1>2, QueueAssumptions, QueueOf!AcceptCases
<1>4. Len(Append(waiting, call)) = Len(waiting) + 1 /\ Len(<<>>) = 0
  BY QueueTypes
<1>5. /\ runningCount' + Len(waiting') = runningCount + Len(waiting) + 1
      /\ runningCount' \in Nat /\ Len(waiting') \in Nat
  <2>1. CASE waiting = <<>> /\ waiting' = <<>> /\ runningCount' = runningCount + 1
    BY <1>4, <2>1, QueueTypes
  <2>2. CASE waiting' = Append(waiting, call) /\ runningCount' = runningCount
    <3>1. Len(waiting') = Len(waiting) + 1
      BY <1>4, <2>2, Zenon
    <3>2. runningCount \in Nat /\ Len(waiting) \in Nat
      BY QueueTypes
    <3> QED
      BY <2>2, <3>1, <3>2
  <2> QED
    BY <1>3, <2>1, <2>2
<1> QED
  BY <1>5 DEF Queue!SubmitAccepted

\* A rejected call changes nothing but its own ticket.
LEMMA RejectEffect ==
    ASSUME NEW call \in Calls, Queue!SubmitKeyLimit(call) \/ Queue!SubmitQueueFull(call)
    PROVE  /\ ticket[call] = "none"
           /\ \E verdict \in {"key_limit", "queue_full"} :
                 ticket' = [ticket EXCEPT ![call] = verdict]
           /\ outcome' = [outcome EXCEPT ![call] = "rejected"]
           /\ UNCHANGED <<runningCount, waiting>>
BY DEF Queue!SubmitKeyLimit, Queue!SubmitQueueFull, Queue!Reject

\* A run that ends leaves one less.
LEMMA SettleEffect ==
    ASSUME Components, NEW call \in Calls, NEW kind \in {"result", "error"},
           Queue!Settle(call, kind)
    PROVE  /\ outcome[call] = "pending"
           /\ outcome' = [outcome EXCEPT ![call] = kind]
           /\ ticket' = ticket
           /\ runningCount + Len(waiting) = runningCount' + Len(waiting') + 1
           /\ runningCount' \in Nat /\ Len(waiting') \in Nat
<1>1. QueueOf!Settle(call, kind)
  BY SameCalls
<1>2. QueueOf!TypeOK /\ QueueOf!SlotAccounting /\ QueueOf!WorkConserving
      /\ IsFiniteSet(executing)
  BY SameSizes DEF Components, QueueOf!IInv
<1>3. /\ call \in executing
      /\ \/ /\ waiting = <<>>
            /\ waiting' = <<>>
            /\ runningCount' = runningCount - 1
            /\ executing' = executing \ {call}
         \/ /\ waiting # <<>>
            /\ waiting' = Tail(waiting)
            /\ runningCount' = runningCount
            /\ executing' = (executing \ {call}) \cup {Head(waiting)}
  BY <1>1, <1>2, QueueAssumptions, SameSizes, QueueOf!SettleCases
<1>4. runningCount = Cardinality(executing) /\ runningCount # 0
  BY <1>2, <1>3, FS_EmptySet, SameSizes DEF QueueOf!SlotAccounting
<1>5. waiting # <<>> => Len(Tail(waiting)) = Len(waiting) - 1 /\ Len(waiting) # 0
  BY QueueTypes
<1>6. runningCount \in Nat \ {0} /\ Len(waiting) \in Nat /\ Len(<<>>) = 0
  BY <1>4, QueueTypes
<1>7. /\ runningCount + Len(waiting) = runningCount' + Len(waiting') + 1
      /\ runningCount' \in Nat /\ Len(waiting') \in Nat
  BY <1>3, <1>5, <1>6
<1>8. call \in executing => outcome[call] = "pending"
  BY QueueTypes
<1> QED
  BY <1>7, <1>8 DEF Queue!Settle

\* What one call of submitRun() does: a request is rejected without reaching
\* the queue, or the limiter has granted it and the queue rejects or takes it.
TurnedAway(r, p) ==
    /\ \E code \in {400, 429} : Reply(r, code)
    /\ CountAs("rejected")
    /\ UNCHANGED <<ticket, outcome, runningCount, waiting>>
    /\ grants' = grants \/ grants' = [grants EXCEPT ![p] = Append(@, now)]

RefusedByQueue(r, p) ==
    /\ Reply(r, 429)
    /\ CountAs("rejected")
    /\ ticket[<<r, p>>] = "none"
    /\ \E verdict \in {"key_limit", "queue_full"} :
          ticket' = [ticket EXCEPT ![<<r, p>>] = verdict]
    /\ outcome' = [outcome EXCEPT ![<<r, p>>] = "rejected"]
    /\ UNCHANGED <<runningCount, waiting>>
    /\ grants' = [grants EXCEPT ![p] = Append(@, now)]

TakenIn(r, p) ==
    /\ Reply(r, 202)
    /\ CountAs("accepted")
    /\ ticket[<<r, p>>] = "none"
    /\ ticket' = [ticket EXCEPT ![<<r, p>>] = "accepted"]
    /\ outcome' = outcome
    /\ runningCount' + Len(waiting') = runningCount + Len(waiting) + 1
    /\ runningCount' \in Nat /\ Len(waiting') \in Nat
    /\ grants' = [grants EXCEPT ![p] = Append(@, now)]

LEMMA SubmitEffect ==
    ASSUME Components, NEW r \in Requests, NEW p \in Partitions, submitRun(r, p),
           <<r, p>> \in Calls
    PROVE  /\ UNCHANGED <<load, save>>
           /\ TurnedAway(r, p) \/ RefusedByQueue(r, p) \/ TakenIn(r, p)
<1>1. UNCHANGED <<load, save>>
  BY DEF submitRun, storeVars
<1>2. CASE RateLimited(r, p)
  BY <1>1, <1>2 DEF RateLimited, Limiter!CheckRefused, queueVars, TurnedAway
<1>3. CASE BadRequest(r, p)
  BY <1>1, <1>3 DEF BadRequest, Limiter!CheckAllowed, queueVars, TurnedAway
<1>4. CASE QueueRefuses(r, p)
  BY <1>1, <1>4, RejectEffect DEF QueueRefuses, Limiter!CheckAllowed, RefusedByQueue
<1>5. CASE Accepted(r, p)
  BY <1>1, <1>5, AcceptEffect DEF Accepted, Limiter!CheckAllowed, TakenIn
<1> QED
  BY <1>2, <1>3, <1>4, <1>5 DEF submitRun

LEMMA TicketEffect ==
    ASSUME Components, NEW r \in Requests, NEW p \in Partitions, submitRun(r, p),
           <<r, p>> \in Calls
    PROVE  \/ ticket' = ticket
           \/ \E verdict \in {"accepted", "key_limit", "queue_full"} :
                 ticket' = [ticket EXCEPT ![<<r, p>>] = verdict]
BY SubmitEffect DEF TurnedAway, RefusedByQueue, TakenIn

\* The kinds of step, by what they change of what the invariant speaks of.
Submits ==
    \E r \in Requests, p \in Partitions :
        /\ submitRun(r, p) /\ <<r, p>> \in Calls
        /\ pc[r] \in {"new", "loading"}
        /\ pc[r] = "loading" => load[r].pc = "done"
        /\ p = IpOf[r] \/ load[r].answer = "record"

AnswersOnly ==
    /\ \E r \in Requests, code \in {200, 400, 404} :
          /\ Reply(r, code)
          /\ \/ pc[r] = "new" /\ code = 400
             \/ pc[r] = "asking" /\ load[r].pc = "done"
    /\ UNCHANGED <<load, save, grants, queueVars, metrics>>

LoadBegins ==
    /\ \E r \in Requests, place \in {"loading", "asking"} :
          /\ pc[r] = "new"
          /\ pc' = [pc EXCEPT ![r] = place]
          /\ \E new : load' = [load EXCEPT ![r] = new]
    /\ UNCHANGED <<reply, save, grants, queueVars, metrics>>

LoadGoesOn ==
    /\ \E r \in Requests :
          /\ load[r].pc \in {"reading", "unlinking"}
          /\ \E new : load' = [load EXCEPT ![r] = new]
    /\ UNCHANGED <<pc, reply, save, grants, queueVars, metrics>>

KeySaves ==
    /\ \E k \in Keys, at \in {"writing", "written", "rejected"} :
          save[k] # "resolved" /\ save' = [save EXCEPT ![k] = at]
    /\ UNCHANGED <<pc, reply, load, grants, queueVars, metrics>>

KeyIsIssued ==
    /\ \E k \in Keys : save[k] = "written" /\ save' = [save EXCEPT ![k] = "resolved"]
    /\ CountKeyIssued
    /\ UNCHANGED <<pc, reply, load, grants, queueVars>>

RunEnds ==
    /\ \E call \in Calls, kind \in {"result", "error"} :
          Queue!Settle(call, kind) /\ CountFinished(kind)
    /\ UNCHANGED <<pc, reply, load, save, grants>>

Quiet == UNCHANGED <<pc, reply, load, save, grants, queueVars, metrics>>

LEMMA StepKinds ==
    ASSUME Components, HandlersKept, [Next]_vars
    PROVE  \/ Submits \/ AnswersOnly \/ LoadBegins \/ LoadGoesOn
           \/ KeySaves \/ KeyIsIssued \/ RunEnds \/ Quiet
<1> USE DEF storeVars, limiterVars, requestVars
<1>1. ASSUME NEW r \in Requests, Unreadable(r) \/ UsageAnswered(r)
      PROVE  AnswersOnly
  BY <1>1 DEF Unreadable, UsageAnswered, AnswersOnly
<1>2. ASSUME NEW r \in Requests, ShowKey(r) \/ AskUsage(r)
      PROVE  LoadBegins
  <2>1. PICK place \in {"loading", "asking"} : BeginLoad(r, place)
    BY <1>2 DEF ShowKey, AskUsage
  <2>2. \E new : load' = [load EXCEPT ![r] = new]
    BY <2>1 DEF BeginLoad, Store!LoadBegin
  <2> QED
    BY <2>1, <2>2 DEF BeginLoad, Store!LoadBegin, LoadBegins
<1>3. ASSUME NEW r \in Requests, LoadKey(r)
      PROVE  LoadGoesOn
  <2>1. \A at : [load EXCEPT ![r].pc = at] = [load EXCEPT ![r] = [load[r] EXCEPT !.pc = at]]
    OBVIOUS
  <2>3. CASE Store!LoadMisses(r) \/ Store!LoadHits(r) \/ Store!LoadUnlinks(r)
    <3>1. PICK a : Store!Answer(r, a)
      BY <2>3 DEF Store!LoadMisses, Store!LoadHits, Store!LoadUnlinks
    <3>2. \E new : load' = [load EXCEPT ![r] = new]
      BY <3>1 DEF Store!Answer
    <3>3. load[r].pc \in {"reading", "unlinking"} /\ save' = save
      BY <2>3 DEF Store!LoadMisses, Store!LoadHits, Store!LoadUnlinks
    <3>4. UNCHANGED <<pc, reply, grants, queueVars, metrics>>
      BY <1>3 DEF LoadKey
    <3> QED
      BY <3>2, <3>3, <3>4 DEF LoadGoesOn
  <2>4. CASE Store!LoadFindsExpired(r)
    BY <1>3, <2>1, <2>4 DEF LoadKey, Store!LoadFindsExpired, LoadGoesOn
  <2> QED
    BY <1>3, <2>3, <2>4 DEF LoadKey
<1>4. ASSUME NEW ip \in Issuers, KeyRefused(ip) PROVE Quiet
  BY <1>4 DEF KeyRefused, Quiet
<1>5. ASSUME NEW ip \in Issuers, NEW k \in Keys, AskKey(ip, k) PROVE KeySaves
  BY <1>5 DEF AskKey, Store!SaveBegin, KeySaves
<1>6. ASSUME NEW k \in Keys, KeyIssued(k) PROVE KeyIsIssued
  BY <1>6 DEF KeyIssued, Store!SaveResolve, KeyIsIssued
<1>7. ASSUME NEW k \in Keys, KeyWritten(k) \/ IssueRejects(k) PROVE KeySaves
  BY <1>7 DEF KeyWritten, IssueRejects, Store!SaveWrite, Store!SaveFail, KeySaves
<1>8. ASSUME NEW call \in Calls, NEW kind \in {"result", "error"}, Finish(call, kind)
      PROVE  RunEnds
  BY <1>8 DEF Finish, RunEnds
<1>9. ASSUME SweepAll \/ SweepKeys \/ Tick PROVE Quiet
  <2>1. CASE SweepAll
    BY <2>1 DEF SweepAll, Limiter!Sweep, Store!SweepBegin, Quiet
  <2>2. CASE SweepKeys
    BY <2>2 DEF SweepKeys, Store!SweepLists, Store!SweepReads,
       Store!SweepUnlinks, Store!SweepEnds, Quiet
  <2>3. CASE Tick
    BY <2>3 DEF Tick, Limiter!Tick, Store!Tick, Quiet
  <2> QED
    BY <1>9, <2>1, <2>2, <2>3
<1>10. CASE UNCHANGED vars
  BY <1>10 DEF vars, Quiet
<1>11. ASSUME NEW r \in Requests, Anonymous(r) \/ KeyLoaded(r) PROVE Submits
  BY <1>11, SubmitsOf, Zenon DEF Submits
<1>12. CASE Next
  BY <1>1, <1>2, <1>3, <1>4, <1>5, <1>6, <1>7, <1>8, <1>9, <1>11, <1>12, StepCases
<1> QED
  BY <1>10, <1>12

(***************************************************************************)
(* The requests.                                                           *)
(***************************************************************************)
LEMMA RequestsStep ==
    ASSUME Components, HandlersKept, RequestsKept, [Next]_vars
    PROVE  RequestsKept'
<1> USE DEF HandlersKept, RequestsKept
<1>0. load = [r \in Requests |-> load[r]] /\ \A call \in Calls : call[1] \in Requests
  BY OtherTypes DEF Calls
<1>1. CASE Submits
  <2>1. PICK r \in Requests, p \in Partitions :
            /\ submitRun(r, p) /\ <<r, p>> \in Calls
            /\ pc[r] \in {"new", "loading"}
            /\ pc[r] = "loading" => load[r].pc = "done"
            /\ p = IpOf[r] \/ load[r].answer = "record"
    BY <1>1 DEF Submits
  <2>2. UNCHANGED load /\ \E code : Reply(r, code)
    BY <2>1, SubmitEffect DEF TurnedAway, RefusedByQueue, TakenIn
  <2>3. pc' = [pc EXCEPT ![r] = "done"] /\ \E code : reply' = [reply EXCEPT ![r] = code]
    BY <2>2 DEF Reply
  <2>4. \A call \in Calls : ticket'[call] # "none" => ticket[call] # "none" \/ call = <<r, p>>
    <3>1. \/ ticket' = ticket
          \/ \E verdict \in {"accepted", "key_limit", "queue_full"} :
                ticket' = [ticket EXCEPT ![<<r, p>>] = verdict]
      BY <2>1, TicketEffect, Zenon
    <3> QED
      BY <3>1, QueueTypes
  <2> QED
    BY <2>1, <2>2, <2>3, <2>4
<1>2. CASE AnswersOnly
  BY <1>2 DEF AnswersOnly, Reply, queueVars
<1>3. CASE LoadBegins
  <2>1. PICK r \in Requests, place \in {"loading", "asking"} :
            /\ pc[r] = "new"
            /\ pc' = [pc EXCEPT ![r] = place]
            /\ \E new : load' = [load EXCEPT ![r] = new]
    BY <1>3 DEF LoadBegins
  <2>2. \A q \in Requests \ {r} : load'[q] = load[q] /\ pc'[q] = pc[q]
    BY <1>0, <2>1
  <2>3. pc'[r] \in {"loading", "asking"} /\ UNCHANGED <<reply, ticket>>
    BY <1>3, <2>1 DEF LoadBegins, queueVars
  <2>4. \A call \in Calls : call[1] = r => ticket[call] = "none"
    BY <2>1
  <2> QED
    BY <1>0, <2>1, <2>2, <2>3, <2>4
<1>4. CASE LoadGoesOn
  <2>1. PICK r \in Requests :
            /\ load[r].pc \in {"reading", "unlinking"}
            /\ \E new : load' = [load EXCEPT ![r] = new]
    BY <1>4 DEF LoadGoesOn
  <2>2. \A q \in Requests \ {r} : load'[q] = load[q]
    BY <1>0, <2>1
  <2>3. pc[r] \in {"loading", "asking"} /\ UNCHANGED <<pc, reply, ticket>>
    BY <1>4, <2>1 DEF LoadGoesOn, queueVars
  <2>4. \A call \in Calls : call[1] = r => ticket[call] = "none"
    BY <2>3
  <2> QED
    BY <1>0, <2>2, <2>3, <2>4
<1>5. CASE KeySaves \/ KeyIsIssued \/ RunEnds \/ Quiet
  <2>1. UNCHANGED <<pc, reply, load, ticket>>
    BY <1>5, SettleEffect DEF KeySaves, KeyIsIssued, RunEnds, Quiet, queueVars
  <2> QED
    BY <2>1
<1> QED
  BY <1>1, <1>2, <1>3, <1>4, <1>5, StepKinds

(***************************************************************************)
(* The charges.                                                            *)
(***************************************************************************)
LEMMA ChargesStep ==
    ASSUME Components, HandlersKept, ChargesKept, [Next]_vars
    PROVE  ChargesKept'
<1>0. /\ grants \in [Partitions -> Seq(Nat)] /\ now \in Nat
      /\ ticket \in [Calls -> {"none", "accepted", "key_limit", "queue_full"}]
  BY OtherTypes, QueueTypes
<1>1. CASE ticket' = ticket /\ \A p \in Partitions : Len(grants'[p]) >= Len(grants[p])
                                                   /\ Len(grants'[p]) \in Nat
  <2> SUFFICES ASSUME NEW p \in Partitions
               PROVE  /\ IsFiniteSet(CallsUnder(p)')
                      /\ Cardinality(CallsUnder(p)') <= Len(grants'[p])
    BY DEF ChargesKept
  <2>1. CallsUnder(p)' = CallsUnder(p)
    BY <1>1 DEF CallsUnder
  <2>2. IsFiniteSet(CallsUnder(p)) /\ Cardinality(CallsUnder(p)) <= Len(grants[p])
    BY DEF ChargesKept
  <2>3. Cardinality(CallsUnder(p)) \in Nat /\ Len(grants[p]) \in Nat
    BY <1>0, <2>2, FS_CardinalityType
  <2> QED
    BY <1>1, <2>1, <2>2, <2>3
<1>2. ASSUME NEW p \in Partitions, grants' = [grants EXCEPT ![p] = Append(@, now)]
      PROVE  /\ Len(grants'[p]) = Len(grants[p]) + 1
             /\ \A q \in Partitions : /\ Len(grants'[q]) >= Len(grants[q])
                                      /\ Len(grants'[q]) \in Nat /\ Len(grants[q]) \in Nat
  BY <1>0, <1>2
<1>3. CASE Submits
  <2>1. PICK r \in Requests, p \in Partitions : submitRun(r, p) /\ <<r, p>> \in Calls
    BY <1>3 DEF Submits
  <2>2. CASE ticket' = ticket
             /\ (grants' = grants \/ grants' = [grants EXCEPT ![p] = Append(@, now)])
    <3>1. \A q \in Partitions : Len(grants'[q]) >= Len(grants[q]) /\ Len(grants'[q]) \in Nat
      BY <1>0, <1>2, <2>2
    <3> QED
      BY <1>1, <2>2, <3>1
  <2>3. ASSUME NEW verdict \in {"accepted", "key_limit", "queue_full"},
               ticket' = [ticket EXCEPT ![<<r, p>>] = verdict],
               grants' = [grants EXCEPT ![p] = Append(@, now)]
        PROVE  ChargesKept'
    <3> SUFFICES ASSUME NEW q \in Partitions
                 PROVE  /\ IsFiniteSet(CallsUnder(q)')
                        /\ Cardinality(CallsUnder(q)') <= Len(grants'[q])
      BY DEF ChargesKept
    <3>1. IsFiniteSet(CallsUnder(q)) /\ Cardinality(CallsUnder(q)) <= Len(grants[q])
          /\ Cardinality(CallsUnder(q)) \in Nat
      BY FS_CardinalityType DEF ChargesKept
    <3>2. CASE q = p
      <4>0. /\ \A call \in Calls :
                  ticket'[call] = IF call = <<r, p>> THEN verdict ELSE ticket[call]
            /\ verdict # "none" /\ <<r, p>>[2] = q
        BY <1>0, <2>3, <3>2
      <4>1. CallsUnder(q)' = CallsUnder(q) \cup {<<r, p>>}
        BY <2>1, <4>0 DEF CallsUnder
      <4>2. /\ IsFiniteSet(CallsUnder(q) \cup {<<r, p>>})
            /\ Cardinality(CallsUnder(q) \cup {<<r, p>>}) =
                  IF <<r, p>> \in CallsUnder(q) THEN Cardinality(CallsUnder(q))
                  ELSE Cardinality(CallsUnder(q)) + 1
        BY <3>1, FS_AddElement
      <4>3. Len(grants'[q]) = Len(grants[q]) + 1 /\ Len(grants[q]) \in Nat
        BY <1>2, <2>3, <3>2
      <4> QED
        BY <3>1, <4>1, <4>2, <4>3
    <3>3. CASE q # p
      <4>1. CallsUnder(q)' = CallsUnder(q)
        BY <1>0, <2>1, <2>3, <3>3 DEF CallsUnder
      <4>2. Len(grants'[q]) >= Len(grants[q]) /\ Len(grants'[q]) \in Nat
            /\ Len(grants[q]) \in Nat
        BY <1>2, <2>3
      <4> QED
        BY <3>1, <4>1, <4>2
    <3> QED
      BY <3>2, <3>3
  <2>4. TurnedAway(r, p) \/ RefusedByQueue(r, p) \/ TakenIn(r, p)
    BY <2>1, SubmitEffect
  <2> QED
    BY <2>2, <2>3, <2>4 DEF TurnedAway, RefusedByQueue, TakenIn
<1>4. CASE AnswersOnly \/ LoadBegins \/ LoadGoesOn \/ KeySaves \/ KeyIsIssued \/ Quiet
  <2>1. ticket' = ticket /\ grants' = grants
    BY <1>4 DEF AnswersOnly, LoadBegins, LoadGoesOn, KeySaves, KeyIsIssued, Quiet, queueVars
  <2> QED
    BY <1>0, <1>1, <2>1
<1>5. CASE RunEnds
  <2>1. ticket' = ticket /\ grants' = grants
    BY <1>5, SettleEffect DEF RunEnds
  <2> QED
    BY <1>0, <1>1, <2>1
<1> QED
  BY <1>3, <1>4, <1>5, StepKinds

(***************************************************************************)
(* The counters.                                                           *)
(***************************************************************************)
\* By how much a step moves each counter.
Counted(submitted, accepted, rejected, finished, errors, keysIssued) ==
    metrics' = [submitted |-> metrics.submitted + submitted,
                accepted |-> metrics.accepted + accepted,
                rejected |-> metrics.rejected + rejected,
                finished |-> metrics.finished + finished,
                errors |-> metrics.errors + errors,
                keysIssued |-> metrics.keysIssued + keysIssued]

LEMMA CountedMoves ==
    ASSUME metrics \in Counters
    PROVE  /\ CountAs("accepted") => Counted(1, 1, 0, 0, 0, 0)
           /\ CountAs("rejected") => Counted(1, 0, 1, 0, 0, 0)
           /\ CountFinished("error") => Counted(0, 0, 0, 1, 1, 0)
           /\ CountFinished("result") => Counted(0, 0, 0, 1, 0, 0)
           /\ CountKeyIssued => Counted(0, 0, 0, 0, 0, 1)
           /\ metrics' = metrics => Counted(0, 0, 0, 0, 0, 0)
<1>0. /\ metrics.submitted + 0 = metrics.submitted
      /\ metrics.accepted + 0 = metrics.accepted
      /\ metrics.rejected + 0 = metrics.rejected
      /\ metrics.finished + 0 = metrics.finished
      /\ metrics.errors + 0 = metrics.errors
      /\ metrics.keysIssued + 0 = metrics.keysIssued
  BY DEF Counters
<1>1. CountAs("accepted") => Counted(1, 1, 0, 0, 0, 0)
  BY <1>0 DEF CountAs, Counters, Counted
<1>2. CountAs("rejected") => Counted(1, 0, 1, 0, 0, 0)
  BY <1>0 DEF CountAs, Counters, Counted
<1>3. CountFinished("error") => Counted(0, 0, 0, 1, 1, 0)
  BY <1>0 DEF CountFinished, Counters, Counted
<1>4. CountFinished("result") => Counted(0, 0, 0, 1, 0, 0)
  BY <1>0 DEF CountFinished, Counters, Counted
<1>5. CountKeyIssued => Counted(0, 0, 0, 0, 0, 1)
  BY <1>0 DEF CountKeyIssued, Counters, Counted
<1>6. metrics' = metrics => Counted(0, 0, 0, 0, 0, 0)
  BY <1>0 DEF Counters, Counted
<1> QED
  BY <1>1, <1>2, <1>3, <1>4, <1>5, <1>6

LEMMA FieldsMoved ==
    ASSUME metrics \in Counters, NEW s \in Nat, NEW a \in Nat, NEW j \in Nat,
           NEW f \in Nat, NEW e \in Nat, NEW k \in Nat, Counted(s, a, j, f, e, k)
    PROVE  /\ metrics' \in Counters
           /\ metrics'.submitted = metrics.submitted + s
           /\ metrics'.accepted = metrics.accepted + a
           /\ metrics'.rejected = metrics.rejected + j
           /\ metrics'.finished = metrics.finished + f
           /\ metrics'.errors = metrics.errors + e
           /\ metrics'.keysIssued = metrics.keysIssued + k
<1>1. metrics' \in Counters
  BY DEF Counters, Counted
<1> QED
  BY <1>1 DEF Counted

\* A step that moves the counters moves what they count by as much.
Agree(s, a, j, f, e, k) ==
    /\ Counted(s, a, j, f, e, k)
    /\ s = a + j
    /\ runningCount' \in Nat /\ Len(waiting') \in Nat
    /\ runningCount + Len(waiting) + a = runningCount' + Len(waiting') + f
    /\ IsFiniteSet(Taken') /\ Cardinality(Taken') = Cardinality(Taken) + a
    /\ IsFiniteSet(Refused') /\ Cardinality(Refused') >= Cardinality(Refused) + j
    /\ IsFiniteSet(Failed') /\ Cardinality(Failed') = Cardinality(Failed) + e
    /\ IsFiniteSet(Issued') /\ Cardinality(Issued') = Cardinality(Issued) + k

LEMMA CountersMoved ==
    ASSUME Components, CountersKept, NEW s \in Nat, NEW a \in Nat, NEW j \in Nat,
           NEW f \in Nat, NEW e \in Nat, NEW k \in Nat, Agree(s, a, j, f, e, k)
    PROVE  CountersKept'
<1>1. /\ metrics' \in Counters
      /\ metrics'.submitted = metrics.submitted + s
      /\ metrics'.accepted = metrics.accepted + a
      /\ metrics'.rejected = metrics.rejected + j
      /\ metrics'.finished = metrics.finished + f
      /\ metrics'.errors = metrics.errors + e
      /\ metrics'.keysIssued = metrics.keysIssued + k
  <2>1. metrics \in Counters /\ Counted(s, a, j, f, e, k)
    BY DEF CountersKept, Agree
  <2> QED
    BY <2>1, FieldsMoved
<1>2. /\ metrics.submitted \in Nat /\ metrics.accepted \in Nat
      /\ metrics.rejected \in Nat /\ metrics.finished \in Nat
  BY DEF CountersKept, Counters
<1>3. metrics'.submitted = metrics'.accepted + metrics'.rejected
  <2>1. metrics.submitted = metrics.accepted + metrics.rejected
    BY DEF CountersKept, CountsSum
  <2>2. s = a + j
    BY DEF Agree
  <2>3. metrics.submitted + s = (metrics.accepted + a) + (metrics.rejected + j)
    BY <1>2, <2>1, <2>2
  <2> QED
    BY <1>1, <2>3, Zenon
<1>4. metrics'.accepted = metrics'.finished + runningCount' + Len(waiting')
  <2> DEFINE acc == metrics.accepted
             fin == metrics.finished
             len == Len(waiting)
             later == Len(waiting')
  <2>1. acc = fin + runningCount + len
    BY DEF CountersKept, CountsSum
  <2>2. /\ runningCount \in Nat /\ len \in Nat
        /\ runningCount' \in Nat /\ later \in Nat
        /\ runningCount + len + a = runningCount' + later + f
    BY QueueTypes DEF Agree
  <2>3. acc \in Nat /\ fin \in Nat
    BY <1>2
  <2>4. acc + a = (fin + f) + runningCount' + later
    <3> HIDE DEF acc, fin, len, later
    <3>1. acc + a = fin + (runningCount + len + a)
      BY <2>1, <2>2, <2>3
    <3>2. fin + (runningCount' + later + f) = (fin + f) + runningCount' + later
      BY <2>2, <2>3
    <3> QED
      BY <2>2, <3>1, <3>2, Zenon
  <2> QED
    BY <1>1, <2>4, Zenon
<1>5. CountsSum'
  BY <1>3, <1>4 DEF CountsSum
<1>6. RejectedTold'
  <2>1. IsFiniteSet(Refused) /\ metrics.rejected <= Cardinality(Refused)
    BY DEF CountersKept, RejectedTold
  <2>2. IsFiniteSet(Refused') /\ Cardinality(Refused') >= Cardinality(Refused) + j
    BY DEF Agree
  <2>3. Cardinality(Refused) \in Nat /\ Cardinality(Refused') \in Nat
    BY <2>1, <2>2, FS_CardinalityType
  <2>4. metrics'.rejected <= Cardinality(Refused')
    BY <1>1, <1>2, <2>1, <2>2, <2>3
  <2> QED
    BY <2>2, <2>4 DEF RejectedTold
<1>7. AcceptedTold' /\ ErrorsCounted' /\ KeysCounted'
  BY <1>1 DEF CountersKept, Agree, AcceptedTold, ErrorsCounted, KeysCounted
<1> QED
  BY <1>1, <1>5, <1>6, <1>7 DEF CountersKept

\* The sizes of the sets that are counted.
LEMMA SizesKept ==
    ASSUME CountersKept
    PROVE  /\ IsFiniteSet(Taken) /\ Cardinality(Taken) \in Nat
           /\ IsFiniteSet(Refused) /\ Cardinality(Refused) \in Nat
           /\ IsFiniteSet(Failed) /\ Cardinality(Failed) \in Nat
           /\ IsFiniteSet(Issued) /\ Cardinality(Issued) \in Nat
BY FS_CardinalityType
   DEF CountersKept, AcceptedTold, RejectedTold, ErrorsCounted, KeysCounted

\* A request that is answered is one more among those with its code.
LEMMA AnswerCounted ==
    ASSUME CountersKept, HandlersKept, RequestsKept, NEW r \in Requests,
           pc[r] # "done", NEW code, Reply(r, code)
    PROVE  /\ IsFiniteSet(Taken') /\ IsFiniteSet(Refused')
           /\ Cardinality(Taken') = Cardinality(Taken) + (IF code = 202 THEN 1 ELSE 0)
           /\ Cardinality(Refused') =
                 Cardinality(Refused) + (IF code \in {400, 429} THEN 1 ELSE 0)
<1>1. \A q \in Requests : reply'[q] = IF q = r THEN code ELSE reply[q]
  BY DEF HandlersKept, Reply
<1>2. r \notin Taken /\ r \notin Refused
  BY DEF HandlersKept, RequestsKept, Taken, Refused, Answered, NoReply
<1>3. /\ IsFiniteSet(Taken \cup {r})
      /\ Cardinality(Taken \cup {r}) = Cardinality(Taken) + 1
  BY <1>2, SizesKept, FS_AddElement
<1>4. /\ IsFiniteSet(Refused \cup {r})
      /\ Cardinality(Refused \cup {r}) = Cardinality(Refused) + 1
  BY <1>2, SizesKept, FS_AddElement
<1>5. Taken' = IF code = 202 THEN Taken \cup {r} ELSE Taken
  BY <1>1, <1>2 DEF Taken, Answered
<1>6. Refused' = IF code \in {400, 429} THEN Refused \cup {r} ELSE Refused
  BY <1>1, <1>2 DEF Refused, Answered
<1> QED
  BY <1>3, <1>4, <1>5, <1>6, SizesKept

\* A submission is counted as the caller is told.
LEMMA SubmissionCounted ==
    ASSUME Components, HandlersKept, RequestsKept, CountersKept, Submits
    PROVE  CountersKept'
<1>1. PICK r \in Requests, p \in Partitions :
          submitRun(r, p) /\ <<r, p>> \in Calls /\ pc[r] \in {"new", "loading"}
  BY DEF Submits
<1>2. metrics \in Counters /\ runningCount \in Nat /\ Len(waiting) \in Nat
  BY QueueTypes DEF CountersKept
<1>3. Issued' = Issued
  BY <1>1, SubmitEffect DEF Issued
<1>4. IsFiniteSet(Issued') /\ Cardinality(Issued') = Cardinality(Issued) + 0
  BY <1>3, SizesKept
<1>5. Failed' = Failed => IsFiniteSet(Failed') /\ Cardinality(Failed') = Cardinality(Failed) + 0
  BY SizesKept
<1>6. ASSUME NEW code \in {400, 429}, Reply(r, code), CountAs("rejected"),
             Failed' = Failed, UNCHANGED <<runningCount, waiting>>
      PROVE  CountersKept'
  <2>1. Counted(1, 0, 1, 0, 0, 0)
    BY <1>2, <1>6, CountedMoves
  <2>2. /\ IsFiniteSet(Taken') /\ Cardinality(Taken') = Cardinality(Taken) + 0
        /\ IsFiniteSet(Refused') /\ Cardinality(Refused') >= Cardinality(Refused) + 1
    BY <1>1, <1>6, SizesKept, AnswerCounted
  <2>3. Agree(1, 0, 1, 0, 0, 0)
    BY <1>2, <1>4, <1>5, <1>6, <2>1, <2>2 DEF Agree
  <2> QED
    BY <2>3, CountersMoved
<1>7. ASSUME Reply(r, 202), CountAs("accepted"), Failed' = Failed,
             runningCount' + Len(waiting') = runningCount + Len(waiting) + 1,
             runningCount' \in Nat, Len(waiting') \in Nat
      PROVE  CountersKept'
  <2>1. Counted(1, 1, 0, 0, 0, 0)
    BY <1>2, <1>7, CountedMoves
  <2>2. /\ IsFiniteSet(Taken') /\ Cardinality(Taken') = Cardinality(Taken) + 1
        /\ IsFiniteSet(Refused') /\ Cardinality(Refused') >= Cardinality(Refused) + 0
    BY <1>1, <1>7, SizesKept, AnswerCounted
  <2>3. runningCount + Len(waiting) + 1 = runningCount' + Len(waiting') + 0
    BY <1>2, <1>7
  <2>4. Agree(1, 1, 0, 0, 0, 0)
    BY <1>2, <1>4, <1>5, <1>7, <2>1, <2>2, <2>3 DEF Agree
  <2> QED
    BY <2>4, CountersMoved
<1>8. /\ outcome' = outcome => Failed' = Failed
      /\ outcome' = [outcome EXCEPT ![<<r, p>>] = "rejected"] /\ ticket[<<r, p>>] = "none"
            => Failed' = Failed
  BY <1>1, QueueTypes DEF Failed
<1>9. \/ \E code \in {400, 429} :
            /\ Reply(r, code) /\ CountAs("rejected") /\ UNCHANGED <<runningCount, waiting>>
            /\ \/ outcome' = outcome
               \/ /\ outcome' = [outcome EXCEPT ![<<r, p>>] = "rejected"]
                  /\ ticket[<<r, p>>] = "none"
      \/ /\ Reply(r, 202) /\ CountAs("accepted") /\ outcome' = outcome
         /\ runningCount' + Len(waiting') = runningCount + Len(waiting) + 1
         /\ runningCount' \in Nat /\ Len(waiting') \in Nat
  <2>1. TurnedAway(r, p) \/ RefusedByQueue(r, p) \/ TakenIn(r, p)
    BY <1>1, SubmitEffect
  <2>2. CASE TurnedAway(r, p)
    BY <2>2 DEF TurnedAway
  <2>3. CASE RefusedByQueue(r, p)
    BY <2>3 DEF RefusedByQueue
  <2>4. CASE TakenIn(r, p)
    BY <2>4 DEF TakenIn
  <2> QED
    BY <2>1, <2>2, <2>3, <2>4
<1> QED
  BY <1>6, <1>7, <1>8, <1>9

LEMMA CountersStep ==
    ASSUME Components, HandlersKept, RequestsKept, CountersKept, [Next]_vars
    PROVE  CountersKept'
<1>1. metrics \in Counters /\ runningCount \in Nat /\ Len(waiting) \in Nat
  BY QueueTypes DEF CountersKept
<1>2. /\ reply' = reply => Taken' = Taken /\ Refused' = Refused
      /\ outcome' = outcome => Failed' = Failed
      /\ save' = save => Issued' = Issued
  BY DEF Taken, Refused, Answered, Failed, Issued
<1>3. CASE Submits
  BY <1>3, SubmissionCounted
<1>4. ASSUME UNCHANGED <<metrics, runningCount, waiting, outcome>>, Issued' = Issued,
             IsFiniteSet(Taken'), Cardinality(Taken') = Cardinality(Taken),
             IsFiniteSet(Refused'), Cardinality(Refused') >= Cardinality(Refused)
      PROVE  CountersKept'
  <2>1. Counted(0, 0, 0, 0, 0, 0)
    BY <1>1, <1>4, CountedMoves
  <2>2. /\ Cardinality(Taken') = Cardinality(Taken) + 0
        /\ Cardinality(Refused') >= Cardinality(Refused) + 0
        /\ IsFiniteSet(Failed') /\ Cardinality(Failed') = Cardinality(Failed) + 0
        /\ IsFiniteSet(Issued') /\ Cardinality(Issued') = Cardinality(Issued) + 0
    BY <1>2, <1>4, SizesKept
  <2>3. Agree(0, 0, 0, 0, 0, 0)
    BY <1>1, <1>4, <2>1, <2>2 DEF Agree
  <2> QED
    BY <2>3, CountersMoved
<1>5. CASE AnswersOnly
  <2>1. PICK r \in Requests, code \in {200, 400, 404} :
            Reply(r, code) /\ pc[r] \in {"new", "asking"}
    BY <1>5 DEF AnswersOnly
  <2>2. /\ IsFiniteSet(Taken') /\ Cardinality(Taken') = Cardinality(Taken)
        /\ IsFiniteSet(Refused') /\ Cardinality(Refused') >= Cardinality(Refused)
    BY <2>1, SizesKept, AnswerCounted
  <2>3. UNCHANGED <<metrics, runningCount, waiting, outcome, save>>
    BY <1>5 DEF AnswersOnly, queueVars
  <2> QED
    BY <1>2, <1>4, <2>2, <2>3
<1>6. CASE LoadBegins \/ LoadGoesOn \/ KeySaves \/ Quiet
  <2>1. UNCHANGED <<metrics, runningCount, waiting, outcome, reply>>
    BY <1>6 DEF LoadBegins, LoadGoesOn, KeySaves, Quiet, queueVars
  <2>2. save' = save
        \/ \E k \in Keys, at \in {"writing", "written", "rejected"} :
              save[k] # "resolved" /\ save' = [save EXCEPT ![k] = at]
    BY <1>6 DEF LoadBegins, LoadGoesOn, KeySaves, Quiet
  <2>3. Issued' = Issued
    BY <2>2, OtherTypes DEF Issued
  <2>4. /\ IsFiniteSet(Taken') /\ Cardinality(Taken') = Cardinality(Taken)
        /\ IsFiniteSet(Refused') /\ Cardinality(Refused') >= Cardinality(Refused)
    BY <1>2, <2>1, SizesKept
  <2> QED
    BY <1>4, <2>1, <2>3, <2>4
<1>7. ASSUME NEW f \in {0, 1}, NEW e \in {0, 1}, NEW k \in {0, 1},
             Counted(0, 0, 0, f, e, k), reply' = reply,
             runningCount' \in Nat, Len(waiting') \in Nat,
             runningCount + Len(waiting) = runningCount' + Len(waiting') + f,
             IsFiniteSet(Failed'), Cardinality(Failed') = Cardinality(Failed) + e,
             IsFiniteSet(Issued'), Cardinality(Issued') = Cardinality(Issued) + k
      PROVE  CountersKept'
  <2>1. /\ IsFiniteSet(Taken') /\ Cardinality(Taken') = Cardinality(Taken) + 0
        /\ IsFiniteSet(Refused') /\ Cardinality(Refused') >= Cardinality(Refused) + 0
    BY <1>2, <1>7, SizesKept
  <2>2. runningCount + Len(waiting) + 0 = runningCount' + Len(waiting') + f
    BY <1>1, <1>7
  <2>3. Agree(0, 0, 0, f, e, k)
    BY <1>7, <2>1, <2>2 DEF Agree
  <2> QED
    BY <2>3, CountersMoved
<1>8. CASE KeyIsIssued
  <2>1. PICK k \in Keys : save[k] = "written" /\ save' = [save EXCEPT ![k] = "resolved"]
    BY <1>8 DEF KeyIsIssued
  <2>2. Issued' = Issued \cup {k} /\ k \notin Issued
    BY <2>1, OtherTypes DEF Issued
  <2>3. IsFiniteSet(Issued \cup {k}) /\ Cardinality(Issued \cup {k}) = Cardinality(Issued) + 1
    BY <2>2, SizesKept, FS_AddElement
  <2>4. UNCHANGED <<runningCount, waiting, outcome, reply>> /\ CountKeyIssued
    BY <1>8 DEF KeyIsIssued, queueVars
  <2>5. Counted(0, 0, 0, 0, 0, 1)
    BY <1>1, <2>4, CountedMoves
  <2>6. IsFiniteSet(Failed') /\ Cardinality(Failed') = Cardinality(Failed) + 0
    BY <1>2, <2>4, SizesKept
  <2>7. runningCount + Len(waiting) = runningCount' + Len(waiting') + 0
    BY <1>1, <2>4
  <2> QED
    BY <1>1, <1>7, <2>2, <2>3, <2>4, <2>5, <2>6, <2>7
<1>9. CASE RunEnds
  <2>1. PICK call \in Calls, kind \in {"result", "error"} :
            Queue!Settle(call, kind) /\ CountFinished(kind)
    BY <1>9 DEF RunEnds
  <2>2. /\ outcome[call] = "pending"
        /\ outcome' = [outcome EXCEPT ![call] = kind]
        /\ runningCount + Len(waiting) = runningCount' + Len(waiting') + 1
        /\ runningCount' \in Nat /\ Len(waiting') \in Nat
    BY <2>1, SettleEffect
  <2>3. UNCHANGED <<reply, save>>
    BY <1>9 DEF RunEnds
  <2>4. IsFiniteSet(Issued') /\ Cardinality(Issued') = Cardinality(Issued) + 0
    BY <1>2, <2>3, SizesKept
  <2>5. \A c \in Calls : outcome'[c] = IF c = call THEN kind ELSE outcome[c]
    BY <2>2, QueueTypes
  <2>6. call \notin Failed
    BY <2>2 DEF Failed
  <2>7. CASE kind = "error"
    <3>1. Failed' = Failed \cup {call}
      BY <2>5, <2>7 DEF Failed
    <3>2. /\ IsFiniteSet(Failed \cup {call})
          /\ Cardinality(Failed \cup {call}) = Cardinality(Failed) + 1
      BY <2>6, SizesKept, FS_AddElement
    <3>3. Counted(0, 0, 0, 1, 1, 0)
      BY <1>1, <2>1, <2>7, CountedMoves
    <3> QED
      BY <1>7, <2>2, <2>3, <2>4, <3>1, <3>2, <3>3
  <2>8. CASE kind = "result"
    <3>1. Failed' = Failed
      BY <2>2, <2>5, <2>8 DEF Failed
    <3>2. IsFiniteSet(Failed') /\ Cardinality(Failed') = Cardinality(Failed) + 0
      BY <3>1, SizesKept
    <3>3. Counted(0, 0, 0, 1, 0, 0)
      BY <1>1, <2>1, <2>8, CountedMoves
    <3> QED
      BY <1>7, <2>2, <2>3, <2>4, <3>2, <3>3
  <2> QED
    BY <2>7, <2>8
<1> QED
  BY <1>3, <1>5, <1>6, <1>8, <1>9, StepKinds

(***************************************************************************)
(* The invariant.                                                          *)
(***************************************************************************)
LEMMA InvariantHolds == Init => RequestsKept /\ ChargesKept /\ CountersKept
<1> SUFFICES ASSUME Init PROVE RequestsKept /\ ChargesKept /\ CountersKept
  OBVIOUS
<1>1. /\ ticket = [call \in Calls |-> "none"] /\ outcome = [call \in Calls |-> "pending"]
      /\ runningCount = 0 /\ waiting = <<>>
      /\ grants = [p \in Partitions |-> <<>>]
      /\ load = [r \in Requests |-> load[r]] /\ \A r \in Requests : load[r].pc = "idle"
      /\ save = [k \in Keys |-> "none"]
      /\ reply = [r \in Requests |-> NoReply] /\ metrics = NoCounts
  BY DEF Init, Queue!Init, Limiter!Init, Store!Init, Store!NoLoad
<1>2. \A call \in Calls : call[1] \in Requests
  BY DEF Calls
<1>3. RequestsKept
  BY <1>1, <1>2 DEF RequestsKept
<1>4. ChargesKept
  <2>1. \A p \in Partitions : CallsUnder(p) = {}
    BY <1>1 DEF CallsUnder
  <2>2. \A p \in Partitions : Len(grants[p]) = 0
    BY <1>1
  <2>3. Cardinality({}) <= 0 /\ IsFiniteSet({})
    BY FS_EmptySet
  <2> QED
    BY <2>1, <2>2, <2>3, Zenon DEF ChargesKept
<1>5. CountersKept
  <2>1. Taken = {} /\ Refused = {} /\ Failed = {} /\ Issued = {}
    BY <1>1 DEF Taken, Refused, Answered, Failed, Issued, NoReply
  <2>2. Len(waiting) = 0
    BY <1>1
  <2>3. /\ metrics \in Counters /\ metrics.submitted = 0 /\ metrics.accepted = 0
        /\ metrics.rejected = 0 /\ metrics.finished = 0 /\ metrics.errors = 0
        /\ metrics.keysIssued = 0
    BY <1>1 DEF NoCounts, Counters
  <2> QED
    BY <1>1, <2>1, <2>2, <2>3, FS_EmptySet
    DEF CountersKept, CountsSum, AcceptedTold, RejectedTold, ErrorsCounted, KeysCounted
<1> QED
  BY <1>3, <1>4, <1>5

\* What relates the components holds throughout.
THEOREM Invariant == Spec => []IInv
<1>1. Init => IInv
  BY HandlersInit, InvariantHolds DEF IInv, Init
<1>2. Components /\ IInv /\ [Next]_vars => IInv'
  BY HandlersStep, RequestsStep, ChargesStep, CountersStep DEF IInv
<1> QED
  BY <1>1, <1>2, ComponentsInvariant, PTL DEF Spec

(***************************************************************************)
(* What follows.                                                           *)
(***************************************************************************)
\* The calls in flight under one partition.
LEMMA PartitionBound ==
    ASSUME Components, NEW p \in Partitions
    PROVE  /\ IsFiniteSet(QueueOf!InFlightOf(p))
           /\ Cardinality(QueueOf!InFlightOf(p)) <= MaxPerKey
<1>1. QueueOf!KeyAccounting /\ IsFiniteSet(QueueOf!InFlight)
  BY SameSizes DEF Components, QueueOf!IInv
<1>2. IsFiniteSet(QueueOf!InFlightOf(p))
  BY <1>1, FS_Subset DEF QueueOf!InFlightOf
<1>3. CASE p \in DOMAIN perKeyCount
  <2>1. /\ perKeyCount[p] = QueueOf!Cardinality(QueueOf!InFlightOf(p))
        /\ perKeyCount[p] <= MaxPerKey
    BY <1>1, <1>3 DEF QueueOf!KeyAccounting
  <2> QED
    BY <1>2, <2>1, SameSizes
<1>4. CASE p \notin DOMAIN perKeyCount
  <2>1. QueueOf!InFlightOf(p) = {}
    BY <1>1, <1>4 DEF QueueOf!KeyAccounting, QueueOf!InFlightOf
  <2> QED
    BY <1>2, <2>1, FS_EmptySet, BoundsAssumption
<1> QED
  BY <1>3, <1>4

\* The queue counts no more keys than it has calls in flight.
LEMMA KeysBound ==
    ASSUME Components
    PROVE  /\ IsFiniteSet(DOMAIN perKeyCount)
           /\ Cardinality(DOMAIN perKeyCount) <= runningCount + Len(waiting)
<1> DEFINE keyOf == [call \in QueueOf!InFlight |-> [c \in Calls |-> c[2]][call]]
<1>1. /\ QueueOf!KeyAccounting /\ QueueOf!SlotAccounting
      /\ IsFiniteSet(QueueOf!InFlight) /\ IsFiniteSet(executing)
  BY SameSizes DEF Components, QueueOf!IInv
<1>2. DOMAIN perKeyCount = {[c \in Calls |-> c[2]][call] : call \in QueueOf!InFlight}
  BY <1>1 DEF QueueOf!KeyAccounting
<1>3. keyOf \in Surjection(QueueOf!InFlight, DOMAIN perKeyCount)
  BY <1>2 DEF Surjection
<1>4. /\ IsFiniteSet(DOMAIN perKeyCount)
      /\ Cardinality(DOMAIN perKeyCount) <= Cardinality(QueueOf!InFlight)
  BY <1>1, <1>3, FS_Surjection
<1>5. Cardinality(QueueOf!InFlight) = Cardinality(executing) + Len(waiting)
  BY QueueAssumptions, SameSizes, QueueOf!InFlightCounted DEF Components
<1>6. runningCount = Cardinality(executing)
  BY <1>1, SameSizes DEF QueueOf!SlotAccounting
<1> QED
  BY <1>4, <1>5, <1>6

\* Whatever headers the requests of one address carry, and however long their
\* keys take to load, those without an issued key share the budget of the
\* address, in the queue and in the limiter.
THEOREM BudgetIsShared == Spec => []SharedBudget
<1>1. Components /\ IInv => SharedBudget
  <2> SUFFICES ASSUME Components, IInv, NEW ip \in Ips
               PROVE  /\ Cardinality(InFlightOf(Unverified(ip))) <= MaxPerKey
                      /\ Cardinality({call \in Calls : /\ call[1] \in Unverified(ip)
                                                       /\ ticket[call] # "none"})
                             <= GrantsOf(ip)
    BY DEF SharedBudget
  <2> DEFINE made == {call \in Calls : call[1] \in Unverified(ip) /\ ticket[call] # "none"}
  <2>0. ip \in Partitions
    BY DEF Partitions
  <2>1. \A call \in Calls : call[1] \in Unverified(ip) /\ ticket[call] # "none" => call[2] = ip
    BY DEF IInv, RequestsKept, Unverified
  <2>2. InFlightOf(Unverified(ip)) \subseteq QueueOf!InFlightOf(ip)
    BY <2>1 DEF InFlightOf, Queue!InFlight, QueueOf!InFlight, QueueOf!InFlightOf
  <2>3. made \subseteq CallsUnder(ip)
    BY <2>1 DEF CallsUnder
  <2>4. Cardinality(InFlightOf(Unverified(ip))) <= MaxPerKey
    <3> DEFINE U == InFlightOf(Unverified(ip))
               V == QueueOf!InFlightOf(ip)
    <3> HIDE DEF U, V
    <3>1. U \subseteq V /\ IsFiniteSet(V) /\ Cardinality(V) <= MaxPerKey
      BY <2>0, <2>2, PartitionBound DEF U, V
    <3>2. Cardinality(U) <= Cardinality(V) /\ Cardinality(U) \in Nat /\ Cardinality(V) \in Nat
      BY <3>1, FS_Subset, FS_CardinalityType
    <3>3. Cardinality(U) <= MaxPerKey
      BY <3>1, <3>2, BoundsAssumption
    <3> QED
      BY <3>3 DEF U
  <2>5. Cardinality(made) <= GrantsOf(ip)
    <3> HIDE DEF made
    <3>1. IsFiniteSet(CallsUnder(ip)) /\ Cardinality(CallsUnder(ip)) <= Len(grants[ip])
      BY <2>0 DEF IInv, ChargesKept
    <3>2. Cardinality(made) <= Cardinality(CallsUnder(ip)) /\ Cardinality(made) \in Nat
          /\ Cardinality(CallsUnder(ip)) \in Nat
      BY <2>3, <3>1, FS_Subset, FS_CardinalityType
    <3>3. Len(grants[ip]) \in Nat
      BY <2>0, OtherTypes
    <3> QED
      BY <3>1, <3>2, <3>3 DEF GrantsOf
  <2> QED
    BY <2>4, <2>5
<1> QED
  BY <1>1, Invariant, ComponentsInvariant, PTL

\* What GET /metrics/data shows adds up whenever it is asked: every counter is
\* the number of what it counts, in the queue, in the answers and in the store.
THEOREM CountsAgree == Spec => []CountsAddUp
<1>1. Components /\ IInv => CountsAddUp
  <2> SUFFICES ASSUME Components, IInv PROVE CountsAddUp
    OBVIOUS
  <2>1. /\ CountsSum /\ AcceptedTold /\ RejectedTold /\ ErrorsCounted /\ KeysCounted
    BY DEF IInv, CountersKept
  <2>2. Cardinality(DOMAIN perKeyCount) <= runningCount + Len(waiting)
    BY KeysBound
  <2> QED
    BY <2>1, <2>2 DEF CountsAddUp, MetricsData, snapshot, stats, CountsSum, AcceptedTold,
       RejectedTold, ErrorsCounted, KeysCounted, Taken, Refused, Failed, Issued
<1> QED
  BY <1>1, Invariant, ComponentsInvariant, PTL
=============================================================================
