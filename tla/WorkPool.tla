------------------------------ MODULE WorkPool ------------------------------
(***************************************************************************)
(* What a caller of createQueue() may rely on, with none of its counters:  *)
(* a pool of MaxConcurrency workers in front of a first-come first-served  *)
(* backlog of MaxQueueLength places.  A run is turned away only when its   *)
(* key really has MaxPerKey unfinished runs, or when every worker is busy  *)
(* and every place of the backlog is taken.  A worker is never idle while  *)
(* a run is waiting.  RunQueue is shown to implement this specification.   *)
(***************************************************************************)
EXTENDS Naturals, Sequences, FiniteSets

CONSTANTS Tasks, KeyOf, MaxConcurrency, MaxQueueLength, MaxPerKey

VARIABLES
    backlog,    \* the runs that wait for a worker, oldest first
    active,     \* the runs that have a worker
    finished,   \* the runs that have been answered after they ran
    refused     \* the runs that were turned away

poolVars == <<backlog, active, finished, refused>>

Queued == {backlog[i] : i \in 1..Len(backlog)}

Unknown(t) == t \notin Queued \cup active \cup finished \cup refused

UnfinishedOf(k) == {t \in Queued \cup active : KeyOf[t] = k}

QuotaUsed(k) == Cardinality(UnfinishedOf(k)) >= MaxPerKey

WorkerFree == Cardinality(active) < MaxConcurrency

AtCapacity == ~WorkerFree /\ Len(backlog) >= MaxQueueLength

Init ==
    /\ backlog = <<>>
    /\ active = {}
    /\ finished = {}
    /\ refused = {}

\* A worker is free, so nothing waits, and the run starts at once.
Start(t) ==
    /\ Unknown(t)
    /\ ~QuotaUsed(KeyOf[t])
    /\ WorkerFree
    /\ backlog = <<>>
    /\ active' = active \cup {t}
    /\ UNCHANGED <<backlog, finished, refused>>

Enqueue(t) ==
    /\ Unknown(t)
    /\ ~QuotaUsed(KeyOf[t])
    /\ ~WorkerFree
    /\ Len(backlog) < MaxQueueLength
    /\ backlog' = Append(backlog, t)
    /\ UNCHANGED <<active, finished, refused>>

Refuse(t) ==
    /\ Unknown(t)
    /\ QuotaUsed(KeyOf[t]) \/ AtCapacity
    /\ refused' = refused \cup {t}
    /\ UNCHANGED <<backlog, active, finished>>

\* A worker is handed over to the oldest waiting run in the same step.
Finish(t) ==
    /\ t \in active
    /\ finished' = finished \cup {t}
    /\ \/ /\ backlog = <<>>
          /\ active' = active \ {t}
          /\ backlog' = backlog
       \/ /\ backlog # <<>>
          /\ active' = (active \ {t}) \cup {Head(backlog)}
          /\ backlog' = Tail(backlog)
    /\ UNCHANGED refused

Next == \E t \in Tasks : Start(t) \/ Enqueue(t) \/ Refuse(t) \/ Finish(t)

Spec == Init /\ [][Next]_poolVars

LiveSpec == Spec /\ \A t \in Tasks : WF_poolVars(Finish(t))
=============================================================================
