---------------------------- MODULE WindowLimiter ----------------------------
(***************************************************************************)
(* What a fixed-window rate limiter promises its callers, without the Map  *)
(* that has to be swept: every id has at most one open window, which lasts *)
(* Window from the first check in it, and Limit[id] checks are granted per *)
(* window.  A window that is over leaves nothing behind.                   *)
(***************************************************************************)
EXTENDS Naturals

CONSTANTS Ids, Limit, Window, MaxTime

VARIABLES
    now,        \* the clock
    used,       \* checks granted in the open window
    ends,       \* when the open window ends, Closed if there is none
    answer      \* what the last check was answered

vars == <<now, used, ends, answer>>

Closed == 0

NoAnswer == [id |-> "none"]

Init ==
    /\ now = 0
    /\ used = [id \in Ids |-> 0]
    /\ ends = [id \in Ids |-> Closed]
    /\ answer = NoAnswer

EndOf(id) == IF ends[id] = Closed THEN now + Window ELSE ends[id]

Answer(id, allowed, remaining) ==
    answer' = [id |-> id, allowed |-> allowed, remaining |-> remaining,
               resetAt |-> EndOf(id)]

Grant(id) ==
    /\ used[id] < Limit[id]
    /\ used' = [used EXCEPT ![id] = @ + 1]
    /\ ends' = [ends EXCEPT ![id] = EndOf(id)]
    /\ Answer(id, TRUE, Limit[id] - used'[id])
    /\ UNCHANGED now

Refuse(id) ==
    /\ used[id] >= Limit[id]
    /\ ends' = [ends EXCEPT ![id] = EndOf(id)]
    /\ Answer(id, FALSE, 0)
    /\ UNCHANGED <<now, used>>

\* Time passes, and the windows it leaves behind are over.
Tick ==
    /\ now < MaxTime
    /\ now' = now + 1
    /\ used' = [id \in Ids |-> IF ends[id] <= now' THEN 0 ELSE used[id]]
    /\ ends' = [id \in Ids |-> IF ends[id] <= now' THEN Closed ELSE ends[id]]
    /\ UNCHANGED answer

Next == Tick \/ \E id \in Ids : Grant(id) \/ Refuse(id)

Spec == Init /\ [][Next]_vars
=============================================================================
