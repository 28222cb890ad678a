----------------------------- MODULE MCRunQueue -----------------------------
(***************************************************************************)
(* Six calls of submit() by two keys: enough to fill two slots, to have two *)
(* runs wait behind each other, and for rejections of both kinds.          *)
(***************************************************************************)
EXTENDS RunQueue, Naturals

CONSTANTS alice, bob

MCTasks == 1..6

MCKeys == {alice, bob}

MCKeyOf == [t \in MCTasks |-> IF t <= 4 THEN alice ELSE bob]

\* The calls of one key differ in nothing but their names: they are taken to
\* be made in the order of their names.
CallsInOrder ==
    \A t, u \in Tasks :
        (t < u /\ KeyOf[t] = KeyOf[u] /\ ticket'[u] # "none")
            => ticket'[t] # "none"

MCNext == Next /\ CallsInOrder

MCSpec == Init /\ [][MCNext]_vars /\ Fairness
=============================================================================
