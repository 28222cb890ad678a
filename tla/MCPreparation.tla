--------------------------- MODULE MCPreparation ---------------------------
(***************************************************************************)
(* Either the files of the policy are in order and stay so, and the tree   *)
(* and the caller are any; or the caller is the command line, the tree is  *)
(* a good one, and the files have yet to be built.                         *)
(***************************************************************************)
EXTENDS Preparation

CONSTANT other

GoodTree ==
    /\ kernel = NEEDED_CONTROLLERS
    /\ own = MaxDepth /\ occupied = {own} /\ writable = Dirs
    /\ subtree = [d \in Dirs |-> IF d = own THEN {} ELSE NEEDED_CONTROLLERS]
    /\ slice = NEEDED_CONTROLLERS

InOrder ==
    /\ now = MaxNow
    /\ source = File(MaxVersion, now) /\ generator = source /\ program = source

MCInit ==
    /\ TreeInit
    /\ lim = DEFAULT_LIMITS /\ settings = NoSettings /\ loaded = 0
    /\ limitBounds \in {LIMIT_BOUNDS, LOCAL_LIMIT_BOUNDS}
    /\ \/ GoodTree /\ PolicyInit /\ limitBounds = LOCAL_LIMIT_BOUNDS
       \/ /\ InOrder
          /\ policy = [p \in Procs |-> IF p = self THEN "ready" ELSE "failed"]
          /\ held = [p \in Procs |-> MaxVersion]
          /\ asked = held
          /\ raced = FALSE /\ cutOff = FALSE

MCSpec == MCInit /\ [][Next]_vars
=============================================================================
