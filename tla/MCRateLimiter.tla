--------------------------- MODULE MCRateLimiter ---------------------------
(***************************************************************************)
(* Two ids of different limits, windows that do not divide the interval of *)
(* the sweep, and time for three windows one after the other.              *)
(***************************************************************************)
EXTENDS RateLimiter

CONSTANTS caller, visitor

MCIds == {caller, visitor}

MCLimit == [id \in MCIds |-> IF id = caller THEN 2 ELSE 1]
=============================================================================
