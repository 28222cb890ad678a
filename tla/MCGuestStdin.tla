---------------------------- MODULE MCGuestStdin ----------------------------
(***************************************************************************)
(* One client sends two texts, whose order matters, the other sends one.   *)
(***************************************************************************)
EXTENDS GuestStdin

CONSTANTS talker, other

MCClients == {talker, other}

MCMaxTexts == [c \in MCClients |-> IF c = talker THEN 2 ELSE 1]
=============================================================================
