----------------------------- MODULE GuestStdin -----------------------------
(***************************************************************************)
(* What a guest is given on its standard input: the text its run was       *)
(* submitted with, and what the clients that watch the run send while it   *)
(* goes on (src/sandbox.mjs, src/server.mjs).                              *)
(*                                                                         *)
(* The messages of one connection arrive in order, or are lost with it;    *)
(* those of two connections interleave.  Texts are numbered for each       *)
(* client.  A guest reads, and may wait for the end of its input.          *)
(***************************************************************************)
EXTENDS Naturals, Sequences

CONSTANTS
    Clients,    \* the connections to the run
    MaxTexts    \* bound: how many texts each of them sends

\* A text is known by who sent it: no client is named like the submission.
ASSUME TextsAssumption == MaxTexts \in [Clients -> Nat] /\ "body" \notin Clients

VARIABLES
    attended,   \* run() was given onSpawn: by the server, not by a local run
    body,       \* the run was submitted with a text
    handle,     \* record.stdinHandle is set
    pipe, ended,    \* what was written to child.stdin, and that it was ended
    guest,      \* "none", "reading", "satisfied" with the end, or "over"
    taken,      \* how much of the pipe the guest has read
    line,       \* of each client
    told,       \* the client has received "started"
    wire,       \* its messages that have not been received
    sent, early,    \* history: its texts, and those before it was told
    closes      \* history: it has sent "stdin_close" ("yes"), or only before
                \* it was told ("early"), or not ("no")

runVars == <<attended, body>>
pipeVars == <<handle, pipe, ended>>
guestVars == <<guest, taken>>
clientVars == <<line, told, wire, sent, early, closes>>
inputVars == <<runVars, pipeVars, guestVars, clientVars>>

Text(by, n) == [by |-> by, n |-> n]

Body == Text("body", 1)

\* The message "stdin_close": a text has a number.
Close == Text("close", 0)

InputInit ==
    /\ attended \in BOOLEAN /\ body \in BOOLEAN
    /\ handle = FALSE /\ pipe = <<>> /\ ended = FALSE
    /\ guest = "none" /\ taken = 0
    /\ line = [c \in Clients |-> "up"]
    /\ told = [c \in Clients |-> FALSE]
    /\ wire = [c \in Clients |-> <<>>]
    /\ sent = [c \in Clients |-> 0]
    /\ early = [c \in Clients |-> 0]
    /\ closes = [c \in Clients |-> "no"]

(***************************************************************************)
(* spawnInSandbox() and onSpawn().                                         *)
(***************************************************************************)
Spawned(end, given) ==
    /\ guest = "none"
    /\ guest' = "reading"
    /\ pipe' = IF body THEN <<Body>> ELSE <<>>
    /\ ended' = end
    /\ handle' = given
    /\ UNCHANGED <<runVars, taken, clientVars>>

\* Mutant: write() for end() where nobody else will write.
SpawnLeftOpen == Spawned(FALSE, attended)

\* Mutant: end() for write() where clients may write.
SpawnEnded == Spawned(TRUE, attended)

\* The pipe is left open for the clients, if there can be any.
Spawn == Spawned(~attended, attended)

\* The frame "started" arrives, live or as the replay of an attach.
Tell(c) ==
    /\ handle
    /\ line[c] = "up" /\ ~told[c]
    /\ told' = [told EXCEPT ![c] = TRUE]
    /\ UNCHANGED <<runVars, pipeVars, guestVars, line, wire, sent, early, closes>>

(***************************************************************************)
(* The clients, and the message handler of attachSocket().                 *)
(***************************************************************************)
Sends(c, message) ==
    /\ attended
    /\ line[c] = "up"
    /\ wire' = [wire EXCEPT ![c] = Append(@, message)]
    /\ UNCHANGED <<runVars, pipeVars, guestVars, line, told>>

SendStdin(c) ==
    /\ sent[c] < MaxTexts[c]
    /\ Sends(c, Text(c, sent[c] + 1))
    /\ sent' = [sent EXCEPT ![c] = @ + 1]
    /\ early' = [early EXCEPT ![c] = IF told[c] THEN @ ELSE @ + 1]
    /\ UNCHANGED closes

\* A client that closed before the run had started may do so again.
CloseStdin(c) ==
    /\ closes[c] = "no" \/ (closes[c] = "early" /\ told[c])
    /\ Sends(c, Close)
    /\ closes' = [closes EXCEPT ![c] = IF told[c] THEN "yes" ELSE "early"]
    /\ UNCHANGED <<sent, early>>

\* record.stdinHandle?.write(), and endStdin().  What comes before the spawn is
\* dropped; a write after end(), or to a guest that is gone, fails unheard.
Receive(c) ==
    /\ wire[c] # <<>>
    /\ wire' = [wire EXCEPT ![c] = Tail(@)]
    /\ IF ~handle \/ ended \/ guest = "over"
       THEN UNCHANGED <<pipe, ended>>
       ELSE IF Head(wire[c]) = Close
            THEN ended' = TRUE /\ UNCHANGED pipe
            ELSE pipe' = Append(pipe, Head(wire[c])) /\ UNCHANGED ended
    /\ UNCHANGED <<runVars, handle, guestVars, line, told, sent, early, closes>>

\* A connection is lost, with the messages under way.
Cut(c) ==
    /\ line[c] = "up"
    /\ line' = [line EXCEPT ![c] = "cut"]
    /\ wire' = [wire EXCEPT ![c] = <<>>]
    /\ UNCHANGED <<runVars, pipeVars, guestVars, told, sent, early, closes>>

(***************************************************************************)
(* The guest.                                                              *)
(***************************************************************************)
Goes(from, to, count) ==
    /\ guest \in from
    /\ guest' = to
    /\ taken' = count
    /\ UNCHANGED <<runVars, pipeVars, clientVars>>

GuestReads == taken < Len(pipe) /\ Goes({"reading"}, "reading", taken + 1)

GuestSeesTheEnd ==
    ended /\ taken = Len(pipe) /\ Goes({"reading"}, "satisfied", taken)

\* It exits, or it is killed: in the end by the soft timer.
GuestStops == Goes({"reading", "satisfied"}, "over", taken)

InputNext ==
    \/ Spawn \/ GuestReads \/ GuestSeesTheEnd \/ GuestStops
    \/ \E c \in Clients :
          Tell(c) \/ SendStdin(c) \/ CloseStdin(c) \/ Receive(c) \/ Cut(c)

InputSpec == InputInit /\ [][InputNext]_inputVars

\* Messages are received and the guest reads.  Nobody has to send, and the
\* guest need not stop.
InputFairness ==
    /\ WF_inputVars(GuestReads) /\ WF_inputVars(GuestSeesTheEnd)
    /\ \A c \in Clients : WF_inputVars(Receive(c))

FairInputSpec == InputSpec /\ InputFairness

(***************************************************************************)
(* Properties.                                                             *)
(***************************************************************************)
\* The texts of a client that waited for "started", those on their way excepted.
Arrived(c) ==
    {n \in (early[c] + 1)..sent[c] : \A m \in DOMAIN wire[c] : wire[c][m] # Text(c, n)}

WrittenBy(c) == {pipe[n].n : n \in {m \in DOMAIN pipe : pipe[m].by = c}}

\* The guest is given the text of its run first, once, and then what the
\* clients send, that of each client in its order and none twice.  Nothing of a
\* client that waited for "started" is missing, as long as the input is open
\* and the guest is there; and the input of a run with clients is open until
\* one of them has closed it, be it one that nobody will ever close.
InputInOrder ==
    /\ guest # "none" => (body <=> pipe # <<>> /\ pipe[1] = Body)
    /\ \A m \in DOMAIN pipe : \A n \in 1..(m - 1) :
          pipe[m] # Body /\ (pipe[n].by = pipe[m].by => pipe[n].n < pipe[m].n)
    /\ \A c \in Clients :
          (line[c] = "up" /\ ~ended /\ guest \in {"reading", "satisfied"})
              => Arrived(c) \subseteq WrittenBy(c)
    /\ ended => ~attended \/ \E c \in Clients : closes[c] # "no"

\* A guest that reads to the end of its input gets there: in a local run
\* always, and in a run of the server once a client that was told of the start
\* has closed the input, unless its connection is lost.
EndIsSeen ==
    /\ (guest = "reading" /\ ~attended) ~> guest # "reading"
    /\ \A c \in Clients :
          (guest = "reading" /\ closes[c] = "yes") ~> (guest # "reading" \/ line[c] = "cut")
=============================================================================
