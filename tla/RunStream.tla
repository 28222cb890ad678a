------------------------------ MODULE RunStream ------------------------------
(***************************************************************************)
(* src/server.mjs: the life of one accepted run as the server sees it, and *)
(* the WebSocket clients that watch it.  The queue and the sandbox call    *)
(* onSpawn, onChunk and onStats and settle ticket.result; clients attach   *)
(* at any time, leave cleanly or vanish; the heartbeat looks for those     *)
(* that vanished; the permalink is saved before the end is announced; and  *)
(* the record is forgotten some time later.                                *)
(*                                                                         *)
(* Each handler runs to its end.  What interleaves is their order, and the *)
(* one await of the finish handler, between FinishRun and Announce.        *)
(* A frame is a record of a type and a number: the index of a chunk, zero  *)
(* for the others.                                                         *)
(***************************************************************************)
EXTENDS Naturals, Sequences, FiniteSets

CONSTANTS
    Clients,      \* WebSocket connections, each made once
    MaxSockets,   \* MAX_SOCKETS_PER_RUN
    MaxChunks,    \* bound: how many chunks the run produces
    MaxStats      \* bound: how many samples the run produces

ASSUME BoundsAssumption ==
    /\ MaxSockets \in Nat \ {0}
    /\ MaxChunks \in Nat
    /\ MaxStats \in Nat

VARIABLES
    status,     \* record.status
    chunks,     \* record.chunks.length
    stats,      \* record.stats.length
    sockets,    \* record.sockets
    phase,      \* where the finish handler stands
    known,      \* runs has the run's id
    ready,      \* readyState of each connection, "none" before it is made
    isAlive,    \* the flag the heartbeat keeps on each socket
    pinged,     \* the sockets whose peer has a ping to answer
    peer,       \* "gone" when the other end vanished without a close
    frames,     \* history: what was sent on each socket
    spawned     \* history: onSpawn() was called

recordVars == <<status, chunks, stats, spawned>>
heartbeatVars == <<isAlive, pinged>>
vars == <<recordVars, sockets, phase, known, ready, heartbeatVars, peer, frames>>

Frame(type) == [type |-> type, n |-> 0]
Chunk(i) == [type |-> "chunk", n |-> i]

Init ==
    /\ status = "queued"
    /\ chunks = 0
    /\ stats = 0
    /\ spawned = FALSE
    /\ sockets = {}
    /\ phase = "running"
    /\ known = TRUE
    /\ ready = [c \in Clients |-> "none"]
    /\ isAlive = [c \in Clients |-> TRUE]
    /\ pinged = {}
    /\ peer = [c \in Clients |-> "up"]
    /\ frames = [c \in Clients |-> <<>>]

Send(frame, receivers) ==
    frames' = [c \in Clients |->
                  IF c \in receivers THEN Append(frames[c], frame) ELSE frames[c]]

\* Mutant: readyState is not looked at.
BroadcastToAll(frame) == Send(frame, sockets)

\* The sockets of the record that are open.
OpenSockets == {c \in sockets : ready[c] = "open"}

Broadcast(frame) == Send(frame, OpenSockets)

(***************************************************************************)
(* The callbacks of the run.                                               *)
(***************************************************************************)
OnSpawn ==
    /\ phase = "running"
    /\ ~spawned
    /\ spawned' = TRUE
    /\ status' = "running"
    /\ Broadcast(Frame("started"))
    /\ UNCHANGED <<chunks, stats, sockets, phase, known, ready, heartbeatVars,
                   peer>>

OnChunk ==
    /\ phase = "running"
    /\ spawned
    /\ chunks < MaxChunks
    /\ chunks' = chunks + 1
    /\ Broadcast(Chunk(chunks'))
    /\ UNCHANGED <<status, stats, spawned, sockets, phase, known, ready,
                   heartbeatVars, peer>>

\* A sample may still arrive after the result: the callback of statsTimer
\* awaits its reads, and clearing the timer does not call it off.
OnStats ==
    /\ spawned
    /\ stats < MaxStats
    /\ stats' = stats + 1
    /\ Broadcast(Frame("stats"))
    /\ UNCHANGED <<status, chunks, spawned, sockets, phase, known, ready,
                   heartbeatVars, peer>>

Finishes ==
    /\ phase = "running"
    /\ status' = "finished"
    /\ phase' = "saving"
    /\ UNCHANGED <<chunks, stats, spawned, sockets, known, ready,
                   heartbeatVars, peer>>

\* Mutant: the end is told before the permalink is saved.
FinishRunToldFirst == Finishes /\ Broadcast(Frame("finished"))

\* The handler of ticket.result, up to its await.  A run that never spawned
\* (a compile error, an error of the queue) finishes as well.
FinishRun == Finishes /\ UNCHANGED frames

\* close() of the server's end, which takes a while to complete.
Close(leaving) ==
    ready' = [c \in Clients |-> IF c \in leaving THEN "closing" ELSE ready[c]]

Announces(leaving) ==
    /\ phase = "saving"
    /\ phase' = "announced"
    /\ Broadcast(Frame("finished"))
    /\ Close(leaving)
    /\ UNCHANGED <<recordVars, sockets, known, heartbeatVars, peer>>

\* Mutant: the sockets are left open.
AnnounceWithoutClose == Announces({})

\* permalinks.save() has settled, written or failed: the end is announced and
\* the sockets are closed.
Announce == Announces(OpenSockets)

\* The timer of scheduleCleanup().
Cleanup ==
    /\ phase = "announced"
    /\ known
    /\ known' = FALSE
    /\ UNCHANGED <<recordVars, sockets, phase, ready, heartbeatVars, peer,
                   frames>>

(***************************************************************************)
(* attachSocket().                                                         *)
(***************************************************************************)
Connects(c) == ready[c] = "none"

\* A single frame, and close().
TurnAway(c, frame) ==
    /\ frames' = [frames EXCEPT ![c] = <<frame>>]
    /\ ready' = [ready EXCEPT ![c] = "closing"]
    /\ UNCHANGED <<recordVars, sockets, phase, known, heartbeatVars, peer>>

AttachUnknown(c) ==
    /\ Connects(c)
    /\ ~known
    /\ TurnAway(c, Frame("error"))

AttachFinished(c) ==
    /\ Connects(c)
    /\ known
    /\ status = "finished"
    /\ TurnAway(c, Frame("finished"))

\* Mutant: off by one.
SocketsOverfull == Cardinality(sockets) > MaxSockets

SocketsFull == Cardinality(sockets) >= MaxSockets

AttachRefused(c) ==
    /\ Connects(c)
    /\ known
    /\ status # "finished"
    /\ SocketsFull
    /\ TurnAway(c, Frame("error"))

\* Mutant: the replay starts at the present.
ReplayNothing ==
    IF status = "running" THEN <<Frame("started")>> ELSE <<Frame("queued")>>

\* What a new watcher is told first: its place in the queue, or everything
\* the run has produced so far.
Replay ==
    IF status = "running"
    THEN <<Frame("started")>> \o [i \in 1..chunks |-> Chunk(i)]
                              \o [i \in 1..stats |-> Frame("stats")]
    ELSE <<Frame("queued")>>

Attach(c) ==
    /\ Connects(c)
    /\ known
    /\ status # "finished"
    /\ ~SocketsFull
    /\ frames' = [frames EXCEPT ![c] = Replay]
    /\ ready' = [ready EXCEPT ![c] = "open"]
    /\ isAlive' = [isAlive EXCEPT ![c] = TRUE]
    /\ sockets' = sockets \cup {c}
    /\ UNCHANGED <<recordVars, phase, known, pinged, peer>>

(***************************************************************************)
(* The connections, external: ws and the network.                          *)
(***************************************************************************)
\* The listener on 'close'.
Closed(c) ==
    /\ ready' = [ready EXCEPT ![c] = "closed"]
    /\ sockets' = sockets \ {c}
    /\ pinged' = pinged \ {c}
    /\ UNCHANGED <<recordVars, phase, known, isAlive, peer, frames>>

\* The client closes its end.
ClientCloses(c) ==
    /\ ready[c] = "open"
    /\ peer[c] = "up"
    /\ Closed(c)

\* A close() or terminate() of the server completes; ws gives up on a peer
\* that does not answer the closing handshake.
CloseCompletes(c) ==
    /\ ready[c] = "closing"
    /\ Closed(c)

\* The other end vanishes: no close, no pong, from now on.
PeerVanishes(c) ==
    /\ ready[c] = "open"
    /\ peer[c] = "up"
    /\ peer' = [peer EXCEPT ![c] = "gone"]
    /\ UNCHANGED <<recordVars, sockets, phase, known, ready, heartbeatVars,
                   frames>>

Pongs(c, alive) ==
    /\ c \in pinged
    /\ peer[c] = "up"
    /\ isAlive' = [isAlive EXCEPT ![c] = alive]
    /\ pinged' = pinged \ {c}
    /\ UNCHANGED <<recordVars, sockets, phase, known, ready, peer, frames>>

\* Mutant: the pong is not recorded.
PongUnheard(c) == Pongs(c, isAlive[c])

Pong(c) == Pongs(c, TRUE)

(***************************************************************************)
(* The heartbeat.                                                          *)
(***************************************************************************)
\* The interval is far longer than a round trip: every peer that is there has
\* answered the last ping.
Rested == \A c \in pinged : peer[c] = "gone"

Silent == {c \in sockets : ~isAlive[c]}

Beat(leaving) ==
    /\ known
    /\ sockets # {}
    /\ Rested
    /\ Close(leaving)
    /\ isAlive' = [c \in Clients |->
                    IF c \in sockets THEN FALSE ELSE isAlive[c]]
    /\ pinged' = pinged \cup (sockets \ leaving)
    /\ UNCHANGED <<recordVars, sockets, phase, known, peer, frames>>

\* Mutant: everybody is pinged, nobody terminated.
HeartbeatPingsOnly == Beat({})

\* A socket that has not answered since the last beat is terminated, the
\* others are pinged.  Only runs the server still knows are looked at.
Heartbeat == Beat(OpenSockets \cap Silent)

ClientStep(c) ==
    \/ AttachUnknown(c) \/ AttachFinished(c) \/ AttachRefused(c) \/ Attach(c)
    \/ ClientCloses(c) \/ CloseCompletes(c) \/ PeerVanishes(c) \/ Pong(c)

Next ==
    \/ OnSpawn \/ OnChunk \/ OnStats \/ FinishRun \/ Announce \/ Cleanup
    \/ Heartbeat
    \/ \E c \in Clients : ClientStep(c)

Spec == Init /\ [][Next]_vars

\* save() settles, the interval of the heartbeat fires, closes complete and a
\* peer that is there answers a ping.  The run need not end, and no client has
\* to connect or to leave.
Fairness ==
    /\ WF_vars(Announce) /\ WF_vars(Heartbeat)
    /\ \A c \in Clients : WF_vars(CloseCompletes(c)) /\ WF_vars(Pong(c))

FairSpec == Spec /\ Fairness

(***************************************************************************)
(* Properties.                                                             *)
(***************************************************************************)
FrameTypes == {"queued", "started", "chunk", "stats", "finished", "error"}

\* Every variable has its type, and no frame is of a chunk that the run has
\* not produced.
TypeOK ==
    /\ status \in {"queued", "running", "finished"}
    /\ chunks \in 0..MaxChunks
    /\ stats \in 0..MaxStats
    /\ spawned \in BOOLEAN
    /\ sockets \subseteq Clients
    /\ phase \in {"running", "saving", "announced"}
    /\ known \in BOOLEAN
    /\ ready \in [Clients -> {"none", "open", "closing", "closed"}]
    /\ isAlive \in [Clients -> BOOLEAN]
    /\ pinged \subseteq Clients
    /\ peer \in [Clients -> {"up", "gone"}]
    /\ frames \in [Clients -> Seq([type : FrameTypes, n : 0..chunks])]

IsChunk(frame) == frame.type = "chunk"

\* The frames that carry a chunk are those of the chunks 1 to told, in order.
ChunksUpTo(told, sent) ==
    LET places == {i \in DOMAIN sent : IsChunk(sent[i])}
    IN  /\ {sent[i].n : i \in places} = 1..told
        /\ \A i, j \in places : i < j => sent[i].n < sent[j].n

\* Whenever a client attaches, and whatever happens between, it has been sent
\* the chunks of the run from the first one on, in order, none twice; and as
\* long as it is connected it has been sent all of them.
Gapless ==
    \A c \in Clients :
        /\ \E told \in 0..chunks : ChunksUpTo(told, frames[c])
        /\ ready[c] = "open" => ChunksUpTo(chunks, frames[c])

\* "finished" is the last frame on a socket, also when a late sample of the
\* run's statistics comes in after it.
FinishedIsLast ==
    \A c \in Clients : \A i \in DOMAIN frames[c] :
        frames[c][i].type = "finished" => i = Len(frames[c])

Told(c) == \E i \in DOMAIN frames[c] : frames[c][i].type = "finished"

\* A client learns of the end only when the permalink has been saved (or could
\* not be), unless it attached in between: such a client is told nothing else.
AnnouncedMeansSaved ==
    \A c \in Clients :
        (Told(c) /\ phase # "announced") => frames[c] = <<Frame("finished")>>

\* record.sockets holds every open connection that watches the run, and none
\* that is over, within the cap; and when the server has forgotten the run,
\* which the heartbeat then passes over, nobody is left watching it.
SocketsExact ==
    /\ ~known => \A c \in Clients : ready[c] # "open"
    /\ \A c \in Clients : ready[c] = "open" => c \in sockets
    /\ \A c \in sockets : ready[c] \in {"open", "closing"}
    /\ Cardinality(sockets) <= MaxSockets

\* The server closes on a peer that is there only after it has told it the
\* end: the heartbeat terminates none but the vanished.
LiveWatcherKept ==
    [][\A c \in Clients :
          (ready[c] = "open" /\ ready'[c] = "closing" /\ peer[c] = "up")
             => Told(c)']_vars

\* Once the run has ended every connection to it is closed, whether its peer
\* is there or has vanished, and whether it was made before or after the end.
ReleasedAfterTheEnd ==
    \A c \in Clients :
        (phase # "running" /\ ready[c] # "none") ~> ready[c] = "closed"

\* A vanished peer does not hold its place among the sockets of the run for
\* ever, however long the run goes on.
VanishedAreReaped ==
    \A c \in Clients : (c \in sockets /\ peer[c] = "gone") ~> c \notin sockets
=============================================================================
