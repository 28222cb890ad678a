-------------------------- MODULE RunStreamProofs --------------------------
(***************************************************************************)
(* Proofs about RunStream, for any clients, places, chunks and samples.     *)
(*                                                                         *)
(* The invariant relates the record to its sockets: an open connection has  *)
(* been sent every chunk and not the end, it is among the sockets of the    *)
(* record, and if it has not answered since the last beat then the ping is  *)
(* still under way or its peer is gone.                                     *)
(***************************************************************************)
EXTENDS RunStream, FiniteSetTheorems, SequenceTheorems, TLAPS

\* The status of the record, by where the run and its finish handler stand.
StatusKept ==
    /\ status = "finished" <=> phase # "running"
    /\ phase = "running" => (status = "running" <=> spawned)
    /\ ~spawned => chunks = 0
    /\ ~known => phase = "announced"

\* Who is connected.
PlacesKept ==
    /\ phase = "announced" => \A c \in Clients : ready[c] # "open"
    /\ \A c \in Clients : ready[c] = "open" => c \in sockets
    /\ \A c \in sockets : ready[c] \in {"open", "closing"}
    /\ IsFiniteSet(sockets)
    /\ Cardinality(sockets) <= MaxSockets

\* What each client has been told.
OpenNotTold == \A c \in Clients : ready[c] = "open" => ~Told(c)

ToldKept == Gapless /\ FinishedIsLast /\ AnnouncedMeansSaved /\ OpenNotTold

\* An open connection whose flag is down has a ping to answer, or cannot.
PingsKept ==
    \A c \in Clients :
        (ready[c] = "open" /\ ~isAlive[c] /\ peer[c] = "up") => c \in pinged

IInv == TypeOK /\ StatusKept /\ PlacesKept /\ ToldKept /\ PingsKept

\* What may have been sent once so many chunks have been produced.
Sent(produced) == Seq([type : FrameTypes, n : 0..produced])

(***************************************************************************)
(* Sequences of frames.                                                    *)
(***************************************************************************)
\* One frame more.
LEMMA AppendFacts ==
    ASSUME NEW S, NEW sent \in Seq(S), NEW frame \in S
    PROVE  /\ Append(sent, frame) \in Seq(S)
           /\ Len(Append(sent, frame)) = Len(sent) + 1
           /\ Len(sent) \in Nat
           /\ DOMAIN sent = 1..Len(sent)
           /\ DOMAIN Append(sent, frame) = 1..(Len(sent) + 1)
           /\ \A i \in 1..Len(sent) : Append(sent, frame)[i] = sent[i]
           /\ Append(sent, frame)[Len(sent) + 1] = frame
OBVIOUS

\* What could be sent can still be sent when there are more chunks.
LEMMA SentGrows ==
    ASSUME NEW m \in Nat, NEW n \in Nat, m <= n
    PROVE  Sent(m) \subseteq Sent(n)
<1>1. [type : FrameTypes, n : 0..m] \subseteq [type : FrameTypes, n : 0..n]
  OBVIOUS
<1> QED
  BY <1>1, SeqMonotonic DEF Sent

\* The parts of a frame.
LEMMA FrameFacts ==
    /\ \A i : Chunk(i).type = "chunk" /\ Chunk(i).n = i /\ IsChunk(Chunk(i))
    /\ \A type : Frame(type).type = type /\ Frame(type).n = 0
                 /\ (type # "chunk" => ~IsChunk(Frame(type)))
BY DEF Chunk, Frame, IsChunk

\* A single frame is not a chunk's.
LEMMA SingleFrame ==
    ASSUME NEW frame, ~IsChunk(frame)
    PROVE  ChunksUpTo(0, <<frame>>)
<1>1. {i \in DOMAIN <<frame>> : IsChunk(<<frame>>[i])} = {}
  OBVIOUS
<1> QED
  BY <1>1 DEF ChunksUpTo

\* A frame of another type leaves the chunks as they are.
LEMMA AppendOther ==
    ASSUME NEW S, NEW sent \in Seq(S), NEW frame \in S, ~IsChunk(frame),
           NEW told, ChunksUpTo(told, sent)
    PROVE  ChunksUpTo(told, Append(sent, frame))
<1> DEFINE more == Append(sent, frame)
<1>1. {i \in DOMAIN more : IsChunk(more[i])} = {i \in DOMAIN sent : IsChunk(sent[i])}
  BY AppendFacts
<1>2. \A i \in {i \in DOMAIN sent : IsChunk(sent[i])} : more[i] = sent[i]
  BY AppendFacts
<1> QED
  BY <1>1, <1>2 DEF ChunksUpTo

\* The next chunk goes after the others.
LEMMA AppendChunk ==
    ASSUME NEW told \in Nat, NEW sent \in Sent(told), ChunksUpTo(told, sent)
    PROVE  ChunksUpTo(told + 1, Append(sent, Chunk(told + 1)))
<1> DEFINE S == [type : FrameTypes, n : 0..(told + 1)]
           more == Append(sent, Chunk(told + 1))
           places == {i \in DOMAIN sent : IsChunk(sent[i])}
           last == Len(sent) + 1
<1>1. sent \in Seq(S) /\ Chunk(told + 1) \in S
  <2>1. sent \in Seq(S)
    BY SentGrows DEF Sent
  <2>2. "chunk" \in FrameTypes /\ told + 1 \in 0..(told + 1)
    BY DEF FrameTypes
  <2> QED
    BY <2>1, <2>2 DEF Chunk
<1>2. /\ Len(sent) \in Nat /\ DOMAIN sent = 1..Len(sent)
      /\ DOMAIN more = 1..last
      /\ \A i \in 1..Len(sent) : more[i] = sent[i]
      /\ more[last] = Chunk(told + 1)
  BY <1>1, AppendFacts
<1>3. {i \in DOMAIN more : IsChunk(more[i])} = places \cup {last}
  BY <1>2 DEF IsChunk, Chunk
<1>4. \A i \in places : more[i] = sent[i] /\ sent[i].n \in 0..told /\ i < last
  <2>1. \A i \in 1..Len(sent) : sent[i] \in [type : FrameTypes, n : 0..told]
    BY ElementOfSeq DEF Sent
  <2> QED
    BY <1>2, <2>1
<1>5. more[last].n = told + 1
  BY <1>2 DEF Chunk
<1>6. {sent[i].n : i \in places} = 1..told
      /\ \A i, j \in places : i < j => sent[i].n < sent[j].n
  BY DEF ChunksUpTo
<1>7. {more[i].n : i \in places \cup {last}} = 1..(told + 1)
  <2>1. {more[i].n : i \in places \cup {last}} = {sent[i].n : i \in places} \cup {told + 1}
    BY <1>4, <1>5
  <2>2. (1..told) \cup {told + 1} = 1..(told + 1)
    OBVIOUS
  <2> QED
    BY <2>1, <2>2, <1>6
<1>8. \A i, j \in places \cup {last} : i < j => more[i].n < more[j].n
  BY <1>2, <1>4, <1>5, <1>6
<1> QED
  BY <1>3, <1>7, <1>8 DEF ChunksUpTo

\* The replay is of every chunk that there is, and tells no end.
LEMMA ReplayFacts ==
    ASSUME TypeOK, StatusKept, status # "finished"
    PROVE  /\ Replay \in Sent(chunks)
           /\ ChunksUpTo(chunks, Replay)
           /\ \A i \in DOMAIN Replay : Replay[i].type \notin {"finished", "error"}
<1> DEFINE S == [type : FrameTypes, n : 0..chunks]
<1>1. chunks \in Nat /\ stats \in Nat
  BY BoundsAssumption DEF TypeOK
<1>2. CASE status = "running"
  <2> DEFINE head == <<Frame("started")>>
             body == [i \in 1..chunks |-> Chunk(i)]
             tail == [i \in 1..stats |-> Frame("stats")]
  <2>1. head \in Seq(S) /\ body \in Seq(S) /\ tail \in Seq(S)
    BY <1>1 DEF Frame, Chunk, FrameTypes
  <2>2. Len(head) = 1 /\ Len(body) = chunks /\ Len(tail) = stats
    BY <1>1
  <2>3. Replay = (head \o body) \o tail
    BY <1>2 DEF Replay
  <2> HIDE DEF head, body, tail, S
  <2>4. /\ head \o body \in Seq(S) /\ Len(head \o body) = chunks + 1
        /\ \A i \in 1..(chunks + 1) :
              (head \o body)[i] = IF i <= 1 THEN head[i] ELSE body[i - 1]
    <3>1. /\ head \o body \in Seq(S)
          /\ Len(head \o body) = Len(head) + Len(body)
          /\ \A i \in 1..Len(head) + Len(body) :
                (head \o body)[i] = IF i <= Len(head) THEN head[i]
                                    ELSE body[i - Len(head)]
      BY <2>1, ConcatProperties, Zenon
    <3> QED
      BY <1>1, <2>2, <3>1
  <2>5. /\ Replay \in Seq(S) /\ Len(Replay) = chunks + 1 + stats
        /\ \A i \in 1..(chunks + 1 + stats) :
              Replay[i] = IF i <= chunks + 1 THEN (head \o body)[i]
                          ELSE tail[i - (chunks + 1)]
    BY <1>1, <2>1, <2>2, <2>3, <2>4, ConcatProperties
  <2>6. DOMAIN Replay = 1..(chunks + 1 + stats)
    BY <2>5, LenProperties
  <2>7. /\ Replay[1] = Frame("started")
        /\ \A i \in 2..(chunks + 1) : Replay[i] = Chunk(i - 1)
        /\ \A i \in (chunks + 2)..(chunks + 1 + stats) : Replay[i] = Frame("stats")
    <3>1. \A i \in 1..(chunks + 1) : Replay[i] = IF i <= 1 THEN head[i] ELSE body[i - 1]
      <4>1. \A i \in 1..(chunks + 1) :
                i \in 1..(chunks + 1 + stats) /\ i <= chunks + 1
        BY <1>1
      <4>2. \A i \in 1..(chunks + 1) : Replay[i] = (head \o body)[i]
        BY <4>1, <2>5
      <4> QED
        BY <4>2, <2>4
    <3>2. \A i \in (chunks + 2)..(chunks + 1 + stats) :
              Replay[i] = tail[i - (chunks + 1)] /\ i - (chunks + 1) \in 1..stats
      BY <1>1, <2>5
    <3>3. \A i \in 2..(chunks + 1) : i - 1 \in 1..chunks
      BY <1>1
    <3>4. head[1] = Frame("started")
      BY DEF head
    <3>5. \A i \in 1..chunks : body[i] = Chunk(i)
      BY DEF body
    <3>6. \A i \in 1..stats : tail[i] = Frame("stats")
      BY DEF tail
    <3>7. 1 \in 1..(chunks + 1)
          /\ \A i \in 2..(chunks + 1) : i \in 1..(chunks + 1) /\ ~(i <= 1)
      BY <1>1
    <3> QED
      BY <3>1, <3>2, <3>3, <3>4, <3>5, <3>6, <3>7
  <2>8. {i \in DOMAIN Replay : IsChunk(Replay[i])} = 2..(chunks + 1)
    <3>1. /\ ~IsChunk(Replay[1])
          /\ \A i \in 2..(chunks + 1) : IsChunk(Replay[i])
          /\ \A i \in (chunks + 2)..(chunks + 1 + stats) : ~IsChunk(Replay[i])
      BY <2>7, FrameFacts, Zenon
    <3> QED
      BY <1>1, <2>6, <3>1
  <2>9. \A i \in 2..(chunks + 1) : Replay[i].n = i - 1
    BY <2>7, FrameFacts, Zenon
  <2>10. {Replay[i].n : i \in 2..(chunks + 1)} = 1..chunks
    <3>1. \A k \in 1..chunks : k + 1 \in 2..(chunks + 1) /\ Replay[k + 1].n = k
      BY <1>1, <2>9
    <3>2. \A i \in 2..(chunks + 1) : Replay[i].n \in 1..chunks
      BY <1>1, <2>9
    <3> QED
      BY <3>1, <3>2
  <2>11. \A i, j \in 2..(chunks + 1) : i < j => Replay[i].n < Replay[j].n
    BY <1>1, <2>9
  <2>12. \A i \in DOMAIN Replay : Replay[i].type \notin {"finished", "error"}
    <3>1. \A i \in DOMAIN Replay :
              \/ i = 1 \/ i \in 2..(chunks + 1)
              \/ i \in (chunks + 2)..(chunks + 1 + stats)
      BY <1>1, <2>6
    <3> QED
      BY <3>1, <2>7, FrameFacts
  <2> QED
    BY <2>5, <2>8, <2>10, <2>11, <2>12 DEF ChunksUpTo, Sent, S
<1>3. CASE status # "running"
  <2>1. chunks = 0 /\ Replay = <<Frame("queued")>>
    BY <1>3 DEF StatusKept, Replay, TypeOK
  <2>2. ~IsChunk(Frame("queued"))
    BY DEF IsChunk, Frame
  <2>3. Replay \in Sent(chunks)
    BY <1>1, <2>1 DEF Sent, Frame, FrameTypes
  <2>4. \A i \in DOMAIN Replay : Replay[i].type \notin {"finished", "error"}
    BY <2>1 DEF Frame
  <2> QED
    BY <2>1, <2>2, <2>3, <2>4, SingleFrame
<1> QED
  BY <1>2, <1>3

(***************************************************************************)
(* The types, the record and the places.                                   *)
(***************************************************************************)
\* A broadcast reaches exactly the open connections.
LEMMA BroadcastFacts ==
    ASSUME TypeOK, PlacesKept, NEW frame, Broadcast(frame)
    PROVE  /\ frames' = [c \in Clients |-> frames'[c]]
           /\ \A c \in Clients :
                 frames'[c] = IF ready[c] = "open" THEN Append(frames[c], frame)
                              ELSE frames[c]
BY DEF Broadcast, Send, OpenSockets, PlacesKept

\* What a client has been sent is made of frames of the model.
LEMMA FramesTyped ==
    ASSUME TypeOK, NEW c \in Clients
    PROVE  /\ chunks \in Nat /\ chunks \in 0..MaxChunks
           /\ frames[c] \in Sent(chunks)
           /\ Len(frames[c]) \in Nat /\ DOMAIN frames[c] = 1..Len(frames[c])
<1>1. chunks \in Nat /\ chunks \in 0..MaxChunks
  BY BoundsAssumption DEF TypeOK
<1>2. frames[c] \in Seq([type : FrameTypes, n : 0..chunks])
  BY DEF TypeOK
<1> QED
  BY <1>1, <1>2, LenProperties DEF Sent

\* A broadcast of a frame that may be sent keeps the type of what was sent.
LEMMA BroadcastTyped ==
    ASSUME TypeOK, PlacesKept, NEW frame, Broadcast(frame),
           chunks <= chunks', chunks' \in Nat,
           frame \in [type : FrameTypes, n : 0..chunks']
    PROVE  frames' \in [Clients -> Sent(chunks')]
<1>1. \A c \in Clients : frames'[c] \in Sent(chunks')
  <2> SUFFICES ASSUME NEW c \in Clients PROVE frames'[c] \in Sent(chunks')
    OBVIOUS
  <2>1. frames[c] \in Sent(chunks')
    BY FramesTyped, SentGrows
  <2>2. Append(frames[c], frame) \in Sent(chunks')
    <3> DEFINE S == [type : FrameTypes, n : 0..chunks']
    <3>1. frames[c] \in Seq(S) /\ frame \in S
      BY <2>1 DEF Sent
    <3> HIDE DEF S
    <3>2. Append(frames[c], frame) \in Seq(S)
      BY <3>1, AppendFacts
    <3> QED
      BY <3>2 DEF S, Sent
  <2> QED
    BY <2>1, <2>2, BroadcastFacts
<1> QED
  BY <1>1, BroadcastFacts, Zenon

\* Turning a client away keeps the types.
LEMMA TurnAwayTyped ==
    ASSUME TypeOK, NEW c \in Clients, NEW type \in FrameTypes,
           TurnAway(c, Frame(type))
    PROVE  TypeOK'
<1>1. <<Frame(type)>> \in Sent(chunks)
  BY FramesTyped DEF Frame, Sent
<1>2. frames' \in [Clients -> Sent(chunks)]
  BY <1>1 DEF TypeOK, TurnAway, Sent
<1>3. ready' \in [Clients -> {"none", "open", "closing", "closed"}]
  BY DEF TypeOK, TurnAway
<1>4. UNCHANGED <<status, chunks, stats, spawned, sockets, phase, known,
                  isAlive, pinged, peer>>
  BY DEF TurnAway, recordVars, heartbeatVars
<1> QED
  BY <1>2, <1>3, <1>4 DEF TypeOK, Sent

\* Every step keeps the types.
LEMMA TypeStep ==
    ASSUME TypeOK, StatusKept, PlacesKept, [Next]_vars
    PROVE  TypeOK'
<1> USE DEF recordVars, heartbeatVars
<1>0. chunks \in Nat /\ stats \in Nat /\ MaxChunks \in Nat /\ MaxStats \in Nat
  BY BoundsAssumption DEF TypeOK
<1>1. CASE OnSpawn
  <2>1. Frame("started") \in [type : FrameTypes, n : 0..chunks']
    BY <1>0, <1>1 DEF Frame, FrameTypes, OnSpawn
  <2>2. frames' \in [Clients -> Sent(chunks')]
    BY <1>0, <1>1, <2>1, BroadcastTyped DEF OnSpawn
  <2>3. spawned' = TRUE /\ status' = "running"
        /\ UNCHANGED <<chunks, stats, sockets, phase, known, ready, isAlive,
                       pinged, peer>>
    BY <1>1 DEF OnSpawn
  <2> QED
    BY <2>2, <2>3 DEF TypeOK, Sent
<1>2. CASE OnChunk
  <2>1. chunks' = chunks + 1 /\ chunks' \in 0..MaxChunks
    BY <1>0, <1>2 DEF OnChunk
  <2>2. Chunk(chunks') \in [type : FrameTypes, n : 0..chunks']
    BY <1>0, <2>1 DEF Chunk, FrameTypes
  <2>3. frames' \in [Clients -> Sent(chunks')]
    BY <1>0, <1>2, <2>1, <2>2, BroadcastTyped DEF OnChunk
  <2>4. UNCHANGED <<status, stats, spawned, sockets, phase, known, ready,
                    isAlive, pinged, peer>>
    BY <1>2 DEF OnChunk
  <2> QED
    BY <2>1, <2>3, <2>4 DEF TypeOK, Sent
<1>3. CASE OnStats
  <2>1. stats' \in 0..MaxStats
        /\ UNCHANGED <<status, chunks, spawned, sockets, phase, known, ready,
                       isAlive, pinged, peer>>
    BY <1>0, <1>3 DEF OnStats
  <2>2. Frame("stats") \in [type : FrameTypes, n : 0..chunks']
    BY <1>0, <2>1 DEF Frame, FrameTypes
  <2>3. frames' \in [Clients -> Sent(chunks')]
    BY <1>0, <1>3, <2>1, <2>2, BroadcastTyped DEF OnStats
  <2> QED
    BY <2>1, <2>3 DEF TypeOK, Sent
<1>4. CASE FinishRun
  BY <1>4 DEF FinishRun, Finishes, TypeOK
<1>5. CASE Announce
  <2>1. ready' \in [Clients -> {"none", "open", "closing", "closed"}]
    BY <1>5 DEF Announce, Announces, Close, TypeOK
  <2>2. phase' = "announced"
        /\ UNCHANGED <<status, chunks, stats, spawned, sockets, known, isAlive,
                       pinged, peer>>
    BY <1>5 DEF Announce, Announces
  <2>3. Frame("finished") \in [type : FrameTypes, n : 0..chunks']
    BY <1>0, <2>2 DEF Frame, FrameTypes
  <2>4. frames' \in [Clients -> Sent(chunks')]
    BY <1>0, <1>5, <2>2, <2>3, BroadcastTyped DEF Announce, Announces
  <2> QED
    BY <2>1, <2>2, <2>4 DEF TypeOK, Sent
<1>6. CASE Cleanup
  BY <1>6 DEF Cleanup, TypeOK
<1>7. CASE Heartbeat
  <2>1. ready' \in [Clients -> {"none", "open", "closing", "closed"}]
    BY <1>7 DEF Heartbeat, Beat, Close, TypeOK
  <2>2. isAlive' \in [Clients -> BOOLEAN]
    BY <1>7 DEF Heartbeat, Beat, TypeOK
  <2>3. pinged' \subseteq Clients
        /\ UNCHANGED <<status, chunks, stats, spawned, sockets, phase, known,
                       peer, frames>>
    BY <1>7 DEF Heartbeat, Beat, TypeOK
  <2> QED
    BY <2>1, <2>2, <2>3 DEF TypeOK
<1>8. ASSUME NEW c \in Clients, ClientStep(c) PROVE TypeOK'
  <2>1. CASE AttachUnknown(c)
    BY <2>1, TurnAwayTyped DEF AttachUnknown, FrameTypes
  <2>2. CASE AttachFinished(c)
    BY <2>2, TurnAwayTyped DEF AttachFinished, FrameTypes
  <2>3. CASE AttachRefused(c)
    BY <2>3, TurnAwayTyped DEF AttachRefused, FrameTypes
  <2>4. CASE Attach(c)
    <3>1. Replay \in Sent(chunks)
      BY <2>4, ReplayFacts DEF Attach
    <3>2. frames' \in [Clients -> Sent(chunks)]
      BY <2>4, <3>1 DEF Attach, TypeOK, Sent
    <3>3. /\ ready' \in [Clients -> {"none", "open", "closing", "closed"}]
          /\ sockets' \subseteq Clients
      BY <2>4 DEF Attach, TypeOK
    <3>4. isAlive' \in [Clients -> BOOLEAN]
      BY <2>4 DEF Attach, TypeOK
    <3>5. UNCHANGED <<status, chunks, stats, spawned, phase, known, pinged, peer>>
      BY <2>4 DEF Attach
    <3> QED
      BY <3>2, <3>3, <3>4, <3>5 DEF TypeOK, Sent
  <2>5. CASE ClientCloses(c) \/ CloseCompletes(c)
    BY <2>5 DEF ClientCloses, CloseCompletes, Closed, TypeOK
  <2>6. CASE PeerVanishes(c)
    BY <2>6 DEF PeerVanishes, TypeOK
  <2>7. CASE Pong(c)
    BY <2>7 DEF Pong, Pongs, TypeOK
  <2> QED
    BY <1>8, <2>1, <2>2, <2>3, <2>4, <2>5, <2>6, <2>7 DEF ClientStep
<1>9. CASE UNCHANGED vars
  BY <1>9 DEF vars, TypeOK
<1> QED
  BY <1>1, <1>2, <1>3, <1>4, <1>5, <1>6, <1>7, <1>8, <1>9 DEF Next

\* The status follows the finish handler.
LEMMA StatusStep ==
    ASSUME TypeOK, StatusKept, [Next]_vars
    PROVE  StatusKept'
<1> USE DEF recordVars, StatusKept
<1>1. CASE OnSpawn
  BY <1>1 DEF OnSpawn
<1>2. CASE OnChunk
  BY <1>2 DEF OnChunk
<1>3. CASE OnStats
  BY <1>3 DEF OnStats
<1>4. CASE FinishRun
  BY <1>4 DEF FinishRun, Finishes
<1>5. CASE Announce
  BY <1>5 DEF Announce, Announces
<1>6. CASE Cleanup
  BY <1>6 DEF Cleanup
<1>7. CASE Heartbeat
  BY <1>7 DEF Heartbeat, Beat
<1>8. ASSUME NEW c \in Clients, ClientStep(c) PROVE StatusKept'
  BY <1>8 DEF ClientStep, AttachUnknown, AttachFinished, AttachRefused, Attach,
       TurnAway, ClientCloses, CloseCompletes, Closed, PeerVanishes, Pong, Pongs
<1>9. CASE UNCHANGED vars
  BY <1>9 DEF vars
<1> QED
  BY <1>1, <1>2, <1>3, <1>4, <1>5, <1>6, <1>7, <1>8, <1>9 DEF Next

\* No step but an attachment opens a connection, and none that is over is
\* made open again.
LEMMA OpenedByAttach ==
    ASSUME TypeOK, [Next]_vars, NEW c \in Clients, ready'[c] = "open"
    PROVE  ready[c] = "open" \/ (Attach(c) /\ ready[c] = "none")
<1> USE DEF recordVars, heartbeatVars
<1>1. CASE OnSpawn \/ OnChunk \/ OnStats \/ FinishRun \/ Cleanup
  BY <1>1 DEF OnSpawn, OnChunk, OnStats, FinishRun, Finishes, Cleanup
<1>2. CASE Announce \/ Heartbeat
  BY <1>2 DEF Announce, Announces, Heartbeat, Beat, Close
<1>3. ASSUME NEW d \in Clients, ClientStep(d)
      PROVE  ready[c] = "open" \/ (Attach(c) /\ ready[c] = "none")
  <2>1. CASE Attach(d)
    BY <2>1 DEF Attach, Connects, TypeOK
  <2>2. CASE AttachUnknown(d) \/ AttachFinished(d) \/ AttachRefused(d)
    BY <2>2 DEF AttachUnknown, AttachFinished, AttachRefused, TurnAway, TypeOK
  <2>3. CASE ClientCloses(d) \/ CloseCompletes(d)
    BY <2>3 DEF ClientCloses, CloseCompletes, Closed, TypeOK
  <2>4. CASE PeerVanishes(d) \/ Pong(d)
    BY <2>4 DEF PeerVanishes, Pong, Pongs
  <2> QED
    BY <1>3, <2>1, <2>2, <2>3, <2>4 DEF ClientStep
<1>4. CASE UNCHANGED vars
  BY <1>4 DEF vars
<1> QED
  BY <1>1, <1>2, <1>3, <1>4 DEF Next

\* Every step keeps the places.
LEMMA PlacesStep ==
    ASSUME TypeOK, StatusKept, PlacesKept, [Next]_vars
    PROVE  PlacesKept'
<1> USE DEF recordVars, heartbeatVars
<1>1. CASE UNCHANGED <<sockets, ready>> /\ (phase' = "announced" => phase = "announced")
  BY <1>1 DEF PlacesKept
<1>2. CASE UNCHANGED sockets
           /\ (\A c \in Clients : ready'[c] = ready[c]
                     \/ (ready[c] # "none" /\ ready'[c] = "closing"
                         /\ ready[c] # "closed"))
           /\ (phase' = "announced" =>
                  phase = "announced" \/ \A c \in Clients : ready'[c] # "open")
  <2>1. sockets \subseteq Clients
    BY DEF TypeOK
  <2>2. (phase' = "announced" => \A c \in Clients : ready'[c] # "open")
    BY <1>2 DEF PlacesKept
  <2>3. \A c \in Clients : ready'[c] = "open" => c \in sockets'
    BY <1>2 DEF PlacesKept
  <2>4. \A c \in sockets' : ready'[c] \in {"open", "closing"}
    BY <1>2, <2>1 DEF PlacesKept
  <2> QED
    BY <1>2, <2>2, <2>3, <2>4 DEF PlacesKept
<1>3. CASE OnSpawn \/ OnChunk \/ OnStats \/ FinishRun \/ Cleanup
  <2>1. UNCHANGED <<sockets, ready>> /\ (phase' = "announced" => phase = "announced")
    BY <1>3 DEF OnSpawn, OnChunk, OnStats, FinishRun, Finishes, Cleanup
  <2> QED
    BY <2>1, <1>1
<1>4. CASE Announce
  <2>1. UNCHANGED sockets /\ ready' = [c \in Clients |->
                IF c \in OpenSockets THEN "closing" ELSE ready[c]]
    BY <1>4 DEF Announce, Announces, Close
  <2>2. \A c \in Clients : ready[c] = "open" <=> c \in OpenSockets
    BY DEF OpenSockets, PlacesKept
  <2> QED
    BY <2>1, <2>2, <1>2
<1>5. CASE Heartbeat
  <2>1. UNCHANGED <<sockets, phase>> /\ ready' = [c \in Clients |->
                IF c \in OpenSockets \cap Silent THEN "closing" ELSE ready[c]]
    BY <1>5 DEF Heartbeat, Beat, Close
  <2>2. \A c \in OpenSockets \cap Silent : ready[c] = "open"
    BY DEF OpenSockets
  <2> QED
    BY <2>1, <2>2, <1>2
<1>6. ASSUME NEW c \in Clients, ClientStep(c) PROVE PlacesKept'
  <2>1. CASE AttachUnknown(c) \/ AttachFinished(c) \/ AttachRefused(c)
    <3>1. /\ ready[c] = "none"
          /\ ready' = [ready EXCEPT ![c] = "closing"]
          /\ UNCHANGED <<sockets, phase>>
      BY <2>1 DEF AttachUnknown, AttachFinished, AttachRefused, TurnAway, Connects
    <3> QED
      BY <3>1 DEF PlacesKept, TypeOK
  <2>2. CASE Attach(c)
    <3>1. /\ ready' = [ready EXCEPT ![c] = "open"]
          /\ sockets' = sockets \cup {c}
          /\ phase' # "announced"
          /\ Cardinality(sockets) < MaxSockets
      BY <2>2, FS_CardinalityType, BoundsAssumption
         DEF Attach, SocketsFull, StatusKept, PlacesKept
    <3>2. IsFiniteSet(sockets') /\ Cardinality(sockets') <= MaxSockets
      <4>1. IsFiniteSet(sockets) /\ Cardinality(sockets) \in Nat
        BY FS_CardinalityType DEF PlacesKept
      <4>2. /\ IsFiniteSet(sockets \cup {c})
            /\ Cardinality(sockets \cup {c}) =
                  IF c \in sockets THEN Cardinality(sockets) ELSE Cardinality(sockets) + 1
        BY <4>1, FS_AddElement
      <4> QED
        BY <3>1, <4>1, <4>2, BoundsAssumption
    <3>3. /\ \A d \in Clients : ready'[d] = "open" => d \in sockets'
          /\ \A d \in sockets' : ready'[d] \in {"open", "closing"}
      BY <3>1 DEF PlacesKept, TypeOK
    <3> QED
      BY <3>1, <3>2, <3>3 DEF PlacesKept
  <2>3. CASE ClientCloses(c) \/ CloseCompletes(c)
    <3>1. /\ ready' = [ready EXCEPT ![c] = "closed"]
          /\ sockets' = sockets \ {c}
          /\ UNCHANGED phase
      BY <2>3 DEF ClientCloses, CloseCompletes, Closed
    <3>2. IsFiniteSet(sockets') /\ Cardinality(sockets') <= MaxSockets
      <4>1. IsFiniteSet(sockets) /\ Cardinality(sockets) \in Nat
        BY FS_CardinalityType DEF PlacesKept
      <4>2. /\ IsFiniteSet(sockets \ {c})
            /\ Cardinality(sockets \ {c}) =
                  IF c \in sockets THEN Cardinality(sockets) - 1 ELSE Cardinality(sockets)
        BY <4>1, FS_RemoveElement
      <4> QED
        BY <3>1, <4>1, <4>2, BoundsAssumption DEF PlacesKept
    <3>3. /\ \A d \in Clients : ready'[d] = "open" => d \in sockets' /\ ready[d] = "open"
          /\ \A d \in sockets' : ready'[d] \in {"open", "closing"}
      BY <3>1 DEF PlacesKept, TypeOK
    <3> QED
      BY <3>1, <3>2, <3>3 DEF PlacesKept
  <2>4. CASE PeerVanishes(c) \/ Pong(c)
    BY <2>4, <1>1 DEF PeerVanishes, Pong, Pongs
  <2> QED
    BY <1>6, <2>1, <2>2, <2>3, <2>4 DEF ClientStep
<1>7. CASE UNCHANGED vars
  BY <1>7, <1>1 DEF vars
<1> QED
  BY <1>3, <1>4, <1>5, <1>6, <1>7 DEF Next

(***************************************************************************)
(* What the clients are told.                                              *)
(***************************************************************************)
\* Nothing is sent.
LEMMA NothingSent ==
    ASSUME ToldKept, UNCHANGED <<frames, chunks>>,
           \A c \in Clients : ready'[c] = "open" => ready[c] = "open",
           phase' # "announced" => phase # "announced"
    PROVE  ToldKept'
<1>1. \A c \in Clients : Told(c)' = Told(c)
  BY DEF Told
<1>2. Gapless'
  BY DEF ToldKept, Gapless
<1>3. FinishedIsLast'
  BY DEF ToldKept, FinishedIsLast
<1>4. AnnouncedMeansSaved' /\ OpenNotTold'
  BY <1>1 DEF ToldKept, AnnouncedMeansSaved, OpenNotTold
<1> QED
  BY <1>2, <1>3, <1>4 DEF ToldKept

\* A frame that is not the last is broadcast: to those who have not been told
\* the end, and it does not tell it.
LEMMA MoreSent ==
    ASSUME TypeOK, PlacesKept, ToldKept, NEW frame, Broadcast(frame),
           UNCHANGED <<ready, phase>>, frame.type # "finished",
           frame \in [type : FrameTypes, n : 0..chunks'],
           \/ ~IsChunk(frame) /\ chunks' = chunks
           \/ frame = Chunk(chunks + 1) /\ chunks' = chunks + 1
    PROVE  ToldKept'
<1> DEFINE S == [type : FrameTypes, n : 0..chunks']
<1>1. chunks \in Nat /\ chunks' \in Nat /\ chunks <= chunks'
      /\ 0..chunks \subseteq 0..chunks' /\ chunks' \in 0..chunks'
  BY BoundsAssumption DEF TypeOK
<1>2. ASSUME NEW c \in Clients
      PROVE  /\ \E told \in 0..chunks' : ChunksUpTo(told, frames'[c])
             /\ ready'[c] = "open" => ChunksUpTo(chunks', frames'[c]) /\ ~Told(c)'
             /\ \A i \in DOMAIN frames'[c] :
                   frames'[c][i].type = "finished" => i = Len(frames'[c])
             /\ (Told(c)' /\ phase' # "announced") => frames'[c] = <<Frame("finished")>>
  <2>1. CASE ready[c] # "open"
    <3>1. frames'[c] = frames[c] /\ Told(c)' = Told(c)
      BY <2>1, BroadcastFacts DEF Told
    <3> QED
      BY <1>1, <2>1, <3>1 DEF ToldKept, Gapless, FinishedIsLast, AnnouncedMeansSaved
  <2>2. CASE ready[c] = "open"
    <3>1. frames'[c] = Append(frames[c], frame)
      BY <2>2, BroadcastFacts
    <3>2. frames[c] \in Sent(chunks) /\ frames[c] \in Seq(S)
      BY <1>1, FramesTyped, SentGrows DEF Sent
    <3>3. ChunksUpTo(chunks, frames[c]) /\ ~Told(c)
      BY <2>2 DEF ToldKept, Gapless, OpenNotTold
    <3>4. ChunksUpTo(chunks', frames'[c])
      <4>1. CASE ~IsChunk(frame) /\ chunks' = chunks
        <5> HIDE DEF S
        <5>1. frame \in S
          BY DEF S
        <5>2. ChunksUpTo(chunks, Append(frames[c], frame))
          BY <4>1, <5>1, <3>2, <3>3, AppendOther
        <5> QED
          BY <4>1, <5>2, <3>1
      <4>2. CASE frame = Chunk(chunks + 1) /\ chunks' = chunks + 1
        <5>1. ChunksUpTo(chunks + 1, Append(frames[c], Chunk(chunks + 1)))
          BY <1>1, <3>2, <3>3, AppendChunk
        <5> QED
          BY <4>2, <5>1, <3>1
      <4> QED
        BY <4>1, <4>2
    <3>5. \A i \in DOMAIN frames'[c] : frames'[c][i].type # "finished"
      <4> HIDE DEF S
      <4>1. frame \in S
        BY DEF S
      <4>2. /\ Len(frames[c]) \in Nat /\ DOMAIN frames[c] = 1..Len(frames[c])
            /\ DOMAIN frames'[c] = 1..(Len(frames[c]) + 1)
            /\ \A i \in 1..Len(frames[c]) : frames'[c][i] = frames[c][i]
            /\ frames'[c][Len(frames[c]) + 1] = frame
        BY <4>1, <3>1, <3>2, AppendFacts
      <4>3. \A i \in DOMAIN frames'[c] :
                i \in 1..Len(frames[c]) \/ i = Len(frames[c]) + 1
        BY <4>2
      <4>4. \A i \in 1..Len(frames[c]) : frames[c][i].type # "finished"
        BY <4>2, <3>3 DEF Told
      <4> QED
        BY <4>2, <4>3, <4>4
    <3> QED
      BY <1>1, <3>4, <3>5 DEF Told
  <2> QED
    BY <2>1, <2>2
<1> QED
  BY <1>2 DEF ToldKept, Gapless, FinishedIsLast, AnnouncedMeansSaved, OpenNotTold

\* The end is broadcast, and closes every open connection.
LEMMA EndSent ==
    ASSUME TypeOK, StatusKept, PlacesKept, ToldKept, Announce
    PROVE  ToldKept'
<1> DEFINE S == [type : FrameTypes, n : 0..chunks]
<1>1. phase' = "announced" /\ chunks' = chunks
      /\ Broadcast(Frame("finished"))
  BY DEF Announce, Announces, recordVars
<1>2. \A c \in Clients : ready'[c] # "open"
  BY DEF Announce, Announces, Close, OpenSockets, PlacesKept
<1>3. ASSUME NEW c \in Clients
      PROVE  /\ \E told \in 0..chunks : ChunksUpTo(told, frames'[c])
             /\ \A i \in DOMAIN frames'[c] :
                   frames'[c][i].type = "finished" => i = Len(frames'[c])
  <2>1. CASE ready[c] # "open"
    <3>1. frames'[c] = frames[c]
      BY <1>1, <2>1, BroadcastFacts
    <3> QED
      BY <3>1 DEF ToldKept, Gapless, FinishedIsLast
  <2>2. CASE ready[c] = "open"
    <3>1. frames'[c] = Append(frames[c], Frame("finished"))
      BY <1>1, <2>2, BroadcastFacts
    <3>2. frames[c] \in Seq(S) /\ Frame("finished") \in S /\ chunks \in 0..chunks
      <4>1. frames[c] \in Seq(S) /\ chunks \in Nat
        BY FramesTyped DEF Sent
      <4> QED
        BY <4>1 DEF Frame, FrameTypes
    <3>3. ChunksUpTo(chunks, frames[c]) /\ ~Told(c)
      BY <2>2 DEF ToldKept, Gapless, OpenNotTold
    <3> HIDE DEF S
    <3>4. ChunksUpTo(chunks, frames'[c])
      BY <3>1, <3>2, <3>3, AppendOther, FrameFacts
    <3>5. /\ Len(frames[c]) \in Nat /\ DOMAIN frames[c] = 1..Len(frames[c])
          /\ Len(frames'[c]) = Len(frames[c]) + 1
          /\ DOMAIN frames'[c] = 1..(Len(frames[c]) + 1)
          /\ \A i \in 1..Len(frames[c]) : frames'[c][i] = frames[c][i]
      BY <3>1, <3>2, AppendFacts
    <3>6. \A i \in DOMAIN frames'[c] :
              frames'[c][i].type = "finished" => i = Len(frames'[c])
      BY <3>3, <3>5 DEF Told
    <3> QED
      BY <3>2, <3>4, <3>6
  <2> QED
    BY <2>1, <2>2
<1> QED
  BY <1>1, <1>2, <1>3
     DEF ToldKept, Gapless, FinishedIsLast, AnnouncedMeansSaved, OpenNotTold

\* A client is turned away with one frame.
LEMMA TurnedAwayTold ==
    ASSUME TypeOK, ToldKept, NEW c \in Clients, NEW type,
           TurnAway(c, Frame(type)), type # "chunk",
           type = "finished" => phase # "running"
    PROVE  ToldKept'
<1>1. frames' = [frames EXCEPT ![c] = <<Frame(type)>>]
      /\ ready' = [ready EXCEPT ![c] = "closing"]
      /\ UNCHANGED <<chunks, phase>>
  BY DEF TurnAway, recordVars
<1>2. frames'[c] = <<Frame(type)>> /\ ready'[c] # "open"
  BY <1>1 DEF TypeOK
<1>3. \A d \in Clients \ {c} :
          frames'[d] = frames[d] /\ ready'[d] = ready[d] /\ Told(d)' = Told(d)
  BY <1>1 DEF TypeOK, Told
<1>4. 0 \in 0..chunks /\ ChunksUpTo(0, frames'[c])
  BY <1>2, FramesTyped, SingleFrame, FrameFacts
<1>5. Gapless'
  BY <1>1, <1>2, <1>3, <1>4 DEF ToldKept, Gapless
<1>6. \A i \in DOMAIN frames'[c] : i = 1 /\ Len(frames'[c]) = 1
  BY <1>2
<1>7. FinishedIsLast'
  BY <1>3, <1>6 DEF ToldKept, FinishedIsLast
<1>8. Told(c)' => frames'[c] = <<Frame("finished")>>
  <2>1. Told(c)' => type = "finished"
    BY <1>2 DEF Told, Frame
  <2> QED
    BY <1>2, <2>1
<1>9. AnnouncedMeansSaved' /\ OpenNotTold'
  BY <1>1, <1>2, <1>3, <1>8 DEF ToldKept, AnnouncedMeansSaved, OpenNotTold
<1> QED
  BY <1>5, <1>7, <1>9 DEF ToldKept

\* A client that is let in is told everything so far.
LEMMA LetInTold ==
    ASSUME TypeOK, StatusKept, ToldKept, NEW c \in Clients, Attach(c)
    PROVE  ToldKept'
<1>1. frames' = [frames EXCEPT ![c] = Replay]
      /\ ready' = [ready EXCEPT ![c] = "open"]
      /\ UNCHANGED <<chunks, phase>>
  BY DEF Attach, recordVars
<1>2. frames'[c] = Replay /\ chunks \in 0..chunks
  BY <1>1, FramesTyped DEF TypeOK
<1>3. \A d \in Clients \ {c} :
          frames'[d] = frames[d] /\ ready'[d] = ready[d] /\ Told(d)' = Told(d)
  BY <1>1 DEF TypeOK, Told
<1>4. /\ ChunksUpTo(chunks, Replay)
      /\ \A i \in DOMAIN Replay : Replay[i].type # "finished"
  BY ReplayFacts DEF Attach
<1>5. ~Told(c)'
  BY <1>2, <1>4 DEF Told
<1>6. Gapless'
  BY <1>1, <1>2, <1>3, <1>4 DEF ToldKept, Gapless
<1>7. FinishedIsLast'
  BY <1>2, <1>3, <1>4 DEF ToldKept, FinishedIsLast
<1>8. AnnouncedMeansSaved' /\ OpenNotTold'
  BY <1>1, <1>3, <1>5 DEF ToldKept, AnnouncedMeansSaved, OpenNotTold
<1> QED
  BY <1>6, <1>7, <1>8 DEF ToldKept

\* Every step keeps what the clients are told.
LEMMA ToldStep ==
    ASSUME TypeOK, StatusKept, PlacesKept, ToldKept, [Next]_vars
    PROVE  ToldKept'
<1> USE DEF recordVars, heartbeatVars
<1>0. chunks \in Nat
  BY BoundsAssumption DEF TypeOK
<1>1. CASE OnSpawn
  <2>1. Frame("started") \in [type : FrameTypes, n : 0..chunks']
        /\ chunks' = chunks
    BY <1>0, <1>1 DEF Frame, FrameTypes, OnSpawn
  <2>2. Broadcast(Frame("started")) /\ UNCHANGED <<ready, phase>>
    BY <1>1 DEF OnSpawn
  <2> QED
    BY <2>1, <2>2, MoreSent, FrameFacts
<1>2. CASE OnChunk
  <2>1. chunks' = chunks + 1 /\ UNCHANGED <<ready, phase>>
        /\ Broadcast(Chunk(chunks + 1))
    BY <1>2 DEF OnChunk
  <2>2. Chunk(chunks + 1) \in [type : FrameTypes, n : 0..chunks']
    BY <1>0, <2>1 DEF Chunk, FrameTypes
  <2> QED
    BY <2>1, <2>2, MoreSent, FrameFacts
<1>3. CASE OnStats
  <2>1. Frame("stats") \in [type : FrameTypes, n : 0..chunks']
        /\ chunks' = chunks
    BY <1>0, <1>3 DEF Frame, FrameTypes, OnStats
  <2>2. Broadcast(Frame("stats")) /\ UNCHANGED <<ready, phase>>
    BY <1>3 DEF OnStats
  <2> QED
    BY <2>1, <2>2, MoreSent, FrameFacts
<1>4. CASE FinishRun \/ Cleanup
  BY <1>4, NothingSent DEF FinishRun, Finishes, Cleanup
<1>5. CASE Announce
  BY <1>5, EndSent
<1>6. CASE Heartbeat
  <2>1. UNCHANGED <<frames, chunks, phase>>
        /\ \A c \in Clients : ready'[c] = "open" => ready[c] = "open"
    BY <1>6 DEF Heartbeat, Beat, Close
  <2> QED
    BY <2>1, NothingSent
<1>7. ASSUME NEW c \in Clients, ClientStep(c) PROVE ToldKept'
  <2>1. CASE AttachUnknown(c)
    BY <2>1, TurnedAwayTold DEF AttachUnknown
  <2>2. CASE AttachFinished(c)
    BY <2>2, TurnedAwayTold DEF AttachFinished, StatusKept
  <2>3. CASE AttachRefused(c)
    BY <2>3, TurnedAwayTold DEF AttachRefused
  <2>4. CASE Attach(c)
    BY <2>4, LetInTold
  <2>5. CASE ClientCloses(c) \/ CloseCompletes(c)
    <3>1. UNCHANGED <<frames, chunks, phase>>
          /\ ready' = [ready EXCEPT ![c] = "closed"]
      BY <2>5 DEF ClientCloses, CloseCompletes, Closed
    <3>2. \A d \in Clients : ready'[d] = "open" => ready[d] = "open"
      BY <3>1 DEF TypeOK
    <3> QED
      BY <3>1, <3>2, NothingSent
  <2>6. CASE PeerVanishes(c) \/ Pong(c)
    BY <2>6, NothingSent DEF PeerVanishes, Pong, Pongs
  <2> QED
    BY <1>7, <2>1, <2>2, <2>3, <2>4, <2>5, <2>6 DEF ClientStep
<1>8. CASE UNCHANGED vars
  BY <1>8, NothingSent DEF vars
<1> QED
  BY <1>1, <1>2, <1>3, <1>4, <1>5, <1>6, <1>7, <1>8 DEF Next

(***************************************************************************)
(* The heartbeat.                                                          *)
(***************************************************************************)
\* Every step keeps the pings.
LEMMA PingsStep ==
    ASSUME TypeOK, PlacesKept, PingsKept, [Next]_vars
    PROVE  PingsKept'
<1> USE DEF recordVars, heartbeatVars
<1>1. CASE UNCHANGED <<isAlive, pinged>>
           /\ \A c \in Clients : ready'[c] = "open" =>
                  ready[c] = "open" /\ (peer'[c] = "up" => peer[c] = "up")
  BY <1>1 DEF PingsKept
<1>2. CASE OnSpawn \/ OnChunk \/ OnStats \/ FinishRun \/ Cleanup
  BY <1>2, <1>1 DEF OnSpawn, OnChunk, OnStats, FinishRun, Finishes, Cleanup
<1>3. CASE Announce
  BY <1>3, <1>1 DEF Announce, Announces, Close
<1>4. CASE Heartbeat
  <2>1. /\ ready' = [c \in Clients |->
                IF c \in OpenSockets \cap Silent THEN "closing" ELSE ready[c]]
        /\ pinged' = pinged \cup (sockets \ (OpenSockets \cap Silent))
    BY <1>4 DEF Heartbeat, Beat, Close
  <2> QED
    BY <2>1 DEF PingsKept, PlacesKept
<1>5. ASSUME NEW c \in Clients, ClientStep(c) PROVE PingsKept'
  <2>1. CASE AttachUnknown(c) \/ AttachFinished(c) \/ AttachRefused(c)
    <3>1. /\ ready' = [ready EXCEPT ![c] = "closing"]
          /\ UNCHANGED <<isAlive, pinged, peer>>
      BY <2>1 DEF AttachUnknown, AttachFinished, AttachRefused, TurnAway
    <3> QED
      BY <3>1, <1>1 DEF TypeOK
  <2>2. CASE Attach(c)
    <3>1. /\ ready' = [ready EXCEPT ![c] = "open"]
          /\ isAlive' = [isAlive EXCEPT ![c] = TRUE]
          /\ UNCHANGED <<pinged, peer>>
      BY <2>2 DEF Attach
    <3>2. isAlive'[c] /\ \A d \in Clients \ {c} :
              isAlive'[d] = isAlive[d] /\ ready'[d] = ready[d]
      BY <3>1 DEF TypeOK
    <3> QED
      BY <3>1, <3>2 DEF PingsKept
  <2>3. CASE ClientCloses(c) \/ CloseCompletes(c)
    <3>1. /\ ready' = [ready EXCEPT ![c] = "closed"]
          /\ pinged' = pinged \ {c}
          /\ UNCHANGED <<isAlive, peer>>
      BY <2>3 DEF ClientCloses, CloseCompletes, Closed
    <3>2. ready'[c] # "open" /\ \A d \in Clients \ {c} : ready'[d] = ready[d]
      BY <3>1 DEF TypeOK
    <3> QED
      BY <3>1, <3>2 DEF PingsKept
  <2>4. CASE PeerVanishes(c)
    <3>1. /\ peer' = [peer EXCEPT ![c] = "gone"]
          /\ UNCHANGED <<isAlive, pinged, ready>>
      BY <2>4 DEF PeerVanishes
    <3> QED
      BY <3>1, <1>1 DEF TypeOK
  <2>5. CASE Pong(c)
    <3>1. /\ isAlive' = [isAlive EXCEPT ![c] = TRUE]
          /\ pinged' = pinged \ {c}
          /\ UNCHANGED <<ready, peer>>
      BY <2>5 DEF Pong, Pongs
    <3>2. isAlive'[c] /\ \A d \in Clients \ {c} : isAlive'[d] = isAlive[d]
      BY <3>1 DEF TypeOK
    <3> QED
      BY <3>1, <3>2 DEF PingsKept
  <2> QED
    BY <1>5, <2>1, <2>2, <2>3, <2>4, <2>5 DEF ClientStep
<1>6. CASE UNCHANGED vars
  BY <1>6, <1>1 DEF vars
<1> QED
  BY <1>2, <1>3, <1>4, <1>5, <1>6 DEF Next

\* A step that begins to close an open connection is the heartbeat's or the
\* end's; what the heartbeat closes on is gone.
LEMMA KeptStep ==
    ASSUME IInv, IInv', [Next]_vars, NEW c \in Clients,
           ready[c] = "open", ready'[c] = "closing", peer[c] = "up"
    PROVE  Told(c)'
<1> USE DEF recordVars, heartbeatVars
<1>1. ready[c] # ready'[c]
  OBVIOUS
<1>2. CASE OnSpawn \/ OnChunk \/ OnStats \/ FinishRun \/ Cleanup
  BY <1>1, <1>2 DEF OnSpawn, OnChunk, OnStats, FinishRun, Finishes, Cleanup
<1>3. CASE Announce
  <2>1. frames'[c] = Append(frames[c], Frame("finished"))
    BY <1>3, BroadcastFacts DEF Announce, Announces, IInv
  <2>2. frames[c] \in Seq([type : FrameTypes, n : 0..chunks]) /\ chunks \in Nat
    BY FramesTyped DEF IInv, Sent
  <2>3. Frame("finished") \in [type : FrameTypes, n : 0..chunks]
    BY <2>2 DEF Frame, FrameTypes
  <2> DEFINE S == [type : FrameTypes, n : 0..chunks]
  <2> HIDE DEF S
  <2>4. frames[c] \in Seq(S) /\ Frame("finished") \in S
    BY <2>2, <2>3 DEF S
  <2>5. /\ Len(frames[c]) \in Nat
        /\ DOMAIN frames'[c] = 1..(Len(frames[c]) + 1)
        /\ frames'[c][Len(frames[c]) + 1] = Frame("finished")
    BY <2>1, <2>4, AppendFacts
  <2> QED
    BY <2>5, FrameFacts DEF Told
<1>4. CASE Heartbeat
  <2>1. c \in Silent
    BY <1>1, <1>4 DEF Heartbeat, Beat, Close
  <2>2. c \in pinged
    BY <2>1 DEF Silent, IInv, PingsKept
  <2>3. peer[c] = "gone"
    BY <1>4, <2>2 DEF Heartbeat, Beat, Rested
  <2> QED
    BY <2>3
<1>5. ASSUME NEW d \in Clients, ClientStep(d) PROVE FALSE
  <2>1. CASE AttachUnknown(d) \/ AttachFinished(d) \/ AttachRefused(d)
    BY <1>1, <2>1 DEF AttachUnknown, AttachFinished, AttachRefused, TurnAway,
       Connects, IInv, TypeOK
  <2>2. CASE Attach(d)
    BY <1>1, <2>2 DEF Attach, Connects, IInv, TypeOK
  <2>3. CASE ClientCloses(d) \/ CloseCompletes(d)
    BY <2>3 DEF ClientCloses, CloseCompletes, Closed, IInv, TypeOK
  <2>4. CASE PeerVanishes(d) \/ Pong(d)
    BY <1>1, <2>4 DEF PeerVanishes, Pong, Pongs
  <2> QED
    BY <1>5, <2>1, <2>2, <2>3, <2>4 DEF ClientStep
<1>6. CASE UNCHANGED vars
  BY <1>1, <1>6 DEF vars
<1> QED
  BY <1>2, <1>3, <1>4, <1>5, <1>6 DEF Next

(***************************************************************************)
(* What a client has heard when it is told the end.                        *)
(***************************************************************************)
\* A client that is told the end of the run was told that at once, or has been
\* told every chunk; and one that is sent an error is sent nothing else.
HeardBy(c) ==
    /\ ready[c] = "none" => frames[c] = <<>>
    /\ Told(c) => phase # "running"
    /\ Told(c) => frames[c][1].type = "finished" \/ ChunksUpTo(chunks, frames[c])
    /\ (\E i \in DOMAIN frames[c] : frames[c][i].type = "error") =>
           Len(frames[c]) = 1 /\ ready[c] # "open"

HeardKept == \A c \in Clients : HeardBy(c)

\* The ways in which a step may leave what was sent on a connection.
Left(c) ==
    /\ frames'[c] = frames[c]
    /\ ready'[c] = "none" => ready[c] = "none"
    /\ ready'[c] = "open" => ready[c] = "open"

Appended(c, frame) ==
    /\ ready[c] = "open" /\ ready'[c] # "none"
    /\ frame \in [type : FrameTypes, n : 0..chunks']
    /\ frames'[c] = Append(frames[c], frame)
    /\ frame.type # "error"
    /\ frame.type = "finished" => phase' # "running" /\ chunks' = chunks

Single(c, type) ==
    /\ ready[c] = "none" /\ ready'[c] = "closing"
    /\ frames'[c] = <<Frame(type)>>
    /\ type = "finished" => phase' # "running"
    /\ type \in {"finished", "error"}

Replayed(c) ==
    /\ ready[c] = "none" /\ ready'[c] # "none"
    /\ frames'[c] = Replay
    /\ status # "finished" /\ chunks' = chunks

Delivered(c) ==
    \/ Left(c)
    \/ \E frame : Appended(c, frame)
    \/ \E type : Single(c, type)
    \/ Replayed(c)

\* A broadcast appends to what was sent on the open connections.
LEMMA BroadcastDelivers ==
    ASSUME TypeOK, PlacesKept, NEW frame, Broadcast(frame), UNCHANGED ready,
           frame \in [type : FrameTypes, n : 0..chunks'],
           frame.type \notin {"error", "finished"}, NEW c \in Clients
    PROVE  Delivered(c)
<1>1. CASE ready[c] = "open"
  <2>1. frames'[c] = Append(frames[c], frame)
    BY <1>1, BroadcastFacts
  <2>2. Appended(c, frame)
    BY <1>1, <2>1 DEF Appended
  <2> QED
    BY <2>2 DEF Delivered
<1>2. CASE ready[c] # "open"
  BY <1>2, BroadcastFacts DEF Delivered, Left
<1> QED
  BY <1>1, <1>2

\* Every step delivers in one of these ways.
LEMMA Delivers ==
    ASSUME TypeOK, StatusKept, PlacesKept, [Next]_vars, NEW c \in Clients
    PROVE  Delivered(c)
<1> USE DEF recordVars, heartbeatVars
<1>0. chunks \in Nat
  BY BoundsAssumption DEF TypeOK
<1>1. CASE OnSpawn
  <2>1. Frame("started") \in [type : FrameTypes, n : 0..chunks']
    BY <1>0, <1>1 DEF Frame, FrameTypes, OnSpawn
  <2>2. Broadcast(Frame("started")) /\ UNCHANGED ready
    BY <1>1 DEF OnSpawn
  <2> QED
    BY <2>1, <2>2, BroadcastDelivers, FrameFacts
<1>2. CASE OnChunk
  <2>1. chunks' = chunks + 1 /\ UNCHANGED ready /\ Broadcast(Chunk(chunks + 1))
    BY <1>2 DEF OnChunk
  <2>2. Chunk(chunks + 1) \in [type : FrameTypes, n : 0..chunks']
    BY <1>0, <2>1 DEF Chunk, FrameTypes
  <2> QED
    BY <2>1, <2>2, BroadcastDelivers, FrameFacts
<1>3. CASE OnStats
  <2>1. Frame("stats") \in [type : FrameTypes, n : 0..chunks']
    BY <1>0, <1>3 DEF Frame, FrameTypes, OnStats
  <2>2. Broadcast(Frame("stats")) /\ UNCHANGED ready
    BY <1>3 DEF OnStats
  <2> QED
    BY <2>1, <2>2, BroadcastDelivers, FrameFacts
<1>4. CASE FinishRun \/ Cleanup
  BY <1>4 DEF FinishRun, Finishes, Cleanup, Delivered, Left
<1>5. CASE Announce
  <2>1. phase' = "announced" /\ chunks' = chunks /\ Broadcast(Frame("finished"))
        /\ ready' = [d \in Clients |->
               IF d \in OpenSockets THEN "closing" ELSE ready[d]]
    BY <1>5 DEF Announce, Announces, Close
  <2>2. Frame("finished") \in [type : FrameTypes, n : 0..chunks']
    BY <1>0, <2>1 DEF Frame, FrameTypes
  <2>3. CASE ready[c] = "open"
    <3>1. frames'[c] = Append(frames[c], Frame("finished")) /\ ready'[c] # "none"
      BY <2>1, <2>3, BroadcastFacts
    <3>2. Appended(c, Frame("finished"))
      BY <2>1, <2>2, <2>3, <3>1, FrameFacts DEF Appended
    <3> QED
      BY <3>2 DEF Delivered
  <2>4. CASE ready[c] # "open"
    BY <2>1, <2>4, BroadcastFacts DEF Delivered, Left
  <2> QED
    BY <2>3, <2>4
<1>6. CASE Heartbeat
  BY <1>6 DEF Heartbeat, Beat, Close, Delivered, Left
<1>7. ASSUME NEW d \in Clients, ClientStep(d) PROVE Delivered(c)
  <2>1. ASSUME NEW type \in {"finished", "error"}, Connects(d),
               TurnAway(d, Frame(type)), type = "finished" => status = "finished"
        PROVE  Delivered(c)
    <3>1. CASE c = d
      <4>1. Single(c, type)
        BY <2>1, <3>1 DEF TurnAway, Connects, Single, TypeOK, StatusKept
      <4> QED
        BY <4>1 DEF Delivered
    <3>2. CASE c # d
      BY <2>1, <3>2 DEF TurnAway, TypeOK, Delivered, Left
    <3> QED
      BY <3>1, <3>2
  <2>2. CASE AttachUnknown(d)
    BY <2>1, <2>2 DEF AttachUnknown
  <2>3. CASE AttachFinished(d)
    BY <2>1, <2>3 DEF AttachFinished
  <2>4. CASE AttachRefused(d)
    BY <2>1, <2>4 DEF AttachRefused
  <2>5. CASE Attach(d)
    <3>1. CASE c = d
      BY <2>5, <3>1 DEF Attach, Connects, TypeOK, Delivered, Replayed
    <3>2. CASE c # d
      BY <2>5, <3>2 DEF Attach, TypeOK, Delivered, Left
    <3> QED
      BY <3>1, <3>2
  <2>6. CASE ClientCloses(d) \/ CloseCompletes(d)
    BY <2>6 DEF ClientCloses, CloseCompletes, Closed, TypeOK, Delivered, Left
  <2>7. CASE PeerVanishes(d) \/ Pong(d)
    BY <2>7 DEF PeerVanishes, Pong, Pongs, Delivered, Left
  <2> QED
    BY <1>7, <2>2, <2>3, <2>4, <2>5, <2>6, <2>7 DEF ClientStep
<1>8. CASE UNCHANGED vars
  BY <1>8 DEF vars, Delivered, Left
<1> QED
  BY <1>1, <1>2, <1>3, <1>4, <1>5, <1>6, <1>7, <1>8 DEF Next

\* A chunk is the record's as long as the run goes on, and the end is the end.
LEMMA EndStays ==
    ASSUME [Next]_vars, phase # "running"
    PROVE  phase' # "running" /\ UNCHANGED <<chunks, spawned>>
BY DEF Next, vars, recordVars, heartbeatVars, OnSpawn, OnChunk, OnStats, FinishRun,
       Finishes, Announce, Announces, Cleanup, Heartbeat, Beat, ClientStep,
       AttachUnknown, AttachFinished, AttachRefused, TurnAway, Attach, ClientCloses,
       CloseCompletes, Closed, PeerVanishes, Pong, Pongs

\* No chunk is taken back.
LEMMA ChunksGrow ==
    ASSUME TypeOK, [Next]_vars
    PROVE  chunks <= chunks'
<1>1. chunks \in Nat
  BY BoundsAssumption DEF TypeOK
<1>2. chunks' = chunks \/ chunks' = chunks + 1
  BY DEF Next, vars, recordVars, heartbeatVars, OnSpawn, OnChunk, OnStats, FinishRun,
         Finishes, Announce, Announces, Cleanup, Heartbeat, Beat, ClientStep,
         AttachUnknown, AttachFinished, AttachRefused, TurnAway, Attach, ClientCloses,
         CloseCompletes, Closed, PeerVanishes, Pong, Pongs
<1> QED
  BY <1>1, <1>2

\* The parts of what was sent with one frame more.
LEMMA AppendedFacts ==
    ASSUME TypeOK, TypeOK', chunks <= chunks', NEW c \in Clients, NEW frame, Appended(c, frame)
    PROVE  /\ Len(frames[c]) \in Nat /\ Len(frames'[c]) = Len(frames[c]) + 1
           /\ DOMAIN frames[c] = 1..Len(frames[c])
           /\ DOMAIN frames'[c] = 1..(Len(frames[c]) + 1)
           /\ \A i \in 1..Len(frames[c]) : frames'[c][i] = frames[c][i]
           /\ frames'[c][Len(frames[c]) + 1] = frame
<1> DEFINE S == [type : FrameTypes, n : 0..chunks']
<1>1. frames[c] \in Sent(chunks) /\ chunks \in Nat
  BY FramesTyped
<1>2. chunks' \in Nat
  BY BoundsAssumption DEF TypeOK
<1>3. frames[c] \in Seq(S) /\ frame \in S
  BY <1>1, <1>2, SentGrows DEF Sent, Appended
<1> HIDE DEF S
<1> QED
  BY <1>3, AppendFacts DEF Appended

\* What was sent stays sent.
LEMMA SentStays ==
    ASSUME TypeOK, TypeOK', StatusKept, PlacesKept, HeardKept, [Next]_vars,
           NEW c \in Clients
    PROVE  /\ Len(frames[c]) <= Len(frames'[c])
           /\ \A i \in 1..Len(frames[c]) : frames'[c][i] = frames[c][i]
<1>1. Len(frames[c]) \in Nat /\ Len(frames'[c]) \in Nat
  <2>1. frames[c] \in Seq([type : FrameTypes, n : 0..chunks])
    BY DEF TypeOK
  <2>2. frames'[c] \in Seq([type : FrameTypes, n : 0..chunks'])
    BY DEF TypeOK
  <2> QED
    BY <2>1, <2>2, LenProperties
<1>2. CASE Left(c)
  BY <1>1, <1>2 DEF Left
<1>3. ASSUME NEW frame, Appended(c, frame)
      PROVE  /\ Len(frames[c]) <= Len(frames'[c])
             /\ \A i \in 1..Len(frames[c]) : frames'[c][i] = frames[c][i]
  BY <1>3, AppendedFacts, ChunksGrow
<1>4. CASE ready[c] = "none"
  <2>1. frames[c] = <<>>
    BY <1>4 DEF HeardKept, HeardBy
  <2>2. Len(frames[c]) = 0
    BY <2>1
  <2> QED
    BY <1>1, <2>2
<1> QED
  BY <1>2, <1>3, <1>4, Delivers DEF Delivered, Single, Replayed

LEMMA HeardStep ==
    ASSUME TypeOK, TypeOK', StatusKept, PlacesKept, ToldKept, HeardKept, [Next]_vars
    PROVE  HeardKept'
<1> SUFFICES ASSUME NEW c \in Clients PROVE HeardBy(c)'
  BY DEF HeardKept
<1>1. HeardBy(c)
  BY DEF HeardKept
<1>2. phase # "running" => phase' # "running" /\ chunks' = chunks
  BY EndStays
<1>3. CASE Left(c)
  <2>1. Told(c)' = Told(c) /\ frames'[c] = frames[c]
    BY <1>3 DEF Left, Told
  <2> QED
    BY <1>1, <1>2, <1>3, <2>1 DEF HeardBy, Left
<1>4. ASSUME NEW frame, Appended(c, frame)
      PROVE  HeardBy(c)'
  <2>1. /\ Len(frames[c]) \in Nat /\ Len(frames'[c]) = Len(frames[c]) + 1
        /\ DOMAIN frames[c] = 1..Len(frames[c])
        /\ DOMAIN frames'[c] = 1..(Len(frames[c]) + 1)
        /\ \A i \in 1..Len(frames[c]) : frames'[c][i] = frames[c][i]
        /\ frames'[c][Len(frames[c]) + 1] = frame
    BY <1>4, AppendedFacts, ChunksGrow
  <2>2. ready[c] = "open" /\ ready'[c] # "none" /\ frame.type # "error"
        /\ frames'[c] = Append(frames[c], frame)
    BY <1>4 DEF Appended
  <2>3. ~Told(c) /\ ChunksUpTo(chunks, frames[c])
    BY <2>2 DEF ToldKept, OpenNotTold, Gapless
  <2>4. \A i \in 1..Len(frames[c]) : frames[c][i].type \notin {"error", "finished"}
    BY <1>1, <2>1, <2>2, <2>3 DEF HeardBy, Told
  <2>5. \A i \in DOMAIN frames'[c] : i \in 1..Len(frames[c]) \/ i = Len(frames[c]) + 1
    BY <2>1
  <2>6. ~\E i \in DOMAIN frames'[c] : frames'[c][i].type = "error"
    BY <2>1, <2>2, <2>4, <2>5
  <2>7. Told(c)' => frame.type = "finished"
    BY <2>1, <2>4, <2>5 DEF Told
  <2>8. frame.type = "finished" =>
           phase' # "running" /\ ChunksUpTo(chunks', frames'[c])
    <3>1. SUFFICES ASSUME frame.type = "finished"
                   PROVE  phase' # "running" /\ ChunksUpTo(chunks', frames'[c])
      OBVIOUS
    <3>2. phase' # "running" /\ chunks' = chunks /\ ~IsChunk(frame)
      BY <1>4, <3>1 DEF Appended, IsChunk
    <3> DEFINE S == [type : FrameTypes, n : 0..chunks]
    <3>3. frames[c] \in Seq(S) /\ frame \in S
      BY <1>4, <3>2, FramesTyped DEF Sent, Appended
    <3> HIDE DEF S
    <3>4. ChunksUpTo(chunks, Append(frames[c], frame))
      BY <2>3, <3>2, <3>3, AppendOther
    <3> QED
      BY <2>2, <3>2, <3>4
  <2> QED
    BY <2>2, <2>6, <2>7, <2>8 DEF HeardBy
<1>5. ASSUME NEW type, Single(c, type)
      PROVE  HeardBy(c)'
  <2>1. frames'[c] = <<Frame(type)>> /\ ready'[c] = "closing"
        /\ (type = "finished" => phase' # "running")
    BY <1>5 DEF Single
  <2>2. /\ Len(frames'[c]) = 1 /\ DOMAIN frames'[c] = 1..1
        /\ frames'[c][1].type = type
    BY <2>1 DEF Frame
  <2>3. Told(c)' => type = "finished"
    BY <2>2 DEF Told
  <2> QED
    BY <2>1, <2>2, <2>3 DEF HeardBy
<1>6. CASE Replayed(c)
  <2>1. frames'[c] = Replay /\ ready'[c] # "none" /\ status # "finished"
    BY <1>6 DEF Replayed
  <2>2. \A i \in DOMAIN Replay : Replay[i].type \notin {"finished", "error"}
    BY <2>1, ReplayFacts
  <2>3. ~Told(c)'
    BY <2>1, <2>2 DEF Told
  <2> QED
    BY <2>1, <2>2, <2>3 DEF HeardBy
<1> QED
  BY <1>3, <1>4, <1>5, <1>6, Delivers DEF Delivered

(***************************************************************************)
(* The theorems.                                                           *)
(***************************************************************************)
LEMMA InvInit == Init => IInv
<1> SUFFICES ASSUME Init PROVE IInv
  OBVIOUS
<1>1. \A c \in Clients : frames[c] = <<>> /\ ready[c] = "none"
  BY DEF Init
<1>2. \A k : <<>> \in Sent(k)
  BY DEF Sent
<1>3. TypeOK
  <2>1. frames \in [Clients -> Sent(chunks)]
    BY <1>2 DEF Init
  <2>2. chunks \in 0..MaxChunks /\ stats \in 0..MaxStats
    BY BoundsAssumption DEF Init
  <2>3. isAlive \in [Clients -> BOOLEAN] /\ spawned \in BOOLEAN /\ known \in BOOLEAN
    BY Zenon DEF Init
  <2> QED
    BY <2>1, <2>2, <2>3 DEF Init, TypeOK, Sent
<1>4. StatusKept
  BY DEF Init, StatusKept
<1>5. PlacesKept
  <2>1. IsFiniteSet(sockets) /\ Cardinality(sockets) = 0
    BY FS_EmptySet DEF Init
  <2> QED
    BY <1>1, <2>1, BoundsAssumption DEF Init, PlacesKept
<1>6. ToldKept
  <2>1. ChunksUpTo(0, <<>>) /\ 0 \in 0..chunks
    BY DEF ChunksUpTo, Init
  <2> QED
    BY <1>1, <2>1 DEF ToldKept, Gapless, FinishedIsLast, AnnouncedMeansSaved,
       OpenNotTold, Told
<1>7. PingsKept
  BY <1>1 DEF PingsKept
<1> QED
  BY <1>3, <1>4, <1>5, <1>6, <1>7 DEF IInv

LEMMA InvStep == IInv /\ [Next]_vars => IInv'
BY TypeStep, StatusStep, PlacesStep, ToldStep, PingsStep DEF IInv

\* The invariant holds in every state.
THEOREM Invariant == Spec => []IInv
BY InvInit, InvStep, PTL DEF Spec

\* Every variable has its type, whatever the clients and the bounds are; no
\* frame is of a chunk that the run has not produced.
THEOREM TypeCorrect == Spec => []TypeOK
<1>1. IInv => TypeOK
  BY DEF IInv
<1> QED
  BY <1>1, Invariant, PTL

\* attachSocket() and broadcast() together leave no gap and repeat nothing: the
\* chunks that a client has been sent are the first ones of the run in order,
\* all of them while it is connected.
THEOREM NoGap == Spec => []Gapless
<1>1. IInv => Gapless
  BY DEF IInv, ToldKept
<1> QED
  BY <1>1, Invariant, PTL

\* Nothing follows "finished" on a socket: it closes the connections that it is
\* sent to, and broadcast() looks at readyState.
THEOREM EndIsLast == Spec => []FinishedIsLast
<1>1. IInv => FinishedIsLast
  BY DEF IInv, ToldKept
<1> QED
  BY <1>1, Invariant, PTL

\* The finish handler tells the end after the permalink is saved; who hears of
\* it before has attached during the save and is told nothing else.
THEOREM ToldAfterTheSave == Spec => []AnnouncedMeansSaved
<1>1. IInv => AnnouncedMeansSaved
  BY DEF IInv, ToldKept
<1> QED
  BY <1>1, Invariant, PTL

\* The sockets of a run are its open connections and those that are closing,
\* never more than the cap, and none is open when the run is forgotten.
THEOREM PlacesExact == Spec => []SocketsExact
<1>1. IInv => SocketsExact
  BY DEF IInv, StatusKept, PlacesKept, SocketsExact
<1> QED
  BY <1>1, Invariant, PTL

\* A client that is told the end was told nothing else, because the run was
\* over when it attached, or has been sent every chunk of the run: broadcast()
\* reaches every open connection and attachSocket() replays the record.
THEOREM WholeRunTold == Spec => []HeardKept
<1>1. Init => HeardKept
  BY DEF Init, HeardKept, HeardBy, Told
<1>2. IInv /\ IInv' /\ HeardKept /\ [Next]_vars => HeardKept'
  BY HeardStep DEF IInv
<1> QED
  BY <1>1, <1>2, Invariant, PTL DEF Spec

\* The heartbeat never terminates a client that is there.
THEOREM WatchersKept == Spec => LiveWatcherKept
<1>1. IInv /\ IInv' /\ [Next]_vars =>
        [\A c \in Clients : (ready[c] = "open" /\ ready'[c] = "closing"
                             /\ peer[c] = "up") => Told(c)']_vars
  BY KeptStep
<1> QED
  BY <1>1, Invariant, PTL DEF Spec, LiveWatcherKept
=============================================================================
