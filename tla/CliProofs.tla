----------------------------- MODULE CliProofs -----------------------------
(***************************************************************************)
(* Proofs about Cli for any invocations and any command lines.             *)
(*                                                                         *)
(* Whatever the invocations do is a behaviour of RunStream, so what is     *)
(* proved of its connections holds of theirs: what was sent stays, nothing  *)
(* follows the end, and who is told the end has been told every chunk.     *)
(* Beside that, an invocation has a result exactly when it has read the    *)
(* end, and what it has printed is what it has read.                       *)
(***************************************************************************)
EXTENDS Cli, FiniteSetTheorems, TLAPS

StreamOf == INSTANCE RunStreamProofs

StreamKept == StreamOf!IInv /\ StreamOf!HeardKept

Verdicts == {"pending", "null", "ok", "error", "setup_failed", "compile_error", "timeout",
             "spawn_failed"}

Stages == {"none", "queue", "compile", "execute"}

Results == [verdict : Verdicts, stage : Stages, output : Nat]

CliTypeOK ==
    /\ accepted \in BOOLEAN
    /\ ending \in Results
    /\ step \in [Clients -> {"start", "asking", "watching", "local", "done"}]
    /\ request \in [Clients -> {"none", "sent", "granted", "refused"}]
    /\ line \in [Clients -> {"up", "reset"}]
    /\ read \in [Clients -> Nat]
    /\ settled \in [Clients -> Results]
    /\ made \in [Clients -> Nat]
    /\ shown \in [Clients -> Nat]
    /\ hinted \in [Clients -> BOOLEAN]
    /\ exitCode \in [Clients -> {0, 1}]

\* The record has a result as soon as the run is over.
EndingKept ==
    /\ phase = "running" => ending = NoResult
    /\ phase # "running" => ending \in Endings(spawned, chunks)

\* The invocation has read a frame of this type.
HasRead(i, type) == \E n \in 1..read[i] : frames[i][n].type = type

\* What the place of an invocation says about its command line, and about what
\* has happened so far.
PlaceKept(i) ==
    /\ step[i] = "watching" => opts[i].cmd = "run" /\ opts[i].server
    /\ step[i] = "asking" => opts[i].cmd = "keys" \/ (opts[i].cmd = "run" /\ opts[i].server)
    /\ step[i] = "local" => opts[i].cmd = "run" /\ ~opts[i].server
    /\ step[i] \in {"start", "asking", "local"} =>
          settled[i] = NoResult /\ read[i] = 0
    /\ step[i] \in {"start", "asking"} => made[i] = 0 /\ shown[i] = 0
    /\ read[i] > 0 => opts[i].server
    /\ made[i] > 0 => ~opts[i].server

\* The promise, the hint and the exit code.
PromiseKept(i) ==
    /\ settled[i] # NoResult =>
          exitCode[i] = IF settled[i].verdict = "ok" THEN 0 ELSE 1
    /\ (step[i] = "done" /\ opts[i].cmd = "run") =>
          settled[i] # NoResult \/ exitCode[i] = 1
    /\ hinted[i] => settled[i] = Null

\* What it was settled with: the result of the run exactly when its end was
\* read, and null only when an error was, or the line is reset.
SettledKept(i) ==
    /\ read[i] <= Len(frames[i])
    /\ HasRead(i, "finished") => settled[i] = ending /\ HasResult(i)
    /\ (HasResult(i) /\ opts[i].server) => HasRead(i, "finished")
    /\ (step[i] = "watching" /\ line[i] = "up" /\ settled[i] = Null) => HasRead(i, "error")
    /\ (HasResult(i) /\ ~opts[i].server) =>
          \/ settled[i] \in Endings(TRUE, made[i])
          \/ made[i] = 0 /\ settled[i] \in Endings(FALSE, 0)

ChunksIn(sent, n) == {k \in 1..n : sent[k].type = "chunk"}

\* What was printed: each chunk as it came, unless --json, and at the end what
\* emitResult() prints of the result.
Streamed(i) ==
    IF opts[i].json THEN 0 ELSE made[i] + Cardinality(ChunksIn(frames[i], read[i]))

AtTheEnd(i) == IF HasResult(i) THEN PrintsAtTheEnd(i, settled[i]) ELSE 0

ShownKept(i) == shown[i] = Streamed(i) + AtTheEnd(i)

Kept(i) == PlaceKept(i) /\ PromiseKept(i) /\ SettledKept(i) /\ ShownKept(i)

CliInv == CliTypeOK /\ EndingKept /\ \A i \in Clients : Kept(i)

(***************************************************************************)
(* The connections are RunStream's.                                        *)
(***************************************************************************)
LEMMA StreamStarts ==
    ASSUME Init
    PROVE  StreamOf!Init
BY DEF Init, Stream!Init, StreamOf!Init

\* The run's callbacks and its end.
LEMMA RunSteps ==
    /\ Stream!OnSpawn => StreamOf!OnSpawn
    /\ Stream!OnChunk => StreamOf!OnChunk
    /\ Stream!OnStats => StreamOf!OnStats
    /\ Stream!FinishRun => StreamOf!FinishRun
    /\ Stream!Announce => StreamOf!Announce
    /\ Stream!Cleanup => StreamOf!Cleanup
<1> USE DEF Stream!Broadcast, Stream!Send, Stream!OpenSockets, Stream!recordVars,
            Stream!heartbeatVars, Stream!Frame, Stream!Chunk,
            StreamOf!Broadcast, StreamOf!Send, StreamOf!OpenSockets, StreamOf!recordVars,
            StreamOf!heartbeatVars, StreamOf!Frame, StreamOf!Chunk
<1>1. Stream!OnSpawn => StreamOf!OnSpawn
  BY DEF Stream!OnSpawn, StreamOf!OnSpawn
<1>2. Stream!OnChunk => StreamOf!OnChunk
  BY DEF Stream!OnChunk, StreamOf!OnChunk
<1>3. Stream!OnStats => StreamOf!OnStats
  BY DEF Stream!OnStats, StreamOf!OnStats
<1>4. Stream!FinishRun => StreamOf!FinishRun
  BY DEF Stream!FinishRun, Stream!Finishes, StreamOf!FinishRun, StreamOf!Finishes
<1>5. Stream!Announce => StreamOf!Announce
  BY DEF Stream!Announce, Stream!Announces, Stream!Close,
         StreamOf!Announce, StreamOf!Announces, StreamOf!Close
<1>6. Stream!Cleanup => StreamOf!Cleanup
  BY DEF Stream!Cleanup, StreamOf!Cleanup
<1> QED
  BY <1>1, <1>2, <1>3, <1>4, <1>5, <1>6

\* The server's part of a connection.
LEMMA ConnectionSteps ==
    ASSUME NEW i \in Clients
    PROVE  /\ Stream!AttachUnknown(i) => StreamOf!ClientStep(i)
           /\ Stream!AttachFinished(i) => StreamOf!ClientStep(i)
           /\ Stream!AttachRefused(i) => StreamOf!ClientStep(i)
           /\ Stream!Attach(i) => StreamOf!ClientStep(i)
           /\ Stream!ClientCloses(i) => StreamOf!ClientStep(i)
           /\ Stream!CloseCompletes(i) => StreamOf!ClientStep(i)
           /\ Stream!PeerVanishes(i) => StreamOf!ClientStep(i)
<1> USE DEF Stream!Connects, Stream!TurnAway, Stream!SocketsFull, Stream!Closed,
            Stream!recordVars, Stream!heartbeatVars, Stream!Frame, Stream!Chunk,
            StreamOf!Connects, StreamOf!TurnAway, StreamOf!SocketsFull, StreamOf!Closed,
            StreamOf!recordVars, StreamOf!heartbeatVars, StreamOf!Frame, StreamOf!Chunk
<1>0. Stream!Cardinality(sockets) = StreamOf!Cardinality(sockets)
  BY DEF Stream!Cardinality, StreamOf!Cardinality
<1>1. Stream!AttachUnknown(i) => StreamOf!AttachUnknown(i)
  BY DEF Stream!AttachUnknown, StreamOf!AttachUnknown
<1>2. Stream!AttachFinished(i) => StreamOf!AttachFinished(i)
  BY DEF Stream!AttachFinished, StreamOf!AttachFinished
<1>3. Stream!AttachRefused(i) => StreamOf!AttachRefused(i)
  BY <1>0 DEF Stream!AttachRefused, StreamOf!AttachRefused
<1>4. Stream!Attach(i) => StreamOf!Attach(i)
  BY <1>0 DEF Stream!Attach, Stream!Replay, StreamOf!Attach, StreamOf!Replay
<1>5. Stream!ClientCloses(i) => StreamOf!ClientCloses(i)
  BY DEF Stream!ClientCloses, StreamOf!ClientCloses
<1>6. Stream!CloseCompletes(i) => StreamOf!CloseCompletes(i)
  BY DEF Stream!CloseCompletes, StreamOf!CloseCompletes
<1>7. Stream!PeerVanishes(i) => StreamOf!PeerVanishes(i)
  BY DEF Stream!PeerVanishes, StreamOf!PeerVanishes
<1> QED
  BY <1>1, <1>2, <1>3, <1>4, <1>5, <1>6, <1>7 DEF StreamOf!ClientStep

\* What an invocation does leaves the server alone, or is a step of it.
LEMMA InvocationSteps ==
    ASSUME NEW i \in Clients,
           Begins(i) \/ Local(i) \/ Asks(i) \/ Watches(i) \/ Network(i)
    PROVE  UNCHANGED streamVars \/ StreamOf!ClientStep(i)
<1> USE DEF serverVars
<1>1. CASE Begins(i)
  BY <1>1 DEF Begins, GivesUp, Languages, Ask, Reconnect, RunHere, Goes
<1>2. CASE Local(i)
  BY <1>2 DEF Local, LocalFails, LocalChunk, LocalEnds
<1>3. CASE Asks(i)
  BY <1>3 DEF Asks, Grant, Refuse, AskedInVain, KeysAnswered, Submitted
<1>4. CASE Watches(i)
  BY <1>4, ConnectionSteps DEF Watches, Connect, Receive, CloseEvent
<1>5. CASE Network(i)
  BY <1>5, ConnectionSteps
     DEF Network, Drop, ErrorEvent, ServerSees, FallsSilent, CloseCompletes
<1> QED
  BY <1>1, <1>2, <1>3, <1>4, <1>5

LEMMA StreamStep ==
    ASSUME [Next]_vars
    PROVE  [StreamOf!Next]_(StreamOf!vars)
<1>1. UNCHANGED streamVars => UNCHANGED StreamOf!vars
  BY DEF streamVars, StreamOf!vars, StreamOf!recordVars, StreamOf!heartbeatVars
<1>2. CASE RunEnds \/ Announce \/ RunGoesOn
  BY <1>2, RunSteps DEF RunEnds, Announce, RunGoesOn, StreamOf!Next
<1>3. ASSUME NEW i \in Clients,
             Begins(i) \/ Local(i) \/ Asks(i) \/ Watches(i) \/ Network(i)
      PROVE  [StreamOf!Next]_(StreamOf!vars)
  BY <1>1, <1>3, InvocationSteps DEF StreamOf!Next
<1>4. CASE UNCHANGED vars
  BY <1>1, <1>4 DEF vars, serverVars
<1> QED
  BY <1>2, <1>3, <1>4 DEF Next

\* Whatever the invocations do, and the network to them, the server's account of
\* the run is a behaviour of RunStream: no client makes attachSocket() and the
\* handlers of the run do what they do not do by themselves.
THEOREM ClientsWatchAStream == Spec => StreamOf!Spec
BY StreamStarts, StreamStep, PTL DEF Spec, StreamOf!Spec

\* What RunStream keeps is kept.
THEOREM StreamIsKept == Spec => []StreamKept
<1>1. Spec => StreamOf!Spec
  BY ClientsWatchAStream
<1>2. StreamOf!Spec => []StreamOf!IInv
  BY StreamOf!Invariant, BoundsAssumption DEF StreamOf!BoundsAssumption
<1>3. StreamOf!Spec => []StreamOf!HeardKept
  BY StreamOf!WholeRunTold, BoundsAssumption DEF StreamOf!BoundsAssumption
<1> QED
  BY <1>1, <1>2, <1>3, PTL DEF StreamKept

(***************************************************************************)
(* What the connections provide.                                           *)
(***************************************************************************)
\* What a sequence is made of.
LEMMA ElementOf ==
    ASSUME NEW S, NEW sent \in Seq(S)
    PROVE  Len(sent) \in Nat /\ \A n \in 1..Len(sent) : sent[n] \in S
OBVIOUS

\* What is known of what was sent on a connection.
LEMMA SentFacts ==
    ASSUME StreamKept, NEW i \in Clients
    PROVE  /\ Len(frames[i]) \in Nat /\ DOMAIN frames[i] = 1..Len(frames[i])
           /\ chunks \in Nat
           /\ ~spawned => chunks = 0
           /\ \A n \in 1..Len(frames[i]) :
                 /\ frames[i][n].type \in StreamOf!FrameTypes
                 /\ frames[i][n].type = "finished" => n = Len(frames[i])
                 /\ frames[i][n].type = "finished" => phase # "running"
                 /\ frames[i][n].type = "error" => Len(frames[i]) = 1
<1> USE BoundsAssumption DEF StreamOf!BoundsAssumption
<1>1. StreamOf!TypeOK /\ StreamOf!StatusKept /\ StreamOf!FinishedIsLast
      /\ StreamOf!HeardBy(i)
  BY DEF StreamKept, StreamOf!IInv, StreamOf!ToldKept, StreamOf!HeardKept
<1>2. /\ Len(frames[i]) \in Nat /\ DOMAIN frames[i] = 1..Len(frames[i])
      /\ chunks \in Nat
  BY <1>1, StreamOf!FramesTyped
<1>3. frames[i] \in Seq([type : StreamOf!FrameTypes, n : 0..chunks])
  BY <1>1 DEF StreamOf!TypeOK
<1>4. \A n \in 1..Len(frames[i]) : frames[i][n] \in [type : StreamOf!FrameTypes, n : 0..chunks]
  BY <1>3, ElementOf
<1>5. \A n \in 1..Len(frames[i]) : frames[i][n].type \in StreamOf!FrameTypes
  BY <1>4
<1>6. ~spawned => chunks = 0
  BY <1>1 DEF StreamOf!StatusKept
<1>7. \A n \in 1..Len(frames[i]) : frames[i][n].type = "finished" => n = Len(frames[i])
  BY <1>1, <1>2 DEF StreamOf!FinishedIsLast
<1>8. \A n \in 1..Len(frames[i]) : frames[i][n].type = "finished" => phase # "running"
  BY <1>1, <1>2 DEF StreamOf!HeardBy, StreamOf!Told
<1>9. \A n \in 1..Len(frames[i]) : frames[i][n].type = "error" => Len(frames[i]) = 1
  BY <1>1, <1>2 DEF StreamOf!HeardBy
<1> QED
  BY <1>2, <1>5, <1>6, <1>7, <1>8, <1>9

\* A step sends more, or nothing; and takes back neither what was sent nor the
\* end of the run.
LEMMA SentStaysSent ==
    ASSUME StreamKept, StreamKept', [Next]_vars, NEW i \in Clients
    PROVE  /\ Len(frames[i]) <= Len(frames'[i])
           /\ \A n \in 1..Len(frames[i]) : frames'[i][n] = frames[i][n]
<1> USE BoundsAssumption DEF StreamOf!BoundsAssumption
<1>1. [StreamOf!Next]_(StreamOf!vars)
  BY StreamStep
<1>2. /\ StreamOf!TypeOK /\ StreamOf!TypeOK' /\ StreamOf!StatusKept
      /\ StreamOf!PlacesKept /\ StreamOf!HeardKept
  BY DEF StreamKept, StreamOf!IInv
<1> QED
  BY <1>1, <1>2, StreamOf!SentStays

LEMMA OverStays ==
    ASSUME [Next]_vars, phase # "running"
    PROVE  phase' # "running" /\ UNCHANGED <<chunks, spawned>>
<1>1. [StreamOf!Next]_(StreamOf!vars)
  BY StreamStep
<1> QED
  BY <1>1, BoundsAssumption, StreamOf!EndStays DEF StreamOf!BoundsAssumption

\* Among the first frames, the chunks are finitely many, one more when the next
\* frame is one.
LEMMA ChunksCounted ==
    ASSUME NEW sent, NEW n \in Nat
    PROVE  /\ IsFiniteSet(ChunksIn(sent, n)) /\ Cardinality(ChunksIn(sent, n)) \in Nat
           /\ ChunksIn(sent, 0) = {}
           /\ Cardinality(ChunksIn(sent, n + 1)) =
                 IF sent[n + 1].type = "chunk" THEN Cardinality(ChunksIn(sent, n)) + 1
                 ELSE Cardinality(ChunksIn(sent, n))
<1>1. IsFiniteSet(1..n)
  BY FS_Interval
<1>2. ChunksIn(sent, n) \in SUBSET (1..n)
  BY DEF ChunksIn
<1>3. IsFiniteSet(ChunksIn(sent, n))
  BY <1>1, <1>2, FS_Subset
<1>4. Cardinality(ChunksIn(sent, n)) \in Nat
  BY <1>3, FS_CardinalityType
<1>5. ChunksIn(sent, 0) = {}
  BY DEF ChunksIn
<1>6. CASE sent[n + 1].type = "chunk"
  <2>1. ChunksIn(sent, n + 1) = ChunksIn(sent, n) \cup {n + 1}
    BY <1>6 DEF ChunksIn
  <2>2. n + 1 \notin ChunksIn(sent, n)
    BY DEF ChunksIn
  <2>3. Cardinality(ChunksIn(sent, n) \cup {n + 1}) = Cardinality(ChunksIn(sent, n)) + 1
    BY <1>3, <2>2, FS_AddElement
  <2> QED
    BY <1>3, <1>4, <1>5, <1>6, <2>1, <2>3
<1>7. CASE sent[n + 1].type # "chunk"
  <2>1. ChunksIn(sent, n + 1) = ChunksIn(sent, n)
    BY <1>7 DEF ChunksIn
  <2> QED
    BY <1>3, <1>4, <1>5, <1>7, <2>1
<1> QED
  BY <1>6, <1>7

\* An invocation that has read to the end, and was not too late, has read every
\* chunk.
LEMMA EveryChunkRead ==
    ASSUME StreamKept, NEW i \in Clients, NEW told \in Nat,
           StreamOf!ChunksUpTo(told, frames[i])
    PROVE  Cardinality(ChunksIn(frames[i], Len(frames[i]))) = told
<1> DEFINE sent == frames[i]
           places == {n \in DOMAIN sent : StreamOf!IsChunk(sent[n])}
           f == [n \in places |-> sent[n].n]
<1>1. Len(sent) \in Nat /\ DOMAIN sent = 1..Len(sent)
  BY SentFacts
<1>2. places = ChunksIn(sent, Len(sent))
  BY <1>1 DEF ChunksIn, StreamOf!IsChunk
<1>3. {sent[n].n : n \in places} = 1..told
      /\ \A m, n \in places : m < n => sent[m].n < sent[n].n
  BY DEF StreamOf!ChunksUpTo
<1>4. IsFiniteSet(places)
  BY <1>1, <1>2, ChunksCounted
<1>5. \A n \in places : n \in Nat /\ sent[n].n \in 1..told
  BY <1>1, <1>3
<1> HIDE DEF places, sent
<1>6. f \in [places -> 1..told]
  BY <1>5
<1>7. \A m, n \in places : f[m] = f[n] => m = n
  <2> SUFFICES ASSUME NEW m \in places, NEW n \in places, f[m] = f[n]
               PROVE  m = n
    OBVIOUS
  <2>1. m \in Nat /\ n \in Nat /\ sent[m].n \in Nat /\ sent[m].n = sent[n].n
    BY <1>5
  <2>2. ~(m < n) /\ ~(n < m)
    BY <1>3, <2>1
  <2> QED
    BY <2>1, <2>2
<1>8. \A k \in 1..told : \E n \in places : f[n] = k
  BY <1>3
<1> HIDE DEF f
<1>9. f \in Injection(places, 1..told)
  BY <1>6, <1>7 DEF Injection, IsInjective
<1>10. f \in Surjection(places, 1..told)
  BY <1>6, <1>8 DEF Surjection
<1>11. Cardinality(places) = Cardinality(1..told)
  BY <1>4, <1>9, <1>10, FS_Surjection
<1>12. Cardinality(1..told) = told
  BY FS_Interval
<1> QED
  BY <1>2, <1>11, <1>12 DEF sent

(***************************************************************************)
(* The invocations.                                                        *)
(***************************************************************************)
\* The invocation keeps what it has; another one acts, or the server.
Same(i) ==
    /\ opts'[i] = opts[i] /\ step'[i] = step[i] /\ line'[i] = line[i]
    /\ read'[i] = read[i] /\ settled'[i] = settled[i] /\ made'[i] = made[i]
    /\ shown'[i] = shown[i] /\ hinted'[i] = hinted[i] /\ exitCode'[i] = exitCode[i]

\* The types of what is compared.
LEMMA Typed ==
    ASSUME CliTypeOK, NEW i \in Clients
    PROVE  /\ read[i] \in Nat /\ made[i] \in Nat /\ shown[i] \in Nat
           /\ settled[i] \in Results /\ settled[i].output \in Nat
           /\ ending \in Results /\ ending.output \in Nat
BY DEF CliTypeOK, Results

\* A result is neither of the two that are none.
LEMMA EndingFacts ==
    ASSUME NEW ran \in BOOLEAN, NEW n \in Nat, NEW result \in Endings(ran, n)
    PROVE  /\ result \in Results
           /\ result # NoResult /\ result # Null
BY DEF Endings, Results, Result, NoResult, Null, Verdicts, Stages

\* What an invocation has read stays what it has read.
LEMMA ReadStays ==
    ASSUME CliTypeOK, StreamKept, StreamKept', [Next]_vars, NEW i \in Clients,
           read[i] <= Len(frames[i]), read'[i] = read[i]
    PROVE  /\ \A type : HasRead(i, type)' <=> HasRead(i, type)
           /\ ChunksIn(frames[i], read[i])' = ChunksIn(frames[i], read[i])
           /\ read'[i] <= Len(frames'[i])
<1>1. read[i] \in Nat /\ Len(frames[i]) \in Nat
  BY SentFacts, Typed
<1>2. Len(frames'[i]) \in Nat
  <2>1. frames'[i] \in Seq([type : StreamOf!FrameTypes, n : 0..chunks'])
    BY DEF StreamKept, StreamOf!IInv, StreamOf!TypeOK
  <2> QED
    BY <2>1, ElementOf
<1>3. \A n \in 1..read[i] : frames'[i][n] = frames[i][n]
  BY <1>1, SentStaysSent
<1>4. read'[i] <= Len(frames'[i])
  BY <1>1, <1>2, SentStaysSent
<1>5. \A type : HasRead(i, type)' <=> HasRead(i, type)
  BY <1>3 DEF HasRead
<1>6. ChunksIn(frames[i], read[i])' = ChunksIn(frames[i], read[i])
  BY <1>3 DEF ChunksIn
<1> QED
  BY <1>4, <1>5, <1>6

\* Who has read the end has read all there is, and the run is over.
LEMMA EndIsRead ==
    ASSUME CliTypeOK, StreamKept, NEW i \in Clients, read[i] <= Len(frames[i])
    PROVE  /\ HasRead(i, "finished") =>
                 phase # "running" /\ read[i] = Len(frames[i])
                 /\ frames[i][Len(frames[i])].type = "finished"
           /\ HasRead(i, "error") => read[i] = Len(frames[i])
<1>1. read[i] \in Nat /\ Len(frames[i]) \in Nat
  BY SentFacts, Typed
<1>2. \A n \in 1..read[i] : n \in 1..Len(frames[i])
  BY <1>1
<1>3. \A n \in 1..Len(frames[i]) :
        /\ frames[i][n].type = "finished" => n = Len(frames[i]) /\ phase # "running"
        /\ frames[i][n].type = "error" => Len(frames[i]) = 1
  BY SentFacts, Zenon
<1> QED
  BY <1>1, <1>2, <1>3 DEF HasRead

\* While others act, what is said of an invocation remains true.
LEMMA Untouched ==
    ASSUME CliTypeOK, StreamKept, StreamKept', [Next]_vars, NEW i \in Clients,
           Kept(i), Same(i), ending' = ending \/ phase = "running"
    PROVE  Kept(i)'
<1>1. read[i] <= Len(frames[i]) /\ read'[i] = read[i]
  BY DEF Kept, SettledKept, Same
<1>2. /\ \A type : HasRead(i, type)' <=> HasRead(i, type)
      /\ ChunksIn(frames[i], read[i])' = ChunksIn(frames[i], read[i])
      /\ read'[i] <= Len(frames'[i])
  BY <1>1, ReadStays
<1>3. PlaceKept(i)'
  BY DEF Kept, PlaceKept, Same
<1>4. PromiseKept(i)'
  BY DEF Kept, PromiseKept, Same
<1>5. HasRead(i, "finished") => ending' = ending
  BY <1>1, EndIsRead
<1>6. HasResult(i)' <=> HasResult(i)
  BY DEF HasResult, Same
<1>7. SettledKept(i)'
  BY <1>2, <1>5, <1>6 DEF Kept, SettledKept, Same
<1>8. ShownKept(i)'
  <2>1. Streamed(i)' = Streamed(i)
    BY <1>2 DEF Streamed, Same
  <2>2. AtTheEnd(i)' = AtTheEnd(i)
    BY <1>6 DEF AtTheEnd, PrintsAtTheEnd, Same
  <2> QED
    BY <2>1, <2>2 DEF Kept, ShownKept, Same
<1> QED
  BY <1>3, <1>4, <1>7, <1>8 DEF Kept

\* An invocation that has no result yet, or has one and keeps it, moves on:
\* what it has read and printed stays.
LEMMA Moves ==
    ASSUME CliTypeOK, StreamKept, StreamKept', [Next]_vars, NEW i \in Clients,
           Kept(i), PlaceKept(i)', PromiseKept(i)', ending' = ending,
           opts'[i] = opts[i], read'[i] = read[i], settled'[i] = settled[i],
           made'[i] = made[i], shown'[i] = shown[i],
           (step'[i] = "watching" /\ line'[i] = "up") =>
               (step[i] = "watching" /\ line[i] = "up") \/ settled[i] = NoResult
    PROVE  Kept(i)'
<1>1. read[i] <= Len(frames[i])
  BY DEF Kept, SettledKept
<1>2. /\ \A type : HasRead(i, type)' <=> HasRead(i, type)
      /\ ChunksIn(frames[i], read[i])' = ChunksIn(frames[i], read[i])
      /\ read'[i] <= Len(frames'[i])
  BY <1>1, ReadStays
<1>3. HasResult(i)' <=> HasResult(i)
  BY DEF HasResult
<1>4. NoResult # Null
  BY DEF NoResult, Null, Result
<1>5. SettledKept(i)'
  <2>1. /\ HasRead(i, "finished") => settled[i] = ending /\ HasResult(i)
        /\ (HasResult(i) /\ opts[i].server) => HasRead(i, "finished")
        /\ (step[i] = "watching" /\ line[i] = "up" /\ settled[i] = Null) => HasRead(i, "error")
        /\ (HasResult(i) /\ ~opts[i].server) =>
              \/ settled[i] \in Endings(TRUE, made[i])
              \/ made[i] = 0 /\ settled[i] \in Endings(FALSE, 0)
    BY DEF Kept, SettledKept
  <2>2. (step'[i] = "watching" /\ line'[i] = "up" /\ settled'[i] = Null) => HasRead(i, "error")
    BY <1>4, <2>1
  <2>3. /\ HasRead(i, "finished")' <=> HasRead(i, "finished")
        /\ HasRead(i, "error")' <=> HasRead(i, "error")
    BY <1>2
  <2> QED
    BY <1>2, <1>3, <2>1, <2>2, <2>3 DEF SettledKept
<1>6. ShownKept(i)'
  <2>1. Streamed(i)' = Streamed(i)
    BY <1>2 DEF Streamed
  <2>2. AtTheEnd(i)' = AtTheEnd(i)
    BY <1>3 DEF AtTheEnd, PrintsAtTheEnd
  <2> QED
    BY <2>1, <2>2 DEF Kept, ShownKept
<1> QED
  BY <1>5, <1>6 DEF Kept

\* cmdRun(), cmdKeys(), cmdLanguages() up to their first await.
LEMMA BeginsKept ==
    ASSUME CliInv, StreamKept, StreamKept', [Next]_vars, NEW i \in Clients, Begins(i)
    PROVE  Kept(i)' /\ \A j \in Clients \ {i} : Same(j)
<1>1. CliTypeOK /\ Kept(i) /\ PlaceKept(i) /\ PromiseKept(i)
  BY DEF CliInv, Kept
<1>2. /\ ending' = ending /\ UNCHANGED <<opts, read, settled, made, shown, line, hinted>>
      /\ \A j \in Clients \ {i} : step'[j] = step[j] /\ exitCode'[j] = exitCode[j]
      /\ step[i] = "start"
  <2>1. CASE GivesUp(i)
    BY <1>1, <2>1 DEF GivesUp, Exit, serverVars, CliTypeOK
  <2>2. CASE Languages(i)
    BY <1>1, <2>2 DEF Languages, Exit, serverVars, CliTypeOK
  <2>3. CASE Ask(i) \/ Reconnect(i) \/ RunHere(i)
    BY <1>1, <2>3 DEF Ask, Reconnect, RunHere, Goes, serverVars, CliTypeOK
  <2> QED
    BY <2>1, <2>2, <2>3 DEF Begins
<1>3. settled[i] = NoResult /\ read[i] = 0 /\ made[i] = 0 /\ shown[i] = 0
  BY <1>1, <1>2 DEF PlaceKept
<1>4. CASE GivesUp(i) \/ Languages(i)
  <2>1. step'[i] = "done" /\ (opts[i].cmd = "run" => exitCode'[i] = 1)
    BY <1>1, <1>4 DEF GivesUp, Languages, Exit, CliTypeOK
  <2>2. PlaceKept(i)'
    BY <1>2, <1>3, <2>1 DEF PlaceKept
  <2>3. PromiseKept(i)'
    BY <1>1, <1>2, <1>3, <2>1 DEF PromiseKept
  <2> QED
    BY <1>1, <1>2, <2>1, <2>2, <2>3, Moves DEF Same
<1>5. CASE Ask(i) \/ Reconnect(i) \/ RunHere(i)
  <2>1. exitCode' = exitCode /\ step'[i] \in {"asking", "watching", "local"}
    BY <1>1, <1>5 DEF Ask, Reconnect, RunHere, Goes, CliTypeOK
  <2>2. /\ step'[i] = "asking" => opts[i].cmd = "keys" \/ (opts[i].cmd = "run" /\ opts[i].server)
        /\ step'[i] = "watching" => opts[i].cmd = "run" /\ opts[i].server
        /\ step'[i] = "local" => opts[i].cmd = "run" /\ ~opts[i].server
    BY <1>1, <1>5 DEF Ask, Reconnect, RunHere, Goes, Misused, Submits, CliTypeOK
  <2>3. PlaceKept(i)'
    BY <1>2, <1>3, <2>1, <2>2 DEF PlaceKept
  <2>4. PromiseKept(i)'
    BY <1>1, <1>2, <1>3, <2>1 DEF PromiseKept
  <2> QED
    BY <1>1, <1>2, <1>3, <2>1, <2>3, <2>4, Moves DEF Same
<1> QED
  BY <1>4, <1>5 DEF Begins

\* The HTTP request and its answer.
LEMMA AsksKept ==
    ASSUME CliInv, StreamKept, StreamKept', [Next]_vars, NEW i \in Clients, Asks(i)
    PROVE  Kept(i)' /\ \A j \in Clients \ {i} : Same(j)
<1>1. CliTypeOK /\ Kept(i) /\ PlaceKept(i) /\ PromiseKept(i)
  BY DEF CliInv, Kept
<1>2. /\ ending' = ending /\ UNCHANGED <<opts, read, settled, made, shown, line, hinted>>
      /\ \A j \in Clients \ {i} : step'[j] = step[j] /\ exitCode'[j] = exitCode[j]
  BY <1>1 DEF Asks, Grant, Refuse, AskedInVain, KeysAnswered, Submitted, Exit, serverVars,
              processVars, CliTypeOK
<1>3. CASE Grant(i) \/ Refuse(i)
  <2>1. UNCHANGED <<step, exitCode>>
    BY <1>3 DEF Grant, Refuse, processVars
  <2> QED
    BY <1>1, <1>2, <2>1, Untouched DEF Same
<1>4. CASE AskedInVain(i) \/ KeysAnswered(i) \/ Submitted(i)
  <2>1. step[i] = "asking"
    BY <1>4 DEF AskedInVain, KeysAnswered, Submitted
  <2>2. /\ settled[i] = NoResult /\ read[i] = 0 /\ made[i] = 0 /\ shown[i] = 0
        /\ opts[i].cmd = "keys" \/ (opts[i].cmd = "run" /\ opts[i].server)
    BY <1>1, <2>1 DEF PlaceKept
  <2>3. \/ step'[i] = "done" /\ (opts[i].cmd = "run" => exitCode'[i] = 1)
        \/ step'[i] = "watching" /\ opts[i].cmd = "run" /\ exitCode'[i] = exitCode[i]
    BY <1>1, <1>4 DEF AskedInVain, KeysAnswered, Submitted, Exit, CliTypeOK
  <2>4. PlaceKept(i)'
    BY <1>2, <2>2, <2>3 DEF PlaceKept
  <2>5. PromiseKept(i)'
    BY <1>1, <1>2, <2>2, <2>3 DEF PromiseKept
  <2> QED
    BY <1>1, <1>2, <2>2, <2>4, <2>5, Moves DEF Same
<1> QED
  BY <1>3, <1>4 DEF Asks

\* Without a connection nothing is read.
LEMMA NothingRead ==
    ASSUME NEW i \in Clients, read[i] = 0
    PROVE  /\ \A type : ~HasRead(i, type)
           /\ Cardinality(ChunksIn(frames[i], read[i])) = 0
<1>1. Cardinality({}) = 0
  BY FS_EmptySet
<1> QED
  BY <1>1 DEF HasRead, ChunksIn

\* runLocal().
LEMMA LocalKept ==
    ASSUME CliInv, StreamKept, StreamKept', NEW i \in Clients, Local(i)
    PROVE  Kept(i)' /\ \A j \in Clients \ {i} : Same(j)
<1>1. CliTypeOK /\ Kept(i) /\ PlaceKept(i) /\ PromiseKept(i) /\ ShownKept(i)
  BY DEF CliInv, Kept
<1>2. /\ UNCHANGED <<streamVars, ending, opts, read, line, hinted>> /\ step[i] = "local"
      /\ \A j \in Clients \ {i} : Same(j)
  <2>1. CASE LocalFails(i)
    BY <1>1, <2>1 DEF LocalFails, SettleNull, serverVars, CliTypeOK, Same
  <2>2. CASE LocalChunk(i)
    BY <1>1, <2>2 DEF LocalChunk, PrintChunk, serverVars, CliTypeOK, Same
  <2>3. CASE LocalEnds(i)
    BY <1>1, <2>3 DEF LocalEnds, SettleResult, serverVars, CliTypeOK, Same
  <2> QED
    BY <2>1, <2>2, <2>3 DEF Local
<1>3. /\ settled[i] = NoResult /\ read[i] = 0 /\ ~hinted[i] /\ ~HasResult(i)
      /\ opts[i].cmd = "run" /\ ~opts[i].server /\ NoResult # Null
  BY <1>1, <1>2 DEF PlaceKept, PromiseKept, HasResult, NoResult, Null, Result
<1>4. read'[i] = 0 /\ opts'[i] = opts[i] /\ hinted'[i] = hinted[i] /\ 0 <= Len(frames'[i])
  <2>1. Len(frames[i]) \in Nat
    BY SentFacts
  <2> QED
    BY <1>2, <1>3, <2>1 DEF streamVars
<1>5. /\ \A type : ~HasRead(i, type)'
      /\ Cardinality(ChunksIn(frames[i], read[i]))' = 0
  <2>1. Cardinality({}) = 0
    BY FS_EmptySet
  <2> QED
    BY <1>4, <2>1 DEF HasRead, ChunksIn
<1>6. Cardinality(ChunksIn(frames[i], read[i])) = 0
  BY <1>3, NothingRead
<1>7. made[i] \in Nat /\ shown[i] \in Nat
  BY <1>1, Typed
<1>8. shown[i] = IF opts[i].json THEN 0 ELSE made[i]
  BY <1>1, <1>3, <1>6, <1>7 DEF ShownKept, Streamed, AtTheEnd
<1>9. CASE LocalFails(i)
  <2>1. /\ step'[i] = "done" /\ settled'[i] = Null /\ exitCode'[i] = 1
        /\ made'[i] = made[i] /\ shown'[i] = shown[i]
    BY <1>1, <1>9 DEF LocalFails, SettleNull, CliTypeOK
  <2>2. ~HasResult(i)'
    BY <2>1 DEF HasResult
  <2>3. PlaceKept(i)'
    BY <1>3, <1>4, <2>1 DEF PlaceKept
  <2>4. PromiseKept(i)'
    BY <1>3, <1>4, <2>1 DEF PromiseKept, Null, Result, NoResult
  <2>5. SettledKept(i)'
    BY <1>4, <1>5, <2>1, <2>2 DEF SettledKept
  <2>6. ShownKept(i)'
    BY <1>4, <1>5, <1>7, <1>8, <2>1, <2>2 DEF ShownKept, Streamed, AtTheEnd
  <2> QED
    BY <1>2, <2>3, <2>4, <2>5, <2>6 DEF Kept
<1>10. CASE LocalChunk(i)
  <2>1. /\ step'[i] = step[i] /\ settled'[i] = settled[i] /\ exitCode'[i] = exitCode[i]
        /\ made'[i] = made[i] + 1
        /\ shown'[i] = IF opts[i].json THEN shown[i] ELSE shown[i] + 1
    BY <1>1, <1>10 DEF LocalChunk, PrintChunk, CliTypeOK
  <2>2. ~HasResult(i)'
    BY <1>3, <2>1 DEF HasResult
  <2>3. PlaceKept(i)'
    BY <1>2, <1>3, <1>4, <2>1 DEF PlaceKept
  <2>4. PromiseKept(i)'
    BY <1>2, <1>3, <1>4, <2>1 DEF PromiseKept
  <2>5. SettledKept(i)'
    BY <1>2, <1>4, <1>5, <2>1, <2>2 DEF SettledKept
  <2>6. ShownKept(i)'
    BY <1>4, <1>5, <1>7, <1>8, <2>1, <2>2 DEF ShownKept, Streamed, AtTheEnd
  <2> QED
    BY <1>2, <2>3, <2>4, <2>5, <2>6 DEF Kept
<1>11. CASE LocalEnds(i)
  <2>1. PICK result \in Endings(TRUE, made[i]) \cup
                       IF made[i] = 0 THEN Endings(FALSE, 0) ELSE {} :
               SettleResult(i, result)
    BY <1>11 DEF LocalEnds
  <2>2. /\ step'[i] = "done" /\ settled'[i] = result /\ made'[i] = made[i]
        /\ exitCode'[i] = IF result.verdict = "ok" THEN 0 ELSE 1
        /\ shown'[i] = shown[i] + PrintsAtTheEnd(i, result)
    BY <1>1, <1>11, <2>1 DEF LocalEnds, SettleResult, CliTypeOK
  <2>3. \/ result \in Endings(TRUE, made[i])
        \/ made[i] = 0 /\ result \in Endings(FALSE, 0)
    BY <2>1
  <2>4. result \in Results /\ result # NoResult /\ result # Null
    BY <1>7, <2>3, EndingFacts
  <2>5. HasResult(i)'
    BY <2>2, <2>4 DEF HasResult
  <2>6. PlaceKept(i)'
    BY <1>3, <1>4, <2>2 DEF PlaceKept
  <2>7. PromiseKept(i)'
    BY <1>3, <1>4, <2>2, <2>4 DEF PromiseKept
  <2>8. SettledKept(i)'
    BY <1>3, <1>4, <1>5, <2>2, <2>3, <2>5 DEF SettledKept
  <2>9. PrintsAtTheEnd(i, settled[i])' = PrintsAtTheEnd(i, result)
        /\ PrintsAtTheEnd(i, result) \in Nat
    BY <1>4, <2>2, <2>4 DEF PrintsAtTheEnd, Results
  <2>10. ShownKept(i)'
    BY <1>4, <1>5, <1>7, <1>8, <2>2, <2>5, <2>9 DEF ShownKept, Streamed, AtTheEnd
  <2> QED
    BY <1>2, <2>6, <2>7, <2>8, <2>10 DEF Kept
<1> QED
  BY <1>9, <1>10, <1>11 DEF Local

\* An invocation that has more to read has not been told the end, nor an error,
\* and its promise is not settled.
LEMMA NotYetSettled ==
    ASSUME CliInv, StreamKept, NEW i \in Clients, Hears(i), read[i] < Len(frames[i])
    PROVE  /\ settled[i] = NoResult /\ ~HasResult(i)
           /\ ~HasRead(i, "finished") /\ ~HasRead(i, "error")
<1>1. CliTypeOK /\ PlaceKept(i) /\ SettledKept(i)
  BY DEF CliInv, Kept
<1>2. read[i] \in Nat /\ Len(frames[i]) \in Nat
  BY <1>1, SentFacts, Typed
<1>3. read[i] <= Len(frames[i]) /\ read[i] # Len(frames[i])
  BY <1>2
<1>4. ~HasRead(i, "finished") /\ ~HasRead(i, "error")
  BY <1>1, <1>3, EndIsRead
<1>5. ~HasResult(i)
  BY <1>1, <1>4 DEF PlaceKept, SettledKept, Hears
<1>6. settled[i] # Null
  BY <1>1, <1>4 DEF SettledKept, Hears
<1> QED
  BY <1>4, <1>5, <1>6 DEF HasResult

\* ws.on('message').
LEMMA ReceiveKept ==
    ASSUME CliInv, StreamKept, NEW i \in Clients, Receive(i)
    PROVE  Kept(i)' /\ \A j \in Clients \ {i} : Same(j)
<1> DEFINE type == frames[i][read[i] + 1].type
<1>1. CliTypeOK /\ PlaceKept(i) /\ PromiseKept(i) /\ SettledKept(i) /\ ShownKept(i)
      /\ EndingKept
  BY DEF CliInv, Kept
<1>2. /\ UNCHANGED <<streamVars, ending, opts, line, made, step, hinted>>
      /\ Hears(i) /\ read[i] < Len(frames[i]) /\ read' = [read EXCEPT ![i] = @ + 1]
  BY DEF Receive, serverVars
<1>3. /\ settled[i] = NoResult /\ ~HasResult(i)
      /\ ~HasRead(i, "finished") /\ ~HasRead(i, "error")
  BY <1>2, NotYetSettled
<1>4. read[i] \in Nat /\ Len(frames[i]) \in Nat /\ made[i] \in Nat /\ shown[i] \in Nat
  BY <1>1, SentFacts, Typed
<1>5. read'[i] = read[i] + 1 /\ read'[i] <= Len(frames[i]) /\ frames' = frames
      /\ \A j \in Clients \ {i} : read'[j] = read[j]
  BY <1>1, <1>2, <1>4 DEF CliTypeOK, streamVars
<1>6. \A t : HasRead(i, t)' <=> HasRead(i, t) \/ type = t
  BY <1>4, <1>5 DEF HasRead
<1>7. /\ Cardinality(ChunksIn(frames[i], read[i])) \in Nat
      /\ Cardinality(ChunksIn(frames[i], read[i]))' =
            IF type = "chunk" THEN Cardinality(ChunksIn(frames[i], read[i])) + 1
            ELSE Cardinality(ChunksIn(frames[i], read[i]))
  <2>1. ChunksIn(frames[i], read[i])' = ChunksIn(frames[i], read[i] + 1)
    BY <1>5
  <2>2. /\ Cardinality(ChunksIn(frames[i], read[i])) \in Nat
        /\ Cardinality(ChunksIn(frames[i], read[i] + 1)) =
              IF type = "chunk" THEN Cardinality(ChunksIn(frames[i], read[i])) + 1
              ELSE Cardinality(ChunksIn(frames[i], read[i]))
    BY <1>4, ChunksCounted, Zenon
  <2> QED
    BY <2>1, <2>2, Zenon
<1>8. PlaceKept(i)'
  <2>1. step[i] = "watching" /\ opts[i].server /\ step'[i] = step[i] /\ opts'[i] = opts[i]
        /\ made'[i] = made[i]
    BY <1>1, <1>2 DEF PlaceKept, Hears
  <2> QED
    BY <1>1, <2>1 DEF PlaceKept
<1>9. step'[i] = "watching" /\ opts[i].server /\ opts'[i] = opts[i] /\ made'[i] = made[i]
      /\ hinted'[i] = hinted[i] /\ ~hinted[i] /\ ending' = ending /\ NoResult # Null
  BY <1>1, <1>2, <1>3 DEF PlaceKept, PromiseKept, Hears, NoResult, Null, Result
<1>10. Streamed(i) \in Nat /\ shown[i] = Streamed(i)
  BY <1>1, <1>3, <1>4, <1>7 DEF ShownKept, Streamed, AtTheEnd
<1>11. Streamed(i)' =
          IF type = "chunk" /\ ~opts[i].json THEN Streamed(i) + 1 ELSE Streamed(i)
  BY <1>4, <1>7, <1>9 DEF Streamed
<1> HIDE DEF type
<1>12. CASE type \in {"chunk", "queued", "started", "stats"}
  <2>1. settled' = settled /\ exitCode' = exitCode
        /\ shown' = [shown EXCEPT ![i] =
              IF type = "chunk" /\ ~opts[i].json THEN shown[i] + 1 ELSE shown[i]]
    BY <1>1, <1>12 DEF Receive, PrintChunk, type, CliTypeOK
  <2>2. /\ shown'[i] = IF type = "chunk" /\ ~opts[i].json THEN shown[i] + 1 ELSE shown[i]
        /\ \A j \in Clients \ {i} : shown'[j] = shown[j]
    BY <1>1, <2>1 DEF CliTypeOK
  <2>3. ~HasResult(i)'
    BY <1>3, <2>1 DEF HasResult
  <2>4. PromiseKept(i)'
    BY <1>3, <1>9, <2>1 DEF PromiseKept
  <2>5. ~HasRead(i, "finished")'
    BY <1>3, <1>6, <1>12
  <2>6. SettledKept(i)'
    BY <1>3, <1>5, <1>9, <2>1, <2>3, <2>5 DEF SettledKept
  <2>7. ShownKept(i)'
    BY <1>10, <1>11, <2>2, <2>3 DEF ShownKept, AtTheEnd
  <2>8. \A j \in Clients \ {i} : Same(j)
    BY <1>2, <1>5, <2>1, <2>2 DEF Same
  <2> QED
    BY <1>8, <2>4, <2>6, <2>7, <2>8 DEF Kept
<1>13. CASE type = "finished"
  <2>1. SettleResult(i, ending)
    BY <1>13 DEF Receive, type
  <2>2. /\ settled'[i] = ending /\ exitCode'[i] = IF ending.verdict = "ok" THEN 0 ELSE 1
        /\ shown'[i] = shown[i] + PrintsAtTheEnd(i, ending)
        /\ \A j \in Clients \ {i} : settled'[j] = settled[j] /\ shown'[j] = shown[j]
                                     /\ exitCode'[j] = exitCode[j]
    BY <1>1, <2>1 DEF SettleResult, CliTypeOK
  <2>3. read[i] + 1 \in 1..Len(frames[i])
    BY <1>4, <1>5
  <2>4. phase # "running"
    BY <1>13, <2>3, SentFacts DEF type
  <2>5. ending \in Results /\ ending # NoResult /\ ending # Null
    <3>1. spawned \in BOOLEAN /\ chunks \in Nat
      BY SentFacts DEF StreamKept, StreamOf!IInv, StreamOf!TypeOK
    <3> QED
      BY <1>1, <2>4, <3>1, EndingFacts DEF EndingKept
  <2>6. HasResult(i)'
    BY <2>2, <2>5 DEF HasResult
  <2>7. HasRead(i, "finished")'
    BY <1>6, <1>13
  <2>8. PromiseKept(i)'
    BY <1>9, <2>2, <2>5 DEF PromiseKept
  <2>9. SettledKept(i)'
    BY <1>5, <1>9, <2>2, <2>5, <2>6, <2>7 DEF SettledKept
  <2>10. PrintsAtTheEnd(i, settled[i])' = PrintsAtTheEnd(i, ending)
    BY <1>9, <2>2 DEF PrintsAtTheEnd
  <2>11. ShownKept(i)'
    BY <1>10, <1>11, <1>13, <2>2, <2>6, <2>10 DEF ShownKept, AtTheEnd
  <2>12. \A j \in Clients \ {i} : Same(j)
    BY <1>2, <1>5, <2>2 DEF Same
  <2> QED
    BY <1>8, <2>8, <2>9, <2>11, <2>12 DEF Kept
<1>14. CASE type = "error"
  <2>1. SettleNull(i)
    BY <1>14 DEF Receive, type
  <2>2. /\ settled'[i] = Null /\ exitCode'[i] = 1 /\ shown' = shown
        /\ \A j \in Clients \ {i} : settled'[j] = settled[j] /\ exitCode'[j] = exitCode[j]
    BY <1>1, <2>1 DEF SettleNull, CliTypeOK
  <2>3. ~HasResult(i)'
    BY <2>2 DEF HasResult
  <2>4. HasRead(i, "error")' /\ ~HasRead(i, "finished")'
    BY <1>3, <1>6, <1>14
  <2>5. PromiseKept(i)'
    BY <1>9, <2>2 DEF PromiseKept, Null, Result
  <2>6. SettledKept(i)'
    BY <1>5, <1>9, <2>2, <2>3, <2>4 DEF SettledKept
  <2>7. ShownKept(i)'
    BY <1>10, <1>11, <1>14, <2>2, <2>3 DEF ShownKept, AtTheEnd
  <2>8. \A j \in Clients \ {i} : Same(j)
    BY <1>2, <1>5, <2>2 DEF Same
  <2> QED
    BY <1>8, <2>5, <2>6, <2>7, <2>8 DEF Kept
<1> QED
  BY <1>12, <1>13, <1>14 DEF Receive, type

\* ws.on('close') and ws.on('error'), with the promise unsettled: nothing that
\* has been read tells the end.
LEMMA SettledNull ==
    ASSUME CliTypeOK, StreamKept, StreamKept', [Next]_vars, NEW i \in Clients,
           Kept(i), ending' = ending, settled[i] = NoResult, settled'[i] = Null,
           exitCode'[i] = 1, opts'[i] = opts[i], read'[i] = read[i], made'[i] = made[i],
           shown'[i] = shown[i], step[i] = "watching", step'[i] \in {"watching", "done"},
           step'[i] = "watching" => line'[i] = "reset"
    PROVE  Kept(i)'
<1>1. PlaceKept(i) /\ SettledKept(i) /\ ShownKept(i)
  BY DEF Kept
<1>2. /\ \A type : HasRead(i, type)' <=> HasRead(i, type)
      /\ ChunksIn(frames[i], read[i])' = ChunksIn(frames[i], read[i])
      /\ read'[i] <= Len(frames'[i])
  BY <1>1, ReadStays DEF SettledKept
<1>3. ~HasResult(i) /\ ~HasResult(i)'
  BY DEF HasResult
<1>4. ~HasRead(i, "finished") /\ ~HasRead(i, "finished")'
  BY <1>1, <1>2, <1>3 DEF SettledKept
<1>5. PlaceKept(i)'
  BY <1>1 DEF PlaceKept
<1>6. PromiseKept(i)'
  BY DEF PromiseKept, NoResult, Null, Result
<1>7. SettledKept(i)'
  BY <1>2, <1>3, <1>4 DEF SettledKept
<1>8. ShownKept(i)'
  <2>1. Streamed(i)' = Streamed(i)
    BY <1>2 DEF Streamed
  <2> QED
    BY <1>1, <1>3, <2>1 DEF ShownKept, AtTheEnd
<1> QED
  BY <1>5, <1>6, <1>7, <1>8 DEF Kept

LEMMA CloseEventKept ==
    ASSUME CliInv, StreamKept, StreamKept', [Next]_vars, NEW i \in Clients, CloseEvent(i)
    PROVE  Kept(i)' /\ \A j \in Clients \ {i} : Same(j)
<1>1. CliTypeOK /\ Kept(i) /\ PlaceKept(i) /\ PromiseKept(i)
  BY DEF CliInv, Kept
<1>2. /\ ending' = ending /\ UNCHANGED <<opts, line, read, made>>
      /\ step[i] = "watching" /\ step'[i] = "done"
      /\ \A j \in Clients \ {i} : step'[j] = step[j]
  BY <1>1 DEF CloseEvent, serverVars, CliTypeOK
<1>3. CASE settled[i] # NoResult /\ UNCHANGED <<settled, shown, exitCode, hinted>>
  <2>1. PlaceKept(i)'
    BY <1>1, <1>2, <1>3 DEF PlaceKept
  <2>2. PromiseKept(i)'
    BY <1>1, <1>2, <1>3 DEF PromiseKept
  <2> QED
    BY <1>1, <1>2, <1>3, <2>1, <2>2, Moves DEF Same
<1>4. CASE /\ settled[i] = NoResult
           /\ hinted' = [hinted EXCEPT ![i] = TRUE]
           /\ SettleNull(i)
  <2>1. /\ settled'[i] = Null /\ exitCode'[i] = 1 /\ shown' = shown
        /\ \A j \in Clients \ {i} : settled'[j] = settled[j] /\ exitCode'[j] = exitCode[j]
                                     /\ hinted'[j] = hinted[j]
    BY <1>1, <1>4 DEF SettleNull, CliTypeOK
  <2> QED
    BY <1>1, <1>2, <1>4, <2>1, SettledNull DEF Same
<1> QED
  BY <1>3, <1>4 DEF CloseEvent

\* The network.
LEMMA NetworkKept ==
    ASSUME CliInv, StreamKept, StreamKept', [Next]_vars, NEW i \in Clients,
           Network(i) \/ Connect(i)
    PROVE  Kept(i)' /\ \A j \in Clients \ {i} : Same(j)
<1>1. CliTypeOK /\ Kept(i) /\ PlaceKept(i) /\ PromiseKept(i)
  BY DEF CliInv, Kept
<1>2. CASE Drop(i)
  <2>1. /\ ending' = ending /\ UNCHANGED <<opts, read, made, step, settled, shown, hinted, exitCode>>
        /\ line'[i] = "reset" /\ \A j \in Clients \ {i} : line'[j] = line[j]
    BY <1>1, <1>2 DEF Drop, serverVars, processVars, CliTypeOK
  <2>2. PlaceKept(i)'
    BY <1>1, <2>1 DEF PlaceKept
  <2>3. PromiseKept(i)'
    BY <1>1, <2>1 DEF PromiseKept
  <2> QED
    BY <1>1, <2>1, <2>2, <2>3, Moves DEF Same
<1>3. CASE ErrorEvent(i)
  <2>1. /\ ending' = ending /\ UNCHANGED <<opts, read, made, step, line, shown, hinted>>
        /\ step[i] = "watching" /\ line[i] = "reset" /\ settled[i] = NoResult
        /\ settled'[i] = Null /\ exitCode'[i] = 1
        /\ \A j \in Clients \ {i} : settled'[j] = settled[j] /\ exitCode'[j] = exitCode[j]
    BY <1>1, <1>3 DEF ErrorEvent, SettleNull, serverVars, CliTypeOK
  <2> QED
    BY <1>1, <2>1, SettledNull DEF Same
<1>4. CASE ServerSees(i) \/ FallsSilent(i) \/ CloseCompletes(i) \/ Connect(i)
  <2>1. ending' = ending /\ \A j \in Clients : Same(j)
    BY <1>4 DEF ServerSees, FallsSilent, CloseCompletes, Connect, cliVars, processVars, Same
  <2> QED
    BY <1>1, <2>1, Untouched
<1> QED
  BY <1>2, <1>3, <1>4 DEF Network

(***************************************************************************)
(* The steps together.                                                     *)
(***************************************************************************)
\* Only RunEnds ends the run, and gives it a result.
LEMMA EndingStep ==
    ASSUME CliInv, StreamKept, [Next]_vars
    PROVE  EndingKept' /\ (ending' = ending \/ phase = "running")
<1>1. CASE RunEnds
  <2>1. phase = "running" /\ phase' = "saving" /\ UNCHANGED <<spawned, chunks>>
    BY <1>1 DEF RunEnds, Stream!FinishRun, Stream!Finishes
  <2>2. ending' \in Endings(spawned, chunks)
    BY <1>1 DEF RunEnds
  <2> QED
    BY <2>1, <2>2 DEF EndingKept
<1>2. CASE ~RunEnds
  <2>1. ending' = ending
    BY <1>2 DEF Next, vars, serverVars, Announce, RunGoesOn, Begins, GivesUp, Languages, Ask,
                Reconnect, RunHere, Goes, Local, LocalFails, LocalChunk, LocalEnds, Asks, Grant,
                Refuse, AskedInVain, KeysAnswered, Submitted, Watches, Connect, Receive,
                CloseEvent, Network, Drop, ErrorEvent, ServerSees, FallsSilent, CloseCompletes
  <2>2. phase = "running" => phase' = "running"
    <3>1. CASE Announce \/ RunGoesOn
      BY <3>1 DEF Announce, Stream!Announce, Stream!Announces, RunGoesOn, Stream!OnSpawn,
                  Stream!OnChunk, Stream!OnStats, Stream!Cleanup
    <3>2. ASSUME NEW i \in Clients,
                 Begins(i) \/ Local(i) \/ Asks(i) \/ Watches(i) \/ Network(i)
          PROVE  phase' = phase
      <4>1. CASE UNCHANGED streamVars
        BY <4>1 DEF streamVars
      <4>2. CASE StreamOf!ClientStep(i)
        BY <4>2 DEF StreamOf!ClientStep, StreamOf!AttachUnknown, StreamOf!AttachFinished,
                    StreamOf!AttachRefused, StreamOf!TurnAway, StreamOf!Attach,
                    StreamOf!ClientCloses, StreamOf!CloseCompletes, StreamOf!Closed,
                    StreamOf!PeerVanishes, StreamOf!Pong, StreamOf!Pongs
      <4> QED
        BY <3>2, <4>1, <4>2, InvocationSteps
    <3>3. CASE UNCHANGED vars
      BY <3>3 DEF vars, serverVars, streamVars
    <3> QED
      BY <1>2, <3>1, <3>2, <3>3 DEF Next
  <2>3. CASE phase = "running"
    BY <2>1, <2>2, <2>3 DEF CliInv, EndingKept
  <2>4. CASE phase # "running"
    BY <2>1, <2>4, OverStays DEF CliInv, EndingKept
  <2> QED
    BY <2>1, <2>3, <2>4
<1> QED
  BY <1>1, <1>2

\* Every variable keeps its type.
LEMMA TypeStep ==
    ASSUME CliInv, StreamKept, StreamKept', [Next]_vars
    PROVE  CliTypeOK'
<1>1. CliTypeOK /\ EndingKept
  BY DEF CliInv
<1>2. spawned \in BOOLEAN /\ chunks \in Nat
  BY BoundsAssumption DEF StreamKept, StreamOf!IInv, StreamOf!TypeOK
<1>3. CASE RunEnds
  <2>1. ending' \in Results
    BY <1>2, <1>3, EndingFacts DEF RunEnds
  <2>2. UNCHANGED <<accepted, cliVars>>
    BY <1>3 DEF RunEnds
  <2> QED
    BY <1>1, <2>1, <2>2 DEF CliTypeOK, cliVars, processVars
<1>4. CASE Announce \/ RunGoesOn
  BY <1>1, <1>4 DEF Announce, RunGoesOn, CliTypeOK, cliVars, processVars
<1>5. ASSUME NEW i \in Clients, Begins(i) PROVE CliTypeOK'
  <2>1. CASE GivesUp(i)
    BY <1>1, <2>1 DEF GivesUp, Exit, CliTypeOK, serverVars
  <2>2. CASE Languages(i)
    BY <1>1, <2>2 DEF Languages, Exit, CliTypeOK, serverVars
  <2>3. CASE Ask(i)
    BY <1>1, <2>3 DEF Ask, Goes, CliTypeOK, serverVars
  <2>4. CASE Reconnect(i)
    BY <1>1, <2>4 DEF Reconnect, Goes, CliTypeOK, serverVars
  <2>5. CASE RunHere(i)
    BY <1>1, <2>5 DEF RunHere, Goes, CliTypeOK, serverVars
  <2> QED
    BY <1>5, <2>1, <2>2, <2>3, <2>4, <2>5 DEF Begins
<1>6. ASSUME NEW i \in Clients, Local(i) PROVE CliTypeOK'
  <2>1. CASE LocalFails(i)
    BY <1>1, <2>1 DEF LocalFails, SettleNull, CliTypeOK, serverVars, Null, Result, Results, Verdicts, Stages
  <2>2. CASE LocalChunk(i)
    BY <1>1, <2>2 DEF LocalChunk, PrintChunk, CliTypeOK, serverVars
  <2>3. CASE LocalEnds(i)
    <3>1. PICK result \in Endings(TRUE, made[i]) \cup
                         IF made[i] = 0 THEN Endings(FALSE, 0) ELSE {} :
                 SettleResult(i, result)
      BY <2>3 DEF LocalEnds
    <3>2. result \in Results
      BY <1>1, <3>1, Typed, EndingFacts
    <3>3. PrintsAtTheEnd(i, result) \in Nat
      BY <3>2 DEF PrintsAtTheEnd, Results
    <3> QED
      BY <1>1, <2>3, <3>1, <3>2, <3>3 DEF LocalEnds, SettleResult, CliTypeOK, serverVars
  <2> QED
    BY <1>6, <2>1, <2>2, <2>3 DEF Local
<1>7. ASSUME NEW i \in Clients, Asks(i) PROVE CliTypeOK'
  <2>1. CASE Grant(i) \/ Refuse(i)
    BY <1>1, <2>1 DEF Grant, Refuse, CliTypeOK, serverVars, processVars
  <2>2. CASE AskedInVain(i)
    BY <1>1, <2>2 DEF AskedInVain, Exit, CliTypeOK, serverVars
  <2>3. CASE KeysAnswered(i)
    BY <1>1, <2>3 DEF KeysAnswered, Exit, CliTypeOK, serverVars
  <2>4. CASE Submitted(i)
    BY <1>1, <2>4 DEF Submitted, CliTypeOK, serverVars
  <2> QED
    BY <1>7, <2>1, <2>2, <2>3, <2>4 DEF Asks
<1>8. ASSUME NEW i \in Clients, Watches(i) PROVE CliTypeOK'
  <2>1. CASE Connect(i)
    BY <1>1, <2>1 DEF Connect, CliTypeOK, cliVars, processVars
  <2>2. CASE Receive(i)
    <3>1. /\ UNCHANGED <<accepted, ending, opts, request, line, made, step, hinted>>
          /\ read' \in [Clients -> Nat]
      BY <1>1, <2>2 DEF Receive, CliTypeOK, serverVars
    <3>2. PrintsAtTheEnd(i, ending) \in Nat
      BY <1>1, Typed DEF PrintsAtTheEnd
    <3>3. Null \in Results
      BY DEF Null, Result, Results, Verdicts, Stages
    <3>4. \/ PrintChunk(i) /\ UNCHANGED <<settled, exitCode>>
          \/ SettleResult(i, ending) \/ SettleNull(i) \/ UNCHANGED <<settled, shown, exitCode>>
      BY <2>2 DEF Receive
    <3>5. /\ settled' \in [Clients -> Results]
          /\ shown' \in [Clients -> Nat]
          /\ exitCode' \in [Clients -> {0, 1}]
      BY <1>1, <3>2, <3>3, <3>4 DEF PrintChunk, SettleResult, SettleNull, CliTypeOK
    <3> QED
      BY <1>1, <3>1, <3>5 DEF CliTypeOK
  <2>3. CASE CloseEvent(i)
    <3>1. Null \in Results
      BY DEF Null, Result, Results, Verdicts, Stages
    <3>2. /\ UNCHANGED <<accepted, ending, opts, request, line, read, made>>
          /\ step' \in [Clients -> {"start", "asking", "watching", "local", "done"}]
      BY <1>1, <2>3 DEF CloseEvent, serverVars, CliTypeOK
    <3>3. \/ UNCHANGED <<settled, shown, exitCode, hinted>>
          \/ hinted' = [hinted EXCEPT ![i] = TRUE] /\ SettleNull(i)
      BY <2>3 DEF CloseEvent
    <3>4. /\ settled' \in [Clients -> Results]
          /\ shown' \in [Clients -> Nat]
          /\ exitCode' \in [Clients -> {0, 1}]
      BY <1>1, <3>1, <3>3 DEF SettleNull, CliTypeOK
    <3>5. hinted' \in [Clients -> BOOLEAN]
      BY <1>1, <3>3 DEF CliTypeOK
    <3> QED
      BY <1>1, <3>2, <3>4, <3>5 DEF CliTypeOK
  <2> QED
    BY <1>8, <2>1, <2>2, <2>3 DEF Watches
<1>9. ASSUME NEW i \in Clients, Network(i) PROVE CliTypeOK'
  <2>1. CASE Drop(i)
    BY <1>1, <2>1 DEF Drop, CliTypeOK, serverVars, processVars
  <2>2. CASE ErrorEvent(i)
    <3>1. Null \in Results
      BY DEF Null, Result, Results, Verdicts, Stages
    <3> QED
      BY <1>1, <2>2, <3>1 DEF ErrorEvent, SettleNull, CliTypeOK, serverVars
  <2>3. CASE ServerSees(i) \/ FallsSilent(i) \/ CloseCompletes(i)
    BY <1>1, <2>3 DEF ServerSees, FallsSilent, CloseCompletes, CliTypeOK, cliVars, processVars
  <2> QED
    BY <1>9, <2>1, <2>2, <2>3 DEF Network
<1>10. CASE UNCHANGED vars
  BY <1>1, <1>10 DEF vars, serverVars, cliVars, processVars, CliTypeOK
<1> QED
  BY <1>3, <1>4, <1>5, <1>6, <1>7, <1>8, <1>9, <1>10 DEF Next

LEMMA CliStep == CliInv /\ StreamKept /\ StreamKept' /\ [Next]_vars => CliInv'
<1> SUFFICES ASSUME CliInv, StreamKept, StreamKept', [Next]_vars
             PROVE  CliInv'
  OBVIOUS
<1>1. CliTypeOK' /\ EndingKept' /\ (ending' = ending \/ phase = "running")
  BY TypeStep, EndingStep
<1>2. CliTypeOK /\ \A i \in Clients : Kept(i)
  BY DEF CliInv
<1>3. CASE RunEnds \/ Announce \/ RunGoesOn \/ UNCHANGED vars
  <2>1. \A i \in Clients : Same(i)
    BY <1>3 DEF RunEnds, Announce, RunGoesOn, vars, cliVars, processVars, Same
  <2> QED
    BY <1>1, <1>2, <2>1, Untouched DEF CliInv
<1>4. ASSUME NEW i \in Clients,
             Begins(i) \/ Local(i) \/ Asks(i) \/ Watches(i) \/ Network(i)
      PROVE  CliInv'
  <2>1. Kept(i)' /\ \A j \in Clients \ {i} : Same(j)
    BY <1>4, BeginsKept, LocalKept, AsksKept, ReceiveKept, CloseEventKept, NetworkKept
       DEF Watches
  <2>2. \A j \in Clients : Kept(j)'
    BY <1>1, <1>2, <2>1, Untouched
  <2> QED
    BY <1>1, <2>2 DEF CliInv
<1> QED
  BY <1>3, <1>4 DEF Next

LEMMA CliStarts == Init => CliInv
<1> SUFFICES ASSUME Init
             PROVE  CliInv
  OBVIOUS
<1>1. NoResult \in Results /\ NoResult # Null
  BY DEF NoResult, Null, Result, Results, Verdicts, Stages
<1>2. CliTypeOK
  BY <1>1 DEF Init, CliTypeOK
<1>3. phase = "running" /\ ending = NoResult /\ frames = [i \in Clients |-> <<>>]
  BY DEF Init, Stream!Init
<1>4. EndingKept
  BY <1>3 DEF EndingKept
<1>5. ASSUME NEW i \in Clients PROVE Kept(i)
  <2>1. /\ step[i] = "start" /\ read[i] = 0 /\ settled[i] = NoResult /\ made[i] = 0
        /\ shown[i] = 0 /\ ~hinted[i] /\ exitCode[i] = 0 /\ frames[i] = <<>>
    BY <1>3 DEF Init
  <2>2. ~HasResult(i) /\ Len(frames[i]) = 0
    BY <2>1 DEF HasResult
  <2>3. (\A type : ~HasRead(i, type)) /\ Cardinality(ChunksIn(frames[i], read[i])) = 0
    BY <2>1, NothingRead
  <2>4. PlaceKept(i) /\ PromiseKept(i)
    BY <2>1 DEF PlaceKept, PromiseKept
  <2>5. SettledKept(i)
    <3>1. read[i] <= Len(frames[i])
      BY <2>1, <2>2
    <3>2. ~HasRead(i, "finished") /\ ~HasResult(i) /\ step[i] # "watching"
      BY <2>1, <2>2, <2>3
    <3> QED
      BY <3>1, <3>2 DEF SettledKept
  <2>6. ShownKept(i)
    BY <2>1, <2>2, <2>3 DEF ShownKept, Streamed, AtTheEnd
  <2> QED
    BY <2>4, <2>5, <2>6 DEF Kept
<1> QED
  BY <1>2, <1>4, <1>5 DEF CliInv

(***************************************************************************)
(* The theorems.                                                           *)
(***************************************************************************)
\* watchRun(), runLocal(): the promise of an invocation has a result exactly
\* when the end of its run has reached it, and it has printed the chunks it has
\* received, and at the end what emitResult() prints.
THEOREM Invariant == Spec => []CliInv
<1>1. Spec => []StreamKept
  BY StreamIsKept
<1> QED
  BY <1>1, CliStarts, CliStep, PTL DEF Spec

\* cmdRun(): zero means that the run ended as "ok" and that this reached the
\* invocation, in whatever order frames, errors and closes came in.
THEOREM ExitTells == Spec => []ExitIsTheVerdict
<1>1. CliInv => ExitIsTheVerdict
  <2> SUFFICES ASSUME CliInv, NEW i \in Clients
               PROVE  /\ (step[i] = "done" /\ opts[i].cmd = "run" /\ exitCode[i] = 0) =>
                            settled[i].verdict = "ok" /\ ~hinted[i]
                      /\ (HasResult(i) /\ opts[i].server) => settled[i] = ending
                      /\ (\E n \in 1..read[i] : frames[i][n].type = "finished") =>
                            HasResult(i) /\ ~hinted[i]
    BY DEF ExitIsTheVerdict
  <2>1. PromiseKept(i) /\ SettledKept(i)
    BY DEF CliInv, Kept
  <2>2. Null.verdict = "null"
    BY DEF Null, Result
  <2>3. (step[i] = "done" /\ opts[i].cmd = "run" /\ exitCode[i] = 0) =>
            settled[i].verdict = "ok" /\ ~hinted[i]
    BY <2>1, <2>2 DEF PromiseKept
  <2>4. (HasResult(i) /\ opts[i].server) => settled[i] = ending
    BY <2>1 DEF SettledKept
  <2>5. HasRead(i, "finished") => HasResult(i) /\ ~hinted[i]
    BY <2>1 DEF SettledKept, PromiseKept, HasResult
  <2> QED
    BY <2>3, <2>4, <2>5 DEF HasRead
<1> QED
  BY <1>1, Invariant, PTL

\* What the result of a run of so many chunks says of its output: the chunks,
\* and what is printed at the end, are what OutputShownOnce says.
LEMMA EndingOutput ==
    ASSUME NEW ran \in BOOLEAN, NEW n \in Nat, ~ran => n = 0,
           NEW result \in Endings(ran, n)
    PROVE  Printed(result) =
              n + IF result.verdict \in {"compile_error", "setup_failed"}
                  THEN result.output ELSE 0
<1>1. ASSUME ran
      PROVE  \/ /\ result.verdict \in {"ok", "error", "setup_failed"}
                /\ result.stage = "execute" /\ result.output = n
             \/ result.verdict = "spawn_failed" /\ n = 0
  BY <1>1 DEF Endings, Result
<1>2. ASSUME ~ran
      PROVE  /\ n = 0
             /\ \/ /\ result.verdict \in {"compile_error", "timeout", "setup_failed"}
                   /\ result.stage = "compile" /\ result.output = 1
                \/ /\ result.verdict = "error" /\ result.stage = "queue"
                   /\ result.output = 0
  BY <1>2 DEF Endings, Result
<1> QED
  BY <1>1, <1>2 DEF Printed, Doubled, Unheard

\* emitResult(), printOutputIfMissed(): an invocation with a result has printed
\* the whole output of the run, and once, but for the results whose output is
\* printed twice or not at all.
THEOREM OutputIsShown == Spec => []OutputShownOnce
<1>1. CliInv /\ StreamKept => OutputShownOnce
  <2> SUFFICES ASSUME CliInv, StreamKept, NEW i \in Clients, HasResult(i),
                      opts[i].json \/ AttachedInTime(i)
               PROVE  shown[i] = IF opts[i].json THEN settled[i].output
                                 ELSE Printed(settled[i])
    BY DEF OutputShownOnce
  <2>1. CliTypeOK /\ PlaceKept(i) /\ SettledKept(i) /\ ShownKept(i) /\ EndingKept
    BY DEF CliInv, Kept
  <2>2. read[i] \in Nat /\ made[i] \in Nat /\ settled[i].output \in Nat
    BY <2>1, Typed
  <2>3. shown[i] = Streamed(i) + PrintsAtTheEnd(i, settled[i])
    BY <2>1 DEF ShownKept, AtTheEnd
  <2>4. CASE opts[i].json
    BY <2>2, <2>3, <2>4 DEF Streamed, PrintsAtTheEnd
  <2>5. CASE ~opts[i].json /\ opts[i].server
    <3>1. /\ HasRead(i, "finished") /\ settled[i] = ending /\ phase # "running"
          /\ read[i] = Len(frames[i]) /\ made[i] = 0
      BY <2>1, <2>2, <2>5, EndIsRead DEF SettledKept, PlaceKept
    <3>2. /\ spawned \in BOOLEAN /\ chunks \in Nat
          /\ ~spawned => chunks = 0
          /\ settled[i] \in Endings(spawned, chunks)
      BY <2>1, <3>1, SentFacts
         DEF EndingKept, StreamKept, StreamOf!IInv, StreamOf!TypeOK
    <3>3. StreamOf!Told(i) /\ frames[i][1].type # "finished"
      BY <2>5, <3>1, SentFacts DEF HasRead, StreamOf!Told, AttachedInTime
    <3>4. StreamOf!ChunksUpTo(chunks, frames[i])
      BY <3>3 DEF StreamKept, StreamOf!HeardKept, StreamOf!HeardBy
    <3>5. Streamed(i) = chunks
      <4>1. Cardinality(ChunksIn(frames[i], read[i])) = chunks
        BY <3>1, <3>2, <3>4, EveryChunkRead
      <4> QED
        BY <2>5, <3>1, <3>2, <4>1 DEF Streamed
    <3>6. Printed(settled[i]) =
             chunks + IF settled[i].verdict \in {"compile_error", "setup_failed"}
                      THEN settled[i].output ELSE 0
      BY <3>2, EndingOutput
    <3> QED
      BY <2>3, <2>5, <3>5, <3>6 DEF PrintsAtTheEnd
  <2>6. CASE ~opts[i].json /\ ~opts[i].server
    <3>1. read[i] = 0
      BY <2>1, <2>2, <2>6 DEF PlaceKept
    <3>2. Streamed(i) = made[i]
      BY <2>2, <2>6, <3>1, NothingRead DEF Streamed
    <3>3. \/ settled[i] \in Endings(TRUE, made[i])
          \/ made[i] = 0 /\ settled[i] \in Endings(FALSE, made[i])
      BY <2>1, <2>6 DEF SettledKept
    <3>4. Printed(settled[i]) =
             made[i] + IF settled[i].verdict \in {"compile_error", "setup_failed"}
                       THEN settled[i].output ELSE 0
      BY <2>2, <3>3, EndingOutput
    <3> QED
      BY <2>3, <2>6, <3>2, <3>4 DEF PrintsAtTheEnd
  <2> QED
    BY <2>4, <2>5, <2>6
<1> QED
  BY <1>1, Invariant, StreamIsKept, PTL
=============================================================================
