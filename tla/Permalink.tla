------------------------------ MODULE Permalink ------------------------------
(***************************************************************************)
(* public/permalink.js: the page behind a run's link, which loads the       *)
(* run's record and replays it.                                            *)
(*                                                                         *)
(* A record holds the times of the run's chunks and of its stats, in the    *)
(* order they came, and whether its result holds output that was not        *)
(* streamed.  Times are the host's clock's, relative to the start of the    *)
(* run, in a unit of the model's; the 150 ms before the result are less.    *)
(***************************************************************************)
EXTENDS Integers, Sequences, FiniteSets

CONSTANT MAX_STEP_DELAY_MS

ASSUME DelayAssumption == MAX_STEP_DELAY_MS \in Nat

VARIABLES
    page,       \* "none", "loading", "not_found", "replaying" or "done"
    record,     \* what was loaded
    at, clock,  \* replay(): how many events are shown; the time of the last
    elapsed,    \* history: how long the replay has taken
    shownAt,    \* history: when each event was shown
    linkOutput, \* the chunks in the output box, by their place in the record
    linkSamples     \* how many samples are in the graph

linkVars == <<page, record, at, clock, elapsed, shownAt, linkOutput, linkSamples>>

Record(chunks, stats, buffered) ==
    [chunks |-> chunks, stats |-> stats, buffered |-> buffered]

NoRecord == Record(<<>>, <<>>, FALSE)

LinkTypeOK ==
    /\ page \in {"none", "loading", "not_found", "replaying", "done"}
    /\ Len(shownAt) = at
    /\ at <= Len(record.chunks) + Len(record.stats)
    /\ elapsed \in Nat

LinkInit ==
    /\ page = "none"
    /\ record = NoRecord
    /\ at = 0 /\ clock = 0 /\ elapsed = 0 /\ linkSamples = 0
    /\ shownAt = <<>> /\ linkOutput = <<>>

Event(type, n, t) == [type |-> type, n |-> n, t |-> t]

\* The chunks and then the stats, before sort().
Recorded(r) ==
    [n \in 1..Len(r.chunks) |-> Event("chunk", n, r.chunks[n])] \o
    [n \in 1..Len(r.stats) |-> Event("stats", n, r.stats[n])]

\* Mutant: not sorted.
EventsUnsorted(r) == Recorded(r)

\* Array.prototype.sort by t, which is stable.
Place(raw, i) ==
    Cardinality({j \in DOMAIN raw :
        raw[j].t < raw[i].t \/ (raw[j].t = raw[i].t /\ j <= i)})

Events(r) ==
    LET raw == Recorded(r)
    IN  [n \in DOMAIN raw |-> raw[CHOOSE i \in DOMAIN raw : Place(raw, i) = n]]

Open ==
    /\ page = "none"
    /\ page' = "loading"
    /\ UNCHANGED <<record, at, clock, elapsed, shownAt, linkOutput, linkSamples>>

\* The answer is not ok, or there is none, or it is cut off.
LoadFails ==
    /\ page = "loading"
    /\ page' = "not_found"
    /\ UNCHANGED <<record, at, clock, elapsed, shownAt, linkOutput, linkSamples>>

Load(Records) ==
    /\ page = "loading"
    /\ page' = "replaying"
    /\ record' \in Records
    /\ UNCHANGED <<at, clock, elapsed, shownAt, linkOutput, linkSamples>>

\* An event that lies in the past is shown at once.
Wait(event) ==
    LET gap == event.t - clock
    IN  IF gap < 0 THEN 0
        ELSE IF gap > MAX_STEP_DELAY_MS THEN MAX_STEP_DELAY_MS ELSE gap

\* appendChunk()
ShowChunk(n) == linkOutput' = Append(linkOutput, n) /\ UNCHANGED linkSamples

\* drawGraph()
ShowSample == linkSamples' = linkSamples + 1 /\ UNCHANGED linkOutput

\* One turn of replay()'s loop.
ShowEvent ==
    /\ page = "replaying"
    /\ at < Len(Events(record))
    /\ LET event == Events(record)[at + 1]
       IN  /\ elapsed' = elapsed + Wait(event)
           /\ shownAt' = Append(shownAt, elapsed')
           /\ clock' = event.t
           /\ at' = at + 1
           /\ \/ event.type = "chunk" /\ ShowChunk(event.n)
              \/ event.type = "stats" /\ ShowSample
    /\ UNCHANGED <<page, record>>

\* The result's statistics; of its output nothing is shown.
ShowResult ==
    /\ page = "replaying"
    /\ at = Len(Events(record))
    /\ page' = "done"
    /\ UNCHANGED <<record, at, clock, elapsed, shownAt, linkOutput, linkSamples>>

LinkNext(Records) ==
    LoadFails \/ Load(Records) \/ ShowEvent \/ ShowResult

InOrder(times) == \A i, j \in DOMAIN times : i < j => times[i] <= times[j]

\* What is replayed is the run: each chunk once, in the order of the run unless
\* the host's clock was set back, and none missing when the result appears;
\* chunks and samples appear in the order they were taken, whatever came
\* between them; and between two events no more time passes than in the run,
\* and the same time if the run made no longer pause than the page waits for.
ReplayIsFaithful ==
    LET events == Events(record)
        T(n) == events[n].t
        Before(times) == Cardinality({n \in DOMAIN times : at > 0 /\ times[n] < clock})
    IN  page \in {"replaying", "done"} =>
        /\ InOrder(record.chunks) => linkOutput = [n \in 1..Len(linkOutput) |-> n]
        /\ Cardinality({linkOutput[n] : n \in DOMAIN linkOutput}) = Len(linkOutput)
        /\ Len(linkOutput) >= Before(record.chunks) /\ linkSamples >= Before(record.stats)
        /\ page = "done" =>
              Len(linkOutput) = Len(record.chunks) /\ linkSamples = Len(record.stats)
        /\ \A m \in 1..at : \A n \in m..at :
              /\ shownAt[n] - shownAt[m] \in 0..(T(n) - T(m))
              /\ (\A k \in (m + 1)..n : T(k) - T(k - 1) <= MAX_STEP_DELAY_MS)
                    => shownAt[n] - shownAt[m] = T(n) - T(m)
=============================================================================
