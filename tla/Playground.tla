----------------------------- MODULE Playground -----------------------------
(***************************************************************************)
(* public/app.js: the playground page and the events it reacts to.         *)
(*                                                                         *)
(* Runs are numbered as they are clicked.  The handlers of a run keep       *)
(* listening to its WebSocket when the next run has been clicked, and all  *)
(* write to the same page: the button, the stdin box, the output, the      *)
(* graph.  Frames come in the order RunStream sends them on one socket;    *)
(* those of two sockets, and the closes, come in any order.  A chunk is    *)
(* <<r, n>>, n = 0 for the output that came with the result.               *)
(***************************************************************************)
EXTENDS Integers, Sequences

CONSTANTS
    MaxRuns,    \* how often the button is clicked
    MaxChunks, MaxStats     \* of a run

ASSUME RunsAssumption == MaxRuns \in Nat /\ MaxChunks \in Nat

VARIABLES
    clicked,    \* how many runs have been clicked; the newest one
    stage,      \* what became of each run's request, and then of its WebSocket
    heard,      \* the frame that says how far the run is: "queued", "started"
    told,       \* how many chunks of each run have arrived
    outcome,    \* the run as the server recorded it
    socket, sawChunk, statSamples,      \* the script's variables
    button, stdinOn,    \* the controls that are enabled
    output,     \* the chunks in the output box
    canvas, visible,    \* the samples the graph was drawn from; it is displayed
    result,     \* the run whose statistics and permalink are shown, or 0
    given,      \* history: the runs that were sent stdin
    eof, lateClose,     \* history, of the newest run: stdin was closed; an older
                        \* socket's close came
    overlapped  \* history: a run was clicked while another was under way

graphVars == <<statSamples, canvas, visible>>
shownVars == <<graphVars, output, result>>
runVars == <<heard, told, outcome>>
historyVars == <<given, eof, lateClose, overlapped>>
pageVars == <<socket, sawChunk, button, stdinOn, shownVars>>
playVars == <<clicked, stage, runVars, pageVars, historyVars>>

Runs == 1..MaxRuns

\* A run's chunks, and whether its result holds output that was not streamed.
Outcome(chunks, buffered) == [chunks |-> chunks, buffered |-> buffered]

HasOutput(o) == o.buffered \/ o.chunks > 0

PlayTypeOK ==
    /\ clicked \in 0..MaxRuns /\ socket \in 0..MaxRuns /\ result \in 0..MaxRuns
    /\ stage \in [Runs -> {"none", "fetching", "lost", "refused", "open", "over",
                           "closed"}]
    /\ heard \in [Runs -> {"nothing", "queued", "started"}]
    /\ told \in [Runs -> 0..MaxChunks]
    /\ outcome \in [Runs -> [chunks : 0..MaxChunks, buffered : BOOLEAN]]
    /\ {sawChunk, button, stdinOn, visible, eof, lateClose, overlapped} \subseteq BOOLEAN
    /\ \A n \in DOMAIN statSamples : statSamples[n] \in Runs
    /\ \A n \in DOMAIN canvas : canvas[n] \in Runs
    /\ \A n \in DOMAIN output : output[n] \in Runs \X (0..MaxChunks)
    /\ given \subseteq Runs

PlayInit ==
    /\ clicked = 0 /\ socket = 0 /\ result = 0
    /\ stage = [r \in Runs |-> "none"]
    /\ heard = [r \in Runs |-> "nothing"]
    /\ told = [r \in Runs |-> 0]
    /\ outcome = [r \in Runs |-> Outcome(0, FALSE)]
    /\ sawChunk = FALSE /\ stdinOn = FALSE /\ visible = FALSE
    /\ eof = FALSE /\ lateClose = FALSE /\ overlapped = FALSE
    /\ button = TRUE
    /\ statSamples = <<>> /\ output = <<>> /\ canvas = <<>>
    /\ given = {}

(***************************************************************************)
(* run(), up to the request and after it.                                  *)
(***************************************************************************)
UnderWay(r) == stage[r] \in {"fetching", "open"}

\* clearOutput(): the canvas is hidden, and keeps what is drawn on it.
ClearOutput ==
    /\ output' = <<>>
    /\ statSamples' = <<>>
    /\ result' = 0
    /\ visible' = FALSE
    /\ UNCHANGED canvas

\* Mutant: sawChunk is left as the run before had it.
ClickUnreset ==
    /\ clicked < MaxRuns
    /\ button
    /\ clicked' = clicked + 1
    /\ stage' = [stage EXCEPT ![clicked + 1] = "fetching"]
    /\ overlapped' = (overlapped \/ \E r \in Runs : UnderWay(r))
    /\ ClearOutput
    /\ button' = FALSE
    /\ stdinOn' = FALSE
    /\ eof' = FALSE /\ lateClose' = FALSE
    /\ UNCHANGED <<runVars, socket, sawChunk, given>>

\* A click, or Ctrl+Enter, which looks at the button.
Click ==
    /\ clicked < MaxRuns
    /\ button
    /\ clicked' = clicked + 1
    /\ stage' = [stage EXCEPT ![clicked + 1] = "fetching"]
    /\ overlapped' = (overlapped \/ \E r \in Runs : UnderWay(r))
    /\ ClearOutput
    /\ sawChunk' = FALSE
    /\ button' = FALSE
    /\ stdinOn' = FALSE
    /\ eof' = FALSE /\ lateClose' = FALSE
    /\ UNCHANGED <<runVars, socket, given>>

Becomes(r, s) == stage' = [stage EXCEPT ![r] = s]

\* fetch() rejects, or the answer is a refusal.
NotAccepted(r) ==
    /\ stage[r] = "fetching"
    /\ Becomes(r, "refused")
    /\ button' = TRUE
    /\ UNCHANGED <<clicked, runVars, socket, sawChunk, stdinOn, shownVars, historyVars>>

\* response.json() rejects, outside the try: run() ends there.
BodyLost(r) ==
    /\ stage[r] = "fetching"
    /\ Becomes(r, "lost")
    /\ UNCHANGED <<clicked, runVars, pageVars, historyVars>>

Accepted(r) ==
    /\ stage[r] = "fetching"
    /\ Becomes(r, "open")
    /\ socket' = r
    /\ UNCHANGED <<clicked, runVars, sawChunk, button, stdinOn, shownVars,
                   historyVars>>

(***************************************************************************)
(* The message handler.                                                    *)
(***************************************************************************)
SetStdinEnabled(enabled) == stdinOn' = enabled

AppendChunk(chunk) == output' = Append(output, chunk)

\* drawGraph(): two samples make a line.
DrawGraph(samples) == canvas' = IF Len(samples) < 2 THEN canvas ELSE samples

\* renderStats(), and the link to the run.
RenderStats(r) == result' = r

Queued(r) ==
    /\ stage[r] = "open"
    /\ heard[r] = "nothing"
    /\ heard' = [heard EXCEPT ![r] = "queued"]
    /\ UNCHANGED <<clicked, stage, told, outcome, pageVars, historyVars>>

Started(r) ==
    /\ stage[r] = "open"
    /\ heard[r] \in {"nothing", "queued"}
    /\ heard' = [heard EXCEPT ![r] = "started"]
    /\ SetStdinEnabled(TRUE)
    /\ visible' = TRUE
    /\ UNCHANGED <<clicked, stage, told, outcome, socket, sawChunk, button,
                   statSamples, canvas, output, result, historyVars>>

Chunk(r) ==
    /\ stage[r] = "open"
    /\ heard[r] = "started"
    /\ told[r] < MaxChunks
    /\ told' = [told EXCEPT ![r] = @ + 1]
    /\ sawChunk' = TRUE
    /\ AppendChunk(<<r, told[r] + 1>>)
    /\ UNCHANGED <<clicked, stage, heard, outcome, socket, button, stdinOn,
                   graphVars, result, historyVars>>

Stats(r) ==
    /\ stage[r] = "open"
    /\ heard[r] = "started"
    /\ Len(statSamples) < MaxStats
    /\ statSamples' = Append(statSamples, r)
    /\ DrawGraph(statSamples')
    /\ UNCHANGED <<clicked, stage, runVars, socket, sawChunk, button, stdinOn,
                   visible, output, result, historyVars>>

\* A run whose start was heard has streamed its output, unless its program could
\* not be launched; one that ended in the queue or the compile stage has not; one
\* that was over before the socket was attached may have done either.
Outcomes(r) ==
    IF heard[r] = "started"
    THEN {Outcome(told[r], buffered) : buffered \in {FALSE, told[r] = 0}}
    ELSE {Outcome(0, FALSE), Outcome(0, TRUE)} \cup
         IF heard[r] = "nothing" THEN {Outcome(n, FALSE) : n \in 1..MaxChunks} ELSE {}

Finished(r) ==
    /\ stage[r] = "open"
    /\ Becomes(r, "over")
    /\ \E o \in Outcomes(r) :
          /\ outcome' = [outcome EXCEPT ![r] = o]
          /\ IF ~sawChunk /\ HasOutput(o)
             THEN AppendChunk(<<r, 0>>) ELSE UNCHANGED output
    /\ RenderStats(r)
    /\ SetStdinEnabled(FALSE)
    /\ button' = TRUE
    /\ UNCHANGED <<clicked, heard, told, socket, sawChunk, graphVars, historyVars>>

\* "unknown run id" or "too many connections": the only frame of its socket.
ErrorFrame(r) ==
    /\ stage[r] = "open"
    /\ heard[r] = "nothing"
    /\ Becomes(r, "over")
    /\ button' = TRUE
    /\ UNCHANGED <<clicked, runVars, socket, sawChunk, stdinOn, shownVars, historyVars>>

\* Mutant: the button is left to the frames "finished" and "error".
CloseKeepsButton(r) ==
    /\ stage[r] \in {"open", "over"}
    /\ Becomes(r, "closed")
    /\ stdinOn' = FALSE
    /\ lateClose' = (lateClose \/ r # clicked)
    /\ UNCHANGED <<clicked, runVars, socket, sawChunk, button, shownVars, given, eof,
                   overlapped>>

\* The close handler: of whichever run, it acts on the page.
Close(r) ==
    /\ stage[r] \in {"open", "over"}
    /\ Becomes(r, "closed")
    /\ button' = TRUE
    /\ stdinOn' = FALSE
    /\ lateClose' = (lateClose \/ r # clicked)
    /\ UNCHANGED <<clicked, runVars, socket, sawChunk, shownVars, given, eof,
                   overlapped>>

(***************************************************************************)
(* The stdin box.  A socket that is connecting has not been heard of, but  *)
(* one that has not been heard of may be open.                             *)
(***************************************************************************)
Writable == socket # 0 /\ stage[socket] \in {"open", "over"}

SendStdin ==
    /\ stdinOn /\ Writable
    /\ given' = given \cup {socket}
    /\ UNCHANGED <<clicked, stage, runVars, pageVars, eof, lateClose, overlapped>>

CloseStdin ==
    /\ stdinOn /\ Writable
    /\ stdinOn' = FALSE
    /\ eof' = TRUE
    /\ UNCHANGED <<clicked, stage, runVars, socket, sawChunk, button, shownVars,
                   given, lateClose, overlapped>>

Hears(r) ==
    Queued(r) \/ Started(r) \/ Chunk(r) \/ Stats(r) \/ Finished(r) \/ ErrorFrame(r)

PlayNext ==
    \/ Click \/ SendStdin \/ CloseStdin
    \/ \E r \in Runs :
          NotAccepted(r) \/ BodyLost(r) \/ Accepted(r) \/ Hears(r) \/ Close(r)

(***************************************************************************)
(* Properties.                                                             *)
(***************************************************************************)
\* The page shows the newest run and it alone, and everything it printed,
\* once and in order, whether it came as chunks or with the result; what is
\* typed reaches a run that has started.  The graph is displayed from the start
\* of the run and is its own from the second sample: until then, and for good
\* if the run is shorter, it is what the run before left on the canvas.  All of
\* it as long as no run was clicked over another, which a late close of an old
\* socket makes possible.
RunIsShown ==
    ~overlapped =>
        /\ \A n \in DOMAIN output : output[n] \in {<<clicked, n>>, <<clicked, 0>>}
        /\ \A n \in DOMAIN statSamples : statSamples[n] = clicked
        /\ result \in {0, clicked}
        /\ (result # 0 /\ HasOutput(outcome[result])) =>
              output = IF told[result] > 0
                       THEN [n \in 1..outcome[result].chunks |-> <<result, n>>]
                       ELSE <<<<result, 0>>>>
        /\ visible => heard[clicked] = "started"
        /\ (visible /\ Len(statSamples) >= 2) => canvas = statSamples
        /\ \A r \in given : heard[r] = "started"

Newest(stages) == clicked > 0 /\ stage[clicked] \in stages

\* The controls fit the state of the newest run.  While it is under way the
\* button is disabled and, once it has started and until the user closes it,
\* the stdin box is live: unless the close of an older socket came late.  When
\* nothing is under way, no request and no socket, the button is enabled and
\* the box is not: unless the body of an answer was lost.
ControlsFitTheRun ==
    /\ (~lateClose /\ ~overlapped) =>
          /\ Newest({"fetching", "open"}) => ~button
          /\ (Newest({"open"}) /\ heard[clicked] = "started") => stdinOn \/ eof
    /\ (\A r \in Runs : stage[r] \in {"none", "refused", "closed"})
          => button /\ ~stdinOn
=============================================================================
