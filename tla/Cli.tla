-------------------------------- MODULE Cli --------------------------------
(***************************************************************************)
(* bin/sandbin.mjs: invocations of the command-line client, beside the     *)
(* server's account of one run (RunStream).                                *)
(*                                                                         *)
(* An invocation runs the code itself, submits it to a server and watches  *)
(* it, or reattaches to it with --reconnect.  Its connection is one of     *)
(* RunStream's: the server appends to frames[i], the invocation has        *)
(* received the first read[i] of them, and the network may reset the       *)
(* connection, and lose the rest, or fall silent.  The promise of          *)
(* watchRun() is settled by whichever event comes first.                   *)
(*                                                                         *)
(* Output is counted in units, a chunk being one.  The heartbeat is left to *)
(* RunStream: it closes none but silent lines, which nobody here hears.    *)
(***************************************************************************)
EXTENDS Naturals, Sequences, FiniteSets

CONSTANTS
    Clients,      \* the invocations
    OptionsOf,    \* the command lines each may have been given
    MaxSockets, MaxChunks, MaxStats     \* of RunStream

ASSUME BoundsAssumption ==
    MaxSockets \in Nat \ {0} /\ MaxChunks \in Nat /\ MaxStats \in Nat

VARIABLES
    status, chunks, stats, sockets, phase, known, ready, isAlive, pinged, peer,
    frames, spawned,    \* the run as RunStream has it
    accepted,   \* the server has accepted the run
    ending,     \* record.result
    opts,       \* the command line
    step,       \* where the process stands
    request,    \* what became of its HTTP request
    line,       \* its end of the WebSocket: "up" or "reset"
    read,       \* how many frames it has received
    settled,    \* what the run's promise was settled with
    made,       \* how many chunks a run of its own has produced
    shown,      \* history: the units of output it has printed
    hinted,     \* history: it told the user to reconnect
    exitCode

streamVars == <<status, chunks, stats, sockets, phase, known, ready, isAlive,
                pinged, peer, frames, spawned>>
serverVars == <<streamVars, accepted, ending>>
processVars == <<step, settled, shown, hinted, exitCode>>
cliVars == <<opts, request, line, read, made, processVars>>
vars == <<serverVars, cliVars>>

Stream == INSTANCE RunStream

\* The stage a result is of is history: the code does not keep it.
Result(verdict, stage, output) ==
    [verdict |-> verdict, stage |-> stage, output |-> output]

NoResult == Result("pending", "none", 0)

\* resolve(null)
Null == Result("null", "none", 0)

\* What run() may return: of the execute stage, with the chunks that were
\* streamed or, if the child could not be launched, with the message of the
\* error, which was not; of the compile stage, with output that never was; or of
\* the queue, when run() throws.  "error" and "timeout" stand for every other
\* verdict of their stage.
Endings(ran, output) ==
    IF ran
    THEN {Result(v, "execute", output) : v \in {"ok", "error", "setup_failed"}}
           \cup {r \in {Result("spawn_failed", "execute", 1)} : output = 0}
    ELSE {Result(v, "compile", 1) :
              v \in {"compile_error", "timeout", "setup_failed"}}
           \cup {Result("error", "queue", 0)}

Init ==
    /\ Stream!Init
    /\ accepted = FALSE
    /\ ending = NoResult
    /\ opts \in {o \in [Clients -> UNION {OptionsOf[i] : i \in Clients}] :
                    \A i \in Clients : o[i] \in OptionsOf[i]}
    /\ step = [i \in Clients |-> "start"]
    /\ request = [i \in Clients |-> "none"]
    /\ line = [i \in Clients |-> "up"]
    /\ read = [i \in Clients |-> 0]
    /\ settled = [i \in Clients |-> NoResult]
    /\ made = [i \in Clients |-> 0]
    /\ shown = [i \in Clients |-> 0]
    /\ hinted = [i \in Clients |-> FALSE]
    /\ exitCode = [i \in Clients |-> 0]

(***************************************************************************)
(* Ways to end.                                                            *)
(***************************************************************************)
Exit(i, code) ==
    /\ step' = [step EXCEPT ![i] = "done"]
    /\ exitCode' = [exitCode EXCEPT ![i] = code]

\* settle(null), and cmdRun() with no result.
SettleNull(i) ==
    /\ settled' = [settled EXCEPT ![i] = Null]
    /\ exitCode' = [exitCode EXCEPT ![i] = 1]
    /\ UNCHANGED shown

\* Mutant: whatever the result holds is printed.
PrintsAll(i, result) == result.output

\* printOutputIfMissed(), or the whole result with --json.
PrintsAtTheEnd(i, result) ==
    IF opts[i].json \/ result.verdict \in {"compile_error", "setup_failed"}
    THEN result.output ELSE 0

\* settle(result), and emitResult().
SettleResult(i, result) ==
    /\ settled' = [settled EXCEPT ![i] = result]
    /\ shown' = [shown EXCEPT ![i] = @ + PrintsAtTheEnd(i, result)]
    /\ exitCode' = [exitCode EXCEPT ![i] = IF result.verdict = "ok" THEN 0 ELSE 1]

\* A chunk is printed as it comes, unless --json.
PrintChunk(i) ==
    shown' = [shown EXCEPT ![i] = IF opts[i].json THEN @ ELSE @ + 1]

(***************************************************************************)
(* cmdRun(), cmdKeys(), cmdLanguages() up to their first await.            *)
(***************************************************************************)
LanguageKnown(o) == o.language = "given" \/ o.source = "known_file"

Submits(o) == o.cmd = "run" /\ ~o.reconnect

Misused(o) ==
    \/ o.cmd = "other"
    \/ o.cmd = "run" /\ o.reconnect /\ ~o.server
    \/ Submits(o) /\ o.source = "stdin" /\ o.stdin = "-"
    \/ Submits(o) /\ ~LanguageKnown(o)

\* A usage error, or a file that cannot be read.
GivesUp(i) ==
    /\ step[i] = "start"
    /\ \/ Misused(opts[i])
       \/ Submits(opts[i]) /\ "file" \in {opts[i].source, opts[i].stdin}
       \/ Submits(opts[i]) /\ opts[i].source = "known_file"
    /\ Exit(i, 1)
    /\ UNCHANGED <<serverVars, opts, request, line, read, made, settled, shown,
                   hinted>>

Languages(i) ==
    /\ step[i] = "start"
    /\ opts[i].cmd = "languages"
    /\ Exit(i, 0) \/ Exit(i, 1)
    /\ UNCHANGED <<serverVars, opts, request, line, read, made, settled, shown,
                   hinted>>

Goes(i, where) ==
    /\ step[i] = "start"
    /\ ~Misused(opts[i])
    /\ step' = [step EXCEPT ![i] = where]
    /\ UNCHANGED <<serverVars, opts, line, read, made, settled, shown, hinted,
                   exitCode>>

Ask(i) ==
    /\ opts[i].cmd = "keys" \/ (Submits(opts[i]) /\ opts[i].server)
    /\ Goes(i, "asking")
    /\ request' = [request EXCEPT ![i] = "sent"]

\* The id of the run is known from what an earlier invocation has printed.
Reconnect(i) ==
    /\ opts[i].cmd = "run" /\ opts[i].reconnect
    /\ accepted
    /\ Goes(i, "watching")
    /\ UNCHANGED request

RunHere(i) ==
    /\ Submits(opts[i]) /\ ~opts[i].server
    /\ Goes(i, "local")
    /\ UNCHANGED request

(***************************************************************************)
(* runLocal().                                                             *)
(***************************************************************************)
\* No sandbox on this host, an unknown language, or run() throws.
LocalFails(i) ==
    /\ step[i] = "local"
    /\ step' = [step EXCEPT ![i] = "done"]
    /\ SettleNull(i)
    /\ UNCHANGED <<serverVars, opts, request, line, read, made, hinted>>

LocalChunk(i) ==
    /\ step[i] = "local"
    /\ made[i] < MaxChunks
    /\ made' = [made EXCEPT ![i] = @ + 1]
    /\ PrintChunk(i)
    /\ UNCHANGED <<serverVars, opts, request, line, read, step, settled,
                   hinted, exitCode>>

LocalEnds(i) ==
    /\ step[i] = "local"
    /\ step' = [step EXCEPT ![i] = "done"]
    /\ \E result \in Endings(TRUE, made[i]) \cup
                     IF made[i] = 0 THEN Endings(FALSE, 0) ELSE {} :
          SettleResult(i, result)
    /\ UNCHANGED <<serverVars, opts, request, line, read, made, hinted>>

(***************************************************************************)
(* The HTTP request of runRemote() and cmdKeys(), and its answer.          *)
(***************************************************************************)
\* The server, external.  There is one run: a second submission is refused.
Grant(i) ==
    /\ request[i] = "sent"
    /\ request' = [request EXCEPT ![i] = "granted"]
    /\ \/ opts[i].cmd = "keys" /\ UNCHANGED accepted
       \/ opts[i].cmd = "run" /\ ~accepted /\ accepted' = TRUE
    /\ UNCHANGED <<streamVars, ending, opts, line, read, made, processVars>>

Refuse(i) ==
    /\ request[i] = "sent"
    /\ request' = [request EXCEPT ![i] = "refused"]
    /\ UNCHANGED <<serverVars, opts, line, read, made, processVars>>

\* fetch() rejects, the answer is a refusal, or its body is lost on the way;
\* the run may have been accepted.
AskedInVain(i) ==
    /\ step[i] = "asking"
    /\ Exit(i, 1)
    /\ UNCHANGED <<serverVars, opts, request, line, read, made, settled, shown,
                   hinted>>

\* cmdKeys(), which goes by the status of the answer.
KeysAnswered(i) ==
    /\ step[i] = "asking"
    /\ opts[i].cmd = "keys"
    /\ request[i] = "granted"
    /\ Exit(i, 0)
    /\ UNCHANGED <<serverVars, opts, request, line, read, made, settled, shown,
                   hinted>>

Submitted(i) ==
    /\ step[i] = "asking"
    /\ opts[i].cmd = "run"
    /\ request[i] = "granted"
    /\ step' = [step EXCEPT ![i] = "watching"]
    /\ UNCHANGED <<serverVars, opts, request, line, read, made, settled, shown,
                   hinted, exitCode>>

(***************************************************************************)
(* watchRun().                                                             *)
(***************************************************************************)
\* The upgrade reaches the server, which attaches the socket.
Connect(i) ==
    /\ step[i] = "watching"
    /\ line[i] = "up"
    /\ \/ Stream!AttachUnknown(i) \/ Stream!AttachFinished(i)
       \/ Stream!AttachRefused(i) \/ Stream!Attach(i)
    /\ UNCHANGED <<accepted, ending, cliVars>>

Hears(i) == step[i] = "watching" /\ line[i] = "up" /\ peer[i] = "up"

\* ws.on('message').  Nothing follows "finished" or "error" on a connection.
Receive(i) ==
    /\ Hears(i)
    /\ read[i] < Len(frames[i])
    /\ read' = [read EXCEPT ![i] = @ + 1]
    /\ LET type == frames[i][read[i] + 1].type
       IN  \/ /\ type = "chunk"
              /\ PrintChunk(i)
              /\ UNCHANGED <<settled, exitCode>>
           \/ type = "finished" /\ SettleResult(i, ending)
           \/ type = "error" /\ SettleNull(i)
           \/ /\ type \in {"queued", "started", "stats"}
              /\ UNCHANGED <<settled, shown, exitCode>>
    /\ UNCHANGED <<serverVars, opts, request, line, made, step, hinted>>

\* ws.on('error'), on a connection that is refused or reset: it need not come,
\* and 'close' comes after it.
ErrorEvent(i) ==
    /\ step[i] = "watching"
    /\ line[i] = "reset"
    /\ settled[i] = NoResult
    /\ SettleNull(i)
    /\ UNCHANGED <<serverVars, opts, request, line, read, made, step, hinted>>

HasClosed(i) ==
    \/ line[i] = "reset"
    \/ /\ Hears(i)
       /\ ready[i] \in {"closing", "closed"}
       /\ read[i] = Len(frames[i])

\* Mutant: whether the promise is settled is not looked at.
CloseEventUnguarded(i) ==
    /\ step[i] = "watching"
    /\ HasClosed(i)
    /\ step' = [step EXCEPT ![i] = "done"]
    /\ hinted' = [hinted EXCEPT ![i] = TRUE]
    /\ SettleNull(i)
    /\ UNCHANGED <<serverVars, opts, request, line, read, made>>

\* Mutant: there is no listener; the promise is left hanging.
CloseEventUnheard(i) ==
    /\ step[i] = "watching"
    /\ HasClosed(i)
    /\ settled[i] # NoResult
    /\ step' = [step EXCEPT ![i] = "done"]
    /\ UNCHANGED <<serverVars, opts, request, line, read, made, settled, shown,
                   hinted, exitCode>>

\* ws.on('close'), after which nothing keeps the process alive.
CloseEvent(i) ==
    /\ step[i] = "watching"
    /\ HasClosed(i)
    /\ step' = [step EXCEPT ![i] = "done"]
    /\ \/ settled[i] # NoResult /\ UNCHANGED <<settled, shown, exitCode, hinted>>
       \/ /\ settled[i] = NoResult
          /\ hinted' = [hinted EXCEPT ![i] = TRUE]
          /\ SettleNull(i)
    /\ UNCHANGED <<serverVars, opts, request, line, read, made>>

(***************************************************************************)
(* The network, external.                                                  *)
(***************************************************************************)
\* The connection is refused or reset; what was under way is lost.
Drop(i) ==
    /\ step[i] = "watching"
    /\ line[i] = "up"
    /\ line' = [line EXCEPT ![i] = "reset"]
    /\ UNCHANGED <<serverVars, opts, request, read, made, processVars>>

ServerSees(i) ==
    /\ line[i] = "reset"
    /\ Stream!ClientCloses(i)
    /\ UNCHANGED <<accepted, ending, cliVars>>

\* From here on neither end hears of the other.
FallsSilent(i) ==
    /\ Hears(i)
    /\ Stream!PeerVanishes(i)
    /\ UNCHANGED <<accepted, ending, cliVars>>

(***************************************************************************)
(* The run goes on.                                                        *)
(***************************************************************************)
RunEnds ==
    /\ accepted
    /\ Stream!FinishRun
    /\ ending' \in Endings(spawned, chunks)
    /\ UNCHANGED <<accepted, cliVars>>

Announce == Stream!Announce /\ UNCHANGED <<accepted, ending, cliVars>>

CloseCompletes(i) ==
    Stream!CloseCompletes(i) /\ UNCHANGED <<accepted, ending, cliVars>>

RunGoesOn ==
    /\ accepted
    /\ \/ Stream!OnSpawn \/ Stream!OnChunk \/ Stream!OnStats \/ Stream!Cleanup
    /\ UNCHANGED <<accepted, ending, cliVars>>

Begins(i) ==
    GivesUp(i) \/ Languages(i) \/ Ask(i) \/ Reconnect(i) \/ RunHere(i)

Local(i) == LocalFails(i) \/ LocalChunk(i) \/ LocalEnds(i)

Asks(i) ==
    Grant(i) \/ Refuse(i) \/ AskedInVain(i) \/ KeysAnswered(i) \/ Submitted(i)

Watches(i) == Connect(i) \/ Receive(i) \/ CloseEvent(i)

Network(i) ==
    Drop(i) \/ ErrorEvent(i) \/ ServerSees(i) \/ FallsSilent(i) \/ CloseCompletes(i)

Next ==
    \/ RunEnds \/ Announce \/ RunGoesOn
    \/ \E i \in Clients :
          Begins(i) \/ Local(i) \/ Asks(i) \/ Watches(i) \/ Network(i)

Spec == Init /\ [][Next]_vars

\* Frames and closes arrive, and the run's record is saved.  The run need not
\* end, and a silent line stays silent.
Fairness ==
    /\ WF_vars(Announce)
    /\ \A i \in Clients : WF_vars(Watches(i))

FairSpec == Spec /\ Fairness

(***************************************************************************)
(* Properties.                                                             *)
(***************************************************************************)
HasResult(i) == settled[i] \notin {NoResult, Null}

\* What a script may conclude from the exit code, in whatever order the frames,
\* the error and the close of the connection came in: zero means that the run
\* itself ended as "ok", that the result reached this invocation and that it was
\* not told to reconnect; and a result that arrived is never thrown away.
ExitIsTheVerdict ==
    \A i \in Clients :
        /\ (step[i] = "done" /\ opts[i].cmd = "run" /\ exitCode[i] = 0) =>
              settled[i].verdict = "ok" /\ ~hinted[i]
        /\ (HasResult(i) /\ opts[i].server) => settled[i] = ending
        /\ (\E n \in 1..read[i] : frames[i][n].type = "finished") =>
              HasResult(i) /\ ~hinted[i]

AttachedInTime(i) == opts[i].server => frames[i][1].type # "finished"

\* A failed set-up of the execute stage: either the shell could not join its
\* cgroup, and what it said was streamed, or the program exited with 91.
Doubled(result) == result.verdict = "setup_failed" /\ result.stage = "execute"

\* A result with output that was not streamed, and with none of the two verdicts
\* that are printed at the end: a compile stage that was cut short or not
\* launched, and a program that was not launched.
Unheard(result) ==
    /\ result.verdict \notin {"compile_error", "setup_failed"}
    /\ result.stage = "compile" \/ result.verdict = "spawn_failed"

\* What is printed of a result without --json.
Printed(result) ==
    IF Doubled(result) THEN result.output + result.output
    ELSE IF Unheard(result) THEN 0 ELSE result.output

\* An invocation that got a result has printed the whole output of the run, and
\* has printed it once: with --json always, and otherwise if it attached before
\* the run had ended, with two exceptions that are exactly these.  The output of
\* a failed set-up of the execute stage is printed twice, and output that was
\* not streamed is not printed at all unless the compiler reported an error or
\* the set-up of its stage failed.
OutputShownOnce ==
    \A i \in Clients :
        (HasResult(i) /\ (opts[i].json \/ AttachedInTime(i))) =>
            shown[i] = IF opts[i].json THEN settled[i].output
                       ELSE Printed(settled[i])

\* Once the run has ended, an invocation that watches it exits, however its
\* connection ends, unless the line has fallen silent: nothing on this side
\* would notice.
WatcherExits ==
    \A i \in Clients :
        (step[i] = "watching" /\ phase # "running")
            ~> (step[i] = "done" \/ peer[i] = "gone")

\* docs/cli.html, cli-test.mjs: a remote run shows its output as a local one
\* does, also one that is over when the client attaches.
OutputAlwaysShown ==
    \A i \in Clients : settled[i].verdict = "ok" => shown[i] = settled[i].output
=============================================================================
