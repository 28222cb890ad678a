----------------------------- MODULE SandboxRun -----------------------------
(***************************************************************************)
(* src/sandbox.mjs: run() and spawnInSandbox(), one run from its call to   *)
(* the settlement of its promise, in the environment that makes it hard:   *)
(* a guest that exits, is killed, writes too much, writes too often, hangs *)
(* or outlives its kill, a host on which any set-up step may fail, and     *)
(* timers that race the child's events.                                    *)
(*                                                                         *)
(* A language that is compiled goes through spawnInSandbox() twice: stage  *)
(* "compile" and stage "execute", each with a cgroup, a child, timers and  *)
(* locals of its own.  Time passes only while the code awaits the child:   *)
(* the file operations around it are taken to be instantaneous, and a      *)
(* timer that is due fires before time moves on (no event-loop delay).     *)
(* Output is counted in units, not spelled out.                            *)
(***************************************************************************)
EXTENDS Naturals

CONSTANTS
    WallClock,        \* lim.wallClockMs, in ticks
    CompileWallClock, \* COMPILE_LIMITS.wallClockMs, in ticks
    Grace,            \* hardStopGraceMs, in ticks
    OutputBytes,      \* lim.outputBytes, in units of output
    MaxChunks,        \* MAX_CHUNKS
    ChunkSizes,       \* the sizes of the chunks a pipe may deliver
    MessageSizes,     \* the lengths of the message of a failed spawn
    GuestCodes        \* the codes a guest may exit with

CGROUP_ASSIGN_FAILED == 91

ASSUME LimitsAssumption ==
    /\ WallClock \in Nat \ {0}
    /\ CompileWallClock \in Nat \ {0}
    /\ Grace \in Nat \ {0}
    /\ OutputBytes \in Nat
    /\ MaxChunks \in Nat
    /\ ChunkSizes \subseteq Nat \ {0}
    /\ MessageSizes \subseteq Nat \ {0}
    /\ GuestCodes \subseteq 0..255

\* null where an exit code is meant: a number no process can exit with.
NoCode == 256

NoSignal == "none"

VARIABLES
    spec,       \* IMAGES[language]: whether it has a compile stage
    stage,      \* which call of spawnInSandbox() is under way
    pc,         \* where run() stands
    hostDir,    \* the temporary directory exists
    cgroups,    \* the stages whose cgroup directory exists
    child,      \* "shell" before /bin/sh has joined the cgroup, "guest" after
    dying,      \* SIGKILL has been sent to the child
    status,     \* the code and the signal the dead child left
    clock,      \* ticks since the child was spawned
    elapsed,    \* ticks since run() was called
    soft, hard, \* the two timers
    exit,       \* what the promise of the exit was settled with
    out,        \* length of stdout + stderr
    chunks,     \* chunkCount
    truncated, verdict,
    streamed,   \* history: the output handed to onChunk()
    produced,   \* history: the output the pipes delivered to collect()
    oom,        \* oom_kill in memory.events is not zero
    entered,    \* history: the child of this stage joined its cgroup
    outcome,    \* what run() is about to return, or "throw"
    result      \* what its promise was settled with

childVars == <<child, dying, status, entered>>
timerVars == <<clock, elapsed, soft, hard>>
outputVars == <<out, chunks, truncated, streamed, produced>>
diskVars == <<hostDir, cgroups>>
vars == <<spec, stage, pc, diskVars, childVars, timerVars, exit, outputVars,
          verdict, oom, outcome, result>>

\* Mutant: both stages run under the caller's limits.
WallOfCaller(s) == WallClock

Wall(s) == IF s = "compile" THEN CompileWallClock ELSE WallClock

Pending == [verdict |-> "pending", code |-> NoCode, signal |-> NoSignal]

Thrown == [verdict |-> "thrown", code |-> NoCode, signal |-> NoSignal]

NoStatus == [code |-> NoCode, signal |-> NoSignal]

\* verdict ??= cause
Blame(cause) == verdict' = IF verdict = "none" THEN cause ELSE verdict

\* killCgroup(): everything that has joined the cgroup is sent SIGKILL.  A
\* shell that has not joined it yet is not reached.
killCgroup == dying' = (dying \/ child = "guest")

Init ==
    /\ spec \in {"interpreted", "compiled"}
    /\ stage = IF spec = "compiled" THEN "compile" ELSE "execute"
    /\ pc = "mkdtemp"
    /\ hostDir = FALSE
    /\ cgroups = {}
    /\ child = "none" /\ dying = FALSE /\ status = NoStatus /\ entered = FALSE
    /\ clock = 0 /\ elapsed = 0 /\ soft = "off" /\ hard = "off"
    /\ exit = NoStatus
    /\ out = 0 /\ chunks = 0 /\ truncated = FALSE
    /\ streamed = 0 /\ produced = 0
    /\ verdict = "none"
    /\ oom = FALSE
    /\ outcome = Pending
    /\ result = Pending

(***************************************************************************)
(* Set-up.  Each step may fail; the finally blocks decide what is undone.  *)
(***************************************************************************)
\* An unknown language and a failing mkdtemp() throw before the try block, when
\* there is nothing to undo.
MakeHostDir ==
    /\ pc = "mkdtemp"
    /\ \/ /\ hostDir' = TRUE
          /\ pc' = "write"
          /\ UNCHANGED result
       \/ /\ result' = Thrown
          /\ pc' = "done"
          /\ UNCHANGED hostDir
    /\ UNCHANGED <<spec, stage, cgroups, childVars, timerVars, exit,
                   outputVars, verdict, oom, outcome>>

Proceed(next) == pc' = next /\ UNCHANGED outcome

Throw(next) == pc' = next /\ outcome' = Thrown

WriteSource ==
    /\ pc = "write"
    /\ Proceed("prepare") \/ Throw("rmHostDir")
    /\ UNCHANGED <<spec, stage, diskVars, childVars, timerVars, exit,
                   outputVars, verdict, oom, result>>

\* ensureSeccompProgram() and ensureParentSlice(), before the try block of
\* spawnInSandbox().
Prepare ==
    /\ pc = "prepare"
    /\ Proceed("configure") \/ Throw("rmHostDir")
    /\ UNCHANGED <<spec, stage, diskVars, childVars, timerVars, exit,
                   outputVars, verdict, oom, result>>

\* configureCgroup(): the directory may be there although a write failed.
ConfigureCgroup ==
    /\ pc = "configure"
    /\ \/ cgroups' = cgroups \cup {stage} /\ Proceed("spawn")
       \/ cgroups' = cgroups \cup {stage} /\ Throw("kill")
       \/ cgroups' = cgroups /\ Throw("kill")
    /\ UNCHANGED <<spec, stage, hostDir, childVars, timerVars, exit,
                   outputVars, verdict, oom, result>>

\* spawn() and the two timers.  A spawn that fails throws, or leaves a child
\* that will only ever emit 'error'.
SpawnChild ==
    /\ pc = "spawn"
    /\ \/ /\ child' \in {"shell", "unlaunched"}
          /\ soft' = "armed" /\ hard' = "armed"
          /\ Proceed("await")
       \/ /\ Throw("kill")
          /\ UNCHANGED <<child, soft, hard>>
    /\ UNCHANGED <<spec, stage, diskVars, dying, status, entered, clock,
                   elapsed, exit, outputVars, verdict, oom, result>>

(***************************************************************************)
(* The child and the kernel.                                               *)
(***************************************************************************)
Alive == child \in {"shell", "guest"}

Dies(code, signal) ==
    /\ child' = "dead"
    /\ status' = [code |-> code, signal |-> signal]
    /\ UNCHANGED <<dying, entered>>

ChildStep ==
    UNCHANGED <<spec, stage, pc, diskVars, timerVars, exit, outputVars,
                verdict, outcome, result>>

\* echo $$ > cgroup.procs, and then the guest runs under bwrap; or the shell
\* gives up with CGROUP_ASSIGN_FAILED.
JoinCgroup ==
    /\ child = "shell"
    /\ ~dying
    /\ \/ child' = "guest" /\ entered' = TRUE /\ UNCHANGED <<dying, status>>
       \/ Dies(CGROUP_ASSIGN_FAILED, NoSignal)
    /\ UNCHANGED oom
    /\ ChildStep

GuestExit ==
    /\ child = "guest"
    /\ \E code \in GuestCodes : Dies(code, NoSignal)
    /\ UNCHANGED oom
    /\ ChildStep

\* The kernel kills a process of the cgroup for memory; the guest may go on.
OomKill ==
    /\ child = "guest"
    /\ ~oom
    /\ oom' = TRUE
    /\ UNCHANGED childVars
    /\ ChildStep

\* SIGKILL takes effect when the kernel gets to it: a process in an
\* uninterruptible wait outlives it.
Die ==
    /\ Alive
    /\ dying
    /\ Dies(NoCode, "SIGKILL")
    /\ UNCHANGED oom
    /\ ChildStep

\* An operator, or the kernel on the host's behalf, kills the child, be it
\* still the shell.
KilledFromOutside ==
    /\ Alive
    /\ ~dying
    /\ Dies(NoCode, "SIGKILL")
    /\ UNCHANGED oom
    /\ ChildStep

(***************************************************************************)
(* The events of the child and the timers.                                 *)
(***************************************************************************)
Least(a, b) == IF a < b THEN a ELSE b

\* Only a chunk that finds no room, or no chunk left to count, ends the run.
Keep(size, kept) ==
    LET noRoom == out >= OutputBytes
        noChunk == chunks >= MaxChunks
    IN  /\ pc = "await"
        /\ Alive \/ child = "dead"
        /\ ~truncated
        /\ produced' = produced + size
        /\ \/ /\ noRoom \/ noChunk
              /\ truncated' = TRUE
              /\ Blame(IF noRoom THEN "output_limit" ELSE "chunk_limit")
              /\ killCgroup
              /\ UNCHANGED <<out, chunks, streamed>>
           \/ /\ ~(noRoom \/ noChunk)
              /\ chunks' = chunks + 1
              /\ out' = out + kept
              /\ streamed' = IF stage = "execute" THEN streamed + kept
                             ELSE streamed
              /\ UNCHANGED <<truncated, verdict, dying>>
        /\ UNCHANGED <<spec, stage, pc, diskVars, child, status, entered,
                       timerVars, exit, oom, outcome, result>>

\* Mutant: the chunk is kept whole.
CollectUncut(size) == Keep(size, size)

\* collect(): the chunk is cut to the room that is left.
Collect(size) == Keep(size, Least(size, OutputBytes - out))

\* settle(): the timers are cleared, and what stands behind the await runs
\* next.
Settled(value) ==
    /\ exit' = value
    /\ pc' = "stats"
    /\ soft' = IF soft = "armed" THEN "cleared" ELSE soft
    /\ UNCHANGED <<clock, elapsed>>

\* 'close': the child is dead and its pipes have ended.
ChildClose ==
    /\ pc = "await"
    /\ child = "dead"
    /\ Settled(status)
    /\ hard' = "cleared"
    /\ UNCHANGED <<spec, stage, diskVars, childVars, outputVars, verdict, oom,
                   outcome, result>>

\* 'error': the child was never launched.  stderr = err.message, which is
\* neither cut to a cap nor handed to onChunk().
ChildError ==
    /\ pc = "await"
    /\ child = "unlaunched"
    /\ Blame("spawn_failed")
    /\ out' \in MessageSizes
    /\ Settled(NoStatus)
    /\ hard' = "cleared"
    /\ UNCHANGED <<spec, stage, diskVars, childVars, chunks, truncated,
                   streamed, produced, oom, outcome, result>>

SoftTimer ==
    /\ pc = "await"
    /\ soft = "armed"
    /\ clock >= Wall(stage)
    /\ soft' = "fired"
    /\ Blame("timeout")
    /\ killCgroup
    /\ UNCHANGED <<spec, stage, pc, diskVars, child, status, entered, clock,
                   elapsed, hard, exit, outputVars, oom, outcome, result>>

HardTimerFires ==
    /\ pc = "await"
    /\ hard = "armed"
    /\ clock >= Wall(stage) + Grace
    /\ hard' = "fired"
    /\ Blame("killed")
    /\ UNCHANGED <<spec, stage, diskVars, child, status, entered, outputVars,
                   oom, outcome, result>>

\* child.kill('SIGKILL') reaches the child also when it is not in the cgroup.
KillChild == dying' = (dying \/ Alive)

\* Mutant: the promise is settled but the child is not killed.
HardTimerWithoutKill ==
    HardTimerFires /\ UNCHANGED dying /\ Settled([code |-> NoCode, signal |-> "SIGKILL"])

\* Mutant: the child is killed and 'close' is waited for.
HardTimerWithoutSettle ==
    HardTimerFires /\ KillChild /\ UNCHANGED <<pc, clock, elapsed, soft, exit>>

HardTimer ==
    HardTimerFires /\ KillChild /\ Settled([code |-> NoCode, signal |-> "SIGKILL"])

\* Time passes while no timer is due.  The hard timer is armed for as long as
\* the child is awaited.
Tick ==
    /\ pc = "await"
    /\ child # "unlaunched"
    /\ ~(soft = "armed" /\ clock >= Wall(stage))
    /\ hard = "armed" /\ clock < Wall(stage) + Grace
    /\ clock' = clock + 1
    /\ elapsed' = elapsed + 1
    /\ UNCHANGED <<spec, stage, pc, diskVars, childVars, soft, hard, exit,
                   outputVars, verdict, oom, outcome, result>>

(***************************************************************************)
(* The verdict, and the way out.                                           *)
(***************************************************************************)
\* Mutant: the counters of the cgroup are looked at first.
FinalVerdictMemoryFirst ==
    IF oom THEN "memory_limit"
    ELSE IF verdict # "none" THEN verdict
    ELSE IF exit.code = CGROUP_ASSIGN_FAILED THEN "setup_failed"
    ELSE IF exit.signal # NoSignal THEN "killed"
    ELSE IF exit.code = 0 THEN "ok" ELSE "error"

\* Mutant: a clean exit is believed before the counters of the cgroup.
FinalVerdictExitFirst ==
    IF verdict # "none" THEN verdict
    ELSE IF exit.code = 0 THEN "ok"
    ELSE IF exit.code = CGROUP_ASSIGN_FAILED THEN "setup_failed"
    ELSE IF oom THEN "memory_limit"
    ELSE IF exit.signal # NoSignal THEN "killed" ELSE "error"

FinalVerdict ==
    IF verdict # "none" THEN verdict
    ELSE IF exit.code = CGROUP_ASSIGN_FAILED THEN "setup_failed"
    ELSE IF oom THEN "memory_limit"
    ELSE IF exit.signal # NoSignal THEN "killed"
    ELSE IF exit.code = 0 THEN "ok" ELSE "error"

\* The reads of the cgroup, the verdict and the value to return.  run()
\* relabels the error of a compiler.
ReadStats ==
    /\ pc = "stats"
    /\ verdict' = FinalVerdict
    /\ outcome' = [verdict |-> IF stage = "compile" /\ FinalVerdict = "error"
                               THEN "compile_error" ELSE FinalVerdict,
                   code    |-> exit.code,
                   signal  |-> exit.signal]
    /\ pc' = "kill"
    /\ UNCHANGED <<spec, stage, diskVars, childVars, timerVars, exit,
                   outputVars, oom, result>>

\* finally: killCgroup(), awaited.
KillLeftovers ==
    /\ pc = "kill"
    /\ killCgroup
    /\ pc' = "rmCgroup"
    /\ UNCHANGED <<spec, stage, diskVars, child, status, entered, timerVars,
                   exit, outputVars, verdict, oom, outcome, result>>

\* The second call of spawnInSandbox() has a child, timers and locals of its
\* own.
EnterExecute ==
    /\ stage' = "execute"
    /\ pc' = "prepare"
    /\ outcome' = Pending
    /\ child' = "none" /\ dying' = FALSE /\ status' = NoStatus
    /\ entered' = FALSE
    /\ clock' = 0 /\ soft' = "off" /\ hard' = "off" /\ exit' = NoStatus
    /\ out' = 0 /\ chunks' = 0 /\ truncated' = FALSE
    /\ streamed' = 0 /\ produced' = 0
    /\ verdict' = "none"
    /\ oom' = FALSE

\* finally: rm(cgroup).  The kernel refuses while a process is in it, and the
\* refusal is swallowed.  After a clean compile the guest is next.
RemoveCgroup ==
    /\ pc = "rmCgroup"
    /\ cgroups' = IF child = "guest" THEN cgroups ELSE cgroups \ {stage}
    /\ \/ /\ stage = "compile"
          /\ outcome.verdict = "ok"
          /\ EnterExecute
       \/ /\ ~(stage = "compile" /\ outcome.verdict = "ok")
          /\ pc' = "rmHostDir"
          /\ UNCHANGED <<stage, childVars, clock, soft, hard, exit, outputVars,
                         verdict, oom, outcome>>
    /\ UNCHANGED <<spec, hostDir, elapsed, result>>

\* run()'s own finally, and the promise is settled.
RemoveHostDir ==
    /\ pc = "rmHostDir"
    /\ hostDir' = FALSE
    /\ result' = outcome
    /\ pc' = "done"
    /\ UNCHANGED <<spec, stage, cgroups, childVars, timerVars, exit,
                   outputVars, verdict, oom, outcome>>

Setup == MakeHostDir \/ WriteSource \/ Prepare \/ ConfigureCgroup \/ SpawnChild

Child == JoinCgroup \/ GuestExit \/ OomKill \/ Die \/ KilledFromOutside

Events ==
    \/ \E size \in ChunkSizes : Collect(size)
    \/ ChildClose \/ ChildError \/ SoftTimer \/ HardTimer

Exit == ReadStats \/ KillLeftovers \/ RemoveCgroup \/ RemoveHostDir

Next == Setup \/ Child \/ Events \/ Tick \/ Exit

Spec == Init /\ [][Next]_vars

\* The event loop goes on, timers fire and time passes.  Nothing is asked of
\* the guest: it need not exit, write, or even die when it is killed.
Fairness ==
    /\ WF_vars(Setup) /\ WF_vars(Exit) /\ WF_vars(Tick)
    /\ WF_vars(ChildError) /\ WF_vars(SoftTimer) /\ WF_vars(HardTimer)

FairSpec == Spec /\ Fairness

(***************************************************************************)
(* Properties.                                                             *)
(***************************************************************************)
Verdicts == {"ok", "error", "timeout", "memory_limit", "output_limit",
             "chunk_limit", "killed", "compile_error", "setup_failed",
             "spawn_failed"}

Status == [code : 0..255 \cup {NoCode}, signal : {NoSignal, "SIGKILL"}]

Outcome == [verdict : Verdicts \cup {"pending", "thrown"},
            code : 0..255 \cup {NoCode}, signal : {NoSignal, "SIGKILL"}]

\* Every variable has its type.
TypeOK ==
    /\ spec \in {"interpreted", "compiled"}
    /\ stage \in {"compile", "execute"}
    /\ pc \in {"mkdtemp", "write", "prepare", "configure", "spawn", "await",
               "stats", "kill", "rmCgroup", "rmHostDir", "done"}
    /\ hostDir \in BOOLEAN
    /\ cgroups \subseteq {"compile", "execute"}
    /\ child \in {"none", "unlaunched", "shell", "guest", "dead"}
    /\ dying \in BOOLEAN /\ entered \in BOOLEAN
    /\ status \in Status /\ exit \in Status
    /\ clock \in Nat /\ elapsed \in Nat
    /\ soft \in {"off", "armed", "fired", "cleared"}
    /\ hard \in {"off", "armed", "fired", "cleared"}
    /\ out \in Nat /\ chunks \in Nat
    /\ streamed \in Nat /\ produced \in Nat
    /\ truncated \in BOOLEAN
    /\ verdict \in Verdicts \cup {"none"}
    /\ oom \in BOOLEAN
    /\ outcome \in Outcome /\ result \in Outcome

\* The supervisor itself ended the stage: it timed out or overflowed.
CutShort == soft = "fired" \/ truncated

Answered == result.verdict # "pending"

\* A run that the supervisor cut short says so, and says why: it is never
\* reported as a success, as the guest's own error, as out of memory or as
\* killed by somebody else, however its death and the timers interleave.
CutShortIsReported ==
    (Answered /\ CutShort) =>
        result.verdict \in {"timeout", "output_limit", "chunk_limit"}

\* The verdict is true of how the child ended.  "ok" is only said of a guest
\* that joined its cgroup, exited with zero by itself, was never killed for
\* memory and was not cut short, and never of a program whose compile stage was
\* the last one to run; an error is the guest's own; "killed" is said of a child
\* that nothing here killed, before or after it joined its cgroup;
\* "setup_failed" is said of a child that could not join its cgroup, and of a
\* guest that exits with the same code.
VerdictFitsTheExit ==
    LET is(v) == result.verdict = v
        byItself == entered /\ status.signal = NoSignal /\ ~oom /\ ~CutShort
    IN  /\ is("ok") => byItself /\ status.code = 0 /\ stage = "execute"
        /\ is("error") => byItself /\ status.code # 0 /\ stage = "execute"
        /\ is("compile_error") => byItself /\ status.code # 0 /\ stage = "compile"
        /\ is("memory_limit") => entered /\ oom
        /\ is("killed") => ~oom /\ ~CutShort /\ status.signal = "SIGKILL"
        /\ is("spawn_failed") => child = "unlaunched"
        /\ is("setup_failed") => status.code = CGROUP_ASSIGN_FAILED
        /\ (Answered /\ child = "dead" /\ ~entered /\ ~CutShort) =>
              is(IF status.signal = NoSignal THEN "setup_failed" ELSE "killed")

\* The output of a child that was launched stays within both caps, and
\* onChunk() was given exactly what the result carries, of the execute stage,
\* and nothing of the compile stage.  Output is lost only by a run that says so,
\* or in the chunk that fills the cap, which a run may end with and be "ok".
\* The result of a child that was not launched carries the error's message and
\* no output: no cap applies to it, and onChunk() is not given it in any stage.
OutputBounded ==
    /\ chunks <= MaxChunks
    /\ verdict # "spawn_failed" =>
          /\ out <= OutputBytes
          /\ (~truncated /\ produced > out) => out = OutputBytes
          /\ streamed = IF stage = "execute" THEN out ELSE 0
    /\ verdict = "spawn_failed" =>
          /\ out \in MessageSizes
          /\ produced = 0 /\ chunks = 0 /\ streamed = 0

\* run() is over within its wall clock and the grace, to which a compiler adds
\* its own wall clock and no second grace: a compiler that needed any of it is
\* not followed by the program.
DeadlineKept ==
    elapsed <= WallClock + Grace
                 + (IF spec = "compiled" THEN CompileWallClock ELSE 0)

\* When run() has answered, however it ended, the host directory is gone; no
\* process of it goes on: it is dead, or SIGKILL is on its way, also if it never
\* joined the cgroup; and a cgroup is only left behind by a run the hard timer
\* had to end.
NothingLeftBehind ==
    pc = "done" =>
        /\ ~hostDir
        /\ Alive => dying
        /\ cgroups # {} => (hard = "fired" /\ cgroups = {stage})

\* run() always settles, whatever the guest does.
RunSettles == <>(pc = "done")
=============================================================================
