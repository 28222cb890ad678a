-------------------------- MODULE SandboxRunProofs --------------------------
(***************************************************************************)
(* Proofs about SandboxRun, for any deadlines, caps, chunks and exit codes, *)
(* and, in the last part, about the input of the child it spawns.          *)
(*                                                                         *)
(* The invariant follows the call through three parts: before the child is *)
(* awaited nothing has happened that would have to be told apart; while it *)
(* is awaited a verdict is set exactly when the supervisor has cut the run *)
(* short; and after that what the promise was settled with is what the     *)
(* child left, unless the run was cut short or there never was a child.    *)
(***************************************************************************)
EXTENDS SandboxRun, GuestStdin, TLAPS

Before == pc \in {"mkdtemp", "write", "prepare", "configure", "spawn"}

After == pc \in {"stats", "kill", "rmCgroup", "rmHostDir", "done"}

Cuts == {"timeout", "output_limit", "chunk_limit"}

\* Nothing has been spawned, so nothing has been noticed.
Untouched ==
    /\ child = "none" /\ ~dying /\ ~entered /\ ~oom
    /\ soft = "off" /\ hard = "off" /\ ~truncated
    /\ clock = 0 /\ verdict = "none" /\ status = NoStatus

\* What is so in each part of the call.
Parts ==
    /\ Before => Untouched /\ outcome = Pending
    /\ pc = "await" => /\ child # "none" /\ outcome = Pending
                       /\ soft \in {"armed", "fired"} /\ hard = "armed"
    /\ pc = "stats" => child # "none"
    /\ (pc \in {"kill", "rmCgroup", "rmHostDir", "done"} /\ child = "none")
          => Untouched /\ outcome.verdict \in {"pending", "thrown"}
    /\ pc # "done" => result = Pending
    /\ (pc = "done" /\ child # "none") => result = outcome
    /\ (pc = "done" /\ child = "none") => result.verdict \in {"pending", "thrown"}
    /\ stage = "compile" => spec = "compiled"

\* The child, and what it leaves.
ChildKept ==
    /\ child \in {"none", "unlaunched", "shell"} => ~entered
    /\ child = "guest" => entered
    /\ oom => entered
    /\ child # "dead" => status = NoStatus
    /\ child = "unlaunched" => clock = 0 /\ ~CutShort /\ ~dying /\ ~oom
    /\ (child = "dead" /\ status.signal = NoSignal) =>
          IF entered THEN status.code \in 0..255
          ELSE status.code = CGROUP_ASSIGN_FAILED
    /\ status.signal # NoSignal => status.code = NoCode
    /\ (After /\ Alive) => hard = "fired"
    /\ (hard = "fired" /\ Alive) => dying
    /\ hard = "fired" => CutShort
    /\ (dying /\ ~After) => CutShort

\* The clocks.
TimeKept ==
    /\ clock <= Wall(stage) + Grace
    /\ soft # "fired" => clock <= Wall(stage)
    /\ elapsed <= clock + (IF spec = "compiled" /\ stage = "execute"
                           THEN CompileWallClock ELSE 0)

\* The verdict while the child is awaited, and when the await is over.
VerdictKept ==
    /\ pc = "await" => verdict = "none" \/ verdict \in Cuts
    /\ CutShort => verdict \in Cuts
    /\ (verdict # "none" /\ pc \in {"await", "stats"}) =>
          \/ CutShort
          \/ verdict = "spawn_failed" /\ child = "unlaunched" /\ pc = "stats"
    /\ (pc = "stats" /\ ~CutShort) =>
          \/ child = "dead" /\ exit = status
          \/ child = "unlaunched" /\ verdict = "spawn_failed"

\* Until a child that can write has been launched there is no output; and a
\* failed launch is told by its message alone.
OutputKept ==
    /\ (Before \/ (pc = "await" /\ child = "unlaunched")) =>
          out = 0 /\ chunks = 0 /\ produced = 0 /\ streamed = 0
    /\ OutputBounded

\* What the outcome says is true of the child.
Fits(o) ==
    LET is(v) == o.verdict = v
        byItself == /\ child = "dead" /\ entered
                    /\ status.signal = NoSignal /\ ~oom /\ ~CutShort
    IN  /\ is("ok") => byItself /\ status.code = 0
        /\ is("error") => byItself /\ status.code # 0 /\ stage = "execute"
        /\ is("compile_error") => byItself /\ status.code # 0 /\ stage = "compile"
        /\ is("memory_limit") => entered /\ oom
        /\ is("killed") => ~oom /\ ~CutShort /\ status.signal = "SIGKILL"
        /\ is("spawn_failed") => child = "unlaunched"
        /\ is("setup_failed") => status.code = CGROUP_ASSIGN_FAILED
        /\ (child = "dead" /\ ~entered /\ ~CutShort) =>
              is(IF status.signal = NoSignal THEN "setup_failed" ELSE "killed")
        /\ CutShort => o.verdict \in Cuts

OutcomeFits ==
    /\ (pc \in {"kill", "rmCgroup", "rmHostDir", "done"} /\ child # "none")
          => Fits(outcome)
    /\ (pc \in {"rmHostDir", "done"} /\ stage = "compile") => outcome.verdict # "ok"

\* The directories.
DisksKept ==
    /\ pc \in {"mkdtemp", "done"} => ~hostDir
    /\ cgroups \subseteq {stage}
    /\ pc \in {"mkdtemp", "write", "prepare", "configure"} => cgroups = {}
    /\ (pc \in {"rmHostDir", "done"} /\ cgroups # {}) => hard = "fired"

IInv ==
    /\ TypeOK /\ Parts /\ ChildKept /\ TimeKept /\ VerdictKept /\ OutcomeFits
    /\ DisksKept /\ OutputKept

\* The steps, as the proofs take them.
LEMMA StepCases ==
    ASSUME Next
    PROVE  \/ Setup \/ Child \/ (\E size \in ChunkSizes : Collect(size))
           \/ ChildClose \/ ChildError \/ SoftTimer \/ HardTimer \/ Tick
           \/ ReadStats \/ KillLeftovers \/ RemoveCgroup \/ RemoveHostDir
BY DEF Next, Events, Exit

\* The records of the model are of their types.
LEMMA StatusTypes ==
    ASSUME NEW c \in 0..255 \cup {NoCode}, NEW s \in {NoSignal, "SIGKILL"}
    PROVE  [code |-> c, signal |-> s] \in Status
BY DEF Status

LEMMA RecordTypes ==
    NoStatus \in Status /\ Pending \in Outcome /\ Thrown \in Outcome
<1>1. NoCode \in 0..255 \cup {NoCode} /\ NoSignal \in {NoSignal, "SIGKILL"}
  OBVIOUS
<1> QED
  BY <1>1 DEF NoStatus, Pending, Thrown, Status, Outcome

\* Every step keeps the types.
LEMMA TypeStep ==
    ASSUME TypeOK, Next
    PROVE  TypeOK'
<1> USE DEF TypeOK, childVars, timerVars, outputVars, diskVars
<1>1. CASE Setup
  <2>1. CASE MakeHostDir
    <3>1. hostDir' \in BOOLEAN /\ pc' \in {"write", "done"} /\ result' \in Outcome
      BY <2>1, RecordTypes DEF MakeHostDir
    <3>2. UNCHANGED <<spec, stage, cgroups, childVars, timerVars, exit,
                      outputVars, verdict, oom, outcome>>
      BY <2>1 DEF MakeHostDir
    <3> QED
      BY <3>1, <3>2
  <2>2. CASE WriteSource
    BY <2>2, RecordTypes DEF WriteSource, Proceed, Throw
  <2>3. CASE Prepare
    BY <2>3, RecordTypes DEF Prepare, Proceed, Throw
  <2>4. CASE ConfigureCgroup
    <3>1. /\ cgroups' \subseteq {"compile", "execute"}
          /\ pc' \in {"spawn", "kill"} /\ outcome' \in Outcome
      BY <2>4, RecordTypes DEF ConfigureCgroup, Proceed, Throw
    <3>2. UNCHANGED <<spec, stage, hostDir, childVars, timerVars, exit,
                      outputVars, verdict, oom, result>>
      BY <2>4 DEF ConfigureCgroup
    <3> QED
      BY <3>1, <3>2
  <2>5. CASE SpawnChild
    BY <2>5, RecordTypes DEF SpawnChild, Proceed, Throw
  <2> QED
    BY <1>1, <2>1, <2>2, <2>3, <2>4, <2>5 DEF Setup
<1>2. CASE Child
  <2>1. ASSUME NEW c \in 0..255 \cup {NoCode}, NEW s \in {NoSignal, "SIGKILL"},
               Dies(c, s), ChildStep, oom' = oom
        PROVE  TypeOK'
    <3>1. child' = "dead" /\ status' \in Status
      BY <2>1, StatusTypes DEF Dies
    <3>2. UNCHANGED <<dying, entered, oom, spec, stage, pc, diskVars, timerVars,
                      exit, outputVars, verdict, outcome, result>>
      BY <2>1 DEF Dies, ChildStep
    <3> QED
      BY <3>1, <3>2
  <2>2. CASE JoinCgroup
    <3>1. CGROUP_ASSIGN_FAILED \in 0..255
      BY DEF CGROUP_ASSIGN_FAILED
    <3>2. CASE Dies(CGROUP_ASSIGN_FAILED, NoSignal)
      BY <2>1, <2>2, <3>1, <3>2 DEF JoinCgroup
    <3>3. CASE child' = "guest" /\ entered' = TRUE /\ UNCHANGED <<dying, status>>
      BY <2>2, <3>3 DEF JoinCgroup, ChildStep
    <3> QED
      BY <2>2, <3>2, <3>3 DEF JoinCgroup
  <2>3. CASE GuestExit
    BY <2>1, <2>3, LimitsAssumption DEF GuestExit
  <2>4. CASE OomKill
    BY <2>4 DEF OomKill, ChildStep
  <2>5. CASE Die \/ KilledFromOutside
    BY <2>1, <2>5 DEF Die, KilledFromOutside
  <2> QED
    BY <1>2, <2>2, <2>3, <2>4, <2>5 DEF Child
<1>3. CASE \E size \in ChunkSizes : Collect(size)
  <2>1. PICK size \in ChunkSizes : Collect(size)
    BY <1>3
  <2>2. size \in Nat /\ (out < OutputBytes => Least(size, OutputBytes - out) \in Nat)
    BY LimitsAssumption DEF Least
  <2>3. CASE out >= OutputBytes \/ chunks >= MaxChunks
    <3>1. /\ produced' = produced + size /\ truncated' = TRUE
          /\ UNCHANGED <<out, chunks, streamed>>
          /\ UNCHANGED <<spec, stage, pc, diskVars, child, status, entered,
                         timerVars, exit, oom, outcome, result>>
      BY <2>1, <2>3 DEF Collect, Keep
    <3>2. dying' \in BOOLEAN
      BY <2>1, <2>3 DEF Collect, Keep, killCgroup
    <3>3. verdict' \in Verdicts \cup {"none"}
      BY <2>1, <2>3 DEF Collect, Keep, Blame, Verdicts
    <3> QED
      BY <2>2, <3>1, <3>2, <3>3
  <2>4. CASE ~(out >= OutputBytes \/ chunks >= MaxChunks)
    <3>1. Least(size, OutputBytes - out) \in Nat
      BY <2>2, <2>4, LimitsAssumption
    <3>2. /\ produced' = produced + size
          /\ chunks' = chunks + 1
          /\ out' = out + Least(size, OutputBytes - out)
          /\ streamed' \in {streamed, streamed + Least(size, OutputBytes - out)}
          /\ UNCHANGED <<truncated, verdict, dying>>
          /\ UNCHANGED <<spec, stage, pc, diskVars, child, status, entered,
                         timerVars, exit, oom, outcome, result>>
      BY <2>1, <2>4 DEF Collect, Keep
    <3> QED
      BY <2>2, <3>1, <3>2
  <2> QED
    BY <2>3, <2>4
<1>4. CASE ChildClose
  BY <1>4 DEF ChildClose, Settled
<1>5. CASE ChildError
  <2>1. out' \in Nat
    BY <1>5, LimitsAssumption DEF ChildError
  <2> QED
    BY <1>5, <2>1, RecordTypes DEF ChildError, Settled, Blame, Verdicts
<1>6. CASE SoftTimer
  BY <1>6 DEF SoftTimer, Blame, killCgroup, Verdicts
<1>7. CASE HardTimer
  <2>1. [code |-> NoCode, signal |-> "SIGKILL"] \in Status
    BY StatusTypes
  <2> QED
    BY <1>7, <2>1 DEF HardTimer, HardTimerFires, KillChild, Settled, Blame,
                      Alive, Verdicts
<1>8. CASE Tick
  BY <1>8 DEF Tick
<1>9. CASE ReadStats
  <2>1. FinalVerdict \in Verdicts /\ "compile_error" \in Verdicts
    BY DEF FinalVerdict, Verdicts
  <2>2. outcome' \in Outcome
    BY <1>9, <2>1 DEF ReadStats, Status, Outcome
  <2> QED
    BY <1>9, <2>1, <2>2 DEF ReadStats
<1>10. CASE KillLeftovers
  BY <1>10 DEF KillLeftovers, killCgroup
<1>11. CASE RemoveCgroup
  <2>1. CASE EnterExecute
    BY <1>11, <2>1, RecordTypes DEF RemoveCgroup, EnterExecute
  <2>2. CASE ~EnterExecute
    BY <1>11, <2>2 DEF RemoveCgroup
  <2> QED
    BY <2>1, <2>2
<1>12. CASE RemoveHostDir
  <2>1. hostDir' \in BOOLEAN /\ pc' = "done" /\ result' \in Outcome
    BY <1>12 DEF RemoveHostDir
  <2>2. UNCHANGED <<spec, stage, cgroups, childVars, timerVars, exit,
                    outputVars, verdict, oom, outcome>>
    BY <1>12 DEF RemoveHostDir
  <2> QED
    BY <2>1, <2>2
<1> QED
  BY StepCases, <1>1, <1>2, <1>3, <1>4, <1>5, <1>6, <1>7, <1>8, <1>9, <1>10,
     <1>11, <1>12

\* Every step keeps the output within its caps, and the stream equal to what
\* is kept; only the 'error' of a child that never ran replaces it.
LEMMA OutputStep ==
    ASSUME TypeOK, Parts, ChildKept, VerdictKept, OutputKept, Next
    PROVE  OutputKept'
<1> USE LimitsAssumption DEF OutputKept, OutputBounded, VerdictKept, TypeOK,
                             Parts, Before, Cuts, childVars, timerVars,
                             outputVars, diskVars
<1>1. CASE Setup
  BY <1>1 DEF Setup, MakeHostDir, WriteSource, Prepare, ConfigureCgroup,
              SpawnChild, Proceed, Throw, Thrown, Pending, Untouched
<1>2. CASE Child
  BY <1>2 DEF Child, JoinCgroup, GuestExit, OomKill, Die, KilledFromOutside,
              Dies, ChildStep, Alive
<1>3. CASE \E size \in ChunkSizes : Collect(size)
  BY <1>3 DEF Collect, Keep, Blame, killCgroup, Alive, Least
<1>4. CASE ChildClose
  BY <1>4 DEF ChildClose, Settled
<1>5. CASE ChildError
  <2>1. verdict = "none"
    BY <1>5 DEF ChildError, ChildKept
  <2> QED
    BY <1>5, <2>1 DEF ChildError, Settled, Blame, NoStatus
<1>6. CASE SoftTimer
  BY <1>6 DEF SoftTimer, Blame, killCgroup
<1>7. CASE HardTimer
  BY <1>7 DEF HardTimer, HardTimerFires, KillChild, Settled, Blame, Alive
<1>8. CASE Tick
  BY <1>8 DEF Tick
<1>9. CASE ReadStats
  BY <1>9 DEF ReadStats, FinalVerdict
<1>10. CASE KillLeftovers
  BY <1>10 DEF KillLeftovers, killCgroup
<1>11. CASE RemoveCgroup
  BY <1>11 DEF RemoveCgroup, EnterExecute, Pending, NoStatus
<1>12. CASE RemoveHostDir
  BY <1>12 DEF RemoveHostDir
<1> QED
  BY StepCases, <1>1, <1>2, <1>3, <1>4, <1>5, <1>6, <1>7, <1>8, <1>9, <1>10,
     <1>11, <1>12

\* Every step leads from a part of the call to the same or the next one.
LEMMA PartsStep ==
    ASSUME TypeOK, Parts, OutcomeFits, Next
    PROVE  Parts'
<1> USE LimitsAssumption DEF Parts, Before, Untouched, childVars, timerVars,
                             outputVars, diskVars
<1>1. CASE Setup
  BY <1>1 DEF Setup, MakeHostDir, WriteSource, Prepare, ConfigureCgroup,
              SpawnChild, Proceed, Throw, Thrown, Pending
<1>2. CASE Child
  BY <1>2 DEF Child, JoinCgroup, GuestExit, OomKill, Die, KilledFromOutside,
              Dies, ChildStep, Alive
<1>3. CASE \E size \in ChunkSizes : Collect(size)
  BY <1>3 DEF Collect, Keep, Blame, killCgroup, Alive, Least
<1>4. CASE ChildClose
  BY <1>4 DEF ChildClose, Settled
<1>5. CASE ChildError
  BY <1>5 DEF ChildError, Settled, Blame, NoStatus
<1>6. CASE SoftTimer
  BY <1>6 DEF SoftTimer, Blame, killCgroup
<1>7. CASE HardTimer
  BY <1>7 DEF HardTimer, HardTimerFires, KillChild, Settled, Blame, Alive
<1>8. CASE Tick
  BY <1>8 DEF Tick
<1>9. CASE ReadStats
  BY <1>9 DEF ReadStats, FinalVerdict
<1>10. CASE KillLeftovers
  BY <1>10 DEF KillLeftovers, killCgroup
<1>11. CASE RemoveCgroup
  BY <1>11 DEF RemoveCgroup, EnterExecute, Pending, NoStatus
<1>12. CASE RemoveHostDir
  BY <1>12 DEF RemoveHostDir
<1> QED
  BY StepCases, <1>1, <1>2, <1>3, <1>4, <1>5, <1>6, <1>7, <1>8, <1>9, <1>10,
     <1>11, <1>12

\* No step runs past a deadline: before the execute stage only a compile stage
\* that was not cut short has used time.
LEMMA TimeStep ==
    ASSUME TypeOK, Parts, ChildKept, OutcomeFits, TimeKept, Next
    PROVE  TimeKept'
<1> USE LimitsAssumption DEF TimeKept, TypeOK, Parts, Before, Untouched, Wall,
                             childVars, timerVars, outputVars, diskVars
<1>1. CASE Setup
  BY <1>1 DEF Setup, MakeHostDir, WriteSource, Prepare, ConfigureCgroup,
              SpawnChild, Proceed, Throw, Thrown, Pending
<1>2. CASE Child
  BY <1>2 DEF Child, JoinCgroup, GuestExit, OomKill, Die, KilledFromOutside,
              Dies, ChildStep, Alive
<1>3. CASE \E size \in ChunkSizes : Collect(size)
  BY <1>3 DEF Collect, Keep, Blame, killCgroup, Alive, Least
<1>4. CASE ChildClose
  BY <1>4 DEF ChildClose, Settled
<1>5. CASE ChildError
  BY <1>5 DEF ChildError, Settled, Blame, NoStatus
<1>6. CASE SoftTimer
  BY <1>6 DEF SoftTimer, Blame, killCgroup
<1>7. CASE HardTimer
  BY <1>7 DEF HardTimer, HardTimerFires, KillChild, Settled, Blame, Alive
<1>8. CASE Tick
  BY <1>8 DEF Tick
<1>9. CASE ReadStats
  BY <1>9 DEF ReadStats, FinalVerdict
<1>10. CASE KillLeftovers
  BY <1>10 DEF KillLeftovers, killCgroup
<1>11. CASE RemoveCgroup
  <2>1. CASE EnterExecute
    <3>1. stage = "compile" /\ outcome.verdict = "ok" /\ UNCHANGED <<spec, elapsed>>
      BY <1>11, <2>1, Zenon DEF RemoveCgroup, EnterExecute
    <3>2. child # "none" /\ ~CutShort
      BY <1>11, <3>1, Zenon DEF RemoveCgroup, OutcomeFits, Fits
    <3>3. elapsed <= CompileWallClock
      BY <3>1, <3>2 DEF CutShort
    <3> QED
      BY <2>1, <3>1, <3>3 DEF EnterExecute
  <2>2. CASE ~EnterExecute
    BY <1>11, <2>2 DEF RemoveCgroup
  <2> QED
    BY <2>1, <2>2
<1>12. CASE RemoveHostDir
  BY <1>12 DEF RemoveHostDir
<1> QED
  BY StepCases, <1>1, <1>2, <1>3, <1>4, <1>5, <1>6, <1>7, <1>8, <1>9, <1>10,
     <1>11, <1>12

\* Every step keeps what is known of the child; only the hard timer stops
\* waiting for one that lives, and it has sent it SIGKILL.
LEMMA ChildStepKept ==
    ASSUME TypeOK, Parts, TimeKept, ChildKept, Next
    PROVE  ChildKept'
<1> USE LimitsAssumption DEF ChildKept, TypeOK, Parts, Before, After,
                             Untouched, CutShort, Alive, Status, NoCode,
                             NoSignal, NoStatus, CGROUP_ASSIGN_FAILED,
                             childVars, timerVars, outputVars, diskVars
<1>1. CASE Setup
  BY <1>1 DEF Setup, MakeHostDir, WriteSource, Prepare, ConfigureCgroup,
              SpawnChild, Proceed, Throw, Thrown, Pending
<1>2. CASE Child
  BY <1>2 DEF Child, JoinCgroup, GuestExit, OomKill, Die, KilledFromOutside,
              Dies, ChildStep, Alive
<1>3. CASE \E size \in ChunkSizes : Collect(size)
  BY <1>3 DEF Collect, Keep, Blame, killCgroup, Alive, Least
<1>4. CASE ChildClose
  BY <1>4 DEF ChildClose, Settled
<1>5. CASE ChildError
  BY <1>5 DEF ChildError, Settled, Blame, NoStatus
<1>6. CASE SoftTimer
  BY <1>6 DEF SoftTimer, Blame, killCgroup, Wall
<1>7. CASE HardTimer
  <2>1. soft = "fired"
    BY <1>7 DEF HardTimer, HardTimerFires, TimeKept, Wall
  <2> HIDE DEF TypeOK, Parts, ChildKept
  <2>2. /\ pc = "await" /\ pc' = "stats" /\ soft' = "fired" /\ hard' = "fired"
        /\ dying' = (dying \/ child \in {"shell", "guest"})
        /\ UNCHANGED <<child, status, entered, clock, truncated, oom>>
    BY <1>7, <2>1 DEF HardTimer, HardTimerFires, KillChild, Settled
  <2>3. CutShort' /\ child # "unlaunched"
    BY <2>1, <2>2 DEF ChildKept
  <2>4. (hard = "fired" /\ Alive)' => dying'
    BY <2>2
  <2> QED
    BY <2>2, <2>3, <2>4 DEF ChildKept
<1>8. CASE Tick
  BY <1>8 DEF Tick
<1>9. CASE ReadStats
  BY <1>9 DEF ReadStats, FinalVerdict
<1>10. CASE KillLeftovers
  BY <1>10 DEF KillLeftovers, killCgroup
<1>11. CASE RemoveCgroup
  BY <1>11 DEF RemoveCgroup, EnterExecute, Pending, NoStatus
<1>12. CASE RemoveHostDir
  BY <1>12 DEF RemoveHostDir
<1> QED
  BY StepCases, <1>1, <1>2, <1>3, <1>4, <1>5, <1>6, <1>7, <1>8, <1>9, <1>10,
     <1>11, <1>12

\* Every step keeps the verdict to what the supervisor has done so far.
LEMMA VerdictStep ==
    ASSUME TypeOK, Parts, TimeKept, ChildKept, VerdictKept, Next
    PROVE  VerdictKept'
<1> USE LimitsAssumption DEF VerdictKept, ChildKept, TypeOK, Parts, Before,
                             After, Untouched, CutShort, Cuts, NoStatus,
                             childVars, timerVars, outputVars, diskVars
<1>1. CASE Setup
  BY <1>1 DEF Setup, MakeHostDir, WriteSource, Prepare, ConfigureCgroup,
              SpawnChild, Proceed, Throw, Thrown, Pending
<1>2. CASE Child
  BY <1>2 DEF Child, JoinCgroup, GuestExit, OomKill, Die, KilledFromOutside,
              Dies, ChildStep, Alive
<1>3. CASE \E size \in ChunkSizes : Collect(size)
  BY <1>3 DEF Collect, Keep, Blame, killCgroup, Alive, Least
<1>4. CASE ChildClose
  BY <1>4 DEF ChildClose, Settled
<1>5. CASE ChildError
  BY <1>5 DEF ChildError, Settled, Blame, NoStatus
<1>6. CASE SoftTimer
  BY <1>6 DEF SoftTimer, Blame, killCgroup
<1>7. CASE HardTimer
  <2>1. soft = "fired"
    BY <1>7 DEF HardTimer, HardTimerFires, TimeKept, Wall
  <2> QED
    BY <1>7, <2>1 DEF HardTimer, HardTimerFires, KillChild, Settled, Blame,
                      Alive
<1>8. CASE Tick
  BY <1>8 DEF Tick
<1>9. CASE ReadStats
  BY <1>9 DEF ReadStats, FinalVerdict
<1>10. CASE KillLeftovers
  BY <1>10 DEF KillLeftovers, killCgroup
<1>11. CASE RemoveCgroup
  BY <1>11 DEF RemoveCgroup, EnterExecute, Pending, NoStatus
<1>12. CASE RemoveHostDir
  BY <1>12 DEF RemoveHostDir
<1> QED
  BY StepCases, <1>1, <1>2, <1>3, <1>4, <1>5, <1>6, <1>7, <1>8, <1>9, <1>10,
     <1>11, <1>12

\* The outcome fits the child when ReadStats makes it, and the steps after it
\* do not touch what it speaks of.
LEMMA OutcomeStep ==
    ASSUME TypeOK, Parts, ChildKept, VerdictKept, OutcomeFits, Next
    PROVE  OutcomeFits'
<1> USE LimitsAssumption DEF OutcomeFits, Fits, VerdictKept, ChildKept, TypeOK,
                             Parts, Before, After, Untouched, CutShort, Cuts,
                             Alive, Status, NoCode, NoSignal, NoStatus,
                             CGROUP_ASSIGN_FAILED, childVars, timerVars,
                             outputVars, diskVars
<1>1. CASE Setup
  BY <1>1 DEF Setup, MakeHostDir, WriteSource, Prepare, ConfigureCgroup,
              SpawnChild, Proceed, Throw, Thrown, Pending
<1>2. CASE Child
  BY <1>2 DEF Child, JoinCgroup, GuestExit, OomKill, Die, KilledFromOutside,
              Dies, ChildStep, Alive
<1>3. CASE \E size \in ChunkSizes : Collect(size)
  BY <1>3 DEF Collect, Keep, Blame, killCgroup, Alive, Least
<1>4. CASE ChildClose
  BY <1>4 DEF ChildClose, Settled
<1>5. CASE ChildError
  BY <1>5 DEF ChildError, Settled, Blame, NoStatus
<1>6. CASE SoftTimer
  BY <1>6 DEF SoftTimer, Blame, killCgroup
<1>7. CASE HardTimer
  BY <1>7 DEF HardTimer, HardTimerFires, KillChild, Settled, Blame, Alive
<1>8. CASE Tick
  BY <1>8 DEF Tick
<1>9. CASE ReadStats
  <2>1. /\ pc = "stats" /\ pc' = "kill" /\ child # "none"
        /\ outcome'.verdict = IF stage = "compile" /\ FinalVerdict = "error"
                              THEN "compile_error" ELSE FinalVerdict
        /\ UNCHANGED <<stage, child, status, entered, soft, truncated, oom>>
    BY <1>9 DEF ReadStats
  <2>2. CASE CutShort
    <3>1. FinalVerdict \in Cuts
      BY <2>1, <2>2 DEF FinalVerdict
    <3> QED
      BY <2>1, <2>2, <3>1
  <2>3. CASE ~CutShort /\ child = "unlaunched"
    <3>1. FinalVerdict = "spawn_failed"
      BY <2>1, <2>3 DEF FinalVerdict
    <3> QED
      BY <2>1, <2>3, <3>1
  <2>4. CASE ~CutShort /\ child # "unlaunched"
    <3>1. child = "dead" /\ exit = status /\ verdict = "none"
      BY <2>1, <2>4
    <3>2. CASE status.signal = NoSignal
      <4>1. CASE status.code = CGROUP_ASSIGN_FAILED
        BY <2>1, <2>4, <3>1, <3>2, <4>1 DEF FinalVerdict
      <4>2. CASE status.code # CGROUP_ASSIGN_FAILED
        <5>1. entered
          BY <3>1, <3>2, <4>2
        <5>2. FinalVerdict = IF oom THEN "memory_limit"
                             ELSE IF status.code = 0 THEN "ok" ELSE "error"
          BY <3>1, <3>2, <4>2 DEF FinalVerdict
        <5> QED
          BY <2>1, <2>4, <3>1, <3>2, <4>2, <5>1, <5>2
      <4> QED
        BY <4>1, <4>2
    <3>3. CASE status.signal # NoSignal
      <4>1. status.signal = "SIGKILL" /\ status.code # CGROUP_ASSIGN_FAILED
        BY <3>1, <3>3
      <4>2. FinalVerdict = IF oom THEN "memory_limit" ELSE "killed"
        BY <3>1, <3>3, <4>1 DEF FinalVerdict
      <4> QED
        BY <2>1, <2>4, <3>1, <3>3, <4>1, <4>2
    <3> QED
      BY <3>2, <3>3
  <2> QED
    BY <2>2, <2>3, <2>4
<1>10. CASE KillLeftovers
  BY <1>10 DEF KillLeftovers, killCgroup
<1>11. CASE RemoveCgroup
  BY <1>11 DEF RemoveCgroup, EnterExecute, Pending, NoStatus
<1>12. CASE RemoveHostDir
  BY <1>12 DEF RemoveHostDir
<1> QED
  BY StepCases, <1>1, <1>2, <1>3, <1>4, <1>5, <1>6, <1>7, <1>8, <1>9, <1>10,
     <1>11, <1>12

\* Every step accounts for the two directories.
LEMMA DisksStep ==
    ASSUME TypeOK, Parts, ChildKept, OutcomeFits, DisksKept, Next
    PROVE  DisksKept'
<1> USE LimitsAssumption DEF DisksKept, ChildKept, Parts, Before, After,
                             Untouched, Alive, childVars, timerVars,
                             outputVars, diskVars
<1>1. CASE Setup
  BY <1>1 DEF Setup, MakeHostDir, WriteSource, Prepare, ConfigureCgroup,
              SpawnChild, Proceed, Throw, Thrown, Pending
<1>2. CASE Child
  BY <1>2 DEF Child, JoinCgroup, GuestExit, OomKill, Die, KilledFromOutside,
              Dies, ChildStep, Alive
<1>3. CASE \E size \in ChunkSizes : Collect(size)
  BY <1>3 DEF Collect, Keep, Blame, killCgroup, Alive, Least
<1>4. CASE ChildClose
  BY <1>4 DEF ChildClose, Settled
<1>5. CASE ChildError
  BY <1>5 DEF ChildError, Settled, Blame, NoStatus
<1>6. CASE SoftTimer
  BY <1>6 DEF SoftTimer, Blame, killCgroup
<1>7. CASE HardTimer
  BY <1>7 DEF HardTimer, HardTimerFires, KillChild, Settled, Blame, Alive
<1>8. CASE Tick
  BY <1>8 DEF Tick
<1>9. CASE ReadStats
  BY <1>9 DEF ReadStats, FinalVerdict
<1>10. CASE KillLeftovers
  BY <1>10 DEF KillLeftovers, killCgroup
<1>11. CASE RemoveCgroup
  <2>1. CASE EnterExecute
    <3>1. stage = "compile" /\ outcome.verdict = "ok"
      BY <1>11, <2>1, Zenon DEF RemoveCgroup, EnterExecute
    <3>2. child = "dead"
      BY <1>11, <3>1, Zenon DEF RemoveCgroup, OutcomeFits, Fits
    <3>3. cgroups' = {} /\ hostDir' = hostDir /\ pc' = "prepare"
      BY <1>11, <2>1, <3>2 DEF RemoveCgroup, EnterExecute
    <3> QED
      BY <3>3
  <2>2. CASE ~EnterExecute
    BY <1>11, <2>2 DEF RemoveCgroup
  <2> QED
    BY <2>1, <2>2
<1>12. CASE RemoveHostDir
  BY <1>12 DEF RemoveHostDir
<1> QED
  BY StepCases, <1>1, <1>2, <1>3, <1>4, <1>5, <1>6, <1>7, <1>8, <1>9, <1>10,
     <1>11, <1>12

(***************************************************************************)
(* The invariant, and what it gives.                                       *)
(***************************************************************************)
\* A call that has not begun satisfies the invariant.
LEMMA InitInv == Init => IInv
<1> SUFFICES ASSUME Init PROVE IInv
  OBVIOUS
<1> USE LimitsAssumption DEF Init
<1>1. TypeOK
  BY RecordTypes DEF TypeOK, Verdicts
<1>2. Parts /\ OutcomeFits /\ DisksKept
  BY DEF Parts, Before, Untouched, OutcomeFits, DisksKept
<1>3. ChildKept /\ VerdictKept
  BY DEF ChildKept, VerdictKept, CutShort, After, Alive, NoStatus
<1>4. TimeKept
  BY DEF TimeKept, Wall
<1>5. OutputKept
  BY DEF OutputKept, OutputBounded
<1> QED
  BY <1>1, <1>2, <1>3, <1>4, <1>5 DEF IInv

\* Steps and stutters keep it.
LEMMA StepInv == IInv /\ [Next]_vars => IInv'
<1>1. ASSUME IInv, Next
      PROVE  IInv'
  BY <1>1, TypeStep, OutputStep, PartsStep, TimeStep, ChildStepKept,
     VerdictStep, OutcomeStep, DisksStep, Zenon DEF IInv
<1>2. ASSUME IInv, UNCHANGED vars
      PROVE  IInv'
  <2> USE <1>2 DEF IInv, vars, childVars, timerVars, outputVars, diskVars
  <2>1. TypeOK'
    BY DEF TypeOK
  <2>2. Parts' /\ DisksKept'
    BY Zenon DEF Parts, Before, Untouched, DisksKept
  <2>3. ChildKept' /\ VerdictKept'
    BY DEF ChildKept, VerdictKept, CutShort, After, Alive
  <2>4. TimeKept' /\ OutputKept'
    BY Zenon DEF TimeKept, OutputKept, OutputBounded, Before
  <2>5. OutcomeFits'
    BY DEF OutcomeFits, Fits, CutShort
  <2> QED
    BY <2>1, <2>2, <2>3, <2>4, <2>5
<1> QED
  BY <1>1, <1>2

\* So it holds throughout.
LEMMA Invariance == Spec => []IInv
<1> QED
  BY InitInv, StepInv, PTL DEF Spec

\* Every variable keeps its type: exit codes fit in a byte or are absent, and a
\* verdict is one the API documents.
THEOREM TypeCorrect == Spec => []TypeOK
<1>1. IInv => TypeOK
  BY DEF IInv
<1> QED
  BY Invariance, <1>1, PTL

\* collect() keeps the output within outputBytes and MAX_CHUNKS, loses none of
\* it silently below the cap, and hands onChunk() exactly what it keeps, or
\* nothing if it is a compiler's.  The message of a failed spawn is all there is
\* then, and is handed to nobody.
THEOREM OutputIsBounded == Spec => []OutputBounded
<1>1. IInv => OutputBounded
  BY DEF IInv, OutputKept
<1> QED
  BY Invariance, <1>1, PTL

\* run() settles within the wall clock and one grace, plus the compiler's own
\* wall clock: the hard timer of a compile stage that needed its grace is not
\* followed by a second stage.
THEOREM DeadlineIsKept == Spec => []DeadlineKept
<1>1. IInv => DeadlineKept
  BY LimitsAssumption DEF IInv, TypeOK, Parts, TimeKept, Wall, DeadlineKept
<1> QED
  BY Invariance, <1>1, PTL

\* A run whose soft timer fired or whose output overflowed is answered with
\* timeout, output_limit or chunk_limit, whatever came after.
THEOREM CutShortIsAlwaysReported == Spec => []CutShortIsReported
<1>1. IInv => CutShortIsReported
  <2> SUFFICES ASSUME IInv, Answered, CutShort
               PROVE  result.verdict \in Cuts
    BY DEF CutShortIsReported, Cuts
  <2>1. pc = "done" /\ child # "none"
    BY DEF IInv, Parts, Untouched, Answered, CutShort, Pending
  <2> QED
    BY <2>1 DEF IInv, Parts, OutcomeFits, Fits
<1> QED
  BY Invariance, <1>1, PTL

\* The verdict run() is settled with is true of how the child ended.
THEOREM VerdictAlwaysFits == Spec => []VerdictFitsTheExit
<1>1. IInv => VerdictFitsTheExit
  <2> SUFFICES ASSUME IInv
               PROVE  VerdictFitsTheExit
    OBVIOUS
  <2>1. CASE pc # "done"
    BY <2>1 DEF IInv, Parts, Pending, Answered, VerdictFitsTheExit
  <2>2. CASE pc = "done" /\ child = "none"
    BY <2>2 DEF IInv, Parts, VerdictFitsTheExit
  <2>3. CASE pc = "done" /\ child # "none"
    <3>1. result = outcome /\ Fits(result)
      BY <2>3, Zenon DEF IInv, Parts, OutcomeFits
    <3>2. stage = "compile" => result.verdict # "ok"
      BY <2>3, <3>1 DEF IInv, OutcomeFits
    <3>3. stage \in {"compile", "execute"}
      BY DEF IInv, TypeOK
    <3> QED
      BY <3>1, <3>2, <3>3 DEF Fits, VerdictFitsTheExit
  <2> QED
    BY <2>1, <2>2, <2>3
<1> QED
  BY Invariance, <1>1, PTL

\* When run() has answered, its host directory is gone, no process of it goes
\* on unkilled, and only a run the hard timer ended may leave its cgroup.
THEOREM NothingIsLeftBehind == Spec => []NothingLeftBehind
<1>1. IInv => NothingLeftBehind
  BY DEF IInv, TypeOK, Parts, ChildKept, DisksKept, After, Alive,
         NothingLeftBehind
<1> QED
  BY Invariance, <1>1, PTL

-----------------------------------------------------------------------------
(***************************************************************************)
(* What the child is given to read: GuestStdin, for any clients and texts. *)
(* The invariant says of each client what of its texts is on its way, what *)
(* has been written, and that the one comes after the other.               *)
(***************************************************************************)

Message == [by : Clients \cup {"body", "close"}, n : Nat]

InputTypeOK ==
    /\ attended \in BOOLEAN /\ body \in BOOLEAN
    /\ handle \in BOOLEAN /\ ended \in BOOLEAN
    /\ pipe \in Seq(Message)
    /\ guest \in {"none", "reading", "satisfied", "over"}
    /\ line \in [Clients -> {"up", "cut"}]
    /\ told \in [Clients -> BOOLEAN]
    /\ wire \in [Clients -> Seq(Message)]
    /\ sent \in [Clients -> Nat] /\ early \in [Clients -> Nat]
    /\ closes \in [Clients -> {"no", "early", "yes"}]

\* Who may write: nobody before the spawn, and the clients of the server's runs.
InputOpened ==
    /\ guest = "none" => ~handle /\ ~ended /\ pipe = <<>>
    /\ guest # "none" => handle = attended
    /\ guest # "none" => (body <=> pipe # <<>> /\ pipe[1] = Body)
    /\ \A c \in Clients : told[c] => handle
    /\ \A c \in Clients : wire[c] # <<>> => attended
    /\ ended => ~attended \/ \E c \in Clients : closes[c] # "no"

\* What a client has on its way: its texts, in order, and its closing.
OnTheWay(c) ==
    /\ \A n \in DOMAIN wire[c] :
          \/ wire[c][n] = Close /\ closes[c] # "no"
          \/ wire[c][n] = Text(c, wire[c][n].n) /\ wire[c][n].n \in 1..sent[c]
    /\ \A m \in DOMAIN wire[c] : \A n \in 1..(m - 1) :
          (wire[c][n] # Close /\ wire[c][m] # Close) => wire[c][n].n < wire[c][m].n

\* What of it has been written comes before what is still on its way.
Written(c) ==
    /\ \A n \in DOMAIN pipe : pipe[n].by = c => pipe[n].n <= sent[c]
    /\ \A n \in DOMAIN pipe : \A m \in DOMAIN wire[c] :
          (pipe[n].by = c /\ wire[c][m] # Close) => pipe[n].n < wire[c][m].n
    /\ (line[c] = "up" /\ ~ended /\ guest \in {"reading", "satisfied"})
          => Arrived(c) \subseteq WrittenBy(c)
    /\ ~told[c] => early[c] = sent[c]

PipeKept ==
    /\ \A m \in DOMAIN pipe : pipe[m].by \in Clients \/ (m = 1 /\ pipe[m] = Body)
    /\ \A m \in DOMAIN pipe : \A n \in 1..(m - 1) :
          pipe[m] # Body /\ (pipe[n].by = pipe[m].by => pipe[n].n < pipe[m].n)

InputIInv ==
    /\ InputTypeOK
    /\ InputOpened
    /\ PipeKept
    /\ \A c \in Clients : OnTheWay(c) /\ Written(c)

-----------------------------------------------------------------------------

\* What a longer sequence holds, and a shorter one.
LEMMA Longer ==
    ASSUME NEW S, NEW q \in Seq(S), NEW x \in S
    PROVE  /\ Append(q, x) \in Seq(S) /\ Append(q, x) # <<>>
           /\ DOMAIN q = 1..Len(q) /\ Len(q) \in Nat
           /\ DOMAIN Append(q, x) = 1..(Len(q) + 1)
           /\ \A n \in 1..Len(q) : Append(q, x)[n] = q[n] /\ q[n] \in S
           /\ Append(q, x)[Len(q) + 1] = x
OBVIOUS

LEMMA Shorter ==
    ASSUME NEW S, NEW q \in Seq(S), q # <<>>
    PROVE  /\ Tail(q) \in Seq(S) /\ Head(q) = q[1] /\ Head(q) \in S
           /\ DOMAIN q = 1..Len(q) /\ Len(q) \in Nat \ {0}
           /\ DOMAIN Tail(q) = 1..(Len(q) - 1)
           /\ \A n \in 1..(Len(q) - 1) : Tail(q)[n] = q[n + 1]
OBVIOUS

\* What the pipe holds are messages.
LEMMA PipeTexts ==
    ASSUME InputTypeOK
    PROVE  \A n \in DOMAIN pipe : pipe[n] \in Message /\ pipe[n].n \in Nat
<1>1. pipe \in Seq(Message)
  BY DEF InputTypeOK
<1>2. \A n \in DOMAIN pipe : pipe[n] \in Message
  BY <1>1
<1> QED
  BY <1>2 DEF Message

\* What is so for a client stays so when another one acts.
LEMMA Others ==
    ASSUME NEW d \in Clients, OnTheWay(d), Written(d),
           wire'[d] = wire[d], sent'[d] = sent[d], early'[d] = early[d],
           told'[d] = told[d], line'[d] = line[d], closes'[d] = closes[d],
           pipe' = pipe, ended' = ended, guest' = guest
    PROVE  OnTheWay(d)' /\ Written(d)'
<1>1. OnTheWay(d)'
  BY DEF OnTheWay
<1>2. Arrived(d)' = Arrived(d) /\ WrittenBy(d)' = WrittenBy(d)
  BY DEF Arrived, WrittenBy
<1>3. Written(d)'
  BY <1>2 DEF Written
<1> QED
  BY <1>1, <1>3

\* Nothing has been written or sent.
LEMMA InputBegin ==
    ASSUME TextsAssumption, InputInit
    PROVE  InputIInv
<1>1. InputTypeOK
  <2>1. <<>> \in Seq(Message)
    OBVIOUS
  <2> QED
    BY <2>1 DEF InputInit, InputTypeOK
<1>2. InputOpened /\ PipeKept
  BY DEF InputInit, InputOpened, PipeKept
<1>3. ASSUME NEW c \in Clients
      PROVE  OnTheWay(c) /\ Written(c)
  <2>1. wire[c] = <<>> /\ pipe = <<>> /\ guest = "none" /\ early[c] = sent[c]
    BY DEF InputInit
  <2>2. OnTheWay(c)
    BY <2>1 DEF OnTheWay
  <2>3. Written(c)
    BY <2>1 DEF Written
  <2> QED
    BY <2>2, <2>3
<1> QED
  BY <1>1, <1>2, <1>3 DEF InputIInv

\* The spawn writes the text of the run; no client has been told of the start.
LEMMA SpawnKept ==
    ASSUME TextsAssumption, InputIInv, Spawn
    PROVE  InputIInv'
<1> USE DEF Spawn, Spawned, runVars, clientVars
<1>1. Body \in Message
  BY DEF Body, Text, Message
<1>2. InputTypeOK'
  BY <1>1 DEF InputIInv, InputTypeOK
<1>3. InputOpened'
  BY DEF InputIInv, InputTypeOK, InputOpened
<1>4. PipeKept'
  BY DEF InputIInv, PipeKept
<1>5. ASSUME NEW c \in Clients
      PROVE  OnTheWay(c)' /\ Written(c)'
  <2>1. ~handle /\ ~told[c] /\ told'[c] = told[c]
    BY DEF InputIInv, InputOpened
  <2>2. early'[c] = sent'[c] /\ sent'[c] \in Nat
    BY <2>1 DEF InputIInv, Written, InputTypeOK
  <2>3. Arrived(c)' = {}
    BY <2>2 DEF Arrived
  <2>4. Body.by # c
    BY DEF Body, Text, TextsAssumption
  <2>5. \A n \in DOMAIN pipe' : pipe'[n] = Body
    OBVIOUS
  <2>6. Written(c)'
    BY <2>1, <2>2, <2>3, <2>4, <2>5 DEF Written
  <2> QED
    BY <2>6 DEF InputIInv, OnTheWay
<1> QED
  BY <1>2, <1>3, <1>4, <1>5 DEF InputIInv

LEMMA GuestKept ==
    ASSUME TextsAssumption, InputIInv,
           GuestReads \/ GuestSeesTheEnd \/ GuestStops
    PROVE  InputIInv'
<1> USE DEF GuestReads, GuestSeesTheEnd, GuestStops, Goes,
            runVars, pipeVars, clientVars
<1>1. guest \in {"reading", "satisfied"} /\ guest' \in {"reading", "satisfied", "over"}
  OBVIOUS
<1>2. /\ attended' = attended /\ body' = body /\ handle' = handle
      /\ pipe' = pipe /\ ended' = ended
      /\ line' = line /\ told' = told /\ wire' = wire /\ sent' = sent
      /\ early' = early /\ closes' = closes
  OBVIOUS
<1>3. InputTypeOK'
  BY <1>1, <1>2 DEF InputIInv, InputTypeOK
<1>4. InputOpened' /\ PipeKept'
  BY <1>1, <1>2 DEF InputIInv, InputOpened, PipeKept
<1>5. \A c \in Clients : OnTheWay(c)' /\ Written(c)'
  BY <1>1, <1>2 DEF InputIInv, OnTheWay, Written, Arrived, WrittenBy
<1> QED
  BY <1>3, <1>4, <1>5 DEF InputIInv

LEMMA TellKept ==
    ASSUME TextsAssumption, InputIInv, NEW c \in Clients, Tell(c)
    PROVE  InputIInv'
<1> USE DEF Tell, runVars, pipeVars, guestVars
<1>1. InputTypeOK'
  BY DEF InputIInv, InputTypeOK
<1>2. InputOpened' /\ PipeKept'
  BY DEF InputIInv, InputTypeOK, InputOpened, PipeKept
<1>3. ASSUME NEW d \in Clients
      PROVE  OnTheWay(d)' /\ Written(d)'
  <2>1. told[d] => told'[d]
    BY DEF InputIInv, InputTypeOK
  <2> QED
    BY <2>1 DEF InputIInv, OnTheWay, Written, Arrived, WrittenBy
<1> QED
  BY <1>1, <1>2, <1>3 DEF InputIInv

\* A text has a number, the closing has none.
LEMMA MessageKinds ==
    ASSUME NEW c \in Clients, NEW n \in Nat \ {0}
    PROVE  /\ Text(c, n) \in Message /\ Text(c, n) # Close
           /\ Text(c, n).by = c /\ Text(c, n).n = n
           /\ Close \in Message
BY DEF Text, Close, Message

\* A text is numbered after those that were sent.
LEMMA SendKept ==
    ASSUME TextsAssumption, InputIInv, NEW c \in Clients, SendStdin(c)
    PROVE  InputIInv'
<1> USE DEF SendStdin, Sends, runVars, pipeVars, guestVars
<1> DEFINE text == Text(c, sent[c] + 1)
<1>1. sent[c] \in Nat /\ wire[c] \in Seq(Message) /\ c \in DOMAIN wire
  BY DEF InputIInv, InputTypeOK
<1>2. text \in Message /\ text # Close /\ text.by = c /\ text.n = sent[c] + 1
  BY <1>1, MessageKinds
<1>3. /\ wire'[c] = Append(wire[c], text) /\ sent'[c] = sent[c] + 1
      /\ early'[c] = IF told[c] THEN early[c] ELSE early[c] + 1
      /\ early[c] \in Nat
      /\ attended
      /\ \A d \in Clients \ {c} :
            wire'[d] = wire[d] /\ sent'[d] = sent[d] /\ early'[d] = early[d]
  BY DEF InputIInv, InputTypeOK
<1>4. /\ Append(wire[c], text) \in Seq(Message) /\ Append(wire[c], text) # <<>>
      /\ DOMAIN wire[c] = 1..Len(wire[c]) /\ Len(wire[c]) \in Nat
      /\ DOMAIN Append(wire[c], text) = 1..(Len(wire[c]) + 1)
      /\ \A n \in 1..Len(wire[c]) : Append(wire[c], text)[n] = wire[c][n] /\ wire[c][n] \in Message
      /\ Append(wire[c], text)[Len(wire[c]) + 1] = text
  <2> HIDE DEF text
  <2> QED
    BY <1>1, <1>2, Longer
<1>5. InputTypeOK'
  <2>1. wire' \in [Clients -> Seq(Message)]
    BY <1>1, <1>4 DEF InputIInv, InputTypeOK
  <2>2. sent' \in [Clients -> Nat] /\ early' \in [Clients -> Nat]
    BY DEF InputIInv, InputTypeOK
  <2> QED
    BY <2>1, <2>2 DEF InputIInv, InputTypeOK
<1>6. InputOpened'
  BY <1>3 DEF InputIInv, InputOpened
<1>7. PipeKept'
  BY DEF InputIInv, PipeKept
<1>8. OnTheWay(c) /\ Written(c) /\ closes' = closes /\ pipe' = pipe /\ told' = told
      /\ guest' = guest /\ ended' = ended /\ line' = line
  BY DEF InputIInv
<1> HIDE DEF text
<1>9. \A n \in DOMAIN wire'[c] :
         \/ n \in DOMAIN wire[c] /\ wire'[c][n] = wire[c][n] /\ wire[c][n] \in Message
         \/ n = Len(wire[c]) + 1 /\ wire'[c][n] = text
  BY <1>3, <1>4
<1>10. OnTheWay(c)'
  <2>1. \A n \in DOMAIN wire[c] :
           \/ wire[c][n] = Close /\ closes[c] # "no"
           \/ wire[c][n] = Text(c, wire[c][n].n) /\ wire[c][n].n \in 1..sent[c]
    BY <1>8 DEF OnTheWay
  <2>2. text = Text(c, text.n) /\ text.n \in 1..sent'[c]
    BY <1>1, <1>2, <1>3 DEF text
  <2>3. ASSUME NEW n \in DOMAIN wire'[c]
        PROVE  \/ wire'[c][n] = Close /\ closes'[c] # "no"
               \/ wire'[c][n] = Text(c, wire'[c][n].n) /\ wire'[c][n].n \in 1..sent'[c]
    <3>1. CASE n \in DOMAIN wire[c] /\ wire'[c][n] = wire[c][n]
      BY <3>1, <2>1, <1>1, <1>3, <1>8
    <3>2. CASE n = Len(wire[c]) + 1 /\ wire'[c][n] = text
      BY <3>2, <2>2
    <3> QED
      BY <3>1, <3>2, <1>9
  <2>4. ASSUME NEW m \in DOMAIN wire'[c], NEW n \in 1..(m - 1),
               wire'[c][n] # Close, wire'[c][m] # Close
        PROVE  wire'[c][n].n < wire'[c][m].n
    <3>1. n \in DOMAIN wire[c] /\ wire'[c][n] = wire[c][n]
      BY <1>3, <1>4
    <3>2. CASE m \in DOMAIN wire[c] /\ wire'[c][m] = wire[c][m]
      BY <3>1, <3>2, <2>4, <1>8 DEF OnTheWay
    <3>3. CASE m = Len(wire[c]) + 1 /\ wire'[c][m] = text
      <4>1. wire[c][n].n \in 1..sent[c]
        BY <3>1, <2>1, <2>4
      <4> QED
        BY <4>1, <3>1, <3>3, <1>1, <1>2
    <3> QED
      BY <3>2, <3>3, <1>9
  <2> QED
    BY <2>3, <2>4 DEF OnTheWay
<1>11. Written(c)'
  <2>1. \A n \in DOMAIN pipe :
           pipe[n].n \in Nat /\ (pipe[n].by = c => pipe[n].n <= sent[c])
    BY <1>8, PipeTexts DEF Written, InputIInv
  <2>2. \A n \in DOMAIN pipe' : pipe'[n].by = c => pipe'[n].n <= sent'[c]
    BY <2>1, <1>1, <1>3, <1>8
  <2>3. ASSUME NEW n \in DOMAIN pipe', NEW m \in DOMAIN wire'[c],
               pipe'[n].by = c, wire'[c][m] # Close
        PROVE  pipe'[n].n < wire'[c][m].n
    <3>1. CASE m \in DOMAIN wire[c] /\ wire'[c][m] = wire[c][m]
      BY <3>1, <2>3, <1>8 DEF Written
    <3>2. CASE m = Len(wire[c]) + 1 /\ wire'[c][m] = text
      BY <3>2, <2>1, <2>3, <1>1, <1>2, <1>8
    <3> QED
      BY <3>1, <3>2, <1>9
  <2>4. Arrived(c)' \subseteq Arrived(c)
    <3> SUFFICES ASSUME NEW n \in Arrived(c)'
                 PROVE  n \in Arrived(c)
      OBVIOUS
    <3>1. /\ n \in (early'[c] + 1)..sent'[c]
          /\ \A m \in DOMAIN wire'[c] : wire'[c][m] # Text(c, n)
      BY DEF Arrived
    <3>2. n # sent[c] + 1
      BY <3>1, <1>3, <1>4, <1>1 DEF text
    <3>3. n \in (early[c] + 1)..sent[c]
      BY <3>1, <3>2, <1>1, <1>3
    <3>4. \A m \in DOMAIN wire[c] : wire[c][m] # Text(c, n)
      BY <3>1, <1>3, <1>4, <1>1
    <3> QED
      BY <3>3, <3>4 DEF Arrived
  <2>5. WrittenBy(c)' = WrittenBy(c)
    BY <1>8 DEF WrittenBy
  <2>6. ~told'[c] => early'[c] = sent'[c]
    BY <1>3, <1>8 DEF Written
  <2>7. (line'[c] = "up" /\ ~ended' /\ guest' \in {"reading", "satisfied"})
          => Arrived(c)' \subseteq WrittenBy(c)'
    BY <2>4, <2>5, <1>8 DEF Written
  <2> QED
    BY <2>2, <2>3, <2>6, <2>7 DEF Written
<1>12. ASSUME NEW d \in Clients \ {c}
       PROVE  OnTheWay(d)' /\ Written(d)'
  BY <1>3, <1>8, Others DEF InputIInv
<1> QED
  BY <1>5, <1>6, <1>7, <1>10, <1>11, <1>12 DEF InputIInv

LEMMA CloseKept ==
    ASSUME TextsAssumption, InputIInv, NEW c \in Clients, CloseStdin(c)
    PROVE  InputIInv'
<1> USE DEF CloseStdin, Sends, runVars, pipeVars, guestVars
<1>1. wire[c] \in Seq(Message) /\ Close \in Message /\ c \in DOMAIN wire
  BY DEF InputIInv, InputTypeOK, Close, Text, Message
<1>2. /\ wire'[c] = Append(wire[c], Close) /\ closes'[c] # "no"
      /\ \A d \in Clients \ {c} : wire'[d] = wire[d] /\ closes'[d] = closes[d]
      /\ attended
  BY DEF InputIInv, InputTypeOK
<1>3. /\ Append(wire[c], Close) \in Seq(Message)
      /\ DOMAIN wire[c] = 1..Len(wire[c]) /\ Len(wire[c]) \in Nat
      /\ DOMAIN Append(wire[c], Close) = 1..(Len(wire[c]) + 1)
      /\ \A n \in 1..Len(wire[c]) : Append(wire[c], Close)[n] = wire[c][n]
      /\ Append(wire[c], Close)[Len(wire[c]) + 1] = Close
  BY <1>1, Longer
<1>4. InputTypeOK'
  <2>1. wire' \in [Clients -> Seq(Message)]
    BY <1>1, <1>3 DEF InputIInv, InputTypeOK
  <2>2. closes' \in [Clients -> {"no", "early", "yes"}]
    BY DEF InputIInv, InputTypeOK
  <2> QED
    BY <2>1, <2>2 DEF InputIInv, InputTypeOK
<1>5. \A d \in Clients : closes[d] # "no" => closes'[d] # "no"
  BY <1>2
<1>6. InputOpened'
  BY <1>2, <1>5 DEF InputIInv, InputOpened
<1>7. PipeKept'
  BY DEF InputIInv, PipeKept
<1>8. /\ OnTheWay(c) /\ Written(c)
      /\ sent' = sent /\ early' = early /\ told' = told /\ line' = line
      /\ pipe' = pipe /\ ended' = ended /\ guest' = guest
  BY DEF InputIInv
<1>9. \A n \in DOMAIN wire'[c] : wire'[c][n] # Close =>
         n \in DOMAIN wire[c] /\ wire'[c][n] = wire[c][n]
  BY <1>2, <1>3
<1>10. OnTheWay(c)'
  <2>1. ASSUME NEW n \in DOMAIN wire'[c]
        PROVE  \/ wire'[c][n] = Close /\ closes'[c] # "no"
               \/ wire'[c][n] = Text(c, wire'[c][n].n) /\ wire'[c][n].n \in 1..sent'[c]
    BY <1>2, <1>8, <1>9 DEF OnTheWay
  <2>2. ASSUME NEW m \in DOMAIN wire'[c], NEW n \in 1..(m - 1),
               wire'[c][n] # Close, wire'[c][m] # Close
        PROVE  wire'[c][n].n < wire'[c][m].n
    <3>1. m \in DOMAIN wire[c] /\ wire'[c][m] = wire[c][m]
      BY <2>2, <1>9
    <3>2. n \in DOMAIN wire[c] /\ wire'[c][n] = wire[c][n]
      BY <3>1, <1>2, <1>3
    <3> QED
      BY <2>2, <3>1, <3>2, <1>8 DEF OnTheWay
  <2> QED
    BY <2>1, <2>2 DEF OnTheWay
<1>11. Written(c)'
  <2>1. ASSUME NEW n \in DOMAIN pipe', NEW m \in DOMAIN wire'[c],
               pipe'[n].by = c, wire'[c][m] # Close
        PROVE  pipe'[n].n < wire'[c][m].n
    BY <2>1, <1>8, <1>9 DEF Written
  <2>2. Arrived(c)' \subseteq Arrived(c)
    <3>1. \A m \in DOMAIN wire[c] : m \in DOMAIN wire'[c] /\ wire'[c][m] = wire[c][m]
      BY <1>2, <1>3
    <3> QED
      BY <3>1, <1>8 DEF Arrived
  <2>3. WrittenBy(c)' = WrittenBy(c)
    BY <1>8 DEF WrittenBy
  <2>4. (line'[c] = "up" /\ ~ended' /\ guest' \in {"reading", "satisfied"})
          => Arrived(c)' \subseteq WrittenBy(c)'
    BY <2>2, <2>3, <1>8 DEF Written
  <2> QED
    BY <2>1, <2>4, <1>8 DEF Written
<1>12. ASSUME NEW d \in Clients \ {c}
       PROVE  OnTheWay(d)' /\ Written(d)'
  BY <1>2, <1>8, Others DEF InputIInv
<1> QED
  BY <1>4, <1>6, <1>7, <1>10, <1>11, <1>12 DEF InputIInv

\* What is so of what a client has on its way is so of what follows the head.
LEMMA ShorterWay ==
    ASSUME InputTypeOK, NEW c \in Clients, wire[c] # <<>>, OnTheWay(c), Written(c),
           wire'[c] = Tail(wire[c]), sent'[c] = sent[c], closes'[c] = closes[c]
    PROVE  /\ OnTheWay(c)'
           /\ wire[c] # <<>> /\ Head(wire[c]) = wire[c][1]
           /\ \A m \in DOMAIN wire'[c] :
                 m + 1 \in DOMAIN wire[c] /\ wire'[c][m] = wire[c][m + 1]
           /\ \A m \in DOMAIN wire'[c] : \E i \in DOMAIN wire[c] :
                 1 \in 1..(i - 1) /\ wire'[c][m] = wire[c][i]
           /\ \A m \in DOMAIN wire[c] : m = 1 \/
                 (m - 1 \in DOMAIN wire'[c] /\ wire[c][m] = wire'[c][m - 1])
           /\ 1 \in DOMAIN wire[c]
<1>1. wire[c] \in Seq(Message)
  BY DEF InputTypeOK
<1>2. /\ Head(wire[c]) = wire[c][1]
      /\ DOMAIN wire[c] = 1..Len(wire[c]) /\ Len(wire[c]) \in Nat \ {0}
      /\ DOMAIN Tail(wire[c]) = 1..(Len(wire[c]) - 1)
      /\ \A n \in 1..(Len(wire[c]) - 1) : Tail(wire[c])[n] = wire[c][n + 1]
  BY <1>1, Shorter
<1>3. \A m \in DOMAIN wire'[c] :
         m + 1 \in DOMAIN wire[c] /\ wire'[c][m] = wire[c][m + 1]
  BY <1>2
<1>8. ASSUME NEW m \in DOMAIN wire'[c]
       PROVE  \E i \in DOMAIN wire[c] : 1 \in 1..(i - 1) /\ wire'[c][m] = wire[c][i]
  <2> DEFINE i == m + 1
  <2>1. i \in DOMAIN wire[c] /\ wire'[c][m] = wire[c][i]
    BY <1>3
  <2>2. 1 \in 1..(i - 1)
    BY <1>2
  <2> HIDE DEF i
  <2> QED
    BY <2>1, <2>2
<1>4. \A m \in DOMAIN wire[c] : m = 1 \/
         (m - 1 \in DOMAIN wire'[c] /\ wire[c][m] = wire'[c][m - 1])
  BY <1>2
<1>5. ASSUME NEW n \in DOMAIN wire'[c]
      PROVE  \/ wire'[c][n] = Close /\ closes'[c] # "no"
             \/ wire'[c][n] = Text(c, wire'[c][n].n) /\ wire'[c][n].n \in 1..sent'[c]
  BY <1>3 DEF OnTheWay
<1>6. ASSUME NEW m \in DOMAIN wire'[c], NEW n \in 1..(m - 1),
             wire'[c][n] # Close, wire'[c][m] # Close
      PROVE  wire'[c][n].n < wire'[c][m].n
  <2>1. m \in Nat /\ n \in DOMAIN wire'[c] /\ n + 1 \in 1..(m + 1 - 1)
    BY <1>2
  <2>2. wire'[c][m] = wire[c][m + 1] /\ wire'[c][n] = wire[c][n + 1] /\ m + 1 \in DOMAIN wire[c]
    BY <2>1, <1>3
  <2> QED
    BY <1>6, <2>1, <2>2 DEF OnTheWay
<1>7. OnTheWay(c)'
  BY <1>5, <1>6 DEF OnTheWay
<1> QED
  BY <1>2, <1>3, <1>8, <1>4, <1>7

\* The head is dropped, or it is the closing.
LEMMA NothingWritten ==
    ASSUME TextsAssumption, InputIInv, NEW c \in Clients, Receive(c), pipe' = pipe,
           ~handle \/ ended \/ guest = "over" \/ ended'
    PROVE  OnTheWay(c)' /\ Written(c)'
<1> USE DEF Receive, guestVars
<1>1. /\ wire[c] # <<>> /\ wire'[c] = Tail(wire[c])
      /\ sent' = sent /\ early' = early /\ told' = told /\ line' = line
      /\ closes' = closes /\ guest' = guest /\ handle' = handle
  BY DEF InputIInv, InputTypeOK
<1>2. InputTypeOK /\ OnTheWay(c) /\ Written(c)
  BY DEF InputIInv
<1>3. /\ OnTheWay(c)'
      /\ \A m \in DOMAIN wire'[c] : m + 1 \in DOMAIN wire[c] /\ wire'[c][m] = wire[c][m + 1]
  BY <1>1, <1>2, ShorterWay
<1>4. ended => ended'
  OBVIOUS
<1>5. ~(~ended' /\ guest' \in {"reading", "satisfied"})
  BY <1>1, <1>4 DEF InputIInv, InputOpened
<1>6. \A n \in DOMAIN pipe' : \A m \in DOMAIN wire'[c] :
         (pipe'[n].by = c /\ wire'[c][m] # Close) => pipe'[n].n < wire'[c][m].n
  BY <1>2, <1>3 DEF Written
<1>7. Written(c)'
  BY <1>1, <1>2, <1>5, <1>6 DEF Written
<1> QED
  BY <1>3, <1>7

\* The head is a text, and it is written.
LEMMA HeadWritten ==
    ASSUME TextsAssumption, InputIInv, NEW c \in Clients, Receive(c),
           handle, ~ended, guest # "over", Head(wire[c]) # Close
    PROVE  /\ pipe' \in Seq(Message)
           /\ PipeKept'
           /\ pipe' # <<>> /\ (pipe'[1] = Body <=> pipe # <<>> /\ pipe[1] = Body)
           /\ \A d \in Clients : OnTheWay(d)' /\ Written(d)'
<1> DEFINE text == Head(wire[c])
<1>1. /\ wire[c] # <<>> /\ wire'[c] = Tail(wire[c])
      /\ \A d \in Clients \ {c} : wire'[d] = wire[d]
      /\ sent' = sent /\ early' = early /\ told' = told /\ line' = line
      /\ closes' = closes /\ guest' = guest /\ ended' = ended
      /\ pipe' = Append(pipe, text)
  BY DEF InputIInv, InputTypeOK, Receive, guestVars
<1>2. InputTypeOK /\ OnTheWay(c) /\ Written(c) /\ PipeKept
  BY DEF InputIInv
<1>3. /\ OnTheWay(c)'
      /\ text = wire[c][1] /\ 1 \in DOMAIN wire[c]
      /\ \A m \in DOMAIN wire'[c] :
            \E i \in DOMAIN wire[c] : 1 \in 1..(i - 1) /\ wire'[c][m] = wire[c][i]
      /\ \A m \in DOMAIN wire[c] : m = 1 \/
            (m - 1 \in DOMAIN wire'[c] /\ wire[c][m] = wire'[c][m - 1])
  BY <1>1, <1>2, ShorterWay
<1>4. text = Text(c, text.n) /\ text.n \in 1..sent[c]
  BY <1>2, <1>3 DEF OnTheWay
<1>5. sent[c] \in Nat /\ early[c] \in Nat /\ pipe \in Seq(Message)
      /\ wire[c] \in Seq(Message)
  BY <1>2 DEF InputTypeOK
<1>6. text.by = c /\ text.n \in Nat \ {0} /\ text \in Message /\ text # Close
  BY <1>4, <1>5, MessageKinds
<1>7. text # Body
  BY <1>6 DEF Body, Text, TextsAssumption
<1>8. /\ Append(pipe, text) \in Seq(Message) /\ Append(pipe, text) # <<>>
      /\ DOMAIN pipe = 1..Len(pipe) /\ Len(pipe) \in Nat
      /\ DOMAIN Append(pipe, text) = 1..(Len(pipe) + 1)
      /\ \A n \in 1..Len(pipe) : Append(pipe, text)[n] = pipe[n]
      /\ Append(pipe, text)[Len(pipe) + 1] = text
  <2> HIDE DEF text
  <2> QED
    BY <1>5, <1>6, Longer
<1>14. /\ DOMAIN pipe = 1..Len(pipe) /\ DOMAIN pipe' = 1..(Len(pipe) + 1) /\ Len(pipe) \in Nat
       /\ \A n \in 1..Len(pipe) : pipe'[n] = pipe[n]
       /\ pipe'[Len(pipe) + 1] = text
  BY <1>1, <1>8
<1> HIDE DEF text
<1>9. \A n \in DOMAIN pipe' :
         \/ n \in DOMAIN pipe /\ pipe'[n] = pipe[n]
         \/ n = Len(pipe) + 1 /\ pipe'[n] = text
  BY <1>14
<1>10. pipe' # <<>> /\ (pipe'[1] = Body <=> pipe # <<>> /\ pipe[1] = Body)
  <2>1. CASE pipe = <<>>
    <3>1. Len(pipe) = 0
      BY <2>1
    <3> QED
      BY <2>1, <3>1, <1>1, <1>7, <1>8
  <2>2. CASE pipe # <<>>
    <3>1. 1 \in 1..Len(pipe)
      BY <2>2, <1>5
    <3> QED
      BY <2>2, <3>1, <1>1, <1>8
  <2> QED
    BY <2>1, <2>2
<1>11. PipeKept'
  <2>1. \A m \in DOMAIN pipe' : pipe'[m].by \in Clients \/ (m = 1 /\ pipe'[m] = Body)
    BY <1>2, <1>6, <1>9 DEF PipeKept
  <2>2. ASSUME NEW m \in DOMAIN pipe', NEW n \in 1..(m - 1)
        PROVE  pipe'[m] # Body /\ (pipe'[n].by = pipe'[m].by => pipe'[n].n < pipe'[m].n)
    <3>1. n \in DOMAIN pipe /\ pipe'[n] = pipe[n]
      BY <1>14
    <3>2. CASE m \in DOMAIN pipe /\ pipe'[m] = pipe[m]
      BY <3>1, <3>2, <1>2 DEF PipeKept
    <3>3. CASE m = Len(pipe) + 1 /\ pipe'[m] = text
      <4>1. pipe[n].by = c => pipe[n].n < text.n
        BY <3>1, <1>2, <1>3, <1>6 DEF Written
      <4> QED
        BY <4>1, <3>1, <3>3, <1>6, <1>7
    <3> QED
      BY <3>2, <3>3, <1>9
  <2> QED
    BY <2>1, <2>2 DEF PipeKept
<1>12. Written(c)'
  <2>1. \A n \in DOMAIN pipe' : pipe'[n].by = c => pipe'[n].n <= sent'[c]
    <3>1. text.n <= sent[c]
      BY <1>4, <1>5
    <3> QED
      BY <3>1, <1>1, <1>2, <1>9 DEF Written
  <2>2. ASSUME NEW n \in DOMAIN pipe', NEW m \in DOMAIN wire'[c],
               pipe'[n].by = c, wire'[c][m] # Close
        PROVE  pipe'[n].n < wire'[c][m].n
    <3>1. PICK i \in DOMAIN wire[c] : 1 \in 1..(i - 1) /\ wire'[c][m] = wire[c][i]
      BY <1>3
    <3>2. CASE n \in DOMAIN pipe /\ pipe'[n] = pipe[n]
      BY <2>2, <3>1, <3>2, <1>2 DEF Written
    <3>3. CASE pipe'[n] = text
      <4>1. wire[c][1] # Close /\ wire[c][i] # Close
        BY <2>2, <3>1, <1>3, <1>6
      <4>2. wire[c][1].n < wire[c][i].n
        BY <3>1, <4>1, <1>2 DEF OnTheWay
      <4> QED
        BY <3>1, <3>3, <4>2, <1>3
    <3> QED
      BY <3>2, <3>3, <1>9
  <2>3. ASSUME line'[c] = "up" /\ ~ended' /\ guest' \in {"reading", "satisfied"},
               NEW k \in Arrived(c)'
        PROVE  k \in WrittenBy(c)'
    <3>1. k \in (early[c] + 1)..sent[c]
          /\ \A m \in DOMAIN wire'[c] : wire'[c][m] # Text(c, k)
      BY <1>1 DEF Arrived
    <3>2. CASE k = text.n
      <4>1. Len(pipe) + 1 \in DOMAIN pipe'
        BY <1>14
      <4>2. pipe'[Len(pipe) + 1].n = k /\ pipe'[Len(pipe) + 1].by = c
        BY <3>2, <1>6, <1>14
      <4> QED
        BY <4>1, <4>2 DEF WrittenBy
    <3>3. CASE k # text.n
      <4>1. Text(c, k).n = k
        BY DEF Text
      <4>2. \A m \in DOMAIN wire[c] : wire[c][m] # Text(c, k)
        BY <3>1, <3>3, <4>1, <1>3
      <4>3. k \in WrittenBy(c)
        BY <2>3, <3>1, <4>2, <1>1, <1>2 DEF Arrived, Written
      <4>4. PICK m \in DOMAIN pipe : pipe[m].by = c /\ pipe[m].n = k
        BY <4>3 DEF WrittenBy
      <4>5. m \in DOMAIN pipe' /\ pipe'[m] = pipe[m]
        BY <1>14
      <4> QED
        BY <4>4, <4>5 DEF WrittenBy
    <3> QED
      BY <3>2, <3>3
  <2>4. ~told'[c] => early'[c] = sent'[c]
    BY <1>1, <1>2 DEF Written
  <2> QED
    BY <2>1, <2>2, <2>3, <2>4 DEF Written
<1>13. ASSUME NEW d \in Clients \ {c}
       PROVE  OnTheWay(d)' /\ Written(d)'
  <2>1. OnTheWay(d) /\ Written(d) /\ wire'[d] = wire[d]
    BY <1>1 DEF InputIInv
  <2>2. OnTheWay(d)'
    BY <2>1, <1>1 DEF OnTheWay
  <2>3. \A n \in DOMAIN pipe' : pipe'[n].by = d => n \in DOMAIN pipe /\ pipe'[n] = pipe[n]
    BY <1>6, <1>9
  <2>4. Arrived(d)' = Arrived(d)
    BY <2>1, <1>1 DEF Arrived
  <2>5. WrittenBy(d) \subseteq WrittenBy(d)'
    BY <1>14 DEF WrittenBy
  <2>6. /\ \A n \in DOMAIN pipe' : pipe'[n].by = d => pipe'[n].n <= sent'[d]
        /\ \A n \in DOMAIN pipe' : \A m \in DOMAIN wire'[d] :
              (pipe'[n].by = d /\ wire'[d][m] # Close) => pipe'[n].n < wire'[d][m].n
    BY <2>1, <2>3, <1>1 DEF Written
  <2>7. (line'[d] = "up" /\ ~ended' /\ guest' \in {"reading", "satisfied"})
          => Arrived(d)' \subseteq WrittenBy(d)'
    BY <2>1, <2>4, <2>5, <1>1 DEF Written
  <2>8. ~told'[d] => early'[d] = sent'[d]
    BY <2>1, <1>1 DEF Written
  <2> QED
    BY <2>2, <2>6, <2>7, <2>8 DEF Written
<1> QED
  BY <1>1, <1>3, <1>8, <1>10, <1>11, <1>12, <1>13

\* A message is dropped, or it ends the input, or it is written.
LEMMA ReceiveKept ==
    ASSUME TextsAssumption, InputIInv, NEW c \in Clients, Receive(c)
    PROVE  InputIInv'
<1> USE DEF Receive, guestVars, runVars
<1>1. wire[c] \in Seq(Message) /\ wire[c] # <<>>
  BY DEF InputIInv, InputTypeOK
<1>2. Tail(wire[c]) \in Seq(Message) /\ Head(wire[c]) = wire[c][1] /\ 1 \in DOMAIN wire[c]
  BY <1>1, Shorter
<1>3. wire' \in [Clients -> Seq(Message)]
  BY <1>2 DEF InputIInv, InputTypeOK
<1>4. attended /\ \A d \in Clients : wire'[d] # <<>> => wire[d] # <<>>
  BY <1>1 DEF InputIInv, InputTypeOK, InputOpened
<1>5. /\ attended' = attended /\ body' = body /\ handle' = handle
      /\ guest' = guest /\ line' = line /\ told' = told /\ sent' = sent
      /\ early' = early /\ closes' = closes
      /\ \A d \in Clients \ {c} : wire'[d] = wire[d]
  BY DEF InputIInv, InputTypeOK
<1>6. CASE pipe' = pipe /\ (~handle \/ ended \/ guest = "over" \/ ended')
           /\ (ended' = ended \/ (ended' = TRUE /\ Head(wire[c]) = Close /\ guest # "none"))
  <2>1. OnTheWay(c)' /\ Written(c)'
    BY <1>6, NothingWritten
  <2>2. ASSUME NEW d \in Clients \ {c}
        PROVE  OnTheWay(d)' /\ Written(d)'
    <3>1. OnTheWay(d) /\ Written(d) /\ wire'[d] = wire[d]
      BY <1>5 DEF InputIInv
    <3>2. OnTheWay(d)'
      BY <3>1, <1>5 DEF OnTheWay
    <3>3. Arrived(d)' = Arrived(d) /\ WrittenBy(d)' = WrittenBy(d)
      BY <3>1, <1>5, <1>6 DEF Arrived, WrittenBy
    <3>4. ~ended' => ~ended
      BY <1>6
    <3>5. Written(d)'
      BY <3>1, <3>3, <3>4, <1>5, <1>6 DEF Written
    <3> QED
      BY <3>2, <3>5
  <2>3. InputTypeOK'
    BY <1>3, <1>5, <1>6 DEF InputIInv, InputTypeOK
  <2>4. InputOpened'
    <3>1. Head(wire[c]) = Close => closes[c] # "no"
      <4>1. Close.n = 0 /\ sent[c] \in Nat
        BY DEF Close, Text, InputIInv, InputTypeOK
      <4> QED
        BY <1>2, <4>1 DEF InputIInv, OnTheWay
    <3>2. ended' => ~attended \/ \E d \in Clients : closes[d] # "no"
      BY <3>1, <1>6 DEF InputIInv, InputOpened
    <3>3. guest = "none" => ~ended'
      BY <1>6 DEF InputIInv, InputOpened
    <3>4. InputOpened
      BY DEF InputIInv
    <3> HIDE DEF Receive
    <3> QED
      BY <3>2, <3>3, <3>4, <1>4, <1>5, <1>6 DEF InputOpened
  <2>5. PipeKept'
    BY <1>6 DEF InputIInv, PipeKept
  <2> QED
    BY <2>1, <2>2, <2>3, <2>4, <2>5 DEF InputIInv
<1>7. CASE handle /\ ~ended /\ guest # "over" /\ Head(wire[c]) # Close
  <2>1. /\ pipe' \in Seq(Message) /\ PipeKept'
        /\ pipe' # <<>> /\ (pipe'[1] = Body <=> pipe # <<>> /\ pipe[1] = Body)
        /\ \A d \in Clients : OnTheWay(d)' /\ Written(d)'
    BY <1>7, HeadWritten
  <2>2. ended' = ended
    BY <1>7
  <2>3. InputTypeOK'
    BY <2>1, <2>2, <1>3, <1>5 DEF InputIInv, InputTypeOK
  <2>4. InputOpened'
    BY <2>1, <2>2, <1>4, <1>5, <1>7 DEF InputIInv, InputOpened
  <2> QED
    BY <2>1, <2>3, <2>4 DEF InputIInv
<1>8. handle => guest # "none"
  BY DEF InputIInv, InputOpened
<1> QED
  BY <1>6, <1>7, <1>8

LEMMA CutKept ==
    ASSUME TextsAssumption, InputIInv, NEW c \in Clients, Cut(c)
    PROVE  InputIInv'
<1> USE DEF Cut, runVars, pipeVars, guestVars
<1>1. <<>> \in Seq(Message)
  OBVIOUS
<1>2. InputTypeOK'
  BY <1>1 DEF InputIInv, InputTypeOK
<1>3. wire'[c] = <<>> /\ line'[c] = "cut"
      /\ \A d \in Clients \ {c} : wire'[d] = wire[d] /\ line'[d] = line[d]
  BY DEF InputIInv, InputTypeOK
<1>4. InputOpened' /\ PipeKept'
  BY <1>3 DEF InputIInv, InputOpened, PipeKept
<1>5. OnTheWay(c)'
  BY <1>3 DEF OnTheWay
<1>6. Written(c) /\ pipe' = pipe /\ sent' = sent /\ told' = told /\ early' = early
      /\ closes' = closes /\ ended' = ended /\ guest' = guest
  BY DEF InputIInv
<1>7. Written(c)'
  BY <1>3, <1>6 DEF Written
<1>8. ASSUME NEW d \in Clients \ {c}
      PROVE  OnTheWay(d)' /\ Written(d)'
  BY <1>3, <1>6, Others DEF InputIInv
<1> QED
  BY <1>2, <1>4, <1>5, <1>7, <1>8 DEF InputIInv

\* The invariant is kept by every step.
LEMMA InputKept ==
    ASSUME TextsAssumption, InputIInv, [InputNext]_inputVars
    PROVE  InputIInv'
<1>1. CASE UNCHANGED inputVars
  <2>1. /\ attended' = attended /\ body' = body /\ handle' = handle
        /\ pipe' = pipe /\ ended' = ended /\ guest' = guest
        /\ line' = line /\ told' = told /\ wire' = wire /\ sent' = sent
        /\ early' = early /\ closes' = closes
    BY <1>1 DEF inputVars, runVars, pipeVars, guestVars, clientVars
  <2>2. InputTypeOK' /\ InputOpened' /\ PipeKept'
    BY <2>1 DEF InputIInv, InputTypeOK, InputOpened, PipeKept
  <2>3. \A d \in Clients : OnTheWay(d)' /\ Written(d)'
    BY <2>1, Others DEF InputIInv
  <2> QED
    BY <2>2, <2>3 DEF InputIInv
<1>2. CASE Spawn
  BY <1>2, SpawnKept
<1>3. CASE GuestReads \/ GuestSeesTheEnd \/ GuestStops
  BY <1>3, GuestKept
<1>4. ASSUME NEW c \in Clients,
             \/ Tell(c) \/ SendStdin(c) \/ CloseStdin(c)
             \/ Receive(c) \/ Cut(c)
      PROVE  InputIInv'
  BY <1>4, TellKept, SendKept, CloseKept, ReceiveKept, CutKept
<1> QED
  BY <1>1, <1>2, <1>3, <1>4 DEF InputNext

\* What the guest is given: the text of the run first, once, then that of each
\* client in its order, with nothing missing of a client that waited, on an input
\* that stays open until a client has closed it (stdinHandle, endStdin()).
THEOREM InputIsInOrder == InputSpec => []InputInOrder
<1>1. InputInit => InputIInv
  BY TextsAssumption, InputBegin
<1>2. InputIInv /\ [InputNext]_inputVars => InputIInv'
  BY TextsAssumption, InputKept
<1>3. InputIInv => InputInOrder
  <2> SUFFICES ASSUME InputIInv
               PROVE  InputInOrder
    OBVIOUS
  <2>1. \A c \in Clients :
           (line[c] = "up" /\ ~ended /\ guest \in {"reading", "satisfied"})
              => Arrived(c) \subseteq WrittenBy(c)
    BY DEF InputIInv, Written
  <2> QED
    BY <2>1 DEF InputIInv, InputOpened, PipeKept, InputInOrder
<1> QED
  BY <1>1, <1>2, <1>3, PTL DEF InputSpec
=============================================================================
