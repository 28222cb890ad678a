--------------------------- MODULE SeccompProgram ---------------------------
(***************************************************************************)
(* src/seccomp.mjs: ensureSeccompProgram(), called by several processes     *)
(* (servers, command-line clients) that share the directory seccomp/.      *)
(*                                                                         *)
(* The generator is built from policy.c and the program is exported by the *)
(* generator, each when it is older than what it is made from.  A process  *)
(* does nothing else meanwhile, but the other processes and the editor of  *)
(* policy.c do.  Time has the grain of the file system: things may happen  *)
(* at the same time.  Version 0 is a file that is not whole.               *)
(***************************************************************************)
EXTENDS Naturals

CONSTANTS
    Procs,
    MaxVersion, MaxNow      \* bounds of the edits and of the time

VARIABLES
    source, generator, program,     \* policy.c, gen-policy, policy.bpf
    now,
    policy,     \* where each process stands
    held,       \* the version its compiler has read or its generator printed
    asked,      \* history: the version of policy.c when it called
    raced,      \* history: a file changed while, or at the time, it was used
    cutOff      \* history: a process died, or had no space, while writing

policyVars == <<source, generator, program, now, policy, held, asked, raced, cutOff>>

File(version, mtime) == [version |-> version, mtime |-> mtime]

Missing == File(0, 0)

\* Mutant: a file that is there is good.
IsStaleOnce(target, dependency) == target.mtime = 0

isStale(target, dependency) == target.mtime < dependency.mtime

PolicyInit ==
    /\ source = File(1, 1)
    /\ generator = Missing /\ program = Missing
    /\ now = 1
    /\ policy = [p \in Procs |-> "idle"]
    /\ held = [p \in Procs |-> 0]
    /\ asked = [p \in Procs |-> 0]
    /\ raced = FALSE /\ cutOff = FALSE

Others(p, places) == \E q \in Procs \ {p} : policy[q] \in places

(***************************************************************************)
(* The world.                                                              *)
(***************************************************************************)
Tick ==
    /\ now < MaxNow
    /\ now' = now + 1
    /\ UNCHANGED <<source, generator, program, policy, held, asked, raced, cutOff>>

Edit ==
    /\ source.version < MaxVersion
    /\ source' = File(source.version + 1, now)
    /\ raced' = (raced \/ generator.mtime = now
                       \/ \E p \in Procs : policy[p] \in {"compiling", "linking"})
    /\ UNCHANGED <<generator, program, now, policy, held, asked, cutOff>>

(***************************************************************************)
(* ensureSeccompProgram().                                                 *)
(***************************************************************************)
Goto(p, place) == policy' = [policy EXCEPT ![p] = place]

CheckGenerator(p) ==
    /\ policy[p] = "idle"
    /\ asked' = [asked EXCEPT ![p] = source.version]
    /\ held' = [held EXCEPT ![p] = source.version]
    /\ Goto(p, IF isStale(generator, source) THEN "compiling" ELSE "checked")
    /\ UNCHANGED <<source, generator, program, now, raced, cutOff>>

\* compileGenerator(): there is no compiler, or it rejects the source.
CompileFails(p) ==
    /\ policy[p] = "compiling"
    /\ Goto(p, "failed")
    /\ UNCHANGED <<source, generator, program, now, held, asked, raced, cutOff>>

Build(p, from, to, version) ==
    /\ policy[p] = from
    /\ Goto(p, to)
    /\ generator' = File(version, now)
    /\ raced' = (raced \/ program.mtime = now \/ Others(p, {"exporting", "writing"}))
    /\ UNCHANGED <<source, program, now, held, asked, cutOff>>

LinkBegins(p) == Build(p, "compiling", "linking", 0)
LinkEnds(p) == Build(p, "linking", "checked", held[p])

\* Mutant: the status of the generator is not looked at.
CheckProgramAnyStatus(p) ==
    /\ policy[p] = "checked"
    /\ Goto(p, IF isStale(program, generator) THEN "exporting" ELSE "ready")
    /\ held' = [held EXCEPT ![p] = generator.version]
    /\ UNCHANGED <<source, generator, program, now, asked, raced, cutOff>>

\* A generator that is not whole cannot be run.
CheckProgram(p) ==
    /\ policy[p] = "checked"
    /\ Goto(p, IF ~isStale(program, generator) THEN "ready"
               ELSE IF generator.version = 0 THEN "failed" ELSE "exporting")
    /\ held' = [held EXCEPT ![p] = generator.version]
    /\ UNCHANGED <<source, generator, program, now, asked, raced, cutOff>>

\* writeFileSync() truncates the file and then fills it, in one write.  Of two
\* processes that write at once the last one's program counts: where it is the
\* shorter one, the rest of the other follows its last return, where nothing
\* leads to.
Export(p, from, to, version) ==
    /\ policy[p] = from
    /\ Goto(p, to)
    /\ program' = File(version, now)
    /\ UNCHANGED <<source, generator, now, held, asked, raced, cutOff>>

WriteBegins(p) == Export(p, "exporting", "writing", 0)
WriteEnds(p) == Export(p, "writing", "ready", held[p])

\* The process dies while a file is written, or there is no space left.
CutOff(p) ==
    /\ policy[p] \in {"linking", "writing"}
    /\ Goto(p, "failed")
    /\ cutOff' = TRUE
    /\ UNCHANGED <<source, generator, program, now, held, asked, raced>>

PolicyNext ==
    \/ Tick \/ Edit
    \/ \E p \in Procs :
          \/ CheckGenerator(p) \/ CompileFails(p) \/ LinkBegins(p) \/ LinkEnds(p)
          \/ CheckProgram(p) \/ WriteBegins(p) \/ WriteEnds(p) \/ CutOff(p)

(***************************************************************************)
(* Properties.                                                             *)
(***************************************************************************)
\* A program that is not whole is being written, or its writer was cut off
\* (and then nothing repairs it: it is newer than the generator).  A generator
\* that is not whole never passes for one.
ProgramIsWhole ==
    (program.version = 0 /\ program # Missing) =>
        cutOff \/ \E p \in Procs : policy[p] = "writing"
=============================================================================
