---------------------------- MODULE Preparation ----------------------------
(***************************************************************************)
(* What stands between the call of run() and its guest: the limits, the     *)
(* seccomp program and the cgroup, up to the shell that applies them.      *)
(* SandboxRun takes these steps as ones that succeed or fail; here is what *)
(* a run that gets through has, and what it may lack.                      *)
(*                                                                         *)
(* One process, self, prepares a run; the others only build the program.   *)
(* The limits are chosen when they are first used.                         *)
(***************************************************************************)
EXTENDS Limits, SeccompProgram, CgroupTree

CONSTANT self

ASSUME SelfAssumption == self \in Procs

VARIABLES
    limitBounds,    \* of its caller
    lim,        \* the limits of the stage
    settings,   \* the control files of the run's cgroup; 0 is no limit
    loaded      \* the version of the program that the guest runs under

vars == <<policyVars, treeVars, limitBounds, lim, settings, loaded>>

NoSettings == [memory |-> 0, swap |-> 0, pids |-> 0, cpu |-> 0]

Init ==
    /\ PolicyInit /\ TreeInit
    /\ limitBounds \in {LIMIT_BOUNDS, LOCAL_LIMIT_BOUNDS}
    /\ lim = DEFAULT_LIMITS
    /\ settings = NoSettings
    /\ loaded = 0

PolicyStep == PolicyNext /\ UNCHANGED <<treeVars, limitBounds, lim, settings, loaded>>

TreeStep ==
    /\ policy[self] = "ready"
    /\ TreeNext
    /\ UNCHANGED <<policyVars, limitBounds, lim, settings, loaded>>

Only(key, raw) ==
    [k \in LimitNames |-> IF k = key THEN raw ELSE Raw("not_a_number", 0)]

\* configureCgroup(cgroup, lim), of the compile stage or of the execute stage.
Configure ==
    /\ configureCgroup
    /\ \/ lim' = COMPILE_LIMITS
       \/ \E key \in LimitNames : \E raw \in RawLimits(limitBounds[key]) :
             lim' = sanitizeLimits(Only(key, raw), limitBounds)
    /\ settings' = [memory |-> lim'.memoryBytes, swap |-> 0, pids |-> lim'.pids,
                    cpu |-> IF "cpu" \in slice THEN 1000 * lim'.cpuPercent ELSE 0]
    /\ UNCHANGED <<policyVars, kernel, own, subtree, occupied, writable, root,
                   slice, limitBounds, loaded>>

\* The shell cannot move itself into the cgroup.
JoinFails ==
    /\ Advance("configured", "setup_failed")
    /\ UNCHANGED <<policyVars, kernel, own, subtree, occupied, writable, root,
                   slice, limitBounds, lim, settings, loaded>>

\* The shell opens the program and gives way to bwrap, which does not start a
\* guest under a program that is not whole.
StartGuest ==
    /\ loaded' = program.version
    /\ Advance("configured", IF loaded' = 0 THEN "error" ELSE "guest")
    /\ UNCHANGED <<policyVars, kernel, own, subtree, occupied, writable, root,
                   slice, limitBounds, lim, settings>>

\* The run is followed until its guest has been started, or it was refused.
Settled == place \in {"guest", "error", "setup_failed", "thrown"}

Next ==
    /\ ~Settled
    /\ PolicyStep \/ TreeStep \/ Configure \/ JoinFails \/ StartGuest

Spec == Init /\ [][Next]_vars

(***************************************************************************)
(* Properties.                                                             *)
(***************************************************************************)
Delegated == {"memory", "pids"} \subseteq slice

\* A guest runs with the limits of its caller, each within its bounds whatever
\* the caller sent: memory and processes always, cpu unless CG_ROOT has no cpu
\* controller or may not be written to.  Its files may grow to half of what was
\* asked.  A host that does not delegate refuses the run, and not as
\* "setup_failed".
GuestIsConfined ==
    /\ place = "guest" =>
          /\ \A key \in LimitNames :
                lim[key] \in limitBounds[key].min..limitBounds[key].max
          /\ Delegated
          /\ settings.memory = lim.memoryBytes /\ settings.pids = lim.pids
          /\ \/ settings.cpu = 1000 * lim.cpuPercent
             \/ settings.cpu = 0 /\ (root \notin writable \/ "cpu" \notin Available(root))
          /\ OpenFiles(lim) = lim.openFiles
          /\ 2 * FileLimit(lim) \in (lim.fileSizeBytes - 1023)..lim.fileSizeBytes
    /\ place = "setup_failed" => Delegated

\* A guest runs under a program made from policy.c as it was when its process
\* asked, or a later one: unless a file changed while it was used, or within
\* the same tick of the file system's clock.
PolicyIsCurrent ==
    (place = "guest" /\ ~raced) => loaded >= asked[self]
=============================================================================
