------------------------------- MODULE Limits -------------------------------
(***************************************************************************)
(* src/sandbox.mjs: sanitizeLimits(), and the numbers the shell is given.   *)
(*                                                                         *)
(* A raw limit is anything JSON or a caller may hold.  Numbers are counted  *)
(* in halves, which is enough to see them truncated; memory and tmpfs in    *)
(* KiB, which TLC can count.                                               *)
(***************************************************************************)
EXTENDS Integers

KiB == 1024

DEFAULT_LIMITS ==
    [memoryBytes |-> 128 * KiB, cpuPercent |-> 50, pids |-> 32, wallClockMs |-> 5000,
     outputBytes |-> 64 * KiB, fileSizeBytes |-> KiB * KiB, openFiles |-> 64,
     tmpfsBytes |-> 16 * KiB]

\* Of the compile stage, whatever the caller asked for.
COMPILE_LIMITS ==
    [memoryBytes |-> 256 * KiB, cpuPercent |-> 100, pids |-> 16, wallClockMs |-> 10000,
     outputBytes |-> 64 * KiB, fileSizeBytes |-> 8 * KiB * KiB, openFiles |-> 64,
     tmpfsBytes |-> 32 * KiB]

LimitNames == DOMAIN DEFAULT_LIMITS

Between(min, max) == [min |-> min, max |-> max]

\* For HTTP callers.
LIMIT_BOUNDS ==
    [memoryBytes |-> Between(KiB, 512 * KiB), cpuPercent |-> Between(1, 100),
     pids |-> Between(4, 256), wallClockMs |-> Between(100, 60000),
     outputBytes |-> Between(KiB, 4 * KiB * KiB),
     fileSizeBytes |-> Between(KiB, 64 * KiB * KiB),
     openFiles |-> Between(4, 1024), tmpfsBytes |-> Between(KiB, 256 * KiB)]

\* For the command line's own runs.
LOCAL_LIMIT_BOUNDS ==
    [LIMIT_BOUNDS EXCEPT !.wallClockMs.max = 600000, !.memoryBytes.max = 4 * KiB * KiB]

Raw(kind, halves) == [kind |-> kind, halves |-> halves]

\* The kinds whose Number() is finite.  A string of blanks is the number 0.
Finite(raw) == raw.kind \in {"number", "numeric", "blank"}

\* The others: NaN and Infinity, text, '', null, booleans, lists, no key at all.
OtherKinds == {"not_finite", "text", "empty", "not_a_number"}

\* Math.trunc()
Trunc(halves) == IF halves >= 0 THEN halves \div 2 ELSE -((-halves) \div 2)

Clamp(n, bounds) ==
    IF n < bounds.min THEN bounds.min
    ELSE IF n > bounds.max THEN bounds.max ELSE n

Sanitize(raw, bounds, default) ==
    IF Finite(raw) THEN Clamp(Trunc(raw.halves), bounds) ELSE default

sanitizeLimits(rawLimits, bounds) ==
    [key \in LimitNames |->
        Sanitize(rawLimits[key], bounds[key], DEFAULT_LIMITS[key])]

\* Raw limits at and around the bounds.
RawLimits(bounds) ==
    {Raw(kind, 0) : kind \in OtherKinds \cup {"blank"}} \cup
    {Raw(kind, 2 * n + half) :
        kind \in {"number", "numeric"}, half \in -2..2,
        n \in {bounds.min, bounds.max, -5}}

\* The script gives ulimit -f a number of kilobytes; sh takes it for blocks of
\* 512 bytes.
FileLimit(lim) == 512 * (lim.fileSizeBytes \div 1024)

OpenFiles(lim) == IF lim.openFiles < 1 THEN 1 ELSE lim.openFiles
=============================================================================
