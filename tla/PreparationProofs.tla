------------------------- MODULE PreparationProofs -------------------------
(***************************************************************************)
(* Proofs about Preparation for any processes and any depth of the cgroup   *)
(* tree, with any number of edits of policy.c and any time.                *)
(*                                                                         *)
(* The times of modification vouch for the files, as long as nothing is    *)
(* changed while it is used (Vouched); and the cgroup of a run has what    *)
(* its branch of the tree could give it (TreeKept).                        *)
(*                                                                         *)
(* The last part is about the pages, which watch runs and replay them.     *)
(***************************************************************************)
EXTENDS Preparation, Pages, FiniteSetTheorems, SequenceTheorems,
        WellFoundedInduction, TLAPS

(***************************************************************************)
(* The program.                                                            *)
(***************************************************************************)
PolicyPlaces == {"idle", "compiling", "linking", "checked", "exporting", "writing",
                 "ready", "failed"}

Files == [version : Nat, mtime : Nat]

PolicyTypeOK ==
    /\ source \in Files /\ generator \in Files /\ program \in Files
    /\ now \in Nat
    /\ policy \in [Procs -> PolicyPlaces]
    /\ held \in [Procs -> Nat]
    /\ asked \in [Procs -> Nat]
    /\ raced \in BOOLEAN /\ cutOff \in BOOLEAN

At(p, places) == policy[p] \in places

\* No file is from the future, and no version is without a number.
ClockKept ==
    /\ source.version >= 1
    /\ source.mtime <= now /\ generator.mtime <= now /\ program.mtime <= now
    /\ \A p \in Procs :
          /\ At(p, {"compiling", "linking", "exporting", "writing"}) => held[p] >= 1
          /\ asked[p] <= source.version

\* The generator, when it is not older than policy.c, is made from it or is not
\* whole; so is what a compiler has read.
GeneratorVouched ==
    /\ generator.mtime >= source.mtime => generator.version \in {0, source.version}
    /\ \A p \in Procs : At(p, {"compiling", "linking"}) => held[p] = source.version

\* The same for the program and the generator.
ProgramVouched ==
    /\ program.mtime >= generator.mtime => program.version \in {0, generator.version}
    /\ \A p \in Procs : At(p, {"exporting", "writing"}) => held[p] = generator.version

\* What was checked is not older than what its process asked for, or is not
\* whole.
AnswersKept ==
    \A p \in Procs :
        /\ At(p, {"checked", "exporting", "writing", "ready"}) =>
              generator.version = 0 \/ generator.version >= asked[p]
        /\ At(p, {"ready"}) => program.version = 0 \/ program.version >= asked[p]

Vouched == ~raced => GeneratorVouched /\ ProgramVouched /\ AnswersKept

PolicyInv == PolicyTypeOK /\ ClockKept /\ ProgramIsWhole /\ Vouched

LEMMA PolicyStarts ==
    ASSUME PolicyInit
    PROVE  PolicyInv
<1> USE DEF PolicyInit, File, Missing
<1>1. PolicyTypeOK
  BY DEF PolicyTypeOK, PolicyPlaces, Files
<1>2. ClockKept /\ ProgramIsWhole
  BY DEF ClockKept, ProgramIsWhole, At
<1>3. GeneratorVouched /\ ProgramVouched /\ AnswersKept
  BY DEF GeneratorVouched, ProgramVouched, AnswersKept, At
<1> QED
  BY <1>1, <1>2, <1>3 DEF PolicyInv, Vouched

LEMMA PolicyTypeKept ==
    ASSUME PolicyTypeOK, PolicyNext
    PROVE  PolicyTypeOK'
<1> USE DEF PolicyTypeOK, PolicyPlaces, Files, File, Goto
<1>1. CASE Tick
  BY <1>1 DEF Tick
<1>2. CASE Edit
  BY <1>2 DEF Edit
<1>3. ASSUME NEW p \in Procs, CheckGenerator(p)
      PROVE  PolicyTypeOK'
  BY <1>3 DEF CheckGenerator
<1>4. ASSUME NEW p \in Procs, CompileFails(p)
      PROVE  PolicyTypeOK'
  BY <1>4 DEF CompileFails
<1>5. ASSUME NEW p \in Procs, LinkBegins(p)
      PROVE  PolicyTypeOK'
  BY <1>5 DEF LinkBegins, Build
<1>6. ASSUME NEW p \in Procs, LinkEnds(p)
      PROVE  PolicyTypeOK'
  BY <1>6 DEF LinkEnds, Build
<1>7. ASSUME NEW p \in Procs, CheckProgram(p)
      PROVE  PolicyTypeOK'
  BY <1>7 DEF CheckProgram
<1>8. ASSUME NEW p \in Procs, WriteBegins(p)
      PROVE  PolicyTypeOK'
  BY <1>8 DEF WriteBegins, Export
<1>9. ASSUME NEW p \in Procs, WriteEnds(p)
      PROVE  PolicyTypeOK'
  BY <1>9 DEF WriteEnds, Export
<1>10. ASSUME NEW p \in Procs, CutOff(p)
       PROVE  PolicyTypeOK'
  BY <1>10 DEF CutOff
<1> QED
  BY <1>1, <1>2, <1>3, <1>4, <1>5, <1>6, <1>7, <1>8, <1>9, <1>10 DEF PolicyNext

\* A program that is not whole is being written, or its writer was cut off.
LEMMA WholeKept ==
    ASSUME PolicyTypeOK, ClockKept, ProgramIsWhole, PolicyNext
    PROVE  ProgramIsWhole'
<1> USE DEF ProgramIsWhole, PolicyTypeOK, PolicyPlaces, Files, File, Missing, Goto
<1>1. CASE Tick \/ Edit
  BY <1>1 DEF Tick, Edit
<1>2. ASSUME NEW p \in Procs,
             CheckGenerator(p) \/ CompileFails(p) \/ LinkBegins(p) \/ LinkEnds(p)
               \/ CheckProgram(p)
      PROVE  ProgramIsWhole'
  <2>1. policy[p] # "writing" /\ UNCHANGED <<program, cutOff>>
    BY <1>2 DEF CheckGenerator, CompileFails, LinkBegins, LinkEnds, Build, CheckProgram
  <2>2. \A q \in Procs : policy[q] = "writing" => policy'[q] = "writing"
    BY <1>2, <2>1 DEF CheckGenerator, CompileFails, LinkBegins, LinkEnds, Build, CheckProgram
  <2> QED
    BY <2>1, <2>2
<1>3. ASSUME NEW p \in Procs, WriteBegins(p)
      PROVE  ProgramIsWhole'
  BY <1>3 DEF WriteBegins, Export
<1>4. ASSUME NEW p \in Procs, WriteEnds(p)
      PROVE  ProgramIsWhole'
  BY <1>4 DEF WriteEnds, Export, ClockKept, At
<1>5. ASSUME NEW p \in Procs, CutOff(p)
      PROVE  ProgramIsWhole'
  BY <1>5 DEF CutOff
<1> QED
  BY <1>1, <1>2, <1>3, <1>4, <1>5 DEF PolicyNext

LEMMA ClockKeptByStep ==
    ASSUME PolicyTypeOK, ClockKept, PolicyNext
    PROVE  ClockKept'
<1> USE DEF ClockKept, PolicyTypeOK, PolicyPlaces, Files, File, Goto, At
<1>1. CASE Tick
  BY <1>1 DEF Tick
<1>2. CASE Edit
  BY <1>2 DEF Edit
<1>3. ASSUME NEW p \in Procs, CheckGenerator(p)
      PROVE  ClockKept'
  BY <1>3 DEF CheckGenerator
<1>4. ASSUME NEW p \in Procs, CompileFails(p) \/ CutOff(p)
      PROVE  ClockKept'
  BY <1>4 DEF CompileFails, CutOff
<1>5. ASSUME NEW p \in Procs, LinkBegins(p)
      PROVE  ClockKept'
  BY <1>5 DEF LinkBegins, Build
<1>6. ASSUME NEW p \in Procs, LinkEnds(p)
      PROVE  ClockKept'
  BY <1>6 DEF LinkEnds, Build
<1>7. ASSUME NEW p \in Procs, CheckProgram(p)
      PROVE  ClockKept'
  BY <1>7 DEF CheckProgram
<1>8. ASSUME NEW p \in Procs, WriteBegins(p)
      PROVE  ClockKept'
  BY <1>8 DEF WriteBegins, Export
<1>9. ASSUME NEW p \in Procs, WriteEnds(p)
      PROVE  ClockKept'
  BY <1>9 DEF WriteEnds, Export
<1> QED
  BY <1>1, <1>2, <1>3, <1>4, <1>5, <1>6, <1>7, <1>8, <1>9 DEF PolicyNext

\* What the times of modification say stays true, unless the race is lost.
LEMMA VouchedKept ==
    ASSUME PolicyTypeOK, ClockKept, Vouched, PolicyNext, ~raced'
    PROVE  GeneratorVouched' /\ ProgramVouched' /\ AnswersKept'
<1> USE DEF GeneratorVouched, ProgramVouched, AnswersKept, At, PolicyTypeOK, PolicyPlaces,
            Files, File, Goto
<1>1. CASE Tick
  BY <1>1 DEF Tick, Vouched
<1>2. CASE Edit
  <2>1. ~raced /\ generator.mtime # now
        /\ \A p \in Procs : policy[p] \notin {"compiling", "linking"}
    BY <1>2 DEF Edit
  <2> QED
    BY <1>2, <2>1 DEF Edit, Vouched, ClockKept
<1>3. ASSUME NEW p \in Procs, CheckGenerator(p)
      PROVE  GeneratorVouched' /\ ProgramVouched' /\ AnswersKept'
  BY <1>3 DEF CheckGenerator, Vouched, isStale
<1>4. ASSUME NEW p \in Procs, CompileFails(p) \/ CutOff(p)
      PROVE  GeneratorVouched' /\ ProgramVouched' /\ AnswersKept'
  BY <1>4 DEF CompileFails, CutOff, Vouched
<1>5. ASSUME NEW p \in Procs, LinkBegins(p)
      PROVE  GeneratorVouched' /\ ProgramVouched' /\ AnswersKept'
  <2> USE <1>5 DEF LinkBegins, Build
  <2>1. /\ ~raced /\ program.mtime # now
        /\ \A q \in Procs : policy[q] \notin {"exporting", "writing"}
    BY DEF Others
  <2>2. GeneratorVouched /\ ProgramVouched /\ AnswersKept
    BY <2>1 DEF Vouched
  <2>3. GeneratorVouched'
    BY <2>2
  <2>4. ProgramVouched'
    BY <2>1, <2>2 DEF ClockKept
  <2>5. AnswersKept'
    BY <2>2
  <2> QED
    BY <2>3, <2>4, <2>5
<1>6. ASSUME NEW p \in Procs, LinkEnds(p)
      PROVE  GeneratorVouched' /\ ProgramVouched' /\ AnswersKept'
  <2> USE <1>6 DEF LinkEnds, Build
  <2>1. /\ ~raced /\ program.mtime # now
        /\ \A q \in Procs : policy[q] \notin {"exporting", "writing"}
    BY DEF Others
  <2>2. GeneratorVouched /\ ProgramVouched /\ AnswersKept
    BY <2>1 DEF Vouched
  <2>3. GeneratorVouched'
    BY <2>2
  <2>4. ProgramVouched'
    BY <2>1, <2>2 DEF ClockKept
  <2>5. held[p] = source.version
    BY <2>2
  <2>6. AnswersKept'
    BY <2>2, <2>5 DEF ClockKept
  <2> QED
    BY <2>3, <2>4, <2>6
<1>7. ASSUME NEW p \in Procs, CheckProgram(p)
      PROVE  GeneratorVouched' /\ ProgramVouched' /\ AnswersKept'
  BY <1>7 DEF CheckProgram, Vouched, isStale
<1>8. ASSUME NEW p \in Procs, WriteBegins(p)
      PROVE  GeneratorVouched' /\ ProgramVouched' /\ AnswersKept'
  <2> USE <1>8 DEF WriteBegins, Export
  <2>1. GeneratorVouched /\ ProgramVouched /\ AnswersKept
    BY DEF Vouched
  <2>2. held[p] = generator.version /\ held[p] >= 1
    BY <2>1 DEF ClockKept
  <2>3. GeneratorVouched'
    BY <2>1
  <2>4. ProgramVouched'
    BY <2>1, <2>2
  <2>5. AnswersKept'
    BY <2>1, <2>2
  <2> QED
    BY <2>3, <2>4, <2>5
<1>9. ASSUME NEW p \in Procs, WriteEnds(p)
      PROVE  GeneratorVouched' /\ ProgramVouched' /\ AnswersKept'
  <2> USE <1>9 DEF WriteEnds, Export
  <2>1. GeneratorVouched /\ ProgramVouched /\ AnswersKept
    BY DEF Vouched
  <2>2. held[p] = generator.version /\ held[p] >= 1
    BY <2>1 DEF ClockKept
  <2>3. GeneratorVouched'
    BY <2>1
  <2>4. ProgramVouched'
    BY <2>1, <2>2
  <2>5. AnswersKept'
    BY <2>1, <2>2
  <2> QED
    BY <2>3, <2>4, <2>5
<1> QED
  BY <1>1, <1>2, <1>3, <1>4, <1>5, <1>6, <1>7, <1>8, <1>9 DEF PolicyNext

LEMMA PolicyKept ==
    ASSUME PolicyInv, PolicyNext
    PROVE  PolicyInv'
BY PolicyTypeKept, WholeKept, ClockKeptByStep, VouchedKept DEF PolicyInv, Vouched

LEMMA PolicyStays ==
    ASSUME PolicyInv, UNCHANGED policyVars
    PROVE  PolicyInv'
BY DEF policyVars, PolicyInv, PolicyTypeOK, ClockKept, ProgramIsWhole, Vouched,
       GeneratorVouched, ProgramVouched, AnswersKept, At

(***************************************************************************)
(* The limits.                                                             *)
(***************************************************************************)
CallerBounds == {LIMIT_BOUNDS, LOCAL_LIMIT_BOUNDS}

WithinBounds(limits, bounds) ==
    \A key \in LimitNames : limits[key] \in bounds[key].min..bounds[key].max

Names == {"memoryBytes", "cpuPercent", "pids", "wallClockMs", "outputBytes",
          "fileSizeBytes", "openFiles", "tmpfsBytes"}

LEMMA NamesOfLimits ==
    LimitNames = Names
BY DEF LimitNames, Names, DEFAULT_LIMITS

\* The bounds are bounds, and what the server itself sets is within them.
LEMMA BoundsFit ==
    ASSUME NEW bounds \in CallerBounds
    PROVE  /\ \A key \in LimitNames :
                 /\ bounds[key].min \in Nat /\ bounds[key].max \in Nat
                 /\ bounds[key].min <= bounds[key].max
           /\ WithinBounds(DEFAULT_LIMITS, bounds)
           /\ WithinBounds(COMPILE_LIMITS, bounds)
<1> USE DEF KiB, Between
<1>1. ASSUME NEW key \in Names
      PROVE  /\ bounds[key].min \in Nat /\ bounds[key].max \in Nat
             /\ bounds[key].min <= bounds[key].max
             /\ DEFAULT_LIMITS[key] \in bounds[key].min..bounds[key].max
             /\ COMPILE_LIMITS[key] \in bounds[key].min..bounds[key].max
  <2>1. CASE bounds = LIMIT_BOUNDS
    BY <2>1 DEF Names, LIMIT_BOUNDS, DEFAULT_LIMITS, COMPILE_LIMITS
  <2>2. CASE bounds = LOCAL_LIMIT_BOUNDS
    <3>1. LIMIT_BOUNDS.wallClockMs = [min |-> 100, max |-> 60000]
          /\ LIMIT_BOUNDS.memoryBytes = [min |-> 1024, max |-> 512 * 1024]
      BY DEF LIMIT_BOUNDS
    <3>2. DOMAIN LIMIT_BOUNDS = Names
      BY DEF LIMIT_BOUNDS, Names
    <3>3. CASE key = "wallClockMs"
      <4>1. LOCAL_LIMIT_BOUNDS[key] = [min |-> 100, max |-> 600000]
        BY <3>1, <3>2, <3>3 DEF LOCAL_LIMIT_BOUNDS
      <4> QED
        BY <2>2, <3>3, <4>1 DEF DEFAULT_LIMITS, COMPILE_LIMITS
    <3>4. CASE key = "memoryBytes"
      <4>1. LOCAL_LIMIT_BOUNDS[key] = [min |-> 1024, max |-> 4 * 1024 * 1024]
        BY <3>1, <3>2, <3>4 DEF LOCAL_LIMIT_BOUNDS
      <4> QED
        BY <2>2, <3>4, <4>1 DEF DEFAULT_LIMITS, COMPILE_LIMITS
    <3>5. CASE key \notin {"wallClockMs", "memoryBytes"}
      <4>1. LOCAL_LIMIT_BOUNDS[key] = LIMIT_BOUNDS[key]
        <5> DEFINE wall == [LIMIT_BOUNDS.wallClockMs EXCEPT !.max = 600000]
                   half == [LIMIT_BOUNDS EXCEPT !.wallClockMs = wall]
                   memory == [half.memoryBytes EXCEPT !.max = 4 * 1024 * 1024]
        <5>1. LOCAL_LIMIT_BOUNDS = [half EXCEPT !.memoryBytes = memory]
          BY DEF LOCAL_LIMIT_BOUNDS
        <5>2. key \in DOMAIN half /\ half[key] = LIMIT_BOUNDS[key]
          BY <3>2, <3>5
        <5> HIDE DEF half, memory
        <5> QED
          BY <3>5, <5>1, <5>2
      <4> QED
        BY <2>2, <3>5, <4>1 DEF Names, LIMIT_BOUNDS, DEFAULT_LIMITS, COMPILE_LIMITS
    <3> QED
      BY <3>3, <3>4, <3>5
  <2> QED
    BY <2>1, <2>2 DEF CallerBounds
<1> QED
  BY <1>1, NamesOfLimits DEF WithinBounds

LEMMA OneFileAtLeast ==
    ASSUME NEW bounds \in CallerBounds
    PROVE  bounds.openFiles.min >= 1
<1>1. LIMIT_BOUNDS.openFiles.min = 4
  BY DEF LIMIT_BOUNDS, Between
<1>2. LOCAL_LIMIT_BOUNDS.openFiles = LIMIT_BOUNDS.openFiles
  BY DEF LOCAL_LIMIT_BOUNDS, LIMIT_BOUNDS
<1> QED
  BY <1>1, <1>2 DEF CallerBounds

LEMMA TruncIsInteger ==
    ASSUME NEW halves \in Int
    PROVE  Trunc(halves) \in Int
BY DEF Trunc

\* Whatever number or other value the caller sent, what is used is in bounds.
LEMMA SanitizedInBounds ==
    ASSUME NEW raw, raw.halves \in Int,
           NEW bounds, bounds.min \in Int, bounds.max \in Int,
           NEW default \in bounds.min..bounds.max
    PROVE  Sanitize(raw, bounds, default) \in bounds.min..bounds.max
<1>1. Trunc(raw.halves) \in Int
  BY TruncIsInteger
<1>2. \A n \in Int : Clamp(n, bounds) \in bounds.min..bounds.max
  BY DEF Clamp
<1> QED
  BY <1>1, <1>2 DEF Sanitize

\* Raw limits are counted in halves, all of them.
LEMMA RawIsCounted ==
    ASSUME NEW bounds, bounds.min \in Int, bounds.max \in Int,
           NEW raw \in RawLimits(bounds)
    PROVE  raw.halves \in Int
<1>1. CASE raw \in {Raw(kind, 0) : kind \in OtherKinds \cup {"blank"}}
  BY <1>1 DEF Raw
<1>2. CASE raw \in {Raw(kind, 2 * n + half) :
                      kind \in {"number", "numeric"}, half \in -2..2,
                      n \in {bounds.min, bounds.max, -5}}
  <2>1. PICK kind \in {"number", "numeric"}, half \in -2..2,
             n \in {bounds.min, bounds.max, -5} : raw = Raw(kind, 2 * n + half)
    BY <1>2
  <2>2. n \in Int /\ half \in Int
    OBVIOUS
  <2>3. 2 * n + half \in Int
    BY <2>2
  <2> QED
    BY <2>1, <2>3 DEF Raw
<1> QED
  BY <1>1, <1>2 DEF RawLimits

\* sanitizeLimits() puts every limit within its bounds, whatever was sent.
LEMMA LimitsWithinBounds ==
    ASSUME NEW bounds \in CallerBounds, NEW name \in LimitNames,
           NEW raw \in RawLimits(bounds[name])
    PROVE  WithinBounds(sanitizeLimits(Only(name, raw), bounds), bounds)
<1>1. bounds[name].min \in Nat /\ bounds[name].max \in Nat
  BY BoundsFit
<1>2. raw.halves \in Int
  BY <1>1, RawIsCounted
<1>3. ASSUME NEW key \in LimitNames
      PROVE  sanitizeLimits(Only(name, raw), bounds)[key]
                \in bounds[key].min..bounds[key].max
  <2>1. Only(name, raw)[key].halves \in Int
    BY <1>2 DEF Only, Raw
  <2>2. /\ bounds[key].min \in Nat /\ bounds[key].max \in Nat
        /\ DEFAULT_LIMITS[key] \in bounds[key].min..bounds[key].max
    BY BoundsFit DEF WithinBounds
  <2>3. Sanitize(Only(name, raw)[key], bounds[key], DEFAULT_LIMITS[key])
          \in bounds[key].min..bounds[key].max
    BY <2>1, <2>2, SanitizedInBounds
  <2> QED
    BY <2>3 DEF sanitizeLimits
<1> QED
  BY <1>3 DEF WithinBounds

\* A file-size limit is half of what was asked, to the block.
LEMMA HalfTheFile ==
    ASSUME NEW limits, limits.fileSizeBytes \in Nat
    PROVE  2 * FileLimit(limits) \in (limits.fileSizeBytes - 1023)..limits.fileSizeBytes
<1> DEFINE n == limits.fileSizeBytes
<1>1. n \in Nat
  OBVIOUS
<1>2. FileLimit(limits) = 512 * (n \div 1024)
  BY DEF FileLimit
<1> HIDE DEF n
<1>3. n \div 1024 \in Nat /\ 1024 * (n \div 1024) \in (n - 1023)..n
  BY <1>1
<1>4. 2 * (512 * (n \div 1024)) = 1024 * (n \div 1024)
  BY <1>3
<1>5. 2 * FileLimit(limits) \in (n - 1023)..n
  BY <1>2, <1>3, <1>4
<1> QED
  BY <1>5 DEF n

(***************************************************************************)
(* The cgroup.                                                             *)
(***************************************************************************)
TreePlaces == {"called", "slice_made", "root_enabled", "prepared", "configured",
               "guest", "error", "setup_failed", "thrown"}

TreeTypeOK ==
    /\ kernel \in SUBSET NEEDED_CONTROLLERS
    /\ own \in Dirs /\ root \in Dirs
    /\ subtree \in [Dirs -> SUBSET NEEDED_CONTROLLERS]
    /\ occupied \in SUBSET Dirs
    /\ slice \in SUBSET NEEDED_CONTROLLERS
    /\ place \in TreePlaces

Prepared == {"prepared", "configured", "guest", "error", "setup_failed"}

\* Where processes live, nothing is enabled; and the slice has what CG_ROOT
\* gives it, which is all that CG_ROOT has, unless it could not be enabled.
TreeKept ==
    /\ \A d \in occupied \ {0} : subtree[d] = {}
    /\ slice \subseteq subtree[root]
    /\ place \in {"root_enabled"} \cup Prepared =>
          \/ root \notin writable \/ subtree[root] = {}
          \/ NEEDED_CONTROLLERS \cap Available(root) \subseteq subtree[root]
    /\ place \in Prepared => slice = subtree[root]

TreeInv == TreeTypeOK /\ TreeKept

\* CG_ROOT is a cgroup of the branch.
LEMMA RootOnBranch ==
    ASSUME own \in Dirs
    PROVE  findDelegatedRoot \in Dirs
<1> DEFINE hosts == {d \in 1..own : canHostDelegation(d)}
           above == {own - d : d \in hosts}
<1>1. own \in Nat
  BY DepthAssumption DEF Dirs
<1>2. ASSUME hosts # {}
      PROVE  \E d \in hosts : \A e \in hosts : e <= d
  <2>1. above \subseteq Nat /\ above # {}
    BY <1>1, <1>2
  <2>2. PICK n \in above : \A m \in above : <<m, n>> \notin OpToRel(<, Nat)
    BY <2>1, NatLessThanWellFounded, WFMin
  <2>3. PICK d \in hosts : n = own - d
    BY <2>2
  <2>4. ASSUME NEW e \in hosts
        PROVE  e <= d
    <3>1. own - e \in above /\ own - e \in Nat /\ n \in Nat
      BY <2>1, <2>2, <2>4
    <3>2. ~(own - e < n)
      BY <2>2, <3>1 DEF OpToRel
    <3> QED
      BY <1>1, <2>3, <3>1, <3>2
  <2> QED
    BY <2>4
<1>3. CASE hosts = {}
  BY <1>3 DEF findDelegatedRoot
<1>4. CASE hosts # {}
  <2>1. findDelegatedRoot \in hosts
    BY <1>2, <1>4 DEF findDelegatedRoot
  <2> QED
    BY <2>1, <1>1, DepthAssumption DEF Dirs
<1> QED
  BY <1>3, <1>4

LEMMA TreeStarts ==
    ASSUME TreeInit
    PROVE  TreeInv
<1>1. root \in Dirs
  BY RootOnBranch DEF TreeInit
<1>2. TreeTypeOK
  BY <1>1 DEF TreeInit, TreeTypeOK, TreePlaces
<1>3. TreeKept
  BY <1>1 DEF TreeInit, TreeKept, Prepared
<1> QED
  BY <1>2, <1>3 DEF TreeInv

LEMMA EnableRootKeeps ==
    ASSUME TreeInv, EnableRoot
    PROVE  TreeInv'
<1> DEFINE gained == subtree[root] \cup (NEEDED_CONTROLLERS \cap Available(root))
           enables == root \in writable /\ (root = 0 \/ root \notin occupied)
<1>1. /\ place = "slice_made" /\ place' = "root_enabled"
      /\ subtree' = IF enables THEN [subtree EXCEPT ![root] = gained] ELSE subtree
      /\ UNCHANGED <<kernel, own, occupied, writable, root, slice>>
  BY DEF EnableRoot, Advance
<1>2. TreeTypeOK /\ TreeKept /\ root \in Dirs
  BY DEF TreeInv, TreeTypeOK
<1>3. /\ gained \in SUBSET NEEDED_CONTROLLERS /\ subtree[root] \subseteq gained
      /\ NEEDED_CONTROLLERS \cap Available(root) \subseteq gained
  BY <1>2 DEF TreeTypeOK
<1>4. CASE ~enables
  <2>1. root \notin writable \/ subtree[root] = {}
    BY <1>2, <1>4 DEF TreeKept
  <2>2. subtree' = subtree
    BY <1>1, <1>4
  <2> HIDE DEF enables, gained
  <2>3. TreeTypeOK'
    BY <1>1, <1>2, <2>2 DEF TreeTypeOK, TreePlaces
  <2>4. TreeKept'
    BY <1>1, <1>2, <2>1, <2>2 DEF TreeKept, Prepared
  <2> QED
    BY <2>3, <2>4 DEF TreeInv
<1>5. CASE enables
  <2>1. subtree' = [subtree EXCEPT ![root] = gained]
    BY <1>1, <1>5
  <2>2. root = 0 \/ root \notin occupied
    BY <1>5
  <2> HIDE DEF enables, gained
  <2>3. TreeTypeOK'
    BY <1>1, <1>2, <1>3, <2>1 DEF TreeTypeOK, TreePlaces
  <2>4. subtree'[root] = gained /\ \A d \in Dirs \ {root} : subtree'[d] = subtree[d]
    BY <1>2, <2>1 DEF TreeTypeOK
  <2>5. Available(root)' = Available(root)
    <3>1. CASE root = 0
      BY <1>1, <3>1 DEF Available
    <3>2. CASE root # 0
      <4>1. root - 1 \in Dirs \ {root}
        BY <1>2, <3>2, DepthAssumption DEF Dirs
      <4> QED
        BY <1>1, <2>4, <3>2, <4>1 DEF Available
    <3> QED
      BY <3>1, <3>2
  <2>6. \A d \in occupied \ {0} : d \in Dirs \ {root}
    BY <1>2, <2>2 DEF TreeTypeOK
  <2>7. TreeKept'
    BY <1>1, <1>2, <1>3, <2>4, <2>5, <2>6 DEF TreeKept, Prepared
  <2> QED
    BY <2>3, <2>7 DEF TreeInv
<1> QED
  BY <1>4, <1>5

LEMMA TreeStepKeeps ==
    ASSUME TreeInv, TreeNext
    PROVE  TreeInv'
<1> USE DEF TreeInv, TreeTypeOK, TreePlaces, TreeKept, Prepared, Available, Advance
<1>1. ASSUME NEW d \in Dirs, Enters(d)
      PROVE  TreeInv'
  BY <1>1 DEF Enters
<1>2. ASSUME NEW d \in Dirs, Leaves(d)
      PROVE  TreeInv'
  BY <1>2 DEF Leaves
<1>3. CASE MakeSlice
  BY <1>3 DEF MakeSlice
<1>4. CASE EnableRoot
  BY <1>4, EnableRootKeeps
<1>5. CASE EnableSlice
  BY <1>5 DEF EnableSlice
<1>6. CASE EnableFails
  BY <1>6 DEF EnableFails
<1> QED
  BY <1>1, <1>2, <1>3, <1>4, <1>5, <1>6 DEF TreeNext

(***************************************************************************)
(* The call.                                                               *)
(***************************************************************************)
\* What configureCgroup() writes for these limits.
SettingsOf(limits) ==
    [memory |-> limits.memoryBytes, swap |-> 0, pids |-> limits.pids,
     cpu |-> IF "cpu" \in slice THEN 1000 * limits.cpuPercent ELSE 0]

Limited ==
    place \in {"configured", "guest", "setup_failed"} =>
        /\ WithinBounds(lim, limitBounds)
        /\ Delegated
        /\ settings = SettingsOf(lim)

GuestLoaded == place = "guest" => loaded # 0 /\ (~raced => loaded >= asked[self])

\* The limits, the program and the cgroup, in the order of the calls.
CallInv ==
    /\ limitBounds \in CallerBounds
    /\ place # "called" => policy[self] = "ready"
    /\ Limited
    /\ GuestLoaded

IInv == PolicyInv /\ TreeInv /\ CallInv

LEMMA Starts ==
    ASSUME Init
    PROVE  IInv
<1>1. PolicyInv /\ TreeInv
  BY PolicyStarts, TreeStarts DEF Init
<1>2. CallInv
  BY DEF Init, TreeInit, CallInv, CallerBounds, Limited, GuestLoaded
<1> QED
  BY <1>1, <1>2 DEF IInv

\* A process that is ready stays so.
LEMMA ReadyStays ==
    ASSUME PolicyTypeOK, PolicyNext, NEW p \in Procs, policy[p] = "ready"
    PROVE  policy'[p] = "ready"
BY DEF PolicyTypeOK, PolicyNext, Tick, Edit, CheckGenerator, CompileFails, LinkBegins,
       LinkEnds, Build, CheckProgram, WriteBegins, WriteEnds, Export, CutOff, Goto

LEMMA PolicyStepKeeps ==
    ASSUME IInv, PolicyStep, ~Settled
    PROVE  IInv'
<1>1. PolicyNext /\ UNCHANGED <<treeVars, limitBounds, lim, settings, loaded>>
  BY DEF PolicyStep
<1>2. PolicyInv'
  BY <1>1, PolicyKept DEF IInv
<1>3. TreeInv'
  BY <1>1 DEF IInv, TreeInv, TreeTypeOK, TreeKept, treeVars, Available
<1>4. policy[self] = "ready" => policy'[self] = "ready"
  BY <1>1, ReadyStays, SelfAssumption DEF IInv, PolicyInv
<1>5. place' = place /\ place # "guest"
  BY <1>1 DEF Settled, treeVars
<1>6. Limited'
  BY <1>1 DEF IInv, CallInv, Limited, Delegated, SettingsOf, treeVars
<1>7. CallInv'
  BY <1>1, <1>4, <1>5, <1>6 DEF IInv, CallInv, GuestLoaded
<1> QED
  BY <1>2, <1>3, <1>7 DEF IInv

LEMMA TreeStepKeepsAll ==
    ASSUME IInv, TreeStep, ~Settled
    PROVE  IInv'
<1>1. /\ TreeNext /\ policy[self] = "ready"
      /\ UNCHANGED <<policyVars, limitBounds, lim, settings, loaded>>
  BY DEF TreeStep
<1>2. PolicyInv'
  BY <1>1, PolicyStays DEF IInv
<1>3. TreeInv'
  BY <1>1, TreeStepKeeps DEF IInv
<1>4. place' \in {"configured", "guest", "setup_failed"} =>
         place' = place /\ slice' = slice
  BY <1>1 DEF TreeNext, Enters, Leaves, MakeSlice, EnableRoot, EnableSlice, EnableFails,
              Advance
<1>5. Limited'
  BY <1>1, <1>4 DEF IInv, CallInv, Limited, Delegated, SettingsOf
<1>6. CallInv'
  BY <1>1, <1>4, <1>5 DEF IInv, CallInv, GuestLoaded, policyVars, Settled
<1> QED
  BY <1>2, <1>3, <1>6 DEF IInv

LEMMA ConfigureKeeps ==
    ASSUME IInv, Configure
    PROVE  IInv'
<1>1. /\ UNCHANGED <<policyVars, kernel, own, subtree, occupied, writable, root,
                     slice, limitBounds, loaded>>
      /\ settings' = SettingsOf(lim')
      /\ place = "prepared"
      /\ \/ place' = "configured" /\ Delegated
         \/ place' = "thrown"
  BY DEF Configure, configureCgroup, Advance, Delegated, SettingsOf
<1>2. PolicyInv'
  BY <1>1, PolicyStays DEF IInv
<1>3. TreeInv'
  BY <1>1 DEF IInv, TreeInv, TreeTypeOK, TreePlaces, TreeKept, Prepared, Available
<1>4. limitBounds \in CallerBounds
  BY DEF IInv, CallInv
<1>5. WithinBounds(lim', limitBounds)
  <2>1. CASE lim' = COMPILE_LIMITS
    BY <1>4, <2>1, BoundsFit
  <2>2. ASSUME NEW key \in LimitNames, NEW raw \in RawLimits(limitBounds[key]),
               lim' = sanitizeLimits(Only(key, raw), limitBounds)
        PROVE  WithinBounds(lim', limitBounds)
    BY <1>4, <2>2, LimitsWithinBounds
  <2> QED
    BY <2>1, <2>2 DEF Configure
<1>6. Limited'
  <2>1. WithinBounds(lim, limitBounds)'
    BY <1>1, <1>5 DEF WithinBounds
  <2> QED
    BY <1>1, <2>1 DEF Limited, Delegated, SettingsOf
<1>7. CallInv'
  BY <1>1, <1>6 DEF IInv, CallInv, GuestLoaded, policyVars
<1> QED
  BY <1>2, <1>3, <1>7 DEF IInv

LEMMA LeavesConfigured ==
    ASSUME IInv, JoinFails \/ StartGuest
    PROVE  IInv'
<1>1. /\ UNCHANGED <<policyVars, kernel, own, subtree, occupied, writable, root,
                     slice, limitBounds, lim, settings>>
      /\ place = "configured"
      /\ \/ place' = "setup_failed"
         \/ place' = "error"
         \/ place' = "guest" /\ loaded' = program.version /\ loaded' # 0
  BY DEF JoinFails, StartGuest, Advance
<1>2. PolicyInv'
  BY <1>1, PolicyStays DEF IInv
<1>3. TreeInv'
  BY <1>1 DEF IInv, TreeInv, TreeTypeOK, TreePlaces, TreeKept, Prepared, Available
<1>4. Limited'
  BY <1>1 DEF IInv, CallInv, Limited, Delegated, SettingsOf
<1>5. policy[self] = "ready"
  BY <1>1 DEF IInv, CallInv
<1>6. ~raced /\ program.version # 0 => program.version >= asked[self]
  BY <1>5, SelfAssumption DEF IInv, PolicyInv, Vouched, AnswersKept, At
<1>7. CallInv'
  BY <1>1, <1>4, <1>5, <1>6 DEF IInv, CallInv, GuestLoaded, policyVars
<1> QED
  BY <1>2, <1>3, <1>7 DEF IInv

\* What ensureSeccompProgram(), ensureParentSlice() and configureCgroup() keep,
\* whatever other processes and the editor of policy.c do between their steps.
THEOREM Invariant ==
    Spec => []IInv
<1>1. Init => IInv
  BY Starts
<1>2. IInv /\ [Next]_vars => IInv'
  <2> SUFFICES ASSUME IInv, [Next]_vars
               PROVE  IInv'
    OBVIOUS
  <2>1. CASE Next
    BY <2>1, PolicyStepKeeps, TreeStepKeepsAll, ConfigureKeeps, LeavesConfigured DEF Next
  <2>2. CASE UNCHANGED vars
    <3>1. UNCHANGED policyVars /\ UNCHANGED treeVars
          /\ UNCHANGED <<limitBounds, lim, settings, loaded>>
      BY <2>2 DEF vars
    <3>2. PolicyInv'
      BY <3>1, PolicyStays DEF IInv
    <3>3. TreeInv'
      BY <3>1 DEF IInv, TreeInv, TreeTypeOK, TreeKept, treeVars, Available
    <3>4. Limited'
      BY <3>1 DEF IInv, CallInv, Limited, Delegated, SettingsOf, treeVars
    <3>5. CallInv'
      BY <3>1, <3>4 DEF IInv, CallInv, GuestLoaded, treeVars, policyVars
    <3> QED
      BY <3>2, <3>3, <3>5 DEF IInv
  <2> QED
    BY <2>1, <2>2
<1> QED
  BY <1>1, <1>2, PTL DEF Spec

\* A program that is not whole is being exported, or whoever exported it was cut
\* off: no process makes one of a generator that is not whole.
THEOREM ProgramWhole ==
    Spec => []ProgramIsWhole
<1>1. IInv => ProgramIsWhole
  BY DEF IInv, PolicyInv
<1> QED
  BY <1>1, Invariant, PTL

\* The program that bwrap loads was made from policy.c as it was when
\* ensureSeccompProgram() was called, or later, unless a file was changed while
\* it was used.
THEOREM PolicyCurrent ==
    Spec => []PolicyIsCurrent
<1>1. IInv => PolicyIsCurrent
  BY DEF IInv, CallInv, GuestLoaded, PolicyIsCurrent
<1> QED
  BY <1>1, Invariant, PTL

\* A guest runs within the limits sanitizeLimits() made of what its caller sent,
\* and configureCgroup() and the shell have set them, as far as the host
\* delegates.
THEOREM GuestConfined ==
    Spec => []GuestIsConfined
<1>1. ASSUME IInv
      PROVE  GuestIsConfined
  <2>1. CASE place = "guest"
    <3>1. /\ WithinBounds(lim, limitBounds)
          /\ Delegated
          /\ settings = SettingsOf(lim)
      BY <1>1, <2>1 DEF IInv, CallInv, Limited
    <3>2. "cpu" \in slice \/ root \notin writable \/ "cpu" \notin Available(root)
      BY <1>1, <2>1, <3>1 DEF IInv, TreeInv, TreeTypeOK, TreeKept, Prepared, Delegated,
                             NEEDED_CONTROLLERS
    <3>3. lim.openFiles \in Nat /\ lim.openFiles >= 1 /\ lim.fileSizeBytes \in Nat
      BY <1>1, <3>1, NamesOfLimits, BoundsFit, OneFileAtLeast
        DEF IInv, CallInv, WithinBounds, Names
    <3>4. OpenFiles(lim) = lim.openFiles
      BY <3>3 DEF OpenFiles
    <3>5. 2 * FileLimit(lim) \in (lim.fileSizeBytes - 1023)..lim.fileSizeBytes
      BY <3>3, HalfTheFile
    <3>6. /\ settings.memory = lim.memoryBytes /\ settings.pids = lim.pids
          /\ settings.cpu = IF "cpu" \in slice THEN 1000 * lim.cpuPercent ELSE 0
      BY <3>1 DEF SettingsOf
    <3> QED
      BY <2>1, <3>1, <3>2, <3>4, <3>5, <3>6 DEF GuestIsConfined, WithinBounds
  <2>2. CASE place # "guest"
    BY <1>1, <2>2 DEF IInv, CallInv, Limited, GuestIsConfined
  <2> QED
    BY <2>1, <2>2
<1> QED
  BY <1>1, Invariant, PTL
-----------------------------------------------------------------------------
(***************************************************************************)
(* The pages: the playground and the page behind a run's link (Pages), for *)
(* any runs and any record.                                                *)
(*                                                                         *)
(* The inductive invariant of the playground (PlayInv) follows each run    *)
(* from its click to the close of its socket, and says what is on the page *)
(* of the newest (NewestShown); that of the other page (LinkInv) says that *)
(* what has been shown is exactly what the merge places first (Replayed),  *)
(* and when (Timed).                                                       *)
(***************************************************************************)

\* The values the variables of the playground take.
PageTyped ==
    /\ clicked \in 0..MaxRuns /\ socket \in 0..MaxRuns /\ result \in 0..MaxRuns
    /\ stage \in [Runs -> {"none", "fetching", "lost", "refused", "open", "over",
                           "closed"}]
    /\ heard \in [Runs -> {"nothing", "queued", "started"}]
    /\ told \in [Runs -> 0..MaxChunks]
    /\ outcome \in [Runs -> [chunks : 0..MaxChunks, buffered : BOOLEAN]]
    /\ sawChunk \in BOOLEAN /\ button \in BOOLEAN /\ stdinOn \in BOOLEAN
    /\ visible \in BOOLEAN /\ eof \in BOOLEAN /\ lateClose \in BOOLEAN
    /\ overlapped \in BOOLEAN
    /\ statSamples \in Seq(Runs) /\ canvas \in Seq(Runs)
    /\ output \in Seq(Runs \X (0..MaxChunks))
    /\ given \subseteq Runs

\* How far each run is, and what has been heard of it.
RunsKept ==
    \A r \in Runs :
        /\ stage[r] = "none" <=> r > clicked
        /\ stage[r] \in {"none", "fetching", "lost", "refused"} => heard[r] = "nothing"
        /\ told[r] > 0 => heard[r] = "started"

\* As long as no run was clicked over another, what goes on is the newest run's.
Alone ==
    ~overlapped =>
        /\ \A r \in Runs : UnderWay(r) => r = clicked
        /\ \A r \in given : heard[r] = "started"

Printed(r) ==
    IF result = r /\ told[r] = 0 /\ HasOutput(outcome[r])
    THEN <<<<r, 0>>>>
    ELSE [n \in 1..told[r] |-> <<r, n>>]

\* What is on the page then.
NewestShown ==
    (~overlapped /\ clicked > 0) =>
        /\ result \in {0, clicked}
        /\ UnderWay(clicked) => result = 0
        /\ stage[clicked] \in {"open", "over", "closed"} => socket = clicked
        /\ sawChunk <=> told[clicked] > 0
        /\ (result = clicked /\ told[clicked] > 0) => outcome[clicked].chunks = told[clicked]
        /\ output = Printed(clicked)
        /\ stdinOn => heard[clicked] = "started"
        /\ visible => heard[clicked] = "started"
        /\ \A n \in DOMAIN statSamples : statSamples[n] = clicked

NothingShown ==
    clicked = 0 =>
        /\ output = <<>> /\ statSamples = <<>> /\ result = 0
        /\ ~visible /\ ~stdinOn /\ given = {}

Drawn == Len(statSamples) >= 2 => canvas = statSamples

\* What has the button disabled, and the box live.
ControlsKept ==
    /\ (~lateClose /\ ~overlapped) =>
          /\ Newest({"fetching", "open"}) => ~button
          /\ (Newest({"open"}) /\ heard[clicked] = "started") => stdinOn \/ eof
    /\ button \/ \E r \in Runs : stage[r] \in {"fetching", "lost", "open", "over"}
    /\ stdinOn => \E r \in Runs : stage[r] \in {"open", "over"}

PlayInv ==
    /\ PageTyped /\ RunsKept /\ Alone
    /\ NewestShown /\ NothingShown /\ Drawn
    /\ ControlsKept

-----------------------------------------------------------------------------

\* Any record there may be, and how many events it holds.
Records == [chunks : Seq(Int), stats : Seq(Int), buffered : BOOLEAN]

Length(r) == Len(r.chunks) + Len(r.stats)

\* The events that are shown, by kind: the chunks and the samples of a record
\* whose place in the merge is among the first.
ShownChunks == {n \in 1..Len(record.chunks) : Place(Recorded(record), n) <= at}

ShownStats ==
    {n \in 1..Len(record.stats) : Place(Recorded(record), Len(record.chunks) + n) <= at}

LinkTyped ==
    /\ page \in {"none", "loading", "not_found", "replaying", "done"}
    /\ record \in Records
    /\ at \in 0..Length(record)
    /\ clock \in Int /\ elapsed \in Nat
    /\ shownAt \in Seq(Int) /\ Len(shownAt) = at
    /\ linkOutput \in Seq(Nat) /\ linkSamples \in Nat
    /\ page \in {"none", "loading"} => at = 0
    /\ page = "loading" => clicked = 1
    /\ page \in {"none", "loading"} => record = NoRecord

Replayed ==
    /\ {linkOutput[n] : n \in DOMAIN linkOutput} = ShownChunks
    /\ Cardinality(ShownChunks) = Len(linkOutput)
    /\ Cardinality(ShownStats) = linkSamples
    /\ InOrder(record.chunks) => \A n \in DOMAIN linkOutput : linkOutput[n] = n
    /\ page = "done" => at = Length(record)

TimeOf(n) == Events(record)[n].t

Timed ==
    /\ at > 0 => clock = TimeOf(at) /\ elapsed = shownAt[at]
    /\ \A m \in 1..at : \A n \in m..at :
          /\ shownAt[n] - shownAt[m] \in 0..(TimeOf(n) - TimeOf(m))
          /\ (\A k \in (m + 1)..n : TimeOf(k) - TimeOf(k - 1) <= MAX_STEP_DELAY_MS)
                => shownAt[n] - shownAt[m] = TimeOf(n) - TimeOf(m)

LinkInv == LinkTyped /\ Replayed /\ Timed

-----------------------------------------------------------------------------
\* One more chunk, printed after those that were.
LEMMA PrintedMore ==
    ASSUME NEW r, NEW k \in Nat
    PROVE  Append([n \in 1..k |-> <<r, n>>], <<r, k + 1>>) = [n \in 1..(k + 1) |-> <<r, n>>]
<1> DEFINE before == [n \in 1..k |-> <<r, n>>]
           after == [n \in 1..(k + 1) |-> <<r, n>>]
<1>1. before \in Seq({<<r, n>> : n \in 1..(k + 1)}) /\ Len(before) = k
      /\ after \in Seq({<<r, n>> : n \in 1..(k + 1)}) /\ Len(after) = k + 1
  OBVIOUS
<1>2. Len(Append(before, <<r, k + 1>>)) = k + 1
      /\ \A n \in 1..(k + 1) : Append(before, <<r, k + 1>>)[n] = <<r, n>>
  BY <1>1, AppendProperties
<1> QED
  BY <1>1, <1>2, SeqEqual


\* The request fails, or is refused.
LEMMA NotAcceptedKept ==
    ASSUME RunsAssumption, PlayInv, NEW r \in Runs, NotAccepted(r)
    PROVE  PlayInv'
<1>1. /\ (clicked > 0 => clicked \in Runs) /\ given \subseteq Runs
      /\ stage[r] = "fetching" /\ stage'[r] = "refused"
      /\ \A q \in Runs : q # r => stage'[q] = stage[q]
      /\ button' = TRUE
      /\ clicked' = clicked /\ heard' = heard /\ told' = told
      /\ outcome' = outcome /\ socket' = socket /\ sawChunk' = sawChunk
      /\ stdinOn' = stdinOn /\ statSamples' = statSamples /\ canvas' = canvas
      /\ visible' = visible /\ output' = output /\ result' = result
      /\ given' = given /\ eof' = eof /\ lateClose' = lateClose
      /\ overlapped' = overlapped
  BY DEF PlayInv, PageTyped, NotAccepted, Becomes, runVars,
         pageVars, shownVars, graphVars, historyVars,
         RunsAssumption, Runs
<1>2. PageTyped'
  BY DEF PlayInv, PageTyped, NotAccepted, Becomes, runVars,
         pageVars, shownVars, graphVars, historyVars,
         RunsAssumption, Runs
<1>3. RunsKept'
  BY <1>1 DEF PlayInv, RunsKept
<1>4. Alone'
  BY <1>1 DEF PlayInv, Alone, UnderWay
<1>5. NewestShown'
  BY <1>1 DEF PlayInv, NewestShown, Alone, UnderWay, Printed
<1>6. NothingShown'
  BY <1>1 DEF PlayInv, NothingShown, RunsKept, Runs
<1>7. Drawn'
  BY <1>1 DEF PlayInv, Drawn
<1>8. ControlsKept'
  BY <1>1 DEF PlayInv, ControlsKept, Newest, UnderWay, Alone, RunsKept
<1> QED
  BY <1>2, <1>3, <1>4, <1>5, <1>6, <1>7, <1>8 DEF PlayInv

\* The body of the answer is lost.
LEMMA BodyLostKept ==
    ASSUME RunsAssumption, PlayInv, NEW r \in Runs, BodyLost(r)
    PROVE  PlayInv'
<1>1. /\ (clicked > 0 => clicked \in Runs) /\ given \subseteq Runs
      /\ stage[r] = "fetching" /\ stage'[r] = "lost"
      /\ \A q \in Runs : q # r => stage'[q] = stage[q]
      /\ clicked' = clicked /\ heard' = heard /\ told' = told
      /\ outcome' = outcome /\ socket' = socket /\ sawChunk' = sawChunk
      /\ button' = button /\ stdinOn' = stdinOn /\ statSamples' = statSamples
      /\ canvas' = canvas /\ visible' = visible /\ output' = output
      /\ result' = result /\ given' = given /\ eof' = eof
      /\ lateClose' = lateClose /\ overlapped' = overlapped
  BY DEF PlayInv, PageTyped, BodyLost, Becomes, runVars,
         pageVars, shownVars, graphVars, historyVars,
         RunsAssumption, Runs
<1>2. PageTyped'
  BY DEF PlayInv, PageTyped, BodyLost, Becomes, runVars,
         pageVars, shownVars, graphVars, historyVars,
         RunsAssumption, Runs
<1>3. RunsKept'
  BY <1>1 DEF PlayInv, RunsKept
<1>4. Alone'
  BY <1>1 DEF PlayInv, Alone, UnderWay
<1>5. NewestShown'
  BY <1>1 DEF PlayInv, NewestShown, Alone, UnderWay, Printed
<1>6. NothingShown'
  BY <1>1 DEF PlayInv, NothingShown, RunsKept, Runs
<1>7. Drawn'
  BY <1>1 DEF PlayInv, Drawn
<1>8. ControlsKept'
  BY <1>1 DEF PlayInv, ControlsKept, Newest, UnderWay, Alone, RunsKept
<1> QED
  BY <1>2, <1>3, <1>4, <1>5, <1>6, <1>7, <1>8 DEF PlayInv

\* The run is accepted, and its socket opened.
LEMMA AcceptedKept ==
    ASSUME RunsAssumption, PlayInv, NEW r \in Runs, Accepted(r)
    PROVE  PlayInv'
<1>1. /\ (clicked > 0 => clicked \in Runs) /\ given \subseteq Runs
      /\ stage[r] = "fetching" /\ stage'[r] = "open"
      /\ \A q \in Runs : q # r => stage'[q] = stage[q]
      /\ socket' = r
      /\ clicked' = clicked /\ heard' = heard /\ told' = told
      /\ outcome' = outcome /\ sawChunk' = sawChunk /\ button' = button
      /\ stdinOn' = stdinOn /\ statSamples' = statSamples /\ canvas' = canvas
      /\ visible' = visible /\ output' = output /\ result' = result
      /\ given' = given /\ eof' = eof /\ lateClose' = lateClose
      /\ overlapped' = overlapped
  BY DEF PlayInv, PageTyped, Accepted, Becomes, runVars,
         pageVars, shownVars, graphVars, historyVars,
         RunsAssumption, Runs
<1>2. PageTyped'
  BY DEF PlayInv, PageTyped, Accepted, Becomes, runVars,
         pageVars, shownVars, graphVars, historyVars,
         RunsAssumption, Runs
<1>3. RunsKept'
  BY <1>1 DEF PlayInv, RunsKept
<1>4. Alone'
  BY <1>1 DEF PlayInv, Alone, UnderWay
<1>5. NewestShown'
  BY <1>1 DEF PlayInv, NewestShown, Alone, UnderWay, Printed
<1>6. NothingShown'
  BY <1>1 DEF PlayInv, NothingShown, RunsKept, Runs
<1>7. Drawn'
  BY <1>1 DEF PlayInv, Drawn
<1>8. ControlsKept'
  BY <1>1 DEF PlayInv, ControlsKept, Newest, UnderWay, Alone, RunsKept
<1> QED
  BY <1>2, <1>3, <1>4, <1>5, <1>6, <1>7, <1>8 DEF PlayInv

\* The frame "queued".
LEMMA QueuedKept ==
    ASSUME RunsAssumption, PlayInv, NEW r \in Runs, Queued(r)
    PROVE  PlayInv'
<1>1. /\ (clicked > 0 => clicked \in Runs) /\ given \subseteq Runs
      /\ stage[r] = "open" /\ heard[r] = "nothing" /\ heard'[r] = "queued"
      /\ \A q \in Runs : q # r => heard'[q] = heard[q]
      /\ clicked' = clicked /\ stage' = stage /\ told' = told
      /\ outcome' = outcome /\ socket' = socket /\ sawChunk' = sawChunk
      /\ button' = button /\ stdinOn' = stdinOn /\ statSamples' = statSamples
      /\ canvas' = canvas /\ visible' = visible /\ output' = output
      /\ result' = result /\ given' = given /\ eof' = eof
      /\ lateClose' = lateClose /\ overlapped' = overlapped
  BY DEF PlayInv, PageTyped, Queued, runVars, pageVars,
         shownVars, graphVars, historyVars, RunsAssumption,
         Runs
<1>2. PageTyped'
  BY DEF PlayInv, PageTyped, Queued, runVars, pageVars,
         shownVars, graphVars, historyVars, RunsAssumption,
         Runs
<1>3. RunsKept'
  BY <1>1 DEF PlayInv, RunsKept
<1>4. Alone'
  BY <1>1 DEF PlayInv, Alone, UnderWay
<1>5. NewestShown'
  BY <1>1 DEF PlayInv, NewestShown, Alone, UnderWay, Printed
<1>6. NothingShown'
  BY <1>1 DEF PlayInv, NothingShown, RunsKept, Runs
<1>7. Drawn'
  BY <1>1 DEF PlayInv, Drawn
<1>8. ControlsKept'
  BY <1>1 DEF PlayInv, ControlsKept, Newest, UnderWay, Alone, RunsKept
<1> QED
  BY <1>2, <1>3, <1>4, <1>5, <1>6, <1>7, <1>8 DEF PlayInv

\* The frame "started".
LEMMA StartedKept ==
    ASSUME RunsAssumption, PlayInv, NEW r \in Runs, Started(r)
    PROVE  PlayInv'
<1>1. /\ (clicked > 0 => clicked \in Runs) /\ given \subseteq Runs
      /\ stage[r] = "open" /\ heard[r] \in {"nothing", "queued"} /\ heard'[r] = "started"
      /\ \A q \in Runs : q # r => heard'[q] = heard[q]
      /\ stdinOn' = TRUE /\ visible' = TRUE
      /\ clicked' = clicked /\ stage' = stage /\ told' = told
      /\ outcome' = outcome /\ socket' = socket /\ sawChunk' = sawChunk
      /\ button' = button /\ statSamples' = statSamples /\ canvas' = canvas
      /\ output' = output /\ result' = result /\ given' = given /\ eof' = eof
      /\ lateClose' = lateClose /\ overlapped' = overlapped
  BY DEF PlayInv, PageTyped, Started, SetStdinEnabled, runVars,
         pageVars, shownVars, graphVars, historyVars,
         RunsAssumption, Runs
<1>2. PageTyped'
  BY DEF PlayInv, PageTyped, Started, SetStdinEnabled, runVars,
         pageVars, shownVars, graphVars, historyVars,
         RunsAssumption, Runs
<1>3. RunsKept'
  BY <1>1 DEF PlayInv, RunsKept
<1>4. Alone'
  BY <1>1 DEF PlayInv, Alone, UnderWay
<1>5. NewestShown'
  BY <1>1 DEF PlayInv, NewestShown, Alone, UnderWay, Printed
<1>6. NothingShown'
  BY <1>1 DEF PlayInv, NothingShown, RunsKept, Runs
<1>7. Drawn'
  BY <1>1 DEF PlayInv, Drawn
<1>8. ControlsKept'
  BY <1>1 DEF PlayInv, ControlsKept, Newest, UnderWay, Alone, RunsKept
<1> QED
  BY <1>2, <1>3, <1>4, <1>5, <1>6, <1>7, <1>8 DEF PlayInv

\* The frame "error".
LEMMA ErrorKept ==
    ASSUME RunsAssumption, PlayInv, NEW r \in Runs, ErrorFrame(r)
    PROVE  PlayInv'
<1>1. /\ (clicked > 0 => clicked \in Runs) /\ given \subseteq Runs
      /\ stage[r] = "open" /\ heard[r] = "nothing" /\ stage'[r] = "over"
      /\ \A q \in Runs : q # r => stage'[q] = stage[q]
      /\ button' = TRUE
      /\ clicked' = clicked /\ heard' = heard /\ told' = told
      /\ outcome' = outcome /\ socket' = socket /\ sawChunk' = sawChunk
      /\ stdinOn' = stdinOn /\ statSamples' = statSamples /\ canvas' = canvas
      /\ visible' = visible /\ output' = output /\ result' = result
      /\ given' = given /\ eof' = eof /\ lateClose' = lateClose
      /\ overlapped' = overlapped
  BY DEF PlayInv, PageTyped, ErrorFrame, Becomes, runVars,
         pageVars, shownVars, graphVars, historyVars,
         RunsAssumption, Runs
<1>2. PageTyped'
  BY DEF PlayInv, PageTyped, ErrorFrame, Becomes, runVars,
         pageVars, shownVars, graphVars, historyVars,
         RunsAssumption, Runs
<1>3. RunsKept'
  BY <1>1 DEF PlayInv, RunsKept
<1>4. Alone'
  BY <1>1 DEF PlayInv, Alone, UnderWay
<1>5. NewestShown'
  BY <1>1 DEF PlayInv, NewestShown, Alone, UnderWay, Printed
<1>6. NothingShown'
  BY <1>1 DEF PlayInv, NothingShown, RunsKept, Runs
<1>7. Drawn'
  BY <1>1 DEF PlayInv, Drawn
<1>8. ControlsKept'
  BY <1>1 DEF PlayInv, ControlsKept, Newest, UnderWay, Alone, RunsKept
<1> QED
  BY <1>2, <1>3, <1>4, <1>5, <1>6, <1>7, <1>8 DEF PlayInv

\* The close of a socket, be it an old one.
LEMMA CloseKept ==
    ASSUME RunsAssumption, PlayInv, NEW r \in Runs, Close(r)
    PROVE  PlayInv'
<1>1. /\ (clicked > 0 => clicked \in Runs) /\ given \subseteq Runs
      /\ stage[r] \in {"open", "over"} /\ stage'[r] = "closed"
      /\ \A q \in Runs : q # r => stage'[q] = stage[q]
      /\ button' = TRUE /\ stdinOn' = FALSE
      /\ lateClose' = (lateClose \/ r # clicked)
      /\ clicked' = clicked /\ heard' = heard /\ told' = told
      /\ outcome' = outcome /\ socket' = socket /\ sawChunk' = sawChunk
      /\ statSamples' = statSamples /\ canvas' = canvas /\ visible' = visible
      /\ output' = output /\ result' = result /\ given' = given /\ eof' = eof
      /\ overlapped' = overlapped
  BY DEF PlayInv, PageTyped, Close, Becomes, runVars, pageVars,
         shownVars, graphVars, historyVars, RunsAssumption,
         Runs
<1>2. PageTyped'
  BY DEF PlayInv, PageTyped, Close, Becomes, runVars, pageVars,
         shownVars, graphVars, historyVars, RunsAssumption,
         Runs
<1>3. RunsKept'
  BY <1>1 DEF PlayInv, RunsKept
<1>4. Alone'
  BY <1>1 DEF PlayInv, Alone, UnderWay
<1>5. NewestShown'
  BY <1>1 DEF PlayInv, NewestShown, Alone, UnderWay, Printed
<1>6. NothingShown'
  BY <1>1 DEF PlayInv, NothingShown, RunsKept, Runs
<1>7. Drawn'
  BY <1>1 DEF PlayInv, Drawn
<1>8. ControlsKept'
  BY <1>1 DEF PlayInv, ControlsKept, Newest, UnderWay, Alone, RunsKept
<1> QED
  BY <1>2, <1>3, <1>4, <1>5, <1>6, <1>7, <1>8 DEF PlayInv

\* Stdin is sent.
LEMMA SendStdinKept ==
    ASSUME RunsAssumption, PlayInv, SendStdin
    PROVE  PlayInv'
<1>1. /\ (clicked > 0 => clicked \in Runs) /\ given \subseteq Runs
      /\ socket \in Runs
      /\ stdinOn /\ socket # 0 /\ stage[socket] \in {"open", "over"}
      /\ given' = given \cup {socket}
      /\ clicked' = clicked /\ stage' = stage /\ heard' = heard /\ told' = told
      /\ outcome' = outcome /\ socket' = socket /\ sawChunk' = sawChunk
      /\ button' = button /\ stdinOn' = stdinOn /\ statSamples' = statSamples
      /\ canvas' = canvas /\ visible' = visible /\ output' = output
      /\ result' = result /\ eof' = eof /\ lateClose' = lateClose
      /\ overlapped' = overlapped
  BY DEF PlayInv, PageTyped, SendStdin, Writable, runVars,
         pageVars, shownVars, graphVars, historyVars,
         RunsAssumption, Runs
<1>2. PageTyped'
  <2>1. given' \subseteq Runs
    BY <1>1
  <2> QED
    BY <1>1, <2>1 DEF PlayInv, PageTyped
<1>3. RunsKept'
  BY <1>1 DEF PlayInv, RunsKept
<1>4. Alone'
  <2>1. ~overlapped => socket = clicked /\ heard[clicked] = "started"
    <3>1. clicked > 0
      BY <1>1 DEF PlayInv, PageTyped, NothingShown
    <3>2. ~overlapped => heard[clicked] = "started"
      BY <1>1, <3>1 DEF PlayInv, NewestShown
    <3>3. ~overlapped => stage[clicked] \in {"open", "over", "closed"}
      BY <1>1, <3>1, <3>2 DEF PlayInv, PageTyped, RunsKept
    <3> QED
      BY <1>1, <3>1, <3>2, <3>3 DEF PlayInv, NewestShown
  <2> QED
    BY <1>1, <2>1 DEF PlayInv, Alone, UnderWay
<1>5. NewestShown'
  BY <1>1 DEF PlayInv, NewestShown, Alone, UnderWay, Printed
<1>6. NothingShown'
  BY <1>1 DEF PlayInv, NothingShown, RunsKept, Runs
<1>7. Drawn'
  BY <1>1 DEF PlayInv, Drawn
<1>8. ControlsKept'
  BY <1>1 DEF PlayInv, ControlsKept, Newest, UnderWay, Alone, RunsKept
<1> QED
  BY <1>2, <1>3, <1>4, <1>5, <1>6, <1>7, <1>8 DEF PlayInv

\* Stdin is closed.
LEMMA CloseStdinKept ==
    ASSUME RunsAssumption, PlayInv, CloseStdin
    PROVE  PlayInv'
<1>1. /\ (clicked > 0 => clicked \in Runs) /\ given \subseteq Runs
      /\ stdinOn /\ stdinOn' = FALSE /\ eof' = TRUE
      /\ clicked' = clicked /\ stage' = stage /\ heard' = heard /\ told' = told
      /\ outcome' = outcome /\ socket' = socket /\ sawChunk' = sawChunk
      /\ button' = button /\ statSamples' = statSamples /\ canvas' = canvas
      /\ visible' = visible /\ output' = output /\ result' = result
      /\ given' = given /\ lateClose' = lateClose /\ overlapped' = overlapped
  BY DEF PlayInv, PageTyped, CloseStdin, Writable, runVars,
         pageVars, shownVars, graphVars, historyVars,
         RunsAssumption, Runs
<1>2. PageTyped'
  BY DEF PlayInv, PageTyped, CloseStdin, Writable, runVars,
         pageVars, shownVars, graphVars, historyVars,
         RunsAssumption, Runs
<1>3. RunsKept'
  BY <1>1 DEF PlayInv, RunsKept
<1>4. Alone'
  BY <1>1 DEF PlayInv, Alone, UnderWay
<1>5. NewestShown'
  BY <1>1 DEF PlayInv, NewestShown, Alone, UnderWay, Printed
<1>6. NothingShown'
  BY <1>1 DEF PlayInv, NothingShown, RunsKept, Runs
<1>7. Drawn'
  BY <1>1 DEF PlayInv, Drawn
<1>8. ControlsKept'
  BY <1>1 DEF PlayInv, ControlsKept, Newest, UnderWay, Alone, RunsKept
<1> QED
  BY <1>2, <1>3, <1>4, <1>5, <1>6, <1>7, <1>8 DEF PlayInv

\* The button is clicked: the page is cleared for the next run.
LEMMA ClickKept ==
    ASSUME RunsAssumption, PlayInv, Click
    PROVE  PlayInv'
<1> PICK next \in Runs : next = clicked + 1
  BY DEF PlayInv, PageTyped, Click, RunsAssumption, Runs
<1>1. /\ next \in Runs /\ clicked' = next /\ clicked \in Nat
      /\ stage'[next] = "fetching"
      /\ \A q \in Runs : q # next => stage'[q] = stage[q]
      /\ \A q \in Runs : q \in Nat \ {0}
      /\ overlapped' = (overlapped \/ \E q \in Runs : UnderWay(q))
      /\ output' = <<>> /\ statSamples' = <<>> /\ result' = 0 /\ visible' = FALSE
      /\ sawChunk' = FALSE /\ button' = FALSE /\ stdinOn' = FALSE
      /\ eof' = FALSE /\ lateClose' = FALSE
      /\ heard' = heard /\ told' = told /\ outcome' = outcome
      /\ socket' = socket /\ given' = given /\ canvas' = canvas
  BY DEF PlayInv, PageTyped, Click, ClearOutput, runVars,
         RunsAssumption, Runs
<1>2. PageTyped'
  <2>1. stage' = [stage EXCEPT ![next] = "fetching"]
    BY DEF Click
  <2>2. <<>> \in Seq(Runs) /\ <<>> \in Seq(Runs \X (0..MaxChunks))
    OBVIOUS
  <2>3. next \in 0..MaxRuns /\ 0 \in 0..MaxRuns
    BY <1>1 DEF Runs, RunsAssumption
  <2>4. overlapped' \in BOOLEAN
    BY <1>1 DEF PlayInv, PageTyped
  <2> QED
    BY <1>1, <2>1, <2>2, <2>3, <2>4 DEF PlayInv, PageTyped
<1>3. heard[next] = "nothing" /\ told[next] = 0 /\ next > clicked
  <2>1. next > clicked
    BY <1>1
  <2>2. told[next] \in Nat
    BY <1>1 DEF PlayInv, PageTyped
  <2> QED
    BY <1>1, <2>1, <2>2 DEF PlayInv, RunsKept
<1>4. RunsKept'
  <2>1. \A q \in Runs : q # next => (q > clicked <=> q > next)
    BY <1>1
  <2> QED
    BY <1>1, <1>3, <2>1 DEF PlayInv, RunsKept
<1>5. Alone'
  <2> QED
    BY <1>1 DEF PlayInv, Alone, UnderWay
<1>6. NewestShown'
  <2>1. output' = [n \in 1..told'[next] |-> <<next, n>>]
    BY <1>1, <1>3
  <2>2. next # 0
    BY <1>1
  <2>3. result' = 0 /\ sawChunk' = FALSE /\ stdinOn' = FALSE /\ visible' = FALSE
        /\ clicked' = next /\ told'[next] = 0 /\ stage'[next] = "fetching"
    BY <1>1, <1>3
  <2>4. output' = Printed(next)'
    BY <2>1, <2>2, <2>3 DEF Printed
  <2>5. \A n \in DOMAIN statSamples' : statSamples'[n] = next
    BY <1>1
  <2> QED
    BY <2>2, <2>3, <2>4, <2>5 DEF NewestShown
<1>7. NothingShown' /\ Drawn'
  BY <1>1 DEF NothingShown, Drawn
<1>8. ControlsKept'
  <2> QED
    BY <1>1 DEF ControlsKept, Newest
<1> QED
  BY <1>2, <1>4, <1>5, <1>6, <1>7, <1>8 DEF PlayInv

\* A chunk is printed: after those that were, when it is of the newest run.
LEMMA ChunkKept ==
    ASSUME RunsAssumption, PlayInv, NEW r \in Runs, Chunk(r)
    PROVE  PlayInv'
<1>1. /\ (clicked > 0 => clicked \in Runs) /\ given \subseteq Runs
      /\ stage[r] = "open" /\ heard[r] = "started"
      /\ told[r] \in 0..MaxChunks /\ told[r] < MaxChunks /\ MaxChunks \in Nat
      /\ told'[r] = told[r] + 1 /\ \A q \in Runs : q # r => told'[q] = told[q]
      /\ sawChunk' = TRUE /\ output' = Append(output, <<r, told[r] + 1>>)
      /\ clicked' = clicked /\ stage' = stage /\ heard' = heard
      /\ outcome' = outcome /\ socket' = socket /\ button' = button
      /\ stdinOn' = stdinOn /\ statSamples' = statSamples /\ canvas' = canvas
      /\ visible' = visible /\ result' = result /\ given' = given /\ eof' = eof
      /\ lateClose' = lateClose /\ overlapped' = overlapped
  BY DEF PlayInv, PageTyped, Chunk, AppendChunk, graphVars,
         historyVars,
         RunsAssumption, Runs
<1>2. PageTyped'
  <2>1. told' \in [Runs -> 0..MaxChunks]
    <3>1. told' = [told EXCEPT ![r] = told[r] + 1] /\ told[r] + 1 \in 0..MaxChunks
      BY <1>1 DEF Chunk
    <3> QED
      BY <3>1 DEF PlayInv, PageTyped
  <2>2. output' \in Seq(Runs \X (0..MaxChunks))
    <3>1. <<r, told[r] + 1>> \in Runs \X (0..MaxChunks)
      BY <1>1
    <3>2. output \in Seq(Runs \X (0..MaxChunks))
      BY DEF PlayInv, PageTyped
    <3> QED
      BY <1>1, <3>1, <3>2, AppendProperties
  <2> QED
    BY <1>1, <2>1, <2>2 DEF PlayInv, PageTyped
<1>3. RunsKept'
  BY <1>1 DEF PlayInv, RunsKept
<1>4. Alone'
  BY <1>1 DEF PlayInv, Alone, UnderWay
<1>5. NewestShown'
  <2> SUFFICES ASSUME ~overlapped, clicked > 0
               PROVE  NewestShown'
    BY <1>1 DEF NewestShown
  <2>1. r = clicked /\ result = 0
    BY <1>1 DEF PlayInv, Alone, NewestShown, UnderWay
  <2>2. r # 0
    BY DEF Runs
  <2>3. output = [n \in 1..told[r] |-> <<r, n>>]
    BY <2>1, <2>2 DEF PlayInv, NewestShown, Printed
  <2>4. output' = [n \in 1..told'[r] |-> <<r, n>>]
    BY <2>3, <1>1, PrintedMore
  <2>5. output' = Printed(r)'
    BY <2>1, <2>2, <2>4, <1>1 DEF Printed
  <2>6. told'[r] > 0
    BY <1>1
  <2> QED
    BY <2>1, <2>2, <2>5, <2>6, <1>1 DEF PlayInv, NewestShown, UnderWay
<1>6. NothingShown'
  BY <1>1 DEF PlayInv, NothingShown, RunsKept, Runs
<1>7. Drawn'
  BY <1>1 DEF PlayInv, Drawn
<1>8. ControlsKept'
  BY <1>1 DEF PlayInv, ControlsKept, Newest
<1> QED
  BY <1>2, <1>3, <1>4, <1>5, <1>6, <1>7, <1>8 DEF PlayInv

\* A sample is drawn with those before it, once there are two.
LEMMA StatsKept ==
    ASSUME RunsAssumption, PlayInv, NEW r \in Runs, Stats(r)
    PROVE  PlayInv'
<1>1. /\ (clicked > 0 => clicked \in Runs) /\ given \subseteq Runs
      /\ stage[r] = "open" /\ heard[r] = "started"
      /\ statSamples' = Append(statSamples, r)
      /\ canvas' = IF Len(statSamples') < 2 THEN canvas ELSE statSamples'
      /\ clicked' = clicked /\ stage' = stage /\ heard' = heard /\ told' = told
      /\ outcome' = outcome /\ socket' = socket /\ sawChunk' = sawChunk
      /\ button' = button /\ stdinOn' = stdinOn /\ visible' = visible
      /\ output' = output /\ result' = result /\ given' = given /\ eof' = eof
      /\ lateClose' = lateClose /\ overlapped' = overlapped
  <2>1. (clicked > 0 => clicked \in Runs) /\ given \subseteq Runs
    BY DEF PlayInv, PageTyped, RunsAssumption, Runs
  <2> QED
    BY <2>1 DEF Stats, DrawGraph, runVars, historyVars
<1> statSamples \in Seq(Runs) /\ canvas \in Seq(Runs)
  BY DEF PlayInv, PageTyped
<1>2. /\ statSamples' \in Seq(Runs) /\ Len(statSamples') \in Nat
      /\ \A n \in DOMAIN statSamples' :
            \/ statSamples'[n] = r
            \/ n \in DOMAIN statSamples /\ statSamples'[n] = statSamples[n]
  BY <1>1, AppendProperties
<1>3. PageTyped'
  BY <1>1, <1>2 DEF PlayInv, PageTyped
<1>4. RunsKept'
  BY <1>1 DEF PlayInv, RunsKept
<1>5. Alone'
  BY <1>1 DEF PlayInv, Alone, UnderWay
<1>6. NewestShown'
  BY <1>1, <1>2 DEF PlayInv, NewestShown, Alone, UnderWay, Printed
<1>7. NothingShown'
  BY <1>1 DEF PlayInv, NothingShown, RunsKept, Runs
<1>8. Drawn'
  BY <1>1, <1>2 DEF Drawn
<1>9. ControlsKept'
  BY <1>1 DEF PlayInv, ControlsKept, Newest
<1> QED
  BY <1>3, <1>4, <1>5, <1>6, <1>7, <1>8, <1>9 DEF PlayInv

\* The result arrives, with the output that was not streamed.
LEMMA FinishedKept ==
    ASSUME RunsAssumption, PlayInv, NEW r \in Runs, Finished(r)
    PROVE  PlayInv'
<1>1. PICK o \in Outcomes(r) :
         /\ outcome' = [outcome EXCEPT ![r] = o]
         /\ IF ~sawChunk /\ HasOutput(o)
            THEN output' = Append(output, <<r, 0>>) ELSE output' = output
  BY DEF Finished, AppendChunk
<1>2. /\ (clicked > 0 => clicked \in Runs) /\ given \subseteq Runs
      /\ stage[r] = "open" /\ stage'[r] = "over"
      /\ \A q \in Runs : q # r => stage'[q] = stage[q]
      /\ stage' = [stage EXCEPT ![r] = "over"]
      /\ result' = r /\ stdinOn' = FALSE /\ button' = TRUE
      /\ clicked' = clicked /\ heard' = heard /\ told' = told
      /\ socket' = socket /\ sawChunk' = sawChunk /\ statSamples' = statSamples
      /\ canvas' = canvas /\ visible' = visible /\ given' = given /\ eof' = eof
      /\ lateClose' = lateClose /\ overlapped' = overlapped
  BY DEF PlayInv, PageTyped, Finished, Becomes, RenderStats,
         SetStdinEnabled,
         graphVars, historyVars, RunsAssumption, Runs
<1>3. /\ o \in [chunks : 0..MaxChunks, buffered : BOOLEAN]
      /\ heard[r] = "started" => o.chunks = told[r]
  <2>1. told[r] \in 0..MaxChunks /\ 0 \in 0..MaxChunks
        /\ \A n \in 1..MaxChunks : n \in 0..MaxChunks
    BY DEF PlayInv, PageTyped, RunsAssumption
  <2>2. CASE heard[r] = "started"
    <3>1. \E b \in BOOLEAN : o = Outcome(told[r], b)
      BY <2>2 DEF Outcomes
    <3> QED
      BY <2>1, <3>1 DEF Outcome
  <2>3. CASE heard[r] # "started"
    <3>1. \E n \in 0..MaxChunks, b \in BOOLEAN : o = Outcome(n, b)
      <4>1. CASE heard[r] = "nothing"
        BY <2>1, <2>3, <4>1 DEF Outcomes
      <4>2. CASE heard[r] # "nothing"
        BY <2>1, <2>3, <4>2 DEF Outcomes
      <4> QED
        BY <4>1, <4>2
    <3> QED
      BY <2>3, <3>1 DEF Outcome
  <2> QED
    BY <2>2, <2>3
<1>4. outcome'[r] = o /\ \A q \in Runs : q # r => outcome'[q] = outcome[q]
  BY <1>1 DEF PlayInv, PageTyped
<1>5. PageTyped'
  <2>1. outcome' \in [Runs -> [chunks : 0..MaxChunks, buffered : BOOLEAN]]
    BY <1>1, <1>3 DEF PlayInv, PageTyped
  <2>2. output' \in Seq(Runs \X (0..MaxChunks))
    <3>1. <<r, 0>> \in Runs \X (0..MaxChunks)
      BY DEF RunsAssumption
    <3>2. output \in Seq(Runs \X (0..MaxChunks))
      BY DEF PlayInv, PageTyped
    <3>3. Append(output, <<r, 0>>) \in Seq(Runs \X (0..MaxChunks))
      BY <3>1, <3>2, AppendProperties
    <3> QED
      BY <1>1, <3>2, <3>3
  <2>3. r \in 0..MaxRuns
    BY DEF Runs
  <2> QED
    BY <1>2, <2>1, <2>2, <2>3 DEF PlayInv, PageTyped
<1>6. RunsKept'
  BY <1>2 DEF PlayInv, RunsKept
<1>7. Alone'
  BY <1>2 DEF PlayInv, Alone, UnderWay
<1>8. NewestShown'
  <2> SUFFICES ASSUME ~overlapped, clicked > 0
               PROVE  NewestShown'
    BY <1>2 DEF NewestShown
  <2>1. r = clicked /\ result = 0 /\ r # 0
    BY <1>2 DEF PlayInv, Alone, NewestShown, UnderWay, Runs
  <2>2. output = [n \in 1..told[r] |-> <<r, n>>] /\ (sawChunk <=> told[r] > 0)
    BY <2>1 DEF PlayInv, NewestShown, Printed
  <2>3. told[r] \in Nat
    BY DEF PlayInv, PageTyped
  <2>4. CASE told[r] > 0
    <3>1. output' = output
      BY <2>2, <2>4, <1>1
    <3>2. output' = Printed(r)'
      BY <2>2, <2>4, <3>1, <1>2 DEF Printed
    <3>3. o.chunks = told[r]
      BY <2>4, <1>3 DEF PlayInv, RunsKept
    <3> QED
      BY <2>1, <3>2, <3>3, <1>2, <1>4 DEF PlayInv, NewestShown, UnderWay
  <2>5. CASE told[r] = 0
    <3>1. output = <<>>
      BY <2>2, <2>5
    <3>2. output' = Printed(r)'
      <4>1. CASE HasOutput(o)
        <5>1. output' = Append(<<>>, <<r, 0>>)
          <6>1. ~sawChunk
            BY <2>2, <2>5
          <6>2. output' = Append(output, <<r, 0>>)
            BY <4>1, <6>1, <1>1
          <6> QED
            BY <3>1, <6>2
        <5>2. Append(<<>>, <<r, 0>>) = <<<<r, 0>>>>
          OBVIOUS
        <5> QED
          BY <2>5, <4>1, <5>1, <5>2, <1>2, <1>4 DEF Printed, HasOutput
      <4>2. CASE ~HasOutput(o)
        <5>1. output' = [n \in 1..told[r] |-> <<r, n>>]
          BY <2>2, <4>2, <1>1
        <5> QED
          BY <2>5, <4>2, <5>1, <1>2, <1>4 DEF Printed, HasOutput
      <4> QED
        BY <4>1, <4>2
    <3> QED
      BY <2>1, <2>5, <3>2, <1>2 DEF PlayInv, NewestShown, UnderWay
  <2> QED
    BY <2>3, <2>4, <2>5
<1>9. NothingShown'
  BY <1>2 DEF PlayInv, NothingShown, RunsKept, Runs
<1>10. Drawn'
  BY <1>2 DEF PlayInv, Drawn
<1>11. ControlsKept'
  BY <1>2 DEF PlayInv, ControlsKept, Newest, Alone, UnderWay
<1> QED
  BY <1>5, <1>6, <1>7, <1>8, <1>9, <1>10, <1>11 DEF PlayInv


\* Who leaves the playground alone keeps its part.
LEMMA PlayFrame ==
    ASSUME PlayInv, UNCHANGED playVars
    PROVE  PlayInv'
<1>1. /\ clicked' = clicked /\ stage' = stage /\ heard' = heard /\ told' = told
      /\ outcome' = outcome /\ socket' = socket /\ sawChunk' = sawChunk
      /\ button' = button /\ stdinOn' = stdinOn /\ statSamples' = statSamples
      /\ canvas' = canvas /\ visible' = visible /\ output' = output
      /\ result' = result /\ given' = given /\ eof' = eof
      /\ lateClose' = lateClose /\ overlapped' = overlapped
  BY DEF playVars, runVars, pageVars, shownVars, graphVars,
         historyVars
<1>2. PageTyped' /\ RunsKept'
  BY <1>1 DEF PlayInv, PageTyped, RunsKept
<1>3. Alone' /\ NothingShown' /\ Drawn'
  BY <1>1 DEF PlayInv, Alone, NothingShown, Drawn, UnderWay
<1>4. NewestShown'
  BY <1>1 DEF PlayInv, NewestShown, UnderWay, Printed
<1>5. ControlsKept'
  BY <1>1 DEF PlayInv, ControlsKept, Newest
<1> QED
  BY <1>2, <1>3, <1>4, <1>5 DEF PlayInv

\* The invariant is kept by everything that happens on the playground.
LEMMA PlayKept ==
    ASSUME RunsAssumption, PlayInv, PlayNext
    PROVE  PlayInv'
<1>1. CASE Click \/ SendStdin \/ CloseStdin
  BY <1>1, ClickKept, SendStdinKept, CloseStdinKept
<1>2. ASSUME NEW r \in Runs,
             \/ NotAccepted(r) \/ BodyLost(r) \/ Accepted(r)
             \/ Hears(r) \/ Close(r)
      PROVE  PlayInv'
  BY <1>2, NotAcceptedKept, BodyLostKept, AcceptedKept, QueuedKept, StartedKept,
     ChunkKept, StatsKept, FinishedKept, ErrorKept, CloseKept DEF Hears
<1> QED
  BY <1>1, <1>2 DEF PlayNext

\* It holds when the page is opened,
LEMMA PlayInitKept ==
    ASSUME RunsAssumption, PlayInit
    PROVE  PlayInv
<1>1. PageTyped
  <2>1. <<>> \in Seq(Runs) /\ <<>> \in Seq(Runs \X (0..MaxChunks))
    OBVIOUS
  <2>2. outcome \in [Runs -> [chunks : 0..MaxChunks, buffered : BOOLEAN]]
    BY DEF PlayInit, Outcome, RunsAssumption
  <2>3. told \in [Runs -> 0..MaxChunks] /\ 0 \in 0..MaxRuns
    BY DEF PlayInit, RunsAssumption
  <2>4. stage \in [Runs -> {"none", "fetching", "lost", "refused", "open", "over",
                             "closed"}]
    BY DEF PlayInit
  <2>5. heard \in [Runs -> {"nothing", "queued", "started"}]
    BY DEF PlayInit
  <2>6. /\ clicked = 0 /\ socket = 0 /\ result = 0 /\ given = {}
        /\ statSamples = <<>> /\ output = <<>> /\ canvas = <<>>
        /\ sawChunk = FALSE /\ stdinOn = FALSE /\ visible = FALSE
        /\ eof = FALSE /\ lateClose = FALSE /\ overlapped = FALSE /\ button = TRUE
    BY DEF PlayInit
  <2> QED
    BY <2>1, <2>2, <2>3, <2>4, <2>5, <2>6 DEF PageTyped
<1>2. /\ clicked = 0 /\ result = 0 /\ given = {} /\ ~stdinOn /\ ~visible /\ button
      /\ statSamples = <<>> /\ output = <<>>
      /\ \A r \in Runs : r > 0 /\ stage[r] = "none" /\ heard[r] = "nothing" /\ told[r] = 0
  BY DEF PlayInit, Runs
<1>3. RunsKept /\ Alone /\ NewestShown
  BY <1>2 DEF RunsKept, Alone, NewestShown, UnderWay
<1>4. NothingShown /\ Drawn /\ ControlsKept
  BY <1>2 DEF NothingShown, Drawn, ControlsKept, Newest
<1> QED
  BY <1>1, <1>3, <1>4 DEF PlayInv

\* and says that the page shows what ran
LEMMA ShownWhatRan ==
    ASSUME RunsAssumption, PlayInv
    PROVE  RunIsShown
<1> SUFFICES ASSUME ~overlapped
             PROVE  RunIsShown
  BY DEF RunIsShown
<1>1. Alone /\ NewestShown /\ NothingShown /\ Drawn /\ clicked \in Nat
  BY DEF PlayInv, PageTyped, RunsAssumption
<1>2. CASE clicked = 0
  BY <1>1, <1>2 DEF NothingShown, RunIsShown
<1>3. CASE clicked > 0
  <2>1. /\ result \in {0, clicked} /\ output = Printed(clicked)
        /\ visible => heard[clicked] = "started"
        /\ \A n \in DOMAIN statSamples : statSamples[n] = clicked
        /\ (result = clicked /\ told[clicked] > 0) => outcome[clicked].chunks = told[clicked]
    BY <1>1, <1>3 DEF NewestShown
  <2>2. told[clicked] \in Nat /\ clicked # 0
    BY <1>3 DEF PlayInv, PageTyped, Runs, RunsAssumption
  <2>3. \A n \in DOMAIN output : output[n] \in {<<clicked, n>>, <<clicked, 0>>}
    BY <2>1, <2>2 DEF Printed
  <2>4. (result # 0 /\ HasOutput(outcome[result])) =>
          output = IF told[result] > 0
                   THEN [n \in 1..outcome[result].chunks |-> <<result, n>>]
                   ELSE <<<<result, 0>>>>
    <3> SUFFICES ASSUME result # 0, HasOutput(outcome[result])
                 PROVE  output = IF told[result] > 0
                                 THEN [n \in 1..outcome[result].chunks |-> <<result, n>>]
                                 ELSE <<<<result, 0>>>>
      OBVIOUS
    <3>1. result = clicked
      BY <2>1
    <3>2. CASE told[clicked] > 0
      <4>1. output = [n \in 1..told[clicked] |-> <<clicked, n>>]
        BY <2>1, <3>2 DEF Printed
      <4> QED
        BY <2>1, <3>1, <3>2, <4>1
    <3>3. CASE told[clicked] = 0
      <4>1. output = <<<<clicked, 0>>>>
        BY <2>1, <3>1, <3>3 DEF Printed
      <4> QED
        BY <3>1, <3>3, <4>1
    <3> QED
      BY <2>2, <3>2, <3>3
  <2>5. \A r \in given : heard[r] = "started"
    BY <1>1 DEF Alone
  <2>6. Len(statSamples) >= 2 => canvas = statSamples
    BY <1>1 DEF Drawn
  <2> QED
    BY <2>1, <2>3, <2>4, <2>5, <2>6 DEF RunIsShown
<1> QED
  BY <1>1, <1>2, <1>3

\* and that its controls fit.
LEMMA ControlsFit ==
    ASSUME PlayInv
    PROVE  ControlsFitTheRun
<1>1. (\A r \in Runs : stage[r] \in {"none", "refused", "closed"}) => button /\ ~stdinOn
  BY DEF PlayInv, ControlsKept
<1> QED
  BY <1>1 DEF PlayInv, ControlsKept, ControlsFitTheRun


-----------------------------------------------------------------------------
(***************************************************************************)
(* The merge of the replay.                                                *)
(***************************************************************************)

\* What comes before an event, and the event.
UpTo(raw, i) ==
    {j \in DOMAIN raw : raw[j].t < raw[i].t \/ (raw[j].t = raw[i].t /\ j <= i)}

\* A list of events whose times can be compared.
IsTimed(raw, N) == DOMAIN raw = 1..N /\ \A i \in 1..N : raw[i].t \in Int

\* An event's place in the merge is the number of those up to it,
LEMMA PlaceIs ==
    ASSUME NEW raw, NEW i
    PROVE  Place(raw, i) = Cardinality(UpTo(raw, i))
BY DEF Place, UpTo

\* of which there are as many as events at most.
LEMMA UpToFinite ==
    ASSUME NEW raw, NEW N \in Nat, IsTimed(raw, N), NEW i \in 1..N
    PROVE  /\ UpTo(raw, i) \in SUBSET (1..N) /\ i \in UpTo(raw, i)
           /\ IsFiniteSet(1..N) /\ IsFiniteSet(UpTo(raw, i))
           /\ Cardinality(UpTo(raw, i)) \in 1..N
<1>1. UpTo(raw, i) \in SUBSET (1..N) /\ i \in UpTo(raw, i)
  BY DEF UpTo, IsTimed
<1>2. IsFiniteSet(1..N) /\ Cardinality(1..N) = N
  BY FS_Interval
<1>3. IsFiniteSet(UpTo(raw, i)) /\ Cardinality(UpTo(raw, i)) <= N
  BY <1>1, <1>2, FS_Subset
<1>4. Cardinality(UpTo(raw, i)) \in Nat
  BY <1>3, FS_CardinalityType
<1>5. Cardinality(UpTo(raw, i)) # 0
  BY <1>1, <1>3, FS_EmptySet
<1> QED
  BY <1>1, <1>2, <1>3, <1>4, <1>5

\* An event is placed before those that are later, and before those of its own
\* time that were recorded later.
LEMMA PlaceOrder ==
    ASSUME NEW raw, NEW N \in Nat, IsTimed(raw, N),
           NEW i \in 1..N, NEW k \in 1..N,
           raw[i].t < raw[k].t \/ (raw[i].t = raw[k].t /\ i < k)
    PROVE  Place(raw, i) < Place(raw, k)
<1>1. raw[i].t \in Int /\ raw[k].t \in Int /\ \A j \in 1..N : raw[j].t \in Int
  BY DEF IsTimed
<1>2. UpTo(raw, i) \in SUBSET UpTo(raw, k)
  BY <1>1 DEF UpTo, IsTimed
<1>3. k \notin UpTo(raw, i)
  BY <1>1 DEF UpTo
<1>4. k \in UpTo(raw, k) /\ IsFiniteSet(UpTo(raw, k))
      /\ Cardinality(UpTo(raw, k)) \in Nat /\ Cardinality(UpTo(raw, i)) \in Nat
  BY UpToFinite
<1>5. Cardinality(UpTo(raw, i)) <= Cardinality(UpTo(raw, k))
      /\ (Cardinality(UpTo(raw, k)) = Cardinality(UpTo(raw, i)) => UpTo(raw, k) = UpTo(raw, i))
  BY <1>2, <1>4, FS_Subset
<1> QED
  BY <1>3, <1>4, <1>5, PlaceIs

\* No two events have the same place.
LEMMA PlaceInjective ==
    ASSUME NEW raw, NEW N \in Nat, IsTimed(raw, N),
           NEW i \in 1..N, NEW k \in 1..N, i # k
    PROVE  Place(raw, i) # Place(raw, k)
<1>1. raw[i].t \in Int /\ raw[k].t \in Int
  BY DEF IsTimed
<1>2. Place(raw, i) \in Nat /\ Place(raw, k) \in Nat
  BY UpToFinite, PlaceIs
<1>3. CASE raw[i].t < raw[k].t \/ (raw[i].t = raw[k].t /\ i < k)
  BY <1>2, <1>3, PlaceOrder
<1>4. CASE raw[k].t < raw[i].t \/ (raw[k].t = raw[i].t /\ k < i)
  BY <1>2, <1>4, PlaceOrder
<1> QED
  BY <1>1, <1>3, <1>4

\* Each place is some event's.
LEMMA PlaceOnto ==
    ASSUME NEW raw, NEW N \in Nat, IsTimed(raw, N)
    PROVE  \A n \in 1..N : \E i \in 1..N : Place(raw, i) = n
<1> DEFINE f == [i \in 1..N |-> Place(raw, i)]
<1>1. \A i \in 1..N : Place(raw, i) \in 1..N
  BY UpToFinite, PlaceIs
<1>2. f \in [1..N -> 1..N]
  BY <1>1
<1>3. \A i, k \in 1..N : f[i] = f[k] => i = k
  BY PlaceInjective
<1>4. f \in Injection(1..N, 1..N)
  BY <1>2, <1>3 DEF Injection, IsInjective
<1>5. IsFiniteSet(1..N)
  BY FS_Interval
<1>6. f \in Surjection(1..N, 1..N)
  <2> HIDE DEF f
  <2> QED
    BY <1>4, <1>5, FS_Injection
<1>7. \A n \in 1..N : \E i \in 1..N : f[i] = n
  BY <1>6 DEF Surjection
<1> QED
  BY <1>7

\* Where the chunks and the samples are in the list of both.
LEMMA Spans ==
    ASSUME NEW c \in Nat, NEW s \in Nat
    PROVE  /\ c + s \in Nat
           /\ \A i \in 1..c : i \in 1..(c + s) /\ i <= c
           /\ \A i \in 1..s :
                 c + i \in 1..(c + s) /\ ~(c + i <= c) /\ (c + i) - c = i
OBVIOUS

\* The chunks, and the samples after them.
LEMMA RecordedIs ==
    ASSUME NEW r \in Records
    PROVE  /\ Len(r.chunks) \in Nat /\ Len(r.stats) \in Nat /\ Length(r) \in Nat
           /\ IsTimed(Recorded(r), Length(r))
           /\ \A i \in 1..Len(r.chunks) :
                 Recorded(r)[i] = Event("chunk", i, r.chunks[i])
           /\ \A i \in 1..Len(r.stats) :
                 Recorded(r)[Len(r.chunks) + i] = Event("stats", i, r.stats[i])
<1> DEFINE first == [n \in 1..Len(r.chunks) |-> Event("chunk", n, r.chunks[n])]
           second == [n \in 1..Len(r.stats) |-> Event("stats", n, r.stats[n])]
           events == [type : {"chunk", "stats"}, n : Nat, t : Int]
<1>1. r.chunks \in Seq(Int) /\ r.stats \in Seq(Int)
  BY DEF Records
<1>0. Len(r.chunks) \in Nat /\ Len(r.stats) \in Nat
  BY <1>1
<1>2. /\ Len(r.chunks) \in Nat /\ Len(r.stats) \in Nat
      /\ \A i \in 1..Len(r.chunks) : r.chunks[i] \in Int
      /\ \A i \in 1..Len(r.stats) : r.stats[i] \in Int
  BY <1>1
<1>3. first \in Seq(events) /\ Len(first) = Len(r.chunks)
  BY <1>2 DEF Event
<1>4. second \in Seq(events) /\ Len(second) = Len(r.stats)
  BY <1>2 DEF Event
<1>5. Recorded(r) = first \o second
  BY DEF Recorded
<1>6. /\ Recorded(r) \in Seq(events)
      /\ Len(Recorded(r)) = Len(r.chunks) + Len(r.stats)
      /\ \A i \in 1..(Len(r.chunks) + Len(r.stats)) : Recorded(r)[i] =
            IF i <= Len(r.chunks) THEN first[i] ELSE second[i - Len(r.chunks)]
  <2> HIDE DEF first, second, events
  <2>1. /\ first \o second \in Seq(events)
        /\ Len(first \o second) = Len(first) + Len(second)
        /\ \A i \in 1..(Len(first) + Len(second)) : (first \o second)[i] =
              IF i <= Len(first) THEN first[i] ELSE second[i - Len(first)]
    BY <1>3, <1>4, ConcatProperties
  <2> QED
    BY <2>1, <1>3, <1>4, <1>5
<1>7. ASSUME NEW i \in 1..Len(r.chunks)
      PROVE  Recorded(r)[i] = Event("chunk", i, r.chunks[i])
  <2>1. i \in 1..(Len(r.chunks) + Len(r.stats)) /\ i <= Len(r.chunks)
    BY <1>0, Spans, Zenon
  <2>2. Recorded(r)[i] = first[i]
    <3> HIDE DEF first, second, events
    <3> QED
      BY <2>1, <1>6
  <2> QED
    BY <2>2
<1>8. ASSUME NEW i \in 1..Len(r.stats)
      PROVE  Recorded(r)[Len(r.chunks) + i] = Event("stats", i, r.stats[i])
  <2> DEFINE k == Len(r.chunks) + i
  <2>1. k \in 1..(Len(r.chunks) + Len(r.stats)) /\ ~(k <= Len(r.chunks))
        /\ k - Len(r.chunks) = i
    BY <1>0, Spans, Zenon
  <2>2. Recorded(r)[k] = second[k - Len(r.chunks)]
    <3> HIDE DEF first, second, events, k
    <3> QED
      BY <2>1, <1>6
  <2>3. Recorded(r)[k] = second[i]
    BY <2>1, <2>2
  <2> QED
    BY <2>3
<1>9. IsTimed(Recorded(r), Length(r))
  <2>1. DOMAIN Recorded(r) = 1..Length(r)
    <3> HIDE DEF events
    <3> QED
      BY <1>6 DEF Length
  <2>2. \A i \in 1..Length(r) : Recorded(r)[i] \in events
    <3>1. Recorded(r) \in Seq(events) /\ Length(r) = Len(Recorded(r))
      BY <1>6 DEF Length
    <3> HIDE DEF events
    <3> QED
      BY <3>1
  <2> QED
    BY <2>1, <2>2 DEF IsTimed
<1>10. Length(r) \in Nat
  BY <1>0, Spans, Zenon DEF Length
<1> HIDE DEF first, second, events
<1> QED
  BY <1>2, <1>7, <1>8, <1>9, <1>10

\* What is replayed is what was recorded, each event at its place.
LEMMA EventsAre ==
    ASSUME NEW r \in Records
    PROVE  /\ DOMAIN Events(r) = 1..Length(r) /\ Len(Events(r)) = Length(r)
           /\ \A n \in 1..Length(r) : \E i \in 1..Length(r) :
                 Place(Recorded(r), i) = n /\ Events(r)[n] = Recorded(r)[i]
<1> DEFINE raw == Recorded(r)
           N == Length(r)
<1>1. N \in Nat /\ IsTimed(raw, N)
  BY RecordedIs
<1>2. DOMAIN raw = 1..N
  BY <1>1 DEF IsTimed
<1>3. Events(r) = [n \in 1..N |-> raw[CHOOSE i \in 1..N : Place(raw, i) = n]]
  BY <1>2 DEF Events
<1> HIDE DEF raw, N
<1>4. \A n \in 1..N : \E i \in 1..N : Place(raw, i) = n
  BY <1>1, PlaceOnto
<1>5. ASSUME NEW n \in 1..N
      PROVE  \E i \in 1..N : Place(raw, i) = n /\ Events(r)[n] = raw[i]
  <2> DEFINE c == CHOOSE i \in 1..N : Place(raw, i) = n
  <2>1. c \in 1..N /\ Place(raw, c) = n
    BY <1>4
  <2>2. Events(r)[n] = raw[c]
    BY <1>3
  <2> QED
    BY <2>1, <2>2
<1>6. DOMAIN Events(r) = 1..N /\ Len(Events(r)) = N
  BY <1>1, <1>3
<1> QED
  BY <1>5, <1>6 DEF raw, N

\* Events are replayed in the order of their times.
LEMMA EventsSorted ==
    ASSUME NEW r \in Records, NEW m \in 1..Length(r), NEW n \in 1..Length(r), m <= n
    PROVE  /\ Events(r)[m].t \in Int /\ Events(r)[n].t \in Int
           /\ Events(r)[m].t <= Events(r)[n].t
<1> DEFINE raw == Recorded(r)
           N == Length(r)
<1>1. N \in Nat /\ IsTimed(raw, N)
  BY RecordedIs
<1>2. PICK i \in 1..N : Place(raw, i) = m /\ Events(r)[m] = raw[i]
  BY EventsAre
<1>3. PICK k \in 1..N : Place(raw, k) = n /\ Events(r)[n] = raw[k]
  BY EventsAre
<1>4. raw[i].t \in Int /\ raw[k].t \in Int
  BY <1>1 DEF IsTimed
<1> HIDE DEF raw, N
<1>5. ~(raw[k].t < raw[i].t)
  <2> SUFFICES ASSUME raw[k].t < raw[i].t
               PROVE  FALSE
    OBVIOUS
  <2>1. Place(raw, k) < Place(raw, i)
    BY <1>1, PlaceOrder
  <2>2. n < m /\ m \in Int /\ n \in Int
    BY <2>1, <1>2, <1>3
  <2> QED
    BY <2>2
<1> QED
  BY <1>2, <1>3, <1>4, <1>5


-----------------------------------------------------------------------------
(***************************************************************************)
(* The replay.                                                             *)
(***************************************************************************)

\* Nothing of the replay changes, or of it only what the page says it does.
LEMMA LinkFrame ==
    ASSUME LinkInv,
           record' = record, at' = at, clock' = clock, elapsed' = elapsed,
           shownAt' = shownAt, linkOutput' = linkOutput, linkSamples' = linkSamples,
           page' \in {"none", "loading", "not_found", "replaying", "done"},
           page' \in {"none", "loading"} => page \in {"none", "loading"},
           page' = "loading" => clicked' = 1,
           page' = "done" => at = Length(record)
    PROVE  LinkInv'
<1>1. LinkTyped'
  BY DEF LinkInv, LinkTyped
<1>2. Replayed'
  BY DEF LinkInv, Replayed, ShownChunks, ShownStats
<1>3. Timed'
  BY DEF LinkInv, Timed, TimeOf
<1> QED
  BY <1>1, <1>2, <1>3 DEF LinkInv

\* Before the first event nothing is shown.
LEMMA NothingReplayed ==
    ASSUME NEW r \in Records
    PROVE  /\ {n \in 1..Len(r.chunks) : Place(Recorded(r), n) <= 0} = {}
           /\ {n \in 1..Len(r.stats) : Place(Recorded(r), Len(r.chunks) + n) <= 0} = {}
<1>1. /\ Length(r) \in Nat /\ IsTimed(Recorded(r), Length(r))
      /\ Len(r.chunks) \in Nat /\ Len(r.stats) \in Nat
  BY RecordedIs
<1>2. \A i \in 1..Length(r) : Place(Recorded(r), i) \in 1..Length(r)
  BY <1>1, UpToFinite, PlaceIs
<1>3. \A i \in 1..Length(r) : ~(Place(Recorded(r), i) <= 0)
  BY <1>1, <1>2
<1>4. /\ \A n \in 1..Len(r.chunks) : n \in 1..Length(r)
      /\ \A n \in 1..Len(r.stats) : Len(r.chunks) + n \in 1..Length(r)
  BY <1>1, Spans, Zenon DEF Length
<1> QED
  BY <1>3, <1>4, Zenon

\* The page behind the link before it is opened.
LEMMA LinkInitKept ==
    ASSUME LinkInit
    PROVE  LinkInv
<1>1. NoRecord \in Records /\ Length(NoRecord) = 0
  BY DEF NoRecord, Record, Records, Length
<1>2. LinkTyped
  BY <1>1 DEF LinkInit, LinkTyped
<1>3. ShownChunks = {} /\ ShownStats = {}
  BY <1>1, NothingReplayed DEF LinkInit, ShownChunks, ShownStats
<1>4. Replayed
  BY <1>3, FS_EmptySet DEF LinkInit, Replayed
<1>5. Timed
  BY DEF LinkInit, Timed
<1> QED
  BY <1>2, <1>4, <1>5 DEF LinkInv

\* The record of a run that is on the page.
LEMMA SavedIsRecord ==
    ASSUME RunsAssumption, PlayInv, clicked = 1
    PROVE  Saved \subseteq Records
<1>1. 1 \in Runs /\ outcome[1].chunks \in Nat /\ outcome[1].buffered \in BOOLEAN
  BY DEF PlayInv, PageTyped, RunsAssumption, Runs
<1>2. Len(statSamples) \in Nat
  BY DEF PlayInv, PageTyped
<1>3. \A n \in Nat : Times(n) \subseteq Seq(Int)
  <2> SUFFICES ASSUME NEW n \in Nat, NEW f \in Times(n)
               PROVE  f \in Seq(Int)
    OBVIOUS
  <2>1. f \in [1..n -> Int]
    BY DEF Times
  <2> QED
    BY <2>1
<1>4. /\ Times(outcome[1].chunks) \subseteq Seq(Int)
      /\ Times(Len(statSamples)) \subseteq Seq(Int)
  BY <1>1, <1>2, <1>3
<1> QED
  BY <1>1, <1>4 DEF Saved, Record, Records

\* It is loaded before anything is shown of it.
LEMMA LoadKept ==
    ASSUME RunsAssumption, PlayInv, LinkInv, Load(Saved)
    PROVE  LinkInv'
<1>1. /\ clicked = 1 /\ at = 0 /\ record = NoRecord
      /\ record' \in Saved /\ page' = "replaying" /\ at' = at /\ clock' = clock
      /\ elapsed' = elapsed /\ shownAt' = shownAt /\ linkOutput' = linkOutput
      /\ linkSamples' = linkSamples
  BY DEF Load, LinkInv, LinkTyped
<1>2. record' \in Records /\ NoRecord \in Records
  BY <1>1, SavedIsRecord DEF NoRecord, Record, Records
<1>3. Length(record') \in Nat
  BY <1>2, RecordedIs
<1>4. ShownChunks = {} /\ ShownStats = {} /\ ShownChunks' = {} /\ ShownStats' = {}
  BY <1>1, <1>2, NothingReplayed DEF ShownChunks, ShownStats
<1>5. LinkTyped'
  BY <1>1, <1>2, <1>3 DEF LinkInv, LinkTyped
<1>6. Replayed'
  <2>1. linkOutput = <<>>
    <3>1. Len(linkOutput) = 0 /\ linkOutput \in Seq(Nat)
      BY <1>4, FS_EmptySet DEF LinkInv, Replayed, LinkTyped
    <3> QED
      BY <3>1, EmptySeq
  <2> QED
    BY <2>1, <1>1, <1>4 DEF LinkInv, Replayed
<1>7. Timed'
  BY <1>1 DEF Timed
<1> QED
  BY <1>5, <1>6, <1>7 DEF LinkInv


\* What one turn of the loop does.
LEMMA Turn ==
    ASSUME LinkInv, ShowEvent
    PROVE  LET event == Events(record)[at + 1]
           IN  /\ at \in Nat /\ at + 1 \in 1..Length(record) /\ Length(record) \in Nat
               /\ at' = at + 1 /\ record' = record /\ page' = page /\ page = "replaying"
               /\ elapsed' = elapsed + Wait(event) /\ clock' = event.t
               /\ shownAt' = Append(shownAt, elapsed')
               /\ \/ /\ event.type = "chunk"
                     /\ linkOutput' = Append(linkOutput, event.n)
                     /\ linkSamples' = linkSamples
                  \/ /\ event.type = "stats"
                     /\ linkSamples' = linkSamples + 1
                     /\ linkOutput' = linkOutput
<1>1. record \in Records /\ at \in 0..Length(record)
  BY DEF LinkInv, LinkTyped
<1>2. Length(record) \in Nat /\ Len(Events(record)) = Length(record)
  BY <1>1, RecordedIs, EventsAre
<1>3. at \in Nat /\ at + 1 \in 1..Length(record)
  BY <1>1, <1>2 DEF ShowEvent
<1> QED
  BY <1>2, <1>3 DEF ShowEvent, ShowChunk, ShowSample

\* The place of the event in the record: what is shown grows by it alone.
LEMMA ShownMore ==
    ASSUME LinkInv, ShowEvent
    PROVE  LET event == Events(record)[at + 1]
           IN  \/ /\ event.type = "chunk" /\ event.n \in 1..Len(record.chunks)
                  /\ Place(Recorded(record), event.n) = at + 1
                  /\ ShownChunks' = ShownChunks \cup {event.n}
                  /\ ShownStats' = ShownStats
                  /\ event.n \notin ShownChunks
               \/ /\ event.type = "stats" /\ event.n \in 1..Len(record.stats)
                  /\ ShownStats' = ShownStats \cup {event.n}
                  /\ ShownChunks' = ShownChunks
                  /\ event.n \notin ShownStats
<1> DEFINE raw == Recorded(record)
           N == Length(record)
           C == Len(record.chunks)
           S == Len(record.stats)
           event == Events(record)[at + 1]
<1>1. record \in Records /\ at \in Nat /\ at + 1 \in 1..N /\ at' = at + 1 /\ record' = record
  BY Turn DEF LinkInv, LinkTyped
<1>2. /\ N \in Nat /\ C \in Nat /\ S \in Nat /\ IsTimed(raw, N)
      /\ \A n \in 1..C : raw[n] = Event("chunk", n, record.chunks[n])
      /\ \A n \in 1..S : raw[C + n] = Event("stats", n, record.stats[n])
  BY <1>1, RecordedIs
<1>3. /\ \A n \in 1..C : n \in 1..N /\ n <= C
      /\ \A n \in 1..S : C + n \in 1..N /\ ~(C + n <= C)
  BY <1>2, Spans, Zenon DEF Length
<1>4. N = C + S
  BY DEF Length
<1>5. PICK i \in 1..N : Place(raw, i) = at + 1 /\ event = raw[i]
  BY <1>1, EventsAre
<1>6. /\ ShownChunks = {n \in 1..C : Place(raw, n) <= at}
      /\ ShownStats = {n \in 1..S : Place(raw, C + n) <= at}
      /\ ShownChunks' = {n \in 1..C : Place(raw, n) <= at + 1}
      /\ ShownStats' = {n \in 1..S : Place(raw, C + n) <= at + 1}
  BY <1>1 DEF ShownChunks, ShownStats
<1> HIDE DEF raw, N, C, S, event
<1>7. \A n \in 1..N : Place(raw, n) \in 1..N
  BY <1>2, UpToFinite, PlaceIs
<1>8. \A n \in 1..N : n # i => Place(raw, n) # at + 1
  BY <1>2, <1>5, PlaceInjective
<1>9. \A n \in 1..N : Place(raw, n) <= at + 1 <=> (n = i \/ Place(raw, n) <= at)
  BY <1>1, <1>2, <1>5, <1>7, <1>8
<1>10. ~(Place(raw, i) <= at)
  BY <1>1, <1>5
<1>11. CASE i \in 1..C
  <2>1. event = Event("chunk", i, record.chunks[i])
    BY <1>2, <1>5, <1>11
  <2>2. event.type = "chunk" /\ event.n = i
    BY <2>1 DEF Event
  <2>3. \A n \in 1..S : C + n # i
    BY <1>3, <1>11
  <2>4. ShownChunks' = ShownChunks \cup {i} /\ i \notin ShownChunks
    BY <1>3, <1>6, <1>9, <1>10, <1>11
  <2>5. ShownStats' = ShownStats
    BY <2>3, <1>3, <1>6, <1>9
  <2> QED
    BY <2>2, <2>4, <2>5, <1>5, <1>11 DEF raw, C, event
<1>12. CASE i \notin 1..C
  <2>1. PICK s \in 1..S : i = C + s
    <3>1. i - C \in 1..S /\ i = C + (i - C)
      BY <1>2, <1>4, <1>12
    <3> QED
      BY <3>1
  <2>2. event = Event("stats", s, record.stats[s])
    BY <2>1, <1>2, <1>5
  <2>3. event.type = "stats" /\ event.n = s
    BY <2>2 DEF Event
  <2>4. \A n \in 1..C : n # i
    BY <1>12
  <2>5. \A n \in 1..S : C + n = i <=> n = s
    BY <2>1, <1>2
  <2>6. ShownChunks' = ShownChunks
    BY <2>4, <1>3, <1>6, <1>9
  <2>7. ShownStats' = ShownStats \cup {s} /\ s \notin ShownStats
    BY <2>1, <2>5, <1>3, <1>6, <1>9, <1>10
  <2> QED
    BY <2>3, <2>6, <2>7, <2>1 DEF raw, S, event
<1> QED
  BY <1>11, <1>12

\* The sets that are counted are finite.
LEMMA ShownFinite ==
    ASSUME LinkInv
    PROVE  /\ IsFiniteSet(ShownChunks) /\ IsFiniteSet(ShownStats)
           /\ IsFiniteSet(1..Len(record.chunks)) /\ IsFiniteSet(1..Len(record.stats))
           /\ Cardinality(1..Len(record.chunks)) = Len(record.chunks)
           /\ Cardinality(1..Len(record.stats)) = Len(record.stats)
<1> DEFINE C == Len(record.chunks)
           S == Len(record.stats)
<1>1. C \in Nat /\ S \in Nat
  BY RecordedIs DEF LinkInv, LinkTyped
<1>2. ShownChunks \subseteq 1..C /\ ShownStats \subseteq 1..S
  BY DEF ShownChunks, ShownStats
<1> HIDE DEF C, S
<1>3. IsFiniteSet(1..C) /\ IsFiniteSet(1..S) /\ Cardinality(1..C) = C /\ Cardinality(1..S) = S
  BY <1>1, FS_Interval
<1>4. IsFiniteSet(ShownChunks) /\ IsFiniteSet(ShownStats)
  BY <1>2, <1>3, FS_Subset
<1> QED
  BY <1>3, <1>4 DEF C, S

\* Chunks whose times are in order are placed in their order.
LEMMA ChunksInOrder ==
    ASSUME NEW r \in Records, InOrder(r.chunks),
           NEW m \in 1..Len(r.chunks), NEW n \in 1..Len(r.chunks), m < n
    PROVE  Place(Recorded(r), m) < Place(Recorded(r), n)
<1> DEFINE raw == Recorded(r)
           N == Length(r)
<1>1. /\ N \in Nat /\ IsTimed(raw, N)
      /\ raw[m] = Event("chunk", m, r.chunks[m])
      /\ raw[n] = Event("chunk", n, r.chunks[n])
      /\ Len(r.chunks) \in Nat /\ Len(r.stats) \in Nat
  BY RecordedIs
<1>2. m \in 1..N /\ n \in 1..N
  BY <1>1, Spans, Zenon DEF Length
<1>3. raw[m].t = r.chunks[m] /\ raw[n].t = r.chunks[n]
  BY <1>1 DEF Event
<1>4. r.chunks[m] <= r.chunks[n]
  <2>1. r.chunks \in Seq(Int)
    BY DEF Records
  <2>2. DOMAIN r.chunks = 1..Len(r.chunks)
    BY <2>1
  <2> QED
    BY <2>2 DEF InOrder
<1>5. raw[m].t \in Int /\ raw[n].t \in Int
  BY <1>1, <1>2 DEF IsTimed
<1> HIDE DEF raw, N
<1>6. raw[m].t < raw[n].t \/ (raw[m].t = raw[n].t /\ m < n)
  BY <1>3, <1>4, <1>5
<1>7. Place(raw, m) < Place(raw, n)
  BY <1>1, <1>2, <1>6, PlaceOrder
<1> QED
  BY <1>7 DEF raw


\* The output grows by the chunk, and a chunk of a run whose times are in order
\* is the next one.
LEMMA ReplayedMore ==
    ASSUME LinkInv, ShowEvent
    PROVE  Replayed'
<1> DEFINE event == Events(record)[at + 1]
           shown == event.n
<1>1. /\ at \in Nat /\ at' = at + 1 /\ record' = record /\ page' = "replaying"
      /\ \/ /\ event.type = "chunk"
            /\ linkOutput' = Append(linkOutput, shown) /\ linkSamples' = linkSamples
         \/ /\ event.type = "stats"
            /\ linkSamples' = linkSamples + 1 /\ linkOutput' = linkOutput
  BY Turn
<1>2. \/ /\ event.type = "chunk" /\ shown \in 1..Len(record.chunks)
         /\ Place(Recorded(record), shown) = at + 1
         /\ ShownChunks' = ShownChunks \cup {shown} /\ ShownStats' = ShownStats
         /\ shown \notin ShownChunks
      \/ /\ event.type = "stats" /\ shown \in 1..Len(record.stats)
         /\ ShownStats' = ShownStats \cup {shown} /\ ShownChunks' = ShownChunks
         /\ shown \notin ShownStats
  BY ShownMore
<1> HIDE DEF event, shown
<1>3. /\ {linkOutput[n] : n \in DOMAIN linkOutput} = ShownChunks
      /\ Cardinality(ShownChunks) = Len(linkOutput)
      /\ Cardinality(ShownStats) = linkSamples
      /\ InOrder(record.chunks) => \A n \in DOMAIN linkOutput : linkOutput[n] = n
  BY DEF LinkInv, Replayed
<1>4. linkOutput \in Seq(Nat) /\ record \in Records
  BY DEF LinkInv, LinkTyped
<1>5. IsFiniteSet(ShownChunks) /\ IsFiniteSet(ShownStats)
  BY ShownFinite
<1>6. CASE event.type = "stats"
  <2>1. linkOutput' = linkOutput /\ ShownChunks' = ShownChunks
        /\ linkSamples' = linkSamples + 1 /\ ShownStats' = ShownStats \cup {shown}
        /\ shown \notin ShownStats
    BY <1>1, <1>2, <1>6
  <2>2. Cardinality(ShownStats \cup {shown}) = Cardinality(ShownStats) + 1
    BY <2>1, <1>5, FS_AddElement
  <2> QED
    BY <2>1, <2>2, <1>1, <1>3 DEF Replayed
<1>7. CASE event.type = "chunk"
  <2>1. /\ linkOutput' = Append(linkOutput, shown) /\ linkSamples' = linkSamples
        /\ ShownChunks' = ShownChunks \cup {shown} /\ ShownStats' = ShownStats
        /\ shown \notin ShownChunks /\ shown \in 1..Len(record.chunks)
        /\ Place(Recorded(record), shown) = at + 1
    BY <1>1, <1>2, <1>7
  <2>2. shown \in Nat
    BY <2>1
  <2>3. /\ Len(linkOutput) \in Nat /\ DOMAIN linkOutput = 1..Len(linkOutput)
        /\ DOMAIN linkOutput' = 1..(Len(linkOutput) + 1)
        /\ Len(linkOutput') = Len(linkOutput) + 1
        /\ \A n \in 1..Len(linkOutput) : linkOutput'[n] = linkOutput[n]
        /\ linkOutput'[Len(linkOutput) + 1] = shown
    BY <2>1, <2>2, <1>4, AppendProperties
  <2> DEFINE L == Len(linkOutput)
  <2> HIDE DEF L
  <2>4. /\ L \in Nat /\ DOMAIN linkOutput = 1..L /\ DOMAIN linkOutput' = 1..(L + 1)
        /\ Len(linkOutput') = L + 1 /\ Cardinality(ShownChunks) = L
        /\ \A n \in 1..L : linkOutput'[n] = linkOutput[n]
        /\ linkOutput'[L + 1] = shown
        /\ {linkOutput[n] : n \in 1..L} = ShownChunks
    BY <2>3, <1>3 DEF L
  <2>5. {linkOutput'[n] : n \in DOMAIN linkOutput'} = ShownChunks'
    <3>1. \A n \in 1..(L + 1) : n \in 1..L \/ n = L + 1
      BY <2>4
    <3>2. \A n \in 1..L : n \in 1..(L + 1)
      BY <2>4
    <3>3. L + 1 \in 1..(L + 1)
      BY <2>4
    <3> QED
      BY <3>1, <3>2, <3>3, <2>1, <2>4
  <2>6. Cardinality(ShownChunks') = Len(linkOutput')
    <3>1. Cardinality(ShownChunks \cup {shown}) = Cardinality(ShownChunks) + 1
      BY <2>1, <1>5, FS_AddElement
    <3> QED
      BY <3>1, <2>1, <2>4
  <2>7. ASSUME InOrder(record.chunks)
        PROVE  \A n \in DOMAIN linkOutput' : linkOutput'[n] = n
    <3>1. \A n \in 1..L : linkOutput[n] = n
      BY <2>4, <2>7, <1>3
    <3>2. ShownChunks = 1..L
      BY <3>1, <2>4
    <3>3. ~(L + 1 < shown)
      <4> SUFFICES ASSUME L + 1 < shown
                   PROVE  FALSE
        OBVIOUS
      <4>1. L + 1 \in 1..Len(record.chunks)
        <5>1. Len(record.chunks) \in Nat
          BY <1>4, RecordedIs
        <5> QED
          BY <5>1, <2>1, <2>4
      <4>2. Place(Recorded(record), L + 1) < at + 1
        BY <4>1, <2>1, <2>4, <2>7, <1>4, ChunksInOrder
      <4>3. Place(Recorded(record), L + 1) \in Nat
        <5>1. /\ Length(record) \in Nat /\ IsTimed(Recorded(record), Length(record))
              /\ Len(record.chunks) \in Nat /\ Len(record.stats) \in Nat
          BY <1>4, RecordedIs
        <5>2. L + 1 \in 1..Length(record)
          BY <4>1, <5>1, Spans, Zenon DEF Length
        <5> QED
          BY <5>1, <5>2, UpToFinite, PlaceIs
      <4>4. L + 1 \in ShownChunks
        BY <4>1, <4>2, <4>3, <1>1 DEF ShownChunks
      <4> QED
        BY <4>4, <3>2, <2>4
    <3>4. shown = L + 1
      BY <3>2, <3>3, <2>1, <2>2, <2>4
    <3> QED
      BY <3>1, <3>4, <2>4
  <2> QED
    BY <2>1, <2>5, <2>6, <2>7, <1>1, <1>3 DEF Replayed
<1> QED
  BY <1>2, <1>6, <1>7

\* The page waits no longer than the run did.
LEMMA WaitIs ==
    ASSUME DelayAssumption, clock \in Int, NEW event, event.t \in Int
    PROVE  /\ Wait(event) \in Nat
           /\ event.t - clock >= 0 => Wait(event) <= event.t - clock
           /\ (event.t - clock >= 0 /\ event.t - clock <= MAX_STEP_DELAY_MS)
                 => Wait(event) = event.t - clock
BY DEF Wait, DelayAssumption

\* One more event in its time: the way to it is the way to the one before it,
\* and the wait.
LEMMA TimedMore ==
    ASSUME DelayAssumption, LinkInv, ShowEvent
    PROVE  Timed'
<1> DEFINE event == Events(record)[at + 1]
           last == at + 1
<1>1. /\ at \in Nat /\ last \in 1..Length(record) /\ Length(record) \in Nat
      /\ at' = last /\ record' = record
      /\ elapsed' = elapsed + Wait(event) /\ clock' = event.t
      /\ shownAt' = Append(shownAt, elapsed')
  BY Turn
<1>2. /\ record \in Records /\ clock \in Int /\ elapsed \in Nat
      /\ shownAt \in Seq(Int) /\ Len(shownAt) = at
  BY DEF LinkInv, LinkTyped
<1>3. event.t = TimeOf(last) /\ event.t \in Int /\ \A n : TimeOf(n)' = TimeOf(n)
  <2>1. event.t \in Int
    BY <1>1, <1>2, EventsSorted
  <2> QED
    BY <2>1, <1>1 DEF TimeOf
<1>4. \A n \in 1..last : TimeOf(n) \in Int
  BY <1>1, <1>2, EventsSorted DEF TimeOf
<1> DEFINE wait == Wait(event)
<1>5. /\ wait \in Nat
      /\ event.t - clock >= 0 => wait <= event.t - clock
      /\ (event.t - clock >= 0 /\ event.t - clock <= MAX_STEP_DELAY_MS)
            => wait = event.t - clock
  BY <1>2, <1>3, WaitIs
<1>6. elapsed' \in Int
  BY <1>1, <1>2, <1>5
<1>7. /\ shownAt'[last] = elapsed' /\ \A n \in 1..at : shownAt'[n] = shownAt[n]
      /\ \A n \in 1..at : shownAt[n] \in Int
  BY <1>1, <1>2, <1>6, AppendProperties
<1>8. /\ at > 0 => clock = TimeOf(at) /\ elapsed = shownAt[at]
      /\ \A m \in 1..at : \A n \in m..at :
            /\ shownAt[n] - shownAt[m] \in 0..(TimeOf(n) - TimeOf(m))
            /\ (\A k \in (m + 1)..n : TimeOf(k) - TimeOf(k - 1) <= MAX_STEP_DELAY_MS)
                  => shownAt[n] - shownAt[m] = TimeOf(n) - TimeOf(m)
  BY DEF LinkInv, Timed
<1>9. at > 0 => TimeOf(at) <= TimeOf(last)
  BY <1>1, <1>2, EventsSorted DEF TimeOf
<1>10. elapsed' = elapsed + wait
  BY <1>1
<1> HIDE DEF event, wait
<1>11. ASSUME NEW m \in 1..last, NEW n \in m..last
       PROVE  /\ shownAt'[n] - shownAt'[m] \in 0..(TimeOf(n) - TimeOf(m))
              /\ (\A k \in (m + 1)..n : TimeOf(k) - TimeOf(k - 1) <= MAX_STEP_DELAY_MS)
                    => shownAt'[n] - shownAt'[m] = TimeOf(n) - TimeOf(m)
  <2>1. CASE n # last
    <3>1. m \in 1..at /\ n \in m..at /\ n \in 1..at
      BY <2>1, <1>1
    <3> QED
      BY <3>1, <1>7, <1>8
  <2>2. CASE m = last
    <3>1. n = last
      BY <2>2, <1>1
    <3>2. TimeOf(last) \in Int /\ shownAt'[last] \in Int
      BY <1>3, <1>6, <1>7
    <3> QED
      BY <2>2, <3>1, <3>2
  <2>3. CASE n = last /\ m # last
    <3>1. m \in 1..at /\ at \in m..at /\ at > 0 /\ at \in 1..at /\ at \in 1..last
      BY <2>3, <1>1
    <3>2. /\ shownAt'[n] = shownAt[at] + wait /\ shownAt'[m] = shownAt[m]
          /\ clock = TimeOf(at)
      BY <2>3, <3>1, <1>7, <1>8, <1>10
    <3>3. TimeOf(m) \in Int /\ TimeOf(at) \in Int /\ TimeOf(last) \in Int
          /\ shownAt[at] \in Int /\ shownAt[m] \in Int
      BY <3>1, <1>1, <1>4, <1>7
    <3>4. shownAt[at] - shownAt[m] \in 0..(TimeOf(at) - TimeOf(m))
      BY <3>1, <1>8
    <3>5. wait \in Nat /\ wait <= TimeOf(last) - TimeOf(at)
      BY <3>1, <3>2, <3>3, <1>3, <1>5, <1>9
    <3>6. shownAt'[n] - shownAt'[m] \in 0..(TimeOf(n) - TimeOf(m))
      BY <2>3, <3>2, <3>3, <3>4, <3>5
    <3>7. ASSUME \A k \in (m + 1)..n : TimeOf(k) - TimeOf(k - 1) <= MAX_STEP_DELAY_MS
          PROVE  shownAt'[n] - shownAt'[m] = TimeOf(n) - TimeOf(m)
      <4>1. \A k \in (m + 1)..at : k \in (m + 1)..n
        BY <2>3, <1>1
      <4>2. shownAt[at] - shownAt[m] = TimeOf(at) - TimeOf(m)
        BY <3>1, <3>7, <4>1, <1>8
      <4>3. last \in (m + 1)..n /\ last - 1 = at
        BY <2>3, <3>1, <1>1
      <4>4. TimeOf(last) - TimeOf(at) <= MAX_STEP_DELAY_MS
        BY <3>7, <4>3
      <4>5. wait = TimeOf(last) - TimeOf(at)
        BY <3>1, <3>2, <3>3, <4>4, <1>3, <1>5, <1>9
      <4> QED
        BY <2>3, <3>2, <3>3, <4>2, <4>5
    <3> QED
      BY <3>6, <3>7
  <2> QED
    BY <2>1, <2>2, <2>3
<1>12. clock' = TimeOf(last) /\ elapsed' = shownAt'[last]
  BY <1>1, <1>3, <1>7
<1>13. at' = last
  BY <1>1
<1> HIDE DEF last
<1> QED
  BY <1>3, <1>11, <1>12, <1>13 DEF Timed


\* One turn of the loop.
LEMMA ShowEventKept ==
    ASSUME DelayAssumption, LinkInv, ShowEvent
    PROVE  LinkInv'
<1> DEFINE event == Events(record)[at + 1]
<1>1. /\ at \in Nat /\ at + 1 \in 1..Length(record) /\ Length(record) \in Nat
      /\ at' = at + 1 /\ record' = record /\ page' = page /\ page = "replaying"
      /\ elapsed' = elapsed + Wait(event) /\ clock' = event.t
      /\ shownAt' = Append(shownAt, elapsed')
      /\ \/ linkOutput' = Append(linkOutput, event.n) /\ linkSamples' = linkSamples
         \/ linkOutput' = linkOutput /\ linkSamples' = linkSamples + 1
  BY Turn
<1>2. /\ record \in Records /\ clock \in Int /\ elapsed \in Nat
      /\ shownAt \in Seq(Int) /\ Len(shownAt) = at
      /\ linkOutput \in Seq(Nat) /\ linkSamples \in Nat
  BY DEF LinkInv, LinkTyped
<1>3. event.t \in Int
  BY <1>1, <1>2, EventsSorted
<1>4. event.n \in Nat
  BY ShownMore
<1> HIDE DEF event
<1>5. elapsed' \in Nat
  BY <1>1, <1>2, <1>3, WaitIs
<1>6. shownAt' \in Seq(Int) /\ Len(shownAt') = at'
  BY <1>1, <1>2, <1>5, AppendProperties
<1>7. linkOutput' \in Seq(Nat) /\ linkSamples' \in Nat
  <2>1. Append(linkOutput, event.n) \in Seq(Nat)
    BY <1>2, <1>4, AppendProperties
  <2>2. linkSamples + 1 \in Nat
    BY <1>2
  <2> QED
    BY <1>1, <1>2, <2>1, <2>2, Zenon
<1>8. at' \in 0..Length(record')
  BY <1>1
<1>9. LinkTyped'
  BY <1>1, <1>2, <1>3, <1>5, <1>6, <1>7, <1>8 DEF LinkTyped
<1> QED
  BY <1>9, ReplayedMore, TimedMore DEF LinkInv

\* The invariant of both pages.
PagesInv == PlayInv /\ LinkInv

\* It is kept by every step.
LEMMA PagesKept ==
    ASSUME RunsAssumption, DelayAssumption, PagesInv, [PagesNext]_pagesVars
    PROVE  PagesInv'
<1> USE DEF PagesInv
<1>1. CASE UNCHANGED pagesVars
  <2>1. /\ UNCHANGED playVars /\ clicked' = clicked
        /\ page' = page /\ record' = record /\ at' = at /\ clock' = clock
        /\ elapsed' = elapsed /\ shownAt' = shownAt
        /\ linkOutput' = linkOutput /\ linkSamples' = linkSamples
    BY <1>1 DEF pagesVars, linkVars, playVars
  <2>2. PlayInv'
    BY <2>1, PlayFrame
  <2>3. LinkInv'
    BY <2>1, LinkFrame DEF LinkInv, LinkTyped, Replayed
  <2> QED
    BY <2>2, <2>3
<1>2. CASE Play
  <2>1. /\ PlayNext /\ page = "none"
        /\ page' = page /\ record' = record /\ at' = at /\ clock' = clock
        /\ elapsed' = elapsed /\ shownAt' = shownAt
        /\ linkOutput' = linkOutput /\ linkSamples' = linkSamples
    BY <1>2 DEF Play, linkVars
  <2>2. PlayInv'
    BY <2>1, PlayKept
  <2>3. LinkInv'
    BY <2>1, LinkFrame DEF LinkInv, LinkTyped
  <2> QED
    BY <2>2, <2>3
<1>3. CASE OpenLink
  <2>1. /\ UNCHANGED playVars /\ clicked' = clicked /\ clicked = 1
        /\ page = "none" /\ page' = "loading" /\ record' = record /\ at' = at
        /\ clock' = clock /\ elapsed' = elapsed /\ shownAt' = shownAt
        /\ linkOutput' = linkOutput /\ linkSamples' = linkSamples
    BY <1>3 DEF OpenLink, Open, playVars
  <2>2. PlayInv'
    BY <2>1, PlayFrame
  <2>3. LinkInv'
    BY <2>1, LinkFrame
  <2> QED
    BY <2>2, <2>3
<1>4. CASE Replay
  <2>1. UNCHANGED playVars /\ clicked' = clicked
    BY <1>4 DEF Replay, playVars
  <2>2. PlayInv'
    BY <2>1, PlayFrame
  <2>3. CASE LoadFails
    <3>1. /\ page = "loading" /\ page' = "not_found"
          /\ record' = record /\ at' = at /\ clock' = clock
          /\ elapsed' = elapsed /\ shownAt' = shownAt
          /\ linkOutput' = linkOutput /\ linkSamples' = linkSamples
      BY <2>3 DEF LoadFails
    <3>2. LinkInv'
      BY <3>1, LinkFrame
    <3> QED
      BY <2>2, <3>2
  <2>4. CASE Load(Saved)
    BY <2>4, <2>2, LoadKept
  <2>5. CASE ShowEvent
    BY <2>5, <2>2, ShowEventKept
  <2>6. CASE ShowResult
    <3>1. record \in Records
      BY DEF LinkInv, LinkTyped
    <3>2. at = Length(record)
      BY <2>6, <3>1, EventsAre DEF ShowResult
    <3>3. LinkInv'
      BY <2>6, <3>2, LinkFrame DEF ShowResult
    <3> QED
      BY <2>2, <3>3
  <2> QED
    BY <1>4, <2>2, <2>3, <2>4, <2>5, <2>6 DEF Replay, LinkNext
<1> QED
  BY <1>1, <1>2, <1>3, <1>4 DEF PagesNext

\* It holds at first.
LEMMA PagesBegin ==
    ASSUME RunsAssumption, PagesInit
    PROVE  PagesInv
BY PlayInitKept, LinkInitKept DEF PagesInit, PagesInv

\* What comes before the event that was shown last has been shown.
LEMMA BeforeIsShown ==
    ASSUME LinkInv, at > 0
    PROVE  /\ {n \in DOMAIN record.chunks : record.chunks[n] < clock} \subseteq ShownChunks
           /\ {n \in DOMAIN record.stats : record.stats[n] < clock} \subseteq ShownStats
<1> DEFINE raw == Recorded(record)
           N == Length(record)
           C == Len(record.chunks)
           S == Len(record.stats)
<1>1. record \in Records /\ at \in 1..N /\ clock = Events(record)[at].t
  <2>1. record \in Records /\ at \in 0..N /\ at > 0
    BY DEF LinkInv, LinkTyped
  <2>2. clock = Events(record)[at].t
    BY DEF LinkInv, Timed, TimeOf
  <2>3. N \in Nat
    BY <2>1, RecordedIs
  <2> HIDE DEF N
  <2> QED
    BY <2>1, <2>2, <2>3
<1>2. /\ N \in Nat /\ C \in Nat /\ S \in Nat /\ IsTimed(raw, N)
      /\ \A n \in 1..C : raw[n] = Event("chunk", n, record.chunks[n])
      /\ \A n \in 1..S : raw[C + n] = Event("stats", n, record.stats[n])
  BY <1>1, RecordedIs
<1>3. /\ \A n \in 1..C : n \in 1..N
      /\ \A n \in 1..S : C + n \in 1..N
  BY <1>2, Spans, Zenon DEF Length
<1>4. PICK i \in 1..N : Place(raw, i) = at /\ Events(record)[at] = raw[i]
  BY <1>1, EventsAre
<1>5. DOMAIN record.chunks = 1..C /\ DOMAIN record.stats = 1..S
  <2>1. record.chunks \in Seq(Int) /\ record.stats \in Seq(Int)
    BY <1>1 DEF Records
  <2> QED
    BY <2>1
<1>6. /\ ShownChunks = {n \in 1..C : Place(raw, n) <= at}
      /\ ShownStats = {n \in 1..S : Place(raw, C + n) <= at}
  BY DEF ShownChunks, ShownStats
<1>7. /\ \A n \in 1..C : raw[n].t = record.chunks[n]
      /\ \A n \in 1..S : raw[C + n].t = record.stats[n]
  <2>1. ASSUME NEW n \in 1..C
        PROVE  raw[n].t = record.chunks[n]
    <3>1. raw[n] = Event("chunk", n, record.chunks[n])
      BY <1>2
    <3> HIDE DEF raw
    <3> QED
      BY <3>1 DEF Event
  <2>2. ASSUME NEW n \in 1..S
        PROVE  raw[C + n].t = record.stats[n]
    <3>1. raw[C + n] = Event("stats", n, record.stats[n])
      BY <1>2
    <3> HIDE DEF raw, C
    <3> QED
      BY <3>1 DEF Event
  <2> QED
    BY <2>1, <2>2
<1> HIDE DEF raw, N, C, S
<1>8. \A k \in 1..N : raw[k].t < clock => Place(raw, k) <= at
  <2> SUFFICES ASSUME NEW k \in 1..N, raw[k].t < clock
               PROVE  Place(raw, k) <= at
    OBVIOUS
  <2>1. Place(raw, k) < Place(raw, i)
    BY <1>1, <1>2, <1>4, PlaceOrder
  <2>2. Place(raw, k) \in Nat
    BY <1>2, UpToFinite, PlaceIs
  <2> QED
    BY <2>1, <2>2, <1>1, <1>4
<1> QED
  BY <1>3, <1>5, <1>6, <1>7, <1>8

\* All of the record has a place.
LEMMA AllIsShown ==
    ASSUME LinkInv, at = Length(record)
    PROVE  ShownChunks = 1..Len(record.chunks) /\ ShownStats = 1..Len(record.stats)
<1> DEFINE raw == Recorded(record)
           N == Length(record)
           C == Len(record.chunks)
           S == Len(record.stats)
<1>1. record \in Records
  BY DEF LinkInv, LinkTyped
<1>2. N \in Nat /\ C \in Nat /\ S \in Nat /\ IsTimed(raw, N)
  BY <1>1, RecordedIs
<1>3. /\ \A n \in 1..C : n \in 1..N
      /\ \A n \in 1..S : C + n \in 1..N
  BY <1>2, Spans, Zenon DEF Length
<1>4. /\ ShownChunks = {n \in 1..C : Place(raw, n) <= N}
      /\ ShownStats = {n \in 1..S : Place(raw, C + n) <= N}
  BY DEF ShownChunks, ShownStats
<1> HIDE DEF raw, N, C, S
<1>5. \A k \in 1..N : Place(raw, k) <= N
  BY <1>2, UpToFinite, PlaceIs
<1>6. ShownChunks = 1..C /\ ShownStats = 1..S
  BY <1>3, <1>4, <1>5
<1> QED
  BY <1>6 DEF C, S

\* The invariant says what is asked of the replay.
LEMMA ReplayOfTheRun ==
    ASSUME LinkInv
    PROVE  ReplayIsFaithful
<1>1. linkOutput \in Seq(Nat) /\ record \in Records
  BY DEF LinkInv, LinkTyped
<1>2. /\ {linkOutput[n] : n \in DOMAIN linkOutput} = ShownChunks
      /\ Cardinality(ShownChunks) = Len(linkOutput)
      /\ Cardinality(ShownStats) = linkSamples
      /\ InOrder(record.chunks) => \A n \in DOMAIN linkOutput : linkOutput[n] = n
      /\ page = "done" => at = Length(record)
  BY DEF LinkInv, Replayed
<1>3. InOrder(record.chunks) => linkOutput = [n \in 1..Len(linkOutput) |-> n]
  BY <1>1, <1>2
<1>4. Cardinality({linkOutput[n] : n \in DOMAIN linkOutput}) = Len(linkOutput)
  BY <1>2
<1> DEFINE Before(times) == {n \in DOMAIN times : at > 0 /\ times[n] < clock}
<1>5. /\ Cardinality(Before(record.chunks)) <= Len(linkOutput)
      /\ Cardinality(Before(record.stats)) <= linkSamples
  <2>1. IsFiniteSet(ShownChunks) /\ IsFiniteSet(ShownStats)
    BY ShownFinite
  <2>2. Before(record.chunks) \subseteq ShownChunks /\ Before(record.stats) \subseteq ShownStats
    <3>1. CASE at > 0
      BY <3>1, BeforeIsShown
    <3>2. CASE ~(at > 0)
      BY <3>2
    <3> QED
      BY <3>1, <3>2
  <2> HIDE DEF Before
  <2> QED
    BY <2>1, <2>2, <1>2, FS_Subset
<1>6. /\ Cardinality(Before(record.chunks)) \in Nat
      /\ Cardinality(Before(record.stats)) \in Nat
  <2>1. /\ DOMAIN record.chunks = 1..Len(record.chunks)
        /\ DOMAIN record.stats = 1..Len(record.stats)
    <3>1. record.chunks \in Seq(Int) /\ record.stats \in Seq(Int)
      BY <1>1 DEF Records
    <3> QED
      BY <3>1
  <2>2. IsFiniteSet(1..Len(record.chunks)) /\ IsFiniteSet(1..Len(record.stats))
    BY ShownFinite
  <2>3. IsFiniteSet(Before(record.chunks)) /\ IsFiniteSet(Before(record.stats))
    BY <2>1, <2>2, FS_Subset
  <2> HIDE DEF Before
  <2> QED
    BY <2>3, FS_CardinalityType
<1>7. /\ Len(linkOutput) >= Cardinality(Before(record.chunks))
      /\ linkSamples >= Cardinality(Before(record.stats))
  <2>1. Len(linkOutput) \in Nat /\ linkSamples \in Nat
    BY DEF LinkInv, LinkTyped
  <2> HIDE DEF Before
  <2> QED
    BY <2>1, <1>5, <1>6
<1>8. page = "done" =>
         Len(linkOutput) = Len(record.chunks) /\ linkSamples = Len(record.stats)
  BY <1>2, AllIsShown, ShownFinite
<1>9. \A m \in 1..at : \A n \in m..at :
         LET t(k) == Events(record)[k].t
         IN  /\ shownAt[n] - shownAt[m] \in 0..(t(n) - t(m))
             /\ (\A k \in (m + 1)..n : t(k) - t(k - 1) <= MAX_STEP_DELAY_MS)
                   => shownAt[n] - shownAt[m] = t(n) - t(m)
  BY DEF LinkInv, Timed, TimeOf
<1> QED
  BY <1>3, <1>4, <1>7, <1>8, <1>9 DEF ReplayIsFaithful

\* The type invariant follows.
LEMMA TypesFollow ==
    ASSUME PlayInv, LinkInv
    PROVE  PagesTypeOK
<1>1. PlayTypeOK
  BY DEF PlayInv, PageTyped, PlayTypeOK
<1>2. LinkTypeOK
  <2>1. record \in Records /\ at \in 0..Length(record)
    BY DEF LinkInv, LinkTyped
  <2>2. Length(record) \in Nat
    BY <2>1, RecordedIs
  <2>3. at <= Length(record)
    BY <2>1, <2>2
  <2> QED
    BY <2>3 DEF LinkInv, LinkTyped, Length, LinkTypeOK
<1> QED
  BY <1>1, <1>2 DEF PagesTypeOK

\* The variables of both pages have their types.
THEOREM PagesTyped == PagesSpec => []PagesTypeOK
<1>1. PagesInit => PagesInv
  BY RunsAssumption, PagesBegin
<1>2. PagesInv /\ [PagesNext]_pagesVars => PagesInv'
  BY RunsAssumption, DelayAssumption, PagesKept
<1>3. PagesInv => PagesTypeOK
  BY TypesFollow DEF PagesInv
<1> QED
  BY <1>1, <1>2, <1>3, PTL DEF PagesSpec

\* The playground shows the newest run and it alone, all that it printed, once
\* and in order, and stdin reaches only a run that has started: whatever the
\* order in which the handlers of old and new sockets in app.js are called, as
\* long as no run is clicked over another.
THEOREM PageShowsTheRun == PagesSpec => []RunIsShown
<1>1. PagesInit => PagesInv
  BY RunsAssumption, PagesBegin
<1>2. PagesInv /\ [PagesNext]_pagesVars => PagesInv'
  BY RunsAssumption, DelayAssumption, PagesKept
<1>3. PagesInv => RunIsShown
  BY RunsAssumption, ShownWhatRan DEF PagesInv
<1> QED
  BY <1>1, <1>2, <1>3, PTL DEF PagesSpec

\* The button and the stdin box that app.js enables and disables fit the state
\* of the newest run, unless an older socket's close came late; and whatever
\* came late, they are as at first when nothing is under way.
THEOREM PageControlsFit == PagesSpec => []ControlsFitTheRun
<1>1. PagesInit => PagesInv
  BY RunsAssumption, PagesBegin
<1>2. PagesInv /\ [PagesNext]_pagesVars => PagesInv'
  BY RunsAssumption, DelayAssumption, PagesKept
<1>3. PagesInv => ControlsFitTheRun
  BY ControlsFit DEF PagesInv
<1> QED
  BY <1>1, <1>2, <1>3, PTL DEF PagesSpec

\* replay() of permalink.js shows each chunk and sample of any record once, in
\* the order of their times, leaves none out, and never takes longer between
\* two events than the run did.
THEOREM LinkReplaysTheRun == PagesSpec => []ReplayIsFaithful
<1>1. PagesInit => PagesInv
  BY RunsAssumption, PagesBegin
<1>2. PagesInv /\ [PagesNext]_pagesVars => PagesInv'
  BY RunsAssumption, DelayAssumption, PagesKept
<1>3. PagesInv => ReplayIsFaithful
  BY ReplayOfTheRun DEF PagesInv
<1> QED
  BY <1>1, <1>2, <1>3, PTL DEF PagesSpec
=============================================================================
