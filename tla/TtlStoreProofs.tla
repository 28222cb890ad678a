--------------------------- MODULE TtlStoreProofs ---------------------------
(***************************************************************************)
(* Proofs about TtlStore, for any ids, any number of concurrent loads and  *)
(* sweeps, any time to live and any number of crashes.                     *)
(*                                                                         *)
(* A load or a sweep unlinks a path that it looked at some time ago.  The  *)
(* inductive invariant says why that is safe: an id is written once, so a  *)
(* record that was seen whole is written no more, its stamp does not       *)
(* change, and one that had expired when the call was made is expired ever *)
(* after.  Whether its save was ever resolved does not matter.             *)
(***************************************************************************)
EXTENDS TtlStore, TLAPS

\* Nothing is written to the path of the id any more.
Closed(id) == save[id] \notin {"none", "writing"}

\* What has been seen expired: written, and past its time to live by now.
Doomed(id) == Closed(id) /\ ~Fresh(id)

\* What was whole once: it stays so until it has expired.
Stays(id) == Closed(id) /\ (Fresh(id) => file[id] = "whole")

WholeIsWritten ==
    \A id \in Ids :
        /\ file[id] = "whole" => Closed(id)
        /\ save[id] = "writing" => file[id] = "torn"
        /\ save[id] \in {"written", "resolved"} => Stays(id)

LoadsUnlinkDoomed ==
    \A l \in Loaders :
        /\ load[l].pc = "unlinking" => Doomed(load[l].id)
        /\ load[l].saved => Stays(load[l].id)

SweepsUnlinkDoomed ==
    \A s \in Sweepers : \A id \in sweep[s].doomed : Doomed(id)

IInv ==
    /\ TypeOK
    /\ WholeIsWritten
    /\ LoadsUnlinkDoomed
    /\ SweepsUnlinkDoomed

LEMMA InitEstablishes == Init => IInv
<1> SUFFICES ASSUME Init PROVE IInv
  OBVIOUS
<1> USE StoreAssumption DEF Init
<1>0. 0 \in 0..now
  OBVIOUS
<1>1. ASSUME NEW id \in Ids PROVE NoLoad(id) \in Loads
  <2> HIDE DEF Init
  <2> QED
    BY <1>0, Zenon DEF NoLoad, Loads
<1>2. load \in [Loaders -> Loads]
  <2>1. {NoLoad(id) : id \in Ids} \subseteq Loads
    BY <1>1
  <2>2. load \in [Loaders -> {NoLoad(id) : id \in Ids}]
    OBVIOUS
  <2> HIDE DEF Init
  <2> QED
    BY <2>1, <2>2, Zenon
<1>3. NoSweep \in Sweeps
  BY DEF NoSweep, Sweeps
<1>4. TypeOK
  BY <1>2, <1>3 DEF TypeOK
<1>5. \A l \in Loaders : load[l].pc = "idle" /\ load[l].saved = FALSE
  BY DEF NoLoad
<1>6. LoadsUnlinkDoomed
  BY <1>5 DEF LoadsUnlinkDoomed
<1> QED
  BY <1>4, <1>6
  DEF IInv, WholeIsWritten, SweepsUnlinkDoomed, NoSweep

\* The steps of a save keep the invariant: they touch one path, before it can
\* have been seen whole.
LEMMA SaveKeeps ==
    ASSUME IInv, NEW id \in Ids, SaveStep(id)
    PROVE  IInv'
<1> USE StoreAssumption DEF IInv, Fresh, Doomed, Stays, Closed
<1>1. CASE SaveBegin(id)
  <2> USE <1>1 DEF SaveBegin
  <2>1. TypeOK'
    BY DEF TypeOK, Loads, Sweeps
  <2>2. WholeIsWritten'
    BY DEF TypeOK, WholeIsWritten
  <2>3. LoadsUnlinkDoomed'
    BY DEF TypeOK, LoadsUnlinkDoomed, Loads
  <2>4. SweepsUnlinkDoomed'
    BY DEF TypeOK, SweepsUnlinkDoomed, Sweeps
  <2> QED
    BY <2>1, <2>2, <2>3, <2>4
<1>2. CASE SaveWrite(id)
  <2> USE <1>2 DEF SaveWrite
  <2>1. TypeOK'
    BY DEF TypeOK, Loads, Sweeps
  <2>2. WholeIsWritten'
    BY DEF TypeOK, WholeIsWritten
  <2>3. LoadsUnlinkDoomed'
    BY DEF TypeOK, LoadsUnlinkDoomed, Loads
  <2>4. SweepsUnlinkDoomed'
    BY DEF TypeOK, SweepsUnlinkDoomed, Sweeps
  <2> QED
    BY <2>1, <2>2, <2>3, <2>4
<1>3. CASE SaveFail(id)
  <2> USE <1>3 DEF SaveFail
  <2>1. TypeOK'
    BY DEF TypeOK, Loads, Sweeps
  <2>2. WholeIsWritten'
    BY DEF TypeOK, WholeIsWritten
  <2>3. LoadsUnlinkDoomed'
    BY DEF TypeOK, LoadsUnlinkDoomed, Loads
  <2>4. SweepsUnlinkDoomed'
    BY DEF TypeOK, SweepsUnlinkDoomed, Sweeps
  <2> QED
    BY <2>1, <2>2, <2>3, <2>4
<1>4. CASE SaveResolve(id)
  <2> USE <1>4 DEF SaveResolve
  <2>1. TypeOK'
    BY DEF TypeOK, Loads, Sweeps
  <2>2. WholeIsWritten'
    BY DEF TypeOK, WholeIsWritten
  <2>3. LoadsUnlinkDoomed'
    BY DEF TypeOK, LoadsUnlinkDoomed, Loads
  <2>4. SweepsUnlinkDoomed'
    BY DEF TypeOK, SweepsUnlinkDoomed, Sweeps
  <2> QED
    BY <2>1, <2>2, <2>3, <2>4
<1> QED
  BY <1>1, <1>2, <1>3, <1>4 DEF SaveStep

LEMMA AnswerTyped ==
    ASSUME now \in Nat, load \in [Loaders -> Loads], NEW l \in Loaders,
           NEW answer \in {"null", "record"}, Answer(l, answer)
    PROVE  load' \in [Loaders -> Loads]
<1>1. load[l].id \in Ids /\ 0 \in 0..now
  BY DEF Loads
<1>2. [NoLoad(load[l].id) EXCEPT !.pc = "done", !.answer = answer] \in Loads
  BY <1>1 DEF Loads, NoLoad
<1> QED
  BY <1>2 DEF Answer

\* The steps of a load: what it unlinks was expired when it was asked for.
LEMMA LoadKeeps ==
    ASSUME IInv, NEW l \in Loaders, LoadStep(l)
    PROVE  IInv'
<1> USE StoreAssumption DEF IInv, Fresh, Doomed, Stays, Closed
<1>1. ASSUME NEW id \in Ids, LoadBegin(l, id)
      PROVE  IInv'
  <2> USE <1>1 DEF LoadBegin
  <2>1. TypeOK'
    BY DEF TypeOK, Loads, Sweeps
  <2>2. LoadsUnlinkDoomed'
    BY DEF TypeOK, LoadsUnlinkDoomed, Loads, WholeIsWritten
  <2> QED
    BY <2>1, <2>2 DEF WholeIsWritten, SweepsUnlinkDoomed
<1>2. ASSUME NEW answer \in {"null", "record"}, Answer(l, answer),
             UNCHANGED <<now, file, stamp, save, sweep, crashes>>
      PROVE  IInv'
  <2> USE <1>2 DEF Answer
  <2>1. TypeOK'
    BY AnswerTyped DEF TypeOK, Loads, Sweeps
  <2>2. LoadsUnlinkDoomed'
    BY DEF TypeOK, LoadsUnlinkDoomed, Loads, NoLoad
  <2> QED
    BY <2>1, <2>2 DEF WholeIsWritten, SweepsUnlinkDoomed
<1>3. CASE LoadFindsExpired(l)
  <2> USE <1>3 DEF LoadFindsExpired, Expired
  <2>1. TypeOK'
    BY DEF TypeOK, Loads, Sweeps
  <2>2. LoadsUnlinkDoomed'
    BY DEF TypeOK, LoadsUnlinkDoomed, Loads, WholeIsWritten
  <2> QED
    BY <2>1, <2>2 DEF WholeIsWritten, SweepsUnlinkDoomed
<1>4. CASE LoadUnlinks(l)
  <2> USE <1>4 DEF LoadUnlinks, Unlink, Answer
  <2>1. TypeOK'
    <3>1. load' \in [Loaders -> Loads]
      BY AnswerTyped DEF TypeOK
    <3>2. file' \in [Ids -> {"absent", "torn", "whole"}]
      BY DEF TypeOK
    <3> QED
      BY <3>1, <3>2 DEF TypeOK, Loads, Sweeps
  <2>2. Doomed(load[l].id) /\ load[l].id \in Ids
    BY DEF TypeOK, Loads, LoadsUnlinkDoomed
  <2>a. /\ load'[l].pc = "done" /\ load'[l].saved = FALSE
        /\ \A k \in Loaders \ {l} : load'[k] = load[k]
    BY DEF TypeOK, NoLoad
  <2>b. ASSUME NEW id \in Ids, Stays(id)
        PROVE  Stays(id)'
    BY <2>2, <2>b DEF TypeOK
  <2>3. LoadsUnlinkDoomed'
    <3> SUFFICES ASSUME NEW k \in Loaders
                 PROVE  /\ load'[k].pc = "unlinking" => Doomed(load[k].id)'
                        /\ load'[k].saved => Stays(load[k].id)'
      BY DEF LoadsUnlinkDoomed
    <3>1. CASE k = l
      BY <2>a, <3>1
    <3>2. CASE k # l
      <4>1. load'[k] = load[k] /\ load[k].id \in Ids
        BY <2>a, <3>2 DEF TypeOK, Loads
      <4>2. load[k].saved => Stays(load[k].id)'
        BY <2>b, <4>1 DEF LoadsUnlinkDoomed
      <4> QED
        BY <4>1, <4>2 DEF LoadsUnlinkDoomed
    <3> QED
      BY <3>1, <3>2
  <2>4. WholeIsWritten'
    BY <2>2 DEF TypeOK, WholeIsWritten
  <2> QED
    BY <2>1, <2>3, <2>4 DEF SweepsUnlinkDoomed
<1> QED
  BY <1>1, <1>2, <1>3, <1>4 DEF LoadStep, LoadMisses, LoadHits

\* The steps of a sweep, likewise.
LEMMA SweepKeeps ==
    ASSUME IInv, NEW s \in Sweepers, SweepStep(s)
    PROVE  IInv'
<1> USE StoreAssumption DEF IInv, Fresh, Doomed, Stays, Closed
<1>1. CASE SweepReads(s)
  <2> USE <1>1 DEF SweepReads, SweepsAway, Expired
  <2>0. PICK id \in sweep[s].todo :
          sweep' = [sweep EXCEPT ![s].todo = @ \ {id},
                                 ![s].doomed = {i \in {id} :
                                     SweepsAway(i, sweep[s].asked)}]
    OBVIOUS
  <2> DEFINE doomed == {i \in {id} : SweepsAway(i, sweep[s].asked)}
             new == [sweep[s] EXCEPT !.todo = @ \ {id}, !.doomed = doomed]
  <2>a. sweep[s] \in Sweeps /\ id \in Ids /\ doomed \subseteq Ids
    BY DEF TypeOK, Sweeps
  <2>b. sweep' = [sweep EXCEPT ![s] = new]
    BY <2>0
  <2>c. new.doomed = doomed /\ new \in Sweeps
    BY <2>a DEF Sweeps
  <2>d. \A i \in doomed : Doomed(i)
    BY <2>a DEF TypeOK, Sweeps, WholeIsWritten
  <2> HIDE DEF new, doomed
  <2>1. TypeOK'
    BY <2>b, <2>c DEF TypeOK, Loads, Sweeps
  <2>2. SweepsUnlinkDoomed'
    BY <2>b, <2>c, <2>d DEF TypeOK, SweepsUnlinkDoomed
  <2> QED
    BY <2>1, <2>2 DEF WholeIsWritten, LoadsUnlinkDoomed
<1>2. CASE SweepUnlinks(s)
  <2> USE <1>2 DEF SweepUnlinks, Unlink
  <2>1. PICK id \in sweep[s].doomed : Unlink(id)
    OBVIOUS
  <2>2. id \in Ids /\ Doomed(id)
    BY DEF TypeOK, Sweeps, SweepsUnlinkDoomed
  <2> DEFINE new == [sweep[s] EXCEPT !.doomed = {}]
  <2>a. sweep' = [sweep EXCEPT ![s] = new]
    OBVIOUS
  <2>b. new \in Sweeps /\ new.doomed = {}
    <3>1. sweep[s] \in Sweeps
      BY DEF TypeOK
    <3> HIDE DEF IInv, SweepUnlinks, Fresh, Doomed
    <3> QED
      BY <3>1 DEF Sweeps
  <2> HIDE DEF new
  <2>3. TypeOK'
    <3>1. sweep' \in [Sweepers -> Sweeps]
      BY <2>a, <2>b DEF TypeOK
    <3>2. file' \in [Ids -> {"absent", "torn", "whole"}]
      BY <2>1, <2>2 DEF TypeOK
    <3> QED
      BY <3>1, <3>2 DEF TypeOK, Loads, Sweeps
  <2>4. SweepsUnlinkDoomed'
    BY <2>a, <2>b DEF TypeOK, SweepsUnlinkDoomed
  <2>5. WholeIsWritten'
    BY <2>1, <2>2 DEF TypeOK, WholeIsWritten
  <2>6. LoadsUnlinkDoomed'
    <3>1. ASSUME NEW i \in Ids, Stays(i)
          PROVE  Stays(i)'
      BY <2>1, <2>2, <3>1 DEF TypeOK
    <3>2. \A l \in Loaders : load[l].id \in Ids
      BY DEF TypeOK, Loads
    <3> QED
      BY <3>1, <3>2 DEF LoadsUnlinkDoomed
  <2> QED
    BY <2>3, <2>4, <2>5, <2>6
<1>3. ASSUME SweepBegin(s) \/ SweepLists(s) \/ SweepEnds(s)
      PROVE  IInv'
  <2>a. PICK new \in Sweeps :
          /\ sweep' = [sweep EXCEPT ![s] = new]
          /\ new.doomed \subseteq sweep[s].doomed
    <3>0. sweep[s] \in Sweeps /\ now \in Nat
      BY DEF TypeOK
    <3>1. CASE SweepBegin(s)
      <4> DEFINE new == [pc |-> "listing", asked |-> now, todo |-> {},
                         doomed |-> {}]
      <4>1. sweep' = [sweep EXCEPT ![s] = new]
        BY <3>1 DEF SweepBegin, NoSweep
      <4>2. new \in Sweeps /\ new.doomed = {}
        BY <3>0 DEF Sweeps
      <4> HIDE DEF new
      <4> QED
        BY <4>1, <4>2
    <3>2. CASE SweepLists(s)
      <4> DEFINE entries == {id \in Ids : file[id] # "absent"}
                 new == [sweep[s] EXCEPT !.pc = "looping",
                                         !.todo = entries]
      <4>1. sweep' = [sweep EXCEPT ![s] = new]
        BY <3>2 DEF SweepLists
      <4>2. entries \subseteq Ids
        OBVIOUS
      <4> HIDE DEF entries
      <4>3. new \in Sweeps /\ new.doomed = sweep[s].doomed
        BY <3>0, <4>2 DEF Sweeps
      <4> HIDE DEF new
      <4> QED
        BY <4>1, <4>3
    <3>3. CASE SweepEnds(s)
      <4>1. NoSweep \in Sweeps /\ NoSweep.doomed = {}
        BY <3>0 DEF NoSweep, Sweeps
      <4> QED
        BY <4>1, <3>3 DEF SweepEnds
    <3> QED
      BY <1>3, <3>1, <3>2, <3>3
  <2> USE <1>3 DEF SweepBegin, SweepLists, SweepEnds
  <2>1. TypeOK'
    BY <2>a DEF TypeOK, Loads, Sweeps
  <2>2. SweepsUnlinkDoomed'
    BY <2>a DEF TypeOK, SweepsUnlinkDoomed
  <2> QED
    BY <2>1, <2>2 DEF WholeIsWritten, LoadsUnlinkDoomed
<1> QED
  BY <1>1, <1>2, <1>3 DEF SweepStep

\* A crash forgets calls and no record; time only makes records older.
LEMMA WorldKeeps ==
    ASSUME IInv, Crash \/ Tick
    PROVE  IInv'
<1> USE StoreAssumption DEF IInv, Fresh, Doomed, Stays, Closed
<1>1. CASE Crash
  <2> USE <1>1 DEF Crash, NoLoad, NoSweep
  <2>1. TypeOK'
    BY DEF TypeOK, Loads, Sweeps
  <2>2. WholeIsWritten'
    BY DEF TypeOK, WholeIsWritten
  <2>3. LoadsUnlinkDoomed'
    BY DEF TypeOK, LoadsUnlinkDoomed
  <2>4. SweepsUnlinkDoomed'
    BY DEF SweepsUnlinkDoomed
  <2> QED
    BY <2>1, <2>2, <2>3, <2>4
<1>2. CASE Tick
  <2> USE <1>2 DEF Tick
  <2>1. TypeOK'
    BY DEF TypeOK, Loads, Sweeps
  <2>2. WholeIsWritten'
    BY DEF TypeOK, WholeIsWritten
  <2>3. LoadsUnlinkDoomed'
    BY DEF TypeOK, LoadsUnlinkDoomed, Loads
  <2>4. SweepsUnlinkDoomed'
    BY DEF TypeOK, SweepsUnlinkDoomed, Sweeps
  <2> QED
    BY <2>1, <2>2, <2>3, <2>4
<1> QED
  BY <1>1, <1>2

LEMMA StutterKeeps == IInv /\ UNCHANGED vars => IInv'
  BY DEF vars, IInv, TypeOK, WholeIsWritten, LoadsUnlinkDoomed,
         SweepsUnlinkDoomed, Closed, Stays, Loads, Sweeps, Doomed, Fresh

LEMMA StepPreserves == IInv /\ [Next]_vars => IInv'
  BY SaveKeeps, LoadKeeps, SweepKeeps, WorldKeeps, StutterKeeps DEF Next

\* Whatever a load or a sweep is about to unlink had expired when it was called.
THEOREM InductiveInvariant == Spec => []IInv
  BY InitEstablishes, StepPreserves, PTL DEF Spec

\* Every variable keeps its type.
THEOREM TypeCorrect == Spec => []TypeOK
  BY InductiveInvariant, PTL DEF IInv

\* A saved record stays whole on disk until its time to live is over, under
\* any interleaving of loads, sweeps and crashes.
THEOREM SavedIsKept == Spec => []SavedStays
<1>1. IInv => SavedStays
  BY DEF IInv, WholeIsWritten, Stays, SavedStays
<1> QED
  BY InductiveInvariant, <1>1, PTL

\* What one call of load() is answered with.
HonestAnswer(l) ==
    LET id == load[l].id
    IN  /\ (load[l].answer # "record" /\ load'[l].answer = "record") =>
              /\ save[id] \notin {"none", "writing"}
              /\ load[l].asked <= stamp[id] + Ttl
        /\ (load[l].answer # "null" /\ load'[l].answer = "null") =>
              (load[l].saved => ~Fresh(id))

\* Every answer of load() is honest: a record was written to its end and fresh
\* when it was asked for, and null is only answered for what was neither saved
\* nor whole then, or has expired.
THEOREM LoadsAnswerHonestly == Spec => LoadsAreHonest
<1>1. ASSUME IInv, [Next]_vars, NEW l \in Loaders
      PROVE  HonestAnswer(l)
  <2> USE StoreAssumption, <1>1 DEF IInv
  <2>1. CASE load' = load
    BY <2>1 DEF HonestAnswer
  <2>2. ASSUME NEW k \in Loaders, LoadStep(k)
        PROVE  HonestAnswer(l)
    <3> USE <2>2 DEF HonestAnswer, TypeOK, Loads, Fresh, Closed, Stays, NoLoad
    <3>1. CASE LoadMisses(k)
      BY <3>1 DEF LoadMisses, Answer, LoadsUnlinkDoomed
    <3>2. CASE LoadHits(k)
      BY <3>2 DEF LoadHits, Answer, Expired, WholeIsWritten
    <3>3. CASE LoadFindsExpired(k)
      BY <3>3 DEF LoadFindsExpired
    <3>4. CASE LoadUnlinks(k)
      BY <3>4 DEF LoadUnlinks, Answer, LoadsUnlinkDoomed, Doomed
    <3>5. ASSUME NEW id \in Ids, LoadBegin(k, id)
          PROVE  HonestAnswer(l)
      BY <3>5 DEF LoadBegin
    <3> QED
      BY <3>1, <3>2, <3>3, <3>4, <3>5 DEF LoadStep
  <2>3. CASE Crash
    BY <2>3 DEF Crash, NoLoad, HonestAnswer
  <2> QED
    BY <2>1, <2>2, <2>3
    DEF Next, vars, SaveStep, SaveBegin, SaveWrite, SaveResolve, SaveFail,
        SweepStep, SweepBegin, SweepLists, SweepReads, SweepUnlinks, SweepEnds, Tick
<1>2. IInv /\ [Next]_vars => [\A l \in Loaders : HonestAnswer(l)]_vars
  BY <1>1
<1>3. Spec => [][\A l \in Loaders : HonestAnswer(l)]_vars
  BY <1>2, InductiveInvariant, PTL DEF Spec
<1> QED
  BY <1>3 DEF LoadsAreHonest, HonestAnswer
=============================================================================
