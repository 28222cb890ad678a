------------------------------ MODULE TtlStore ------------------------------
(***************************************************************************)
(* src/ttl-store.mjs with its two users, permalinks.mjs and apikeys.mjs: a *)
(* directory of JSON records, each written once under a fresh random id,   *)
(* read until it is older than its time to live, and taken away by the     *)
(* load that finds it expired or by the periodic sweep.                    *)
(*                                                                         *)
(* Every operation awaits between its file operations, so saves, loads,    *)
(* sweeps and the passing of time interleave there; `now' is an argument,  *)
(* read once when an operation is called.  The process may die at any      *)
(* moment and comes back with the directory as it was.                     *)
(***************************************************************************)
EXTENDS Naturals

CONSTANTS
    Ids,        \* run ids or keys, each saved once
    Loaders,    \* calls of load() that may be under way at once
    Sweepers,   \* calls of sweep() that may be under way at once
    Ttl,        \* ttlMs, in ticks
    MaxTime,    \* bound: where the clock stops
    MaxCrashes  \* bound: how often the process dies

ASSUME StoreAssumption ==
    /\ Ttl \in Nat
    /\ MaxTime \in Nat
    /\ MaxCrashes \in Nat

VARIABLES
    now,        \* Date.now()
    file,       \* what is found at the path of each id
    stamp,      \* savedAt or createdAt of each record, once it is taken
    save,       \* where the save() or issue() of each id stands
    load,       \* the calls of load()
    sweep,      \* the calls of sweep()
    crashes     \* how often the process has died

vars == <<now, file, stamp, save, load, sweep, crashes>>

\* A call of load(): the id it is for, the time it was called and, as history,
\* whether the record had been saved, or at least was whole, by then.
NoLoad(id) ==
    [pc |-> "idle", id |-> id, asked |-> 0, saved |-> FALSE,
     answer |-> "none"]

\* A call of sweep(): the time it was called, the entries it has yet to look
\* at and the one it is about to unlink.
NoSweep == [pc |-> "idle", asked |-> 0, todo |-> {}, doomed |-> {}]

Init ==
    /\ now = 0
    /\ file = [id \in Ids |-> "absent"]
    /\ stamp = [id \in Ids |-> 0]
    /\ save = [id \in Ids |-> "none"]
    /\ load \in [Loaders -> {NoLoad(id) : id \in Ids}]
    /\ sweep = [s \in Sweepers |-> NoSweep]
    /\ crashes = 0

\* now - record[timestampField] > ttlMs
Expired(id, asked) == asked > stamp[id] + Ttl

Unlink(id) == file' = [file EXCEPT ![id] = "absent"]

(***************************************************************************)
(* save() and issue().                                                     *)
(***************************************************************************)
\* The record is stamped, and writeFile() has created the file.
SaveBegin(id) ==
    /\ save[id] = "none"
    /\ save' = [save EXCEPT ![id] = "writing"]
    /\ stamp' = [stamp EXCEPT ![id] = now]
    /\ file' = [file EXCEPT ![id] = "torn"]
    /\ UNCHANGED <<now, load, sweep, crashes>>

\* The last byte is written, into a file that nobody finds any more if its
\* path was unlinked meanwhile.  writeFile() has yet to close the file.
SaveWrite(id) ==
    /\ save[id] = "writing"
    /\ save' = [save EXCEPT ![id] = "written"]
    /\ file' = [file EXCEPT ![id] = IF @ = "torn" THEN "whole" ELSE @]
    /\ UNCHANGED <<now, stamp, load, sweep, crashes>>

\* The promise of save() or issue() is resolved.
SaveResolve(id) ==
    /\ save[id] = "written"
    /\ save' = [save EXCEPT ![id] = "resolved"]
    /\ UNCHANGED <<now, file, stamp, load, sweep, crashes>>

\* mkdir() or writeFile() rejects; what was written stays, whole or not.
SaveFail(id) ==
    /\ save[id] \in {"none", "writing", "written"}
    /\ save' = [save EXCEPT ![id] = "rejected"]
    /\ UNCHANGED <<now, file, stamp, load, sweep, crashes>>

(***************************************************************************)
(* loadIfFresh().                                                          *)
(***************************************************************************)
LoadBegin(l, id) ==
    /\ load[l].pc \in {"idle", "done"}
    /\ load' = [load EXCEPT ![l] =
                   [pc |-> "reading", id |-> id, asked |-> now,
                    saved |-> save[id] = "resolved" \/ file[id] = "whole",
                    answer |-> "none"]]
    /\ UNCHANGED <<now, file, stamp, save, sweep, crashes>>

\* What the answer was derived from is forgotten with the call.
Answer(l, answer) ==
    load' = [load EXCEPT ![l] = [NoLoad(load[l].id) EXCEPT
                                    !.pc = "done", !.answer = answer]]

\* readFile() and JSON.parse() throw, and the answer is null.
LoadMisses(l) ==
    /\ load[l].pc = "reading"
    /\ file[load[l].id] # "whole"
    /\ Answer(l, "null")
    /\ UNCHANGED <<now, file, stamp, save, sweep, crashes>>

\* Mutant: the age of the record is not looked at.
LoadHitsAnyAge(l) ==
    /\ load[l].pc = "reading"
    /\ file[load[l].id] = "whole"
    /\ Answer(l, "record")
    /\ UNCHANGED <<now, file, stamp, save, sweep, crashes>>

LoadHits(l) ==
    /\ load[l].pc = "reading"
    /\ file[load[l].id] = "whole"
    /\ ~Expired(load[l].id, load[l].asked)
    /\ Answer(l, "record")
    /\ UNCHANGED <<now, file, stamp, save, sweep, crashes>>

LoadFindsExpired(l) ==
    /\ load[l].pc = "reading"
    /\ file[load[l].id] = "whole"
    /\ Expired(load[l].id, load[l].asked)
    /\ load' = [load EXCEPT ![l].pc = "unlinking"]
    /\ UNCHANGED <<now, file, stamp, save, sweep, crashes>>

\* unlink() may fail, and the answer is null either way.
LoadUnlinks(l) ==
    /\ load[l].pc = "unlinking"
    /\ Unlink(load[l].id) \/ UNCHANGED file
    /\ Answer(l, "null")
    /\ UNCHANGED <<now, stamp, save, sweep, crashes>>

(***************************************************************************)
(* sweepExpired().                                                         *)
(***************************************************************************)
SweepBegin(s) ==
    /\ sweep[s].pc = "idle"
    /\ sweep' = [sweep EXCEPT ![s] =
                    [pc |-> "listing", asked |-> now, todo |-> {},
                     doomed |-> {}]]
    /\ UNCHANGED <<now, file, stamp, save, load, crashes>>

\* readdir()
SweepLists(s) ==
    /\ sweep[s].pc = "listing"
    /\ sweep' = [sweep EXCEPT ![s].pc = "looping",
                              ![s].todo = {id \in Ids : file[id] # "absent"}]
    /\ UNCHANGED <<now, file, stamp, save, load, crashes>>

\* Mutant: an entry that does not parse is taken for garbage.
SweepsAwayUnparsed(id, asked) ==
    file[id] = "torn" \/ (file[id] = "whole" /\ Expired(id, asked))

\* An entry that does not parse, or is gone by now, is left alone.
SweepsAway(id, asked) == file[id] = "whole" /\ Expired(id, asked)

\* The next entry is read, and taken for expired or not.
SweepReads(s) ==
    /\ sweep[s].pc = "looping"
    /\ sweep[s].doomed = {}
    /\ \E id \in sweep[s].todo :
          sweep' = [sweep EXCEPT ![s].todo = @ \ {id},
                                 ![s].doomed = {i \in {id} :
                                     SweepsAway(i, sweep[s].asked)}]
    /\ UNCHANGED <<now, file, stamp, save, load, crashes>>

\* Mutant: the entry is counted and not unlinked.
SweepUnlinksNothing(s) ==
    /\ sweep[s].pc = "looping"
    /\ sweep[s].doomed # {}
    /\ sweep' = [sweep EXCEPT ![s].doomed = {}]
    /\ UNCHANGED <<now, file, stamp, save, load, crashes>>

\* unlink() may find the entry gone: the error is swallowed.  The directory is
\* taken to be one the process may write to.
SweepUnlinks(s) ==
    /\ sweep[s].pc = "looping"
    /\ \E id \in sweep[s].doomed : Unlink(id)
    /\ sweep' = [sweep EXCEPT ![s].doomed = {}]
    /\ UNCHANGED <<now, stamp, save, load, crashes>>

SweepEnds(s) ==
    /\ sweep[s].pc = "looping"
    /\ sweep[s].todo = {}
    /\ sweep[s].doomed = {}
    /\ sweep' = [sweep EXCEPT ![s] = NoSweep]
    /\ UNCHANGED <<now, file, stamp, save, load, crashes>>

(***************************************************************************)
(* The process and the clock.                                              *)
(***************************************************************************)
\* Every operation under way is gone; the directory stays, with the records
\* that were being written as they are.
Crash ==
    /\ crashes < MaxCrashes
    /\ crashes' = crashes + 1
    /\ save' = [id \in Ids |-> IF save[id] \in {"writing", "written"}
                               THEN "rejected" ELSE save[id]]
    /\ load' = [l \in Loaders |-> NoLoad(load[l].id)]
    /\ sweep' = [s \in Sweepers |-> NoSweep]
    /\ UNCHANGED <<now, file, stamp>>

Tick ==
    /\ now < MaxTime
    /\ now' = now + 1
    /\ UNCHANGED <<file, stamp, save, load, sweep, crashes>>

SaveStep(id) ==
    SaveBegin(id) \/ SaveWrite(id) \/ SaveResolve(id) \/ SaveFail(id)

LoadStep(l) ==
    \/ LoadMisses(l) \/ LoadHits(l) \/ LoadFindsExpired(l) \/ LoadUnlinks(l)
    \/ \E id \in Ids : LoadBegin(l, id)

SweepStep(s) ==
    \/ SweepBegin(s) \/ SweepLists(s) \/ SweepReads(s) \/ SweepUnlinks(s)
    \/ SweepEnds(s)

Next ==
    \/ \E id \in Ids : SaveStep(id)
    \/ \E l \in Loaders : LoadStep(l)
    \/ \E s \in Sweepers : SweepStep(s)
    \/ Crash \/ Tick

Spec == Init /\ [][Next]_vars

\* The timer of the sweep goes on firing, and file operations return.  Nothing
\* is asked of the callers of save() and load().
FairSpec == Spec /\ \A s \in Sweepers : WF_vars(SweepStep(s))

(***************************************************************************)
(* Properties.                                                             *)
(***************************************************************************)
Loads ==
    [pc : {"idle", "reading", "unlinking", "done"}, id : Ids,
     asked : 0..now, saved : BOOLEAN, answer : {"none", "null", "record"}]

Sweeps ==
    [pc : {"idle", "listing", "looping"}, asked : 0..now,
     todo : SUBSET Ids, doomed : SUBSET Ids]

\* Every variable has its type, and no call or stamp is of a time to come.
TypeOK ==
    /\ now \in Nat
    /\ file \in [Ids -> {"absent", "torn", "whole"}]
    /\ stamp \in [Ids -> 0..now]
    /\ save \in [Ids -> {"none", "writing", "written", "resolved", "rejected"}]
    /\ load \in [Loaders -> Loads]
    /\ sweep \in [Sweepers -> Sweeps]
    /\ crashes \in Nat

Fresh(id) == now <= stamp[id] + Ttl

\* A record whose save has been resolved is on disk, whole, until its time to
\* live is over: no load, no sweep under way while it was written or while
\* time passed, and no restart takes it away.
SavedStays ==
    \A id \in Ids : (save[id] = "resolved" /\ Fresh(id)) => file[id] = "whole"

\* load() answers with a record only if that had not expired when it was asked
\* for, and has been written to its end: its save may still be pending, or may
\* have been rejected or lost with the process after that.  And it answers null
\* only if the record was neither saved nor whole when it was asked for, or has
\* expired by now: what one caller can be answered with, so can every later one.
LoadsAreHonest ==
    [][\A l \in Loaders : LET id == load[l].id IN
          /\ (load[l].answer # "record" /\ load'[l].answer = "record") =>
                /\ save[id] \notin {"none", "writing"}
                /\ load[l].asked <= stamp[id] + Ttl
          /\ (load[l].answer # "null" /\ load'[l].answer = "null") =>
                (load[l].saved => ~Fresh(id))]_vars

\* A record that has expired leaves the disk, also if nobody asks for it.
ExpiredReclaimed ==
    \A id \in Ids : (file[id] = "whole" /\ ~Fresh(id)) ~> file[id] = "absent"
=============================================================================
