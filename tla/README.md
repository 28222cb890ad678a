# A specification of sandbin

sandbin runs code it does not trust: a server (or a command-line client on its
own machine) takes a program, runs it under bwrap, a cgroup and a seccomp
filter with a deadline and output caps, streams what it prints to any number
of watchers, and answers with a verdict. This directory specifies the parts
of it that keep state, checks them with TLC on small instances, and proves
with TLAPS, for every value of the constants, what matters most.

`PROJECT.json` names the lines of the source behind every definition.

## 1. The system

| Component | Source | State it keeps | Operations |
|---|---|---|---|
| Run queue | `src/queue.mjs` | `waiting`, `runningCount`, `perKeyCount` | `submit`, `settle`, `pump` |
| Sandbox run | `src/sandbox.mjs` `run`, `spawnInSandbox` | host directory, cgroups, child, two timers, output buffers, verdict | one call, once or twice through `spawnInSandbox` |
| Run stream | `src/server.mjs` `submitRun` callbacks, `attachSocket`, heartbeat | `runs`, a record per run with its `sockets` | `onSpawn`, `onChunk`, `onStats`, finish handler, attach, cleanup, heartbeat |
| Interactive stdin | `src/sandbox.mjs`, `src/server.mjs` message handler, `public/app.js` | `stdinHandle`, the child's pipe | `write`, `endStdin`, the messages `stdin` and `stdin_close` |
| Rate limiter | `src/ratelimit.mjs` | Map of buckets | `check`, `peek`, `sweep` |
| Expiring stores | `src/ttl-store.mjs`, `permalinks.mjs`, `apikeys.mjs` | two directories of JSON records | `save`, `issue`, `load`, `sweep` |
| HTTP admission | `src/server.mjs` routes, `submitRun` up to the queue | the requests under way | `POST /runs`, `POST /keys`, `GET /keys/:key`, `GET /metrics/data` |
| Metrics | `src/metrics.mjs` | counters | `record*`, `snapshot` |
| Command-line client | `bin/sandbin.mjs` | the promise of `watchRun` | `run` (local, remote, `--reconnect`), `keys`, `languages` |
| Playground page | `public/app.js` | the current socket, button, output, graph | click, socket events, stdin box |
| Permalink page | `public/permalink.js` | the record and how far it is replayed | load, replay |
| Limits | `src/sandbox.mjs` | none | `sanitizeLimits` |
| Cgroup set-up | `src/sandbox.mjs` | `CG_ROOT`, the control files | `findDelegatedRoot`, `ensureParentSlice`, `configureCgroup` |
| Seccomp policy | `src/seccomp.mjs`, `seccomp/policy.c` | the generator and its program on disk | `ensureSeccompProgram` |

How they interact: `POST /runs` loads the caller's key from the store (an
await), checks the rate limiter, validates the body and calls `queue.submit`,
all in one go after the await. The queue starts `run()` of the sandbox when a
slot is free and settles the ticket when `run()` does. `run()` makes its
limits safe, sees to the seccomp program and the cgroup, and spawns the guest;
it calls `onSpawn`, `onChunk` and `onStats` of the server on the way. The
server broadcasts them to the run's WebSocket clients (the playground and the
command-line client among them) and hands what those send to the guest's
stdin; when the ticket settles it saves the permalink, tells the clients and
closes them, and forgets the run 30 s later. An hourly timer sweeps both
stores and both limiters, a 30 s timer pings the WebSocket clients. The
command-line client without `--server` calls `run()` itself.

JavaScript runs a handler to its end, so the hard behaviours are elsewhere:

* the order of events: the child's exit, its pipes, the OOM killer, two timers
  (Sandbox run); callbacks, clients that attach, leave or vanish (Run stream);
  a reset, an error and a close that race the last frame (command-line client);
  the events of an old socket after the next click (Playground);
* the awaits: between reading and unlinking a record (stores), between setting
  the status and announcing the end (Run stream), between verifying a key and
  using it (admission), between an accepted run and the socket that watches it
  (command-line client, Playground);
* what several processes share: the files of the seccomp program, the cgroup
  tree;
* failures half way: any step of a sandbox's set-up, a run that rejects, a
  write cut off by a crash, an answer whose body is lost;
* counters kept beside what they count: slots, keys, buckets, sockets, metrics;
* limits at their boundary, and what must happen in the end: a run settles,
  a ticket is answered, a vanished client loses its place, a guest sees the end
  of its input, a watcher exits, garbage goes away.

What makes each component correct:

* **queue**: its counters are exact; runs start in order of arrival and no
  slot idles; it only rejects for the reason it gives; every ticket is answered;
* **sandbox**: the verdict names what happened; caps and deadline hold; the run
  settles whatever the guest does and leaves no process and no directory;
* **preparation**: no guest runs unconfined, with limits its caller did not get,
  or under a program that is not whole or not current;
* **stream**: every watcher gets the whole run once, in order, and the end
  last; places are held by real connections only; everyone is let go;
* **stdin**: the guest gets the text of its run and then its clients', in order
  and once, and sees the end of its input when it has one;
* **limiter**: at most two windows' worth in any window's length; nobody is
  refused who has not used up the limit; the Map does not grow;
* **stores**: a saved record is served until it expires, not after, and then
  leaves the disk; a part of one is never served;
* **admission**: callers share a budget exactly if they should; what happened
  is counted; every request is answered;
* **client**: the exit code is the verdict, the output is shown once, nobody
  hangs on a run that is over;
* **pages**: the newest run is shown and it alone, the controls fit it, and a
  replay is the run.

## 2. The modules

| Module | Models | Kind |
|---|---|---|
| `RunQueue` | `createQueue()` | component |
| `WorkPool` | what callers of the queue rely on | abstract specification |
| `MCRunQueue` | the instance TLC checks | model |
| `RunQueueProofs` | theorems about `RunQueue` | proofs |
| `SandboxRun` | one call of `run()` | component |
| `SandboxRunProofs` | theorems about `SandboxRun`, and about the input of its guest (`GuestStdin`) | proofs |
| `RunStream` | one accepted run and its watchers | component |
| `MCRunStream` | symmetry of the connections | model |
| `RunStreamProofs` | theorems about `RunStream` | proofs |
| `GuestStdin`, `MCGuestStdin` | the guest's input and those who write it; the instance | component, model |
| `RateLimiter` | `createRateLimiter()` and its sweep | component |
| `WindowLimiter` | a limiter without a Map | abstract specification |
| `MCRateLimiter` | the instance TLC checks | model |
| `RateLimiterProofs` | theorems about `RateLimiter` | proofs |
| `TtlStore` | `ttl-store.mjs` and its two users | component |
| `TtlStoreProofs` | theorems about `TtlStore` | proofs |
| `Admission` | the routes and `submitRun()`, over instances of the store, two limiters and the queue, and the metrics | composition |
| `MCAdmission` | the instance TLC checks | model |
| `AdmissionProofs` | theorems about `Admission`, from those about its components | proofs |
| `Cli`, `MCCli` | invocations of `bin/sandbin.mjs` on connections of `RunStream`; the instance | composition, model |
| `CliProofs` | theorems about `Cli`, from those about `RunStream` | proofs |
| `Playground` | `public/app.js` | component |
| `Permalink` | `public/permalink.js` | component |
| `Pages` | both pages, by the link from one to the other | composition |
| `Limits` | `sanitizeLimits()` and the numbers of the shell script | operators |
| `SeccompProgram` | `ensureSeccompProgram()` in several processes | component |
| `CgroupTree` | the cgroup set-up on a tree that others change | component |
| `Preparation`, `MCPreparation` | the three together, up to the guest; the instance | composition, model |
| `PreparationProofs` | theorems about `Preparation`, `SeccompProgram`, `CgroupTree` and `Limits`, and about `Pages` | proofs |

A definition marked "Mutant" is a plausible bug of the definition that
follows it; `PROJECT.json` pairs it with a property that TLC finds violated
when the mutant takes the definition's place. Nothing else uses it. Variables
marked "history" are not in the code: they record what happened so that a
property can speak of it.

### RunQueue

`waiting`, `perKeyCount` and `runningCount` are the code's. `executing` is
what the code cannot see: the promises of `run()` that have not settled.
`submit()` is the three actions `SubmitKeyLimit`, `SubmitQueueFull` and
`SubmitAccepted`, by its two early returns; the loop of `pump()` is inside
them and inside `Settle`, as the number of times it turns. `Settle` stands for
both callbacks of the promise.

The refinement needs `maxQueueLength` to be at least 1: the code compares the
array's length before it pushes and pumps, so with no waiting place it rejects
every run although slots are free. That is what the code does; the default is 64.

### SandboxRun

One call of `run()`, from `mkdtemp` to the settlement of its promise, with the
program counter `pc` at each await. A compiled language goes through
`spawnInSandbox()` twice. The child is a shell until it has joined its cgroup
and then the guest: `killCgroup()` reaches only the latter. The guest may
exit with any of `GuestCodes`, write chunks, be killed for memory (and even so
exit with zero), ignore time, or outlive its SIGKILL for as long as the kernel
lets it; the guest or the shell may be killed from outside. A child that cannot
be launched leaves the message of the error as the result's output, of any of
`MessageSizes`: no cap cuts it and `onChunk()` does not hear of it. Every file
operation of the set-up may fail, and the `finally` blocks decide what is undone.
Time is counted in ticks; a due timer fires before the next tick.

### Preparation

What `SandboxRun` takes as steps that succeed or fail. `Limits` has the three
bounds tables and `sanitizeLimits()` on every kind of raw value (memory and
tmpfs in KiB, so that TLC can count them; numbers in halves, so that a
truncation shows). `SeccompProgram` has two files made from a third, with times
of modification, processes that check, compile, link, export and write in any
order, an editor of `policy.c`, and deaths in mid-write: version 0 is a file
that is not whole. `CgroupTree` has one branch of the tree, with the kernel's
rules for `cgroup.subtree_control` marked external, and processes that come and
go after `CG_ROOT` has been found. `Preparation` adds the writes of
`configureCgroup()`, the shell that joins the cgroup and the bwrap that loads
the program.

### RunStream

One record of `runs` with its sockets. A frame is its type and the number of
the chunk. `ready` and `peer` are the two ends of a connection: the server
sees `readyState`, and the network decides whether the other end is still
there. `FinishRun` and `Announce` are the two halves of the finish handler
around its one await.

### GuestStdin

The pipe of the guest is a sequence of texts and whether it was ended. The
server's `onSpawn` handle writes to it (`Receive`), a local run ends it at once
(`Spawn`). Messages of one client arrive in order or are lost with its
connection; those of two interleave. A message before the spawn is dropped, one
after the end fails unheard. A client may wait for "started", as the playground
does, or not.

### RateLimiter

The buckets of the Map, with an entry that stays when its window is over, and
the sweep as a timer. `WindowLimiter` forgets a window the moment it ends. The
refinement maps what `peek()` would show.

### TtlStore

A path is absent, torn (created, not yet written to its end) or whole. An id is
written once: run ids and keys are random. A save, each load and each sweep is a
process with a step per file operation; a sweep remembers the entries that
`readdir` listed. A file is whole before the promise of its save resolves
(`SaveWrite`, `SaveResolve`): in between it can be loaded, the save can still be
rejected, and the process can die, and in each case the record stays and is
served like any other. `LoadsAreHonest` therefore ties a record to what was
written, not to what was promised; `SavedStays` says that what was promised is
served. `now` of a call is read once, when it is made. A crash ends every call
and leaves the directory.

### Admission

The handlers over `Store` (an instance of `TtlStore` whose loaders are the
requests), `Limiter` and `Issuance` (two instances of `RateLimiter`: one id per
key and address, and one per address that asks for a key) and `Queue`
(`RunQueue`, whose calls are a request with the partition it was given). A
request without a key goes from its body to its answer in one step, as the code
does; one with a key begins a load, whose file operations interleave with
everything else, and is answered in one step when it is over: `submitRun()`
checks the limiter, validates, and submits, each of its ways out being an
action. `POST /keys` spends its own limit before `issue()` begins to write; when
the write fails, maybe with the record on disk, nothing answers and the unhandled
rejection ends the process (`up`). `Finish` takes `settle()` and the first lines of the finish handler
together, which only microtasks separate. The rate-limit id and the key of the
queue are one partition, as the code derives both from one condition.

### Cli

Each invocation has a command line and a process with the steps `start`,
`asking` (an HTTP request), `watching`, `local` and `done`. Its WebSocket is
connection `i` of an instance of `RunStream`, which it reads frame by frame;
the network may reset the line at any moment, with or without an 'error' before
the 'close', or let it fall silent. `--reconnect` attaches to a run that another
invocation has submitted. `Endings` are the results `run()` may return, by
whether the execute stage was reached; output that was streamed is the chunks,
and that of a compile stage, or the message about a program that could not be
launched, is one unit that was not. The heartbeat is left out: it would close
silent lines only, on the server's side, which such a client does not hear of.

### Playground, Permalink, Pages

Runs are numbered as they are clicked, and the handlers of every run go on
listening to its socket: frames of one socket are in order, those of two sockets
and their closes are not. `canvas` is what is drawn, `visible` whether it is
displayed: the code clears neither with the other. `Permalink` merges the chunks
and the samples of a record by time, waits, and shows; the record's times come
from a clock that may be set back. `Pages` opens the link of the first run once
its socket is closed and leaves the playground there: the page behind it does
not depend on which run it shows, nor on what else the playground does.

## 3. The runs

| Run | Instance | What it shows |
|---|---|---|
| `run_queue` | 6 calls of 2 keys, 2 slots, 2 places, 3 per key | counters, order, honesty of positions, answers, refinement of `WorkPool` |
| `sandbox_run` | deadlines of 2 and 1 ticks, grace 1, 3 units of output, 2 chunks | verdicts, caps, deadline, nothing left behind, settlement |
| `preparation` | 2 processes, 2 versions of `policy.c`, a branch of 3 cgroups, 4 ticks | what a guest that starts is confined by |
| `run_stream` | 3 clients, 2 places, 2 chunks, 1 sample | what each client is told, places, who is closed |
| `run_stream_live` | 2 clients | release of every connection, also of a run that never ends |
| `stdin` | 2 clients with 2 texts and 1 | what the guest reads, and that it sees the end |
| `rate_limiter` | 2 ids with limits 2 and 1, window 2, sweep every 3, 7 ticks | rate, refusals, clean-up, refinement of `WindowLimiter` |
| `ttl_store` | 2 records, a load, a sweep, 3 ticks, a crash | retention, honesty of loads, clean-up |
| `admission` | 3 requests, 2 addresses, 1 key, 1 slot, 1 place, 1 per key, 1 or 2 per window | who shares a budget, the counters, answers |
| `cli` | 2 invocations of 10 command lines, 1 place, 1 chunk | exit codes, output, nobody hangs |
| `cli_doc_output` | the same | *violation*: a remote run that is over when the client attaches shows no output |
| `pages` | 3 clicks, 2 chunks, 2 samples, recorded times of -1 to 3 | what the page shows, its controls, the replay |

Why the bounds are enough:

* *queue*: six calls fill both slots and both places and leave one call to be
  rejected and one key at its limit; two waiting runs can be reordered, and two
  runs can end in either order, with a result or an error. The calls of one key
  differ in nothing but their names, so `MCRunQueue` has them made in the order
  of their names;
* *sandbox*: chunks of 1 and 2 against a cap of 3 reach the cap exactly, cross
  it, and hit the chunk count first; deadlines of the two stages differ, so that
  one cannot pass for the other; the codes are success, failure and the reserved
  one; the message of a failed launch is shorter or longer than the cap;
* *preparation*: two processes can build at once or find each other's files, in
  any order with two versions of the source; a branch of three has a root of the
  file system, a parent to be found and an own cgroup. The parts interact only
  through the step at which they fail, so `MCPreparation` varies one at a time:
  either the files are in order, with any tree and any caller, or the tree is a
  good one and the files have yet to be built. Each raw limit is taken at, and
  next to, its bounds, the others being absent: they are treated one by one;
* *stream*: a client is refused when two others hold the places; a client can
  attach before, between and after two chunks; two beats of the heartbeat fit.
  `run_stream` takes the connections as interchangeable (symmetry), which
  `run_stream_live`, having liveness properties, does not;
* *stdin*: two texts of one client can be swapped, a third of another can come
  anywhere, and each connection can be cut with messages under way;
* *limiter*: time for three windows and two sweeps that fall inside, at and
  after the end of a window;
* *admission*: two requests of one address, with and without a key, and one of
  another: the partitions can collide or differ, the queue can be full with calls
  of three partitions, the key can be issued before, during or after a load, be
  refused, fail to be written, expire or be swept; an address may make two
  requests in a window and the others one; a tick ends the window, the interval
  and the life of the key, so that each happens before, during or after a load;
* *store*: a record can expire during a load or a sweep that began while it was
  fresh, it can be loaded, or cut off by the crash, at each step of its save, a
  second record can be saved meanwhile, and time goes on after both
  have expired;
* *client*: one invocation is any of the command lines whose guards differ, the
  other reconnects with one place between them, so that it may be refused, come
  before the end, during the save, after it, or when the run is forgotten. One
  chunk tells printed once from twice and from never, and a run without a chunk
  is one whose program was not launched, or printed nothing;
* *pages*: with three clicks the close of the first socket can come in the
  second or the third run, and a run can be clicked over another; two samples
  are what a graph needs; pauses below, at and above the longest wait of the
  replay, and a clock set back by one, occur.

Deadlock is not checked where an instance is finite by design: a fixed number
of calls, one run, a bounded clock, a user who stops clicking.

### Fairness

Only what the event loop and the kernel give: a promise of `run()` settles
(that is `RunSettles` of `SandboxRun`), a due timer fires, a file operation
returns (`GoesOn` of `Admission`), `close()` or `terminate()` of a WebSocket
completes (`ws` has its own timeout for the handshake), a peer that is there
answers a ping, a message on a line that is up is received, and the upgrade of a
WebSocket is answered or refused. Guests and users are never assumed to do
anything, with one exception: the guest of `EndIsSeen` reads, which is what the
property is about. Otherwise a guest may hang and even outlive its SIGKILL, a
client may stay silent for ever, and nobody has to submit, attach, load or save.
A line that has fallen silent stays so, and `WatcherExits` excepts it.

### What the code does other than its documents say

One run is expected to fail: it states what a document says. The other
disagreements are exceptions that a passing property names; without the
exception TLC finds the case.

* A remote run of the command-line client whose program is over when the
  WebSocket is attached, or a `--reconnect` after the end, prints a summary and
  none of the output (`cli_doc_output`).
* `sandbin run --server --stdin file` never closes the guest's input: a
  program that reads to the end is stopped by the timeout, where a local run
  ends the input (`InputInOrder`: the input is open until a client closes it).
* `run()` of a compiled language settles within `wallClockMs + 2s` *after the
  compile stage*, which has 10 s of its own (`DeadlineKept`; README of the
  repository, line 110).
* Exit code 91 of a guest is reported as `setup_failed` (`VerdictFitsTheExit`),
  and a host that does not delegate is not: `run()` rejects (`GuestIsConfined`).
* Output that crosses the cap in the last chunk is cut without notice
  (`OutputBounded`).
* The README of the repository (lines 168-170 and 184-186) and `docs/api.html`
  (lines 73-75 and 167-171) say that any string a caller puts into `X-Sandbin-Key`
  partitions the concurrency of `maxPerKey`. Only an issued key does: every other
  caller shares the budget of its address, as a comment in `server.mjs` (lines
  370-383) explains (`SharedBudget`; what the documents say is its mutant).
* The command-line client prints the result's output for `compile_error` and
  `setup_failed`, which `docs/cli.html` (lines 126-129) and `ROADMAP.md` (lines
  388-391) call exactly the two verdicts whose output was not streamed. That of a
  program that could not be launched and of a compile stage that was cut short is
  not streamed either, and is never printed; a `setup_failed` of the execute
  stage is streamed, and is printed twice (`OutputShownOnce`: `Unheard`,
  `Doubled`).
* The verdict `killed` is documented as the hard backstop's; by the time that
  fires the soft timer has always said `timeout` (`CutShortIsReported`).
* A host without the cpu controller runs guests without `cpu.max`
  (`GuestIsConfined`).
* A `policy.bpf` that was cut off while it was written is newer than its
  generator and never exported again (`ProgramIsWhole`).
* A client that attaches while the permalink is being saved is told "finished"
  before the link works (`AnnouncedMeansSaved`). Clients that were already
  attached are not.
* The close of an old socket enables the playground's button and disables the
  stdin box of the run that is under way (`ControlsFitTheRun`, `lateClose`).
* A run of less than two samples is shown with the graph of the run before
  (`RunIsShown`).
* A permalink shows the streamed output only: that of a failed compile is not
  shown (`ReplayIsFaithful`).

More things the models show without a document to contradict: a cgroup that a
process outliving its SIGKILL keeps busy is left behind for good
(`NothingLeftBehind` states the exception); a record whose write was cut off is
never reclaimed (`ExpiredReclaimed` is about whole records); a key that cannot
be written ends the server (`EveryRequestAnswered`, `up`); the file-size limit
reaches the guest halved, because `sh` counts `ulimit -f` in blocks of 512
bytes (`GuestIsConfined`); a watcher on a silent line waits for ever
(`WatcherExits`); an answer whose body is lost leaves the playground's button
disabled (`ControlsFitTheRun`).

## 4. The proofs

All theorems hold for every value of the constants that meets the named
assumptions: limits, depths and bounds are natural numbers, a window and the
places of a run are not none (`LimitsAssumption`, `LimiterAssumption`,
`StoreAssumption`, `DepthAssumption`, `RunsAssumption`, `DelayAssumption`, and
`BoundsAssumption` of `RunStream`, `Admission` and `Cli`); every request has an
address and a key or none, keys and addresses being different things
(`CallersAssumption`); and the submission is none of the clients
(`TextsAssumption`). The bounds that keep
TLC's instances finite (`MaxTime`, `MaxChunks` and the like) are among these
constants, so nothing depends on their values either. Each inductive invariant
was checked by TLC on its instance before it was proved.

**RunQueueProofs.** The inductive invariant joins the counters with what they
count: `runningCount` is the cardinality of `executing`, every accepted and
unanswered call is once in `waiting` or in `executing`, and no run waits while
a slot is free. The last part is what makes the proof short: because of it the
loop of `pump()` turns at most once per call, so a submission starts the run or
appends it (`AcceptCases`), and a settlement hands the slot to the head or frees
it (`SettleCases`). These are the actions of `WorkPool`, which gives the
refinement. A second invariant over the order of arrivals gives
`FirstComeFirstServed` and `PositionIsHonest`.

**RateLimiterProofs.** The invariant ties a live bucket to the history of
grants: its `count` is the number of grants since the window was opened, and
all earlier grants lie in windows that were over by then. Hence the bound of
twice the limit in any window's length, the right to every refusal, and the
refinement of `WindowLimiter`.

**TtlStoreProofs.** A load and a sweep unlink a path that they looked at some
time ago. The invariant says why that is safe: a whole file is written no more
(`Closed`), whether its save resolves or not, and its stamp does not change, so
what was expired when the call was made is expired ever after (`Doomed`). For the
same reason what was whole once stays whole until it has expired (`Stays`): no
crash and no rejected save takes it back, and an unlinking only concerns what is
doomed.

**SandboxRunProofs.** None of the properties of a settled run is inductive: each
speaks of the end, and what makes it true happened several steps earlier. The
invariant follows the call instead. `Parts` says that before the child is
awaited nothing has happened, and which variables still hold their initial
values on a path that threw. `VerdictKept` says that while the child is awaited
a verdict is set exactly when the supervisor has cut the run short, so that
`verdict ??=` never hides a timeout or an overflow; `ChildKept`, that only the
hard timer stops waiting for a child that lives, and that it has sent SIGKILL;
`TimeKept`, that the hard timer never fires before the soft one, and that an
execute stage is only entered by a compile stage that was not cut short, hence
one grace and not two; `Fits`, that what `ReadStats` concludes is true of the
child, which the steps after it leave alone; and `OutputKept`, that the output of
a child that was launched is what `collect()` made of it, and that of one that was
not is the message alone. The proof has one step per action for each of these
parts, and the properties follow at `pc = "done"`.

The last part of the module is about `GuestStdin`. `InputInOrder` speaks of the
pipe, but what may be written to it next depends on what is on the way. So the
invariant orders the wire of each client (`OnTheWay`), says that what is written
of a client has been sent and comes before everything of it that is on the way,
and that what is neither on the way nor early is written, as long as the line is
up and somebody reads (`Written`); and that the pipe itself is in order
(`PipeKept`).

**RunStreamProofs.** What a client was sent is known as long as it is open: all
chunks so far, and not the end. The invariant says so (`ToldKept`), and beside it
that the status of the record follows the finish handler (`StatusKept`), that the
open connections are among the sockets of the record and are gone once the end
is announced (`PlacesKept`), and that an open connection whose flag is down has a
ping to answer, unless its peer is gone (`PingsKept`): the heartbeat terminates
nobody else (`LiveWatcherKept`). An invariant about what was sent to *everybody*
would not be inductive: a client that leaves keeps a part of the run. `Gapless`
says of that part only that it is a beginning, so a second invariant, `HeardKept`,
says what its readers need: whoever is told the end has been told every chunk, or
was told the end at once (`WholeRunTold`). It rests on the four ways in which a
step may treat a connection (`Delivers`).

**CliProofs.** The connections of the invocations are a behaviour of `RunStream`
(`ClientsWatchAStream`: every action is a step of it or leaves it alone), so both
of its invariants hold here. On top of them, `Kept` says of each invocation that its promise has the result of the run exactly if it has
read the frame "finished", that it is null on an open line only if an error was
read, and that what was printed is the number of chunks among the frames read,
and at the end what `emitResult()` adds. `ExitIsTheVerdict` follows from the
first two. For `OutputShownOnce` the frames read must be all the chunks there
are: the end comes last, so who has read it has read everything, and the chunks
up to a number are that many frames (`EveryChunkRead`, a bijection). What a result
says of its output, by its stage, is compared with what the client prints of it,
by its verdict (`EndingOutput`): they differ for the two kinds of result that the
property names.

**AdmissionProofs.** The first half is a refinement four times over: what the
handlers do is a behaviour of the queue, of both limiters and of the store
(`ComponentsKept`), so that their theorems can be used inside the server. The
second half relates the components: a call is charged to the partition it is
queued under (`ChargesKept`), a request stands where its load and its call stand
(`RequestsKept`), and each counter of `metrics.mjs` is the cardinality of what it
counts (`CountersKept`). `SharedBudget` and `CountsAddUp` follow.

**PreparationProofs.** `ensureSeccompProgram()` trusts times of modification. The
invariant `Vouched` says what they are worth: unless a file was changed while it
was used, or twice within a tick, a generator that is not older than `policy.c`
was made from it or is not whole, and the same of the program and its generator
(`raced` records the exception, as the property does). `TreeKept` says that the
slice of the runs passes on what `CG_ROOT` gives its children, and that this is
every needed controller `CG_ROOT` has, unless it cannot be written to or gives
none: what `configureCgroup()` relies on, whoever comes and goes in the tree. The
lemmas about `Limits` hold for any number: `sanitizeLimits()` returns a value
within the bounds of its table, and a file size is halved by the shell's blocks.

The last part of the module is about the pages. Which run the page shows cannot
be told from the page: several sockets write to it. The invariant of the
playground follows every run from its click to its close (`RunsKept`), says that
as long as none was clicked over another only the newest is under way (`Alone`),
and hence that the output is exactly what was printed of it so far
(`NewestShown`), and who is to enable a button that is disabled (`ControlsKept`).
For the replay nothing is assumed of the record: any length, any times, backwards
too. An event's place in the sorted list is the number of events up to it; two
events never have the same place, so places are an injection of 1..N into itself
and each is some event's (`PlaceOnto`), which is why nothing is lost and nothing
shown twice. The invariant of that page says that the chunks and samples shown
are exactly those whose place is among the first `at` (`Replayed`), and that the
time between two events shown is no longer than between the two in the record
(`Timed`).

Only model-checked: liveness (`EveryTicketAnswered`, `RunSettles`,
`ReleasedAfterTheEnd`, `VanishedAreReaped`, `EndIsSeen`, `ExpiredReclaimed`,
`EveryRequestAnswered`, `WatcherExits`), which is out of the prover's reach.
Every safety property and every action property that a passing run checks is a
theorem.

## 5. The plan

In the order of what matters most to the system:

1. queue, sandbox, stream, limiter, store, admission: written.
2. the two clients, the permalink, the preparation of a run, stdin: written.
3. the proofs: queue, limiter, store, sandbox, stream, admission, preparation, the
   command-line client, stdin and the pages: written.

## 6. What is not modelled

* The bwrap command line and the seccomp rules of `policy.c`: what the kernel
  makes of them is not in this repository.
* A descendant of the guest in an uninterruptible wait that does not hold the
  pipes: like the child that outlives its SIGKILL, which is modelled, it can keep
  the cgroup busy after the run has settled, and the cgroup is left behind.
* A pong that takes longer than the heartbeat's 30 s: a peer that is there is
  taken to answer before the next beat, and one whose pong is later is terminated
  (`LiveWatcherKept` is about the others).
* What is left of a longer `policy.bpf` behind a shorter one when two processes
  write the file at once: it follows the last return of the program, where nothing
  leads to.
* The discovery of images and toolchains, done once when the module is loaded.
* Static routes, the password of the metrics and the metrics page, which keeps
  nothing between two drawings; HTML, layout, the sample programs.
* The decoding of bytes to text (a character that is cut by the end of a chunk),
  `queuedMs`, averages, and the wording of messages.
* Values that JavaScript reads as numbers in other bases or notations, in
  `sanitizeLimits()`.
* Clocks that go backwards, except in the times that a permalink replays.
* The heartbeat in `Cli`, and in `Pages` a link opened on any but the first run:
  see the modules.
* The load test, the tests, the site and the packaging: they use the system or
  describe it, and were read as statements of what it should do.
