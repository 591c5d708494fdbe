# Tovek: TLA+ models, TLC runs and TLAPS proofs

Tovek is a Luau decompiler: a command line tool that turns bytecode dumps into
source (`luau-lifter`), a local HTTP server around the same library
(`web-server`), a WebAssembly worker (`luau-worker`), and the analysis crates
they share (`cfg`, `restructure`, `ast`).  This directory holds the formal models
of the parts in which order, concurrency and failure decide whether the program
is right, the TLC configurations that check them, and machine-checked proofs.

## Inventory

| Component | State | Operations | What is hard |
|---|---|---|---|
| Server admission (`web-server/src/main.rs`) | two tokio semaphores (queue places, job slots), `RUNNING_JOBS`, idle timers | admit, wait with a timeout, refuse and drain, read the body under a deadline, run on the blocking pool, answer, release | a timeout or disconnect racing a grant; permits owned by a job whose client is gone; the order in which permits drop; a stale idle check |
| Artifact cache (`luau-lifter/src/decompile_cache.rs`) | entry files, an in-memory inventory (records, recency, bytes, clock), 64 stripe locks, an inventory lock | open, read, compute, publish, evict | reads without a lock, nested rayon tasks on one thread, quota against eviction, kills between rename and update, failing syncs |
| Folder runs (`luau-lifter/src/batch.rs`, `decompile_core.rs`) | output tree, `.tovek-output.lock`, provenance and manifest, per-script rows, duplicate memos | list work, lock, invalidate, group, decompile, publish sources, sidecars, provenance and manifest | several processes on one output, kills, inputs edited during the run, failures halfway, checks made before the lock |
| Batch requests (`web-server/src/main.rs`, `luau-worker/src/lib.rs`) | none between requests | parse JSON or MDB1, reuse equal items, weave answers in request order | counts and lengths at their limits, order of the answers |
| Lifter pipeline (`luau-lifter/src/lib.rs`, `deserializer/`, `lifter.rs`, `upvalue_analysis.rs`) | one function at a time | deserialize, validate the prototype graph, lift, structure, print, recover per function | prototype cycles, panics caught per function |
| Graph algorithms (`cfg`, `restructure`) | one control-flow graph | dominators, SSA construction and destruction, liveness, structuring, dispatcher fallback | parallel copies, irreducible graphs |
| AST passes (`ast`) | one syntax tree | about a hundred rewrites | semantic equivalence of programs |
| Client scripts (`*.client.luau`) | attempts per request | post, retry on 503 | retries against the admission queue |
| Lua 5.1 front end, CLI, validation, scripts | - | - | - |

How they interact: client scripts post to the server; the server admits a
request, reads its body and runs the library on a blocking thread.  The command
line tool runs the library over a folder on a rayon pool, optionally through the
artifact cache; publication of the results uses the same atomic-write functions
as the cache.  `PROJECT.json` lists every component, the hazards at the lines
where they bite, and the definitions with the lines they model.

## Modules

| Module | Models | Proofs |
|---|---|---|
| `SlotQueue` | what the admission path promises: `Slots` clients are served at once, at most `Room` wait, first come, first served (README of the repository, `TOVEK_QUEUE_LIMIT`). Abstract: it maps to no code. | |
| `Admission` | `admit_work`, `AdmittedBody`, `run_admitted_work`, `Admission`, `RunningJob`, the idle release | `AdmissionProofs` |
| `ArtifactCache` | `get_or_compute`, `read`, `write`, `evict_one`, `open` | `ArtifactCacheProofs` |
| `FolderRun` | `run_with_cache`, `invalidate_analysis_manifest`, `duplicate_groups`, `DuplicateMemo`, `decode_preloaded`, the publications, `write_analysis_manifest_with_audit` | `FolderRunProofs` |
| `DecompilePool` | a batch of scripts on the rayon pool: batch layout, attempts, functions in parallel, local ids, policies | `DecompilePoolProofs` |
| `BatchRequest` | the two batch formats of the server, item failures, the order of the answers | `BatchProofs` |
| `WorkerBatch` | `decompile_batch_items` of the wasm worker | `BatchProofs` |
| `BatchClient` | the batch client script: chunks, retries, cache and hook | `BatchProofs` |
| `BytecodeValidate` | the validator's rules for jumps, loops, registers and open result lists | `LifterProofs` |
| `Lifter` | block discovery, `lift_block` and its edges, beside the machine that runs the code | `LifterProofs` |
| `PrototypeGraph` | `validate_prototype_graph` | `GraphProofs` |
| `StateLiveness` | `persistent_locals` of the dispatcher fallback | `GraphProofs` |
| `CyclicStates` | `cyclic_states` of the dispatcher fallback | `CyclicStatesProofs` |
| `Dispatcher` | the dispatcher the fallback builds, beside the graph it replaces | `GraphProofs` |
| `SsaFunctions`, `Dominators`, `SsaConstruct`, `SsaDestruct`, `SsaCoalesce` | functions as `cfg` keeps them, dominators, the way into SSA and back | |
| `Programs` | a small Luau: syntax, scopes, and what running a body does | |
| `FlattenGuards`, `CleanupReturns`, `GuardContinue`, `CleanupControlFlow`, `FactorTails`, `CanonicalizeBranches`, `TerminalReturns` | one AST pass each, named as the file in `ast/src` | |
| `ControlPasses` | those passes in the order `luau-lifter/src/lib.rs` runs them | |
| `MCAdmission`, `MCArtifactCache`, `MCFolderRun`, `MCLifter`, `MCControlPasses` | instances for TLC | |
| `MCBatches` | `BatchRequest`, `DecompilePool`, `WorkerBatch` and `BatchClient`, a part at a time | |
| `MCGraphs`, `MCSsaFunctions` | `PrototypeGraph`, `StateLiveness`, `CyclicStates`, `Dispatcher` and the SSA modules, a part at a time, and their sample graphs and functions | |

Definitions whose comment starts with "Mutant" are plausible bugs.  No
specification uses them; replacing the original by the mutant makes TLC report
the property that `PROJECT.json` pairs with it.

`MCBatches` and `MCGraphs` put components side by side that share no state.  A
behaviour picks one (`part`) and runs it; the others start where they end and
have nothing to do.  The components of a batch meet only in requests and answers,
and each is checked against every request and every answer the others can give.

## How state and actions correspond to the code

### Admission

A request is a connection that may send again and again.  `phase` follows it
through `admit_work` and its handler; `place` and `job` are the owners of queue
and job permits; `waiting` and `ahead` are the semaphore's wait list (who is
ahead of whom).  tokio's semaphore is modelled from how it is used: a released
permit is assigned to the longest waiter at once, so a waiter can own a permit
before its task runs again.  That is the window in which `Expire` and
`CancelWait` happen, and `DropAcquire` hands the permit on.  Fields drop in
declaration order, so giving up an `Admission` takes two steps (`DropJob`, then
`DropPlace`).  `Detach` is a client that leaves while its job runs.  `timer` is
"overtaken" when a job started while it slept (this only records history: the
code does not look at it).

Checked: `TypeOK`, permit conservation, no free permit while somebody waits, at
most `QueueLimit` waiting, at most `Jobs` bodies in memory and an exact
`RUNNING_JOBS`, who holds what in which phase, nothing held once the answer is
out, refinement of `SlotQueue`; under fairness that no queued request starves,
every request ends and freed memory is returned.

Fairness: the runtime polls ready tasks, uploads end by their deadline, jobs
terminate (the decompiler has no unbounded loop by design) and timers fire.
Nothing is assumed of clients, and no wait is assumed to time out, so progress
comes from the permits alone.

### ArtifactCache

A task is one call of `get_or_compute` on a rayon thread.  Every thread has a
stack of tasks, because waiting inside a computation lets rayon start another
task on the same thread; only the top one moves.  Stripes and the inventory are
non-reentrant locks.  Files are absent, good or torn; `Disturb` damages or
removes them; `Crash` kills the process between any two steps and `Open` rebuilds
the inventory, in any order of modification times that is consistent with the
disk.  `SyncMayFail` switches on the error of `sync_parent_directory` after a
successful rename.

Checked: the inventory agrees with itself and with the disk, the directory
stays within its byte and count limits at every step, two publications of one
key never collide, locks are held only to publish (never across a computation),
and every call returns.  Proved besides: eviction always finds something to
evict, so the error "cache quota cannot be satisfied" is unreachable.

Fairness: a thread that can step does, lock waits are eventually granted (each
holder releases without waiting for a computation), computations end.

### FolderRun

Several processes run over one output directory.  `mode` is a run's command
line (analysis, export manifest, warm cache).  A source file is represented by
what it was made from (`<<"lift", hint, content>>`, the report on bytecode that is
a message, a copied fallback, nothing, absent or torn), so equal values mean equal
bytes.  Only what was lifted gets a sidecar.  Publication with analysis or
an export manifest is atomic; a plain run removes what is there, opens and
truncates the file and then fills it (`write_fresh`), any of which may fail, and a
kill between two of these leaves the file absent or torn.  A sidecar write may fail
before its rename or, syncing the directory, after it (`SidecarFails`).  The grouping
read, the preload budget, colliding fingerprints and the second read of an input
are there because the memo's exact comparison exists for them.  `Refuse` is any
of the early `return 2`s, `Fault` a failing write, possibly after its rename.
`found` records the manifest a run saw when it got the lock (history only).

Checked: whatever runs, faults and kills came before, a manifest or a provenance
file on disk describes the sources and sidecars on disk and both are of one
generation; an export run never replaces a file, though it looks before it holds
the lock; the corpus digest, the sources and "complete" agree; exit code 0 means
that everything is there; every run ends.

Fairness: a process that is not killed keeps running, whichever of its scripts it
works on, and a process that waits for a free lock gets it (each process runs
once, so weak fairness is enough).

### Batches: DecompilePool, BatchRequest, WorkerBatch, BatchClient

`DecompilePool` is one batch.  `stack[t]` is what worker thread `t` is doing: a
frame per script it drives, the top one running.  A frame is at an attempt or at
the join, where it waits for the functions of its script; rayon lets a waiting
worker take up any job meanwhile (`Take`, `Function`), a whole other script on top
of the waiting one included.  `counter[t]` and `scope[t]` are the thread-locals
those jobs share: the counter that local ids are taken from and the scopes of the
script being driven.  Code between two points at which a worker can switch is one
action.  A script may fail to lift, panic, exceed a limit (which starts another
attempt with more sharing) or have functions that fail, fall back to a dispatcher
or keep a jump; `Alone(i)` says what the script gives with a pool to itself.
Checked and proved: every answer is `Alone` of its script (`AsIfAlone`), no two
locals share an id (`IdsUnique`), success never hides a failed function
(`FailsClosed`).  Checked: the batch is answered (`Answered`), given that every
worker that has something to do does it and that functions terminate.

`BatchRequest` reads an MDB1 body entry by entry, with its bounds, or the entries
of a JSON request, decompiles what is readable and weaves the results
(`ResultsInOrder`); a body is accepted exactly when it encodes entries within the
limits (`ExactlyTheEncodings`).  `WorkerBatch` is the loop with its bounded map of
inputs seen (`SameAsFresh`).  `BatchClient` posts in chunks, retries on 503, caches
by instance, and its hook answers each script with that script's result
(`OwnAnswer`), whatever requests were lost or refused.  A request that throws
(`Throws`) ends the client before its hook is installed, or the hook call it was
posted for; nothing in the script catches it.  Hook calls run one at a
time: they share only the cache, which they read and never write.

### Bytecode and lifter: BytecodeValidate, Lifter, PrototypeGraph

`Lifter` reads a prototype's code one instruction after the other, refuses what
`validate` and `admit_open_call_order` refuse, cuts it into blocks and then runs
the Luau machine (external) over it, with both outcomes of every condition.
What the machine did in a block is compared with the statements `lift_block` gave
it: the machine never leaves the validated blocks or reads a list that is closed
(`RunsAsValidated`), the lifted edges go where it goes (`SameControl`), and no call
is lost, repeated or reordered (`SameEffects`).  Where a loop's jump is too far the
compiler puts a trampoline, which the lifter threads and the machine runs; an edge
and the machine therefore go to one place up to blocks that do nothing (`Meet`).
The back jump of a numeric loop is put back on its empty body prep by prep, from
the last slot down, also where preps share a step and their bodies lead into each
other (`BackJump`).  Of a FORNPREP the edges are compared for the shapes compilers
emit (`Conforming`): one prep to a step, an exit right behind the step, where the
jump there leads or at a copied RETURN, a back jump to the body or where it jumps.
Opcodes that are treated alike are one opcode.

`PrototypeGraph` is the explicit-stack search; a chunk is accepted only if no
prototype, reachable or not, nests in itself, and refused only if one does.

### Dispatcher fallback: StateLiveness, CyclicStates, Dispatcher

`StateLiveness` works off its queue in any order; when it is empty a local is live
in exactly where some path reads it before writing it (`NoLiveLocalMissed`,
`NothingHoistedInVain`).  `CyclicStates` is the two-pass search over adjacency
lists in any order (`ExactlyTheCycles`).  `Dispatcher` runs the original graph and
its dispatcher loop side by side, one statement at a time.  A local is a sequence of
cells of which it has the last; closures that capture it share that cell and keep it
when the local is given another.  CLOSEUPVALS is gone by then, so the graph may have
closed any cell on any edge and the dispatcher has to agree with each possibility
(`DispatcherBehaviour`).  What a call reaches is one of the closures made so far, or
none; a block that calls two has two calls.

### SSA: SsaFunctions, Dominators, SsaConstruct, SsaDestruct, SsaCoalesce

One behaviour takes one function through construction (with incomplete and sealed
blocks), copy propagation, removal of parameters, lifting of block parameters to
parallel copies, liveness and interference, coalescing and the ordering of what
copies are left, and compares the calls of every form with those of the original
along every path of up to `Depth` branches (`SsaBehaviour`).  The order of hash
maps and the flag for live self-updates are nondeterministic.  The functions have
no closures, `for` markers or debug bindings; all registers are parameters; every
cycle of the source has a branch.  On these, copies by sharing and
`check_interfere_single` do not succeed, so they are modelled but decide nothing.
Head copies that are dropped, when branch edges are split, and spills of a wider
fan-out do not change behaviour.

### AST passes over control flow: Programs, ControlPasses and its passes

`Programs` defines bodies and what a run of one shows: the log of its calls, each
with the captured locals, answered by an oracle.  `ControlPasses` takes a body
through the passes in their order and requires every step to keep the log and
outcome for every oracle (`SameBehaviour`; per step, hence transitively for the
chain) and the body's scopes and grammar (`StaysValid`).  Passes that are not
modelled run between these, so a body may enter before any of them (`Entries`).
The bodies are those the structurer can produce: no statement after an endless
loop, a repeat whose test can be reached, no jumps.  Calls may write captured
locals.  No body has `local function f() .. f .. end` followed by a return of
`f and e` or `f or e`.  There the code moves the closure into the return
(`terminal_returns.rs:303-317` looks for reads of `f` in `e` alone), which
`assign.rs:31-38` says a closure that captures its own target must not undergo;
this is read off the code and no run shows it.  `MinDenest` is 2 where the code has 4, so that small bodies reach it;
the other budgets are those of the code.

## Runs

| Run | Instance | Shows |
|---|---|---|
| `admission_safety` | 4 requests, 2 jobs, queue of 1 | permits conserved, no free permit while somebody waits, bodies bounded, phases and owners agree; more requests than slots and places together, so admission, waiting and refusal meet |
| `admission_live` | 3 requests, 1 job, queue of 2 | refinement of `SlotQueue` with grants in order of arrival, every request ends, freed memory is returned |
| `batches` | 2 workers and 2 scripts of one module and another; 1 script of every fate, policy and excess; every MDB1 body of up to nine bytes, near misses of longer ones and JSON batches of up to 4; worker requests of up to 4 with budgets of 2 keys and 4 bytes; a client of 4 scripts in chunks of 3 with 3 attempts | answers as if alone, ids unique, failing closed, exactly the encodings, results in order, reuse equals a fresh result, the hook's own answers, every batch is answered |
| `cache_safety` | 3 tasks on 2 threads, 3 keys on one stripe, a quota of 3 bytes and 2 entries, entries of 2, 2 and 1 bytes, one kill | inventory, disk limits, publications and locks |
| `cache_live` | the same with one uncacheable task, failing syncs and no kill | every call returns |
| `cache_sync_failure` | with failing syncs | finding: the quota is exceeded |
| `graphs` | 3 prototypes; 3 dispatcher states with 1 local; 11,208 graphs of 2 and 3 blocks; 1,227 functions of branches and loops | acyclicity, liveness and cycles exact, dispatcher and SSA keep behaviour |
| `lift` | code of up to 5 or 6 slots from nine instruction kits, 4 registers, 6 blocks run | validated code runs as validated and as lifted |
| `passes` | 50,063 bodies | each pass keeps behaviour, scopes and grammar |
| `folder_runs` | 2 runs of 3 kinds, 2 scripts, 2 contents, one edit, one fault, one kill | the published analysis describes the disk; an export replaces nothing; every run ends |
| `folder_inputs` | 1 run of 8 kinds, 2 scripts, 6 contents, 2 hints, one edit, one fault | digests, status and exit code |
| `folder_refused` | 2 runs, one fault | finding: a refused run removed the manifest |

### Bounds

Two slots and four requests are the least with which one permit is granted while
another is released and a third request waits behind a full queue.  Two workers
and two scripts give a worker waiting at a join every other job there is, and a
script of two functions splits over both.  Two bits to a length word reach every
comparison of the parser, also the ones at its limits.  Two tasks on one key, a
third on the same stripe and a quota any two large entries break give every
combination of raced hit, eviction and nested call.  Three prototypes or states
have self-loops, two-cycles, three-cycles and cycles not reached from the start;
the theorems cover every number.  Two blocks reach every case of an edge, three
add a branch whose arms meet.  Three moves of three registers make a swap and a
rotation, which is what parallel copies have to be ordered for.  Code of six slots holds a loop with a conditional
exit or a far one with its trampolines, five hold an open call with its consumer and
something between them.  Code is made of one kit at a time, because the number of
codes is a power of the number of instructions; a kit has the instructions that
interact, those that make a loop or those that pass a list.  Bodies of
four statements nest two loops, and the shapes that rewrites look for are listed
with their near misses.  Two folder runs give every pair (previous generation,
current run); two scripts suffice for a group with a memo.  One edit, fault and
kill each place the event at any step.

`MaxEdits`, `MaxFaults`, `MaxKills` and `MaxCrashes` bound the environment,
`MaxBlocks`, `Depth`, `MaxAnswers` and `MaxLog` the length of the
executions that are compared; none guards an action of the modelled code.  The
code's own limits (`Jobs`, `QueueLimit`, `MaxBytes`, `CountLimit`, `MaxKeys`,
`MaxKeyBytes`, `MaxEntries`, `MaxName`, `MaxCode`, `Preload`) are small so that they
are met.

The cache is checked for safety with syncs that succeed because a failing sync
breaks `DiskWithinLimits`, which is `cache_sync_failure`.  Deadlock checking is
off where the system really stops: folder runs end, a batch is answered, an
algorithm returns, a machine leaves the code.  It is on for the server and the
cache.

### Fairness

Liveness is claimed of five specifications only, under weak fairness: of a
runtime that polls ready tasks, uploads that meet their deadline, jobs that
terminate and timers that fire (`Admission`); of each cache call, whose locks are
released by holders that wait for no computation (`ArtifactCache`); of each folder
run (`FolderRun`, where a process runs once, so that weak
fairness also gives it a lock that gets free); and of each worker and the final
return (`DecompilePool`).  `ControlPasses` goes from pass to pass.

## Findings

* `cache_sync_failure`: `decompile_core.rs:1939` returns the error of a directory
  sync after the rename, so `Cache::write` leaves an entry on disk that is neither
  counted nor evictable until the next open, and the directory grows past the bound
  `README.md:166` promises.
* `folder_refused`: the comment at `batch.rs:95-97` says that a refused run leaves
  the previous manifest intact; a run refused by `prepare_analysis_root`
  (`batch.rs:126`) has already removed it.

Two comments of the server are narrower than the code.  They have no run of their
own, because the model's behaviour is plain: `decompile-batch.client.luau:44-45`
says the server answers 503 only when its queue is full, but an expired wait is a
503 too (`main.rs:297`); and the comment at `main.rs:427-428` says that memory is
collected when no job started meanwhile, but the timer (`main.rs:431`) only looks
whether one runs when it fires.

## Proofs

The proofs hold for every value of the constants that satisfies the named
assumption of the module (`AdmissionAssumption`, `CacheAssumption`, ...), which TLC
evaluates on the instances.  Each module's argument is one inductive invariant,
shown action by action; the listed theorems follow from it.

`AdmissionProofs`: for every finite set of requests and all `Jobs` and
`QueueLimit`, `Admission` keeps its types, conserves permits, never leaves a permit
free while somebody waits, bounds the queue and the bodies, answers only after
releasing, and implements `SlotQueue`.  None of these is inductive alone: that the
queue is bounded follows from counting, since each waiter and each holder of a job
permit holds a place, there are `Jobs + QueueLimit` places, and whenever somebody
waits all `Jobs` permits are owned.  `IInv` joins the types, the conservation of
both kinds of permits, `NoLostWakeup`, `HoldersMatchPhase`, the exact count of
running jobs and the order of the wait list (`ahead` is a strict order on the
waiters).  Lemmas about a released permit (`ReleaseJob`) and about leaving the wait
list (`Unlink`) are shared.  The refinement maps every step to a step of
`SlotQueue` or a stutter; `busy` is the set of owners of job permits.

`ArtifactCacheProofs` has two layers.  `CacheInv` (shapes; an inventory whose
records, recency and bytes describe the same entries; the phase of a call
determines its locks; a closed cache is idle) gives `InventoryAgrees`,
`LocksHeldOnlyToPublish`, `NoRedundantPublication` and `QuotaSatisfiable` for any
tasks, threads, keys, sizes and limits.  `Accounted`, on top of it and under
`~SyncMayFail`, says that what is on disk is recorded or is the entry being
committed, and that both together fit; it gives `DiskWithinLimits`.  The
hypothesis is needed: `cache_sync_failure` is its counterexample.  The sum of the
bytes is handled by lemmas about adding and removing one entry.

`FolderRunProofs` has two layers too, for any number of runs, scripts, contents,
edits, faults and kills.  `ManifestVouches` is not inductive: a script step would
break it unless the manifest were gone.  `FolderInv` adds, for each run, that rows
advance only in phases that hold the lock, that a row past decompilation has an
artifact, that written rows agree with the disk, and which of the two analysis
files is gone, or is already the run's own, in which phase.  A script step then
starts without any analysis on disk (`ScriptFrame`), and every other run is idle,
since the lock is taken (`OtherRun`).  `InputInv` adds that every artifact is the
output of the very bytes the run digested, also when it came from the memo of its
group, whose key a fingerprint may share with other bytes, and that all rows are
in after the parallel phase; it gives `CorpusMatchesSources`, `CompleteMeansAll` and
`ZeroMeansDone`.

`DecompilePoolProofs`: for any batch, number of workers and programs,
`AsIfAlone`, `IdsUnique` and `FailsClosed`.  `AsIfAlone` is about a finished answer,
but a worker that waits at a join runs other scripts on top and overwrites the
state the waiting one comes back to.  `PoolInv` says what survives: a script is a
job, on one stack once, or answered; below the top every frame is at its join; each
waiting frame saved the scope of the frame below it and the thread's scope is that
of its top; functions are jobs only of scripts at their join; each finished
function is what that function gives alone; and the levels tried before were not
enough.  The actions differ in how they change one stack, so the stack part is
three lemmas, about a frame that is pushed, replaced or popped.  `IdsUnique` adds
that the ids of one stretch of a decompilation rise within a range below `Stride`
and that ranges of different stretches are disjoint; `StrideAssumption` is what the
code's step between functions provides.

`GraphProofs`: for any number of prototypes, the open ones are the path from where
the search began, the finished ones are closed under children and free of cycles;
so acceptance means acyclic and refusal names a cycle.  Dispatcher states outside
the liveness queue satisfy their own equation and what is marked live has a path
that reads it; for any graph, and any order of the queue.

It also proves the dispatcher (`DispatcherKeepsBehaviour`), for any well-formed graph
of any size (`DispatcherAssumption`) with any statements, ignored locals and values.
`DispatcherIInv` relates the two machines before a statement (`Runs`): what is
declared in front of the loop, what is ignored and what the block has written so far
has the same value in both (`ValuesAgree`), and everything a block reads is one of
these (`ReadsAgreed`, `ExitAgreed`), because it is live where it is read before it is
written (`UsesAreKept`).  So both take the same edge.  A local has had only one cell
unless it is captured and this block does not touch it (`OneCell`); every closure
holds the first cell, with the same value in both (`ClosuresAgree`); and what is
captured is touched by no block ahead (`EndsHere`), which is what
`contains_ref_capture` is for: it keeps a closed cell of the graph and a dropped one
of the dispatcher out of reach.  Reachability, liveness and what lies ahead are least
closed sets, so no induction over paths is needed; `StateLiveness` and `CyclicStates`
tie them to the code's searches.

`CyclicStatesProofs`: for any number of states, any edges and any order of the
pushed targets, the states marked are exactly those on cycles.  What one state
leads to is the least set closed under edges, so reachability needs no induction
over paths.  In the first pass a state that was left either shares a cycle with
one that is still open, or all it leads to was left, each state no later than some
member of its own component (`Settled`); this rests on the open states forming a
path (`Chain`) and on every target of a left or open state being left, open or
pending above (`Pending`).  When the stack is empty the last member of each
component was left after everything the component leads to (`Ranked`).  The second
pass keeps that complete components are whole (`WholeComponents`) and that what
waits or is collected leads to the root (`Collecting`), so a walk over the reversed
edges meets the component of its root and complete ones.

`BatchProofs`: for any base, any width of a length word and all limits that a
word can hold (`RequestAssumption`), an MDB1 body is accepted exactly when it is the
encoding of as many entries as its header counts, and is understood as those
entries; and every result is at the place of its script.  What is refused is the
hard half: it has to be shown that no other way to cut the body into entries
exists.  `RequestInv` therefore says two things of the cursor: it stands where the
entries understood so far end (`CutSoFar`), and every way to read the whole body as
entries passes there (`Follows`).  The step rests on `EntryReads` and `EntryFound`, that
an entry is read exactly where its encoding stands, and these on a word and its
number determining each other (`DigitsOfNumber`).  `Number` and `Digits` are recursive
functions over the bytes of a word; the inductions argue from a least
counterexample, since the library's induction theorems cannot be instantiated.

Of the worker: each key of its map names an earlier result of a script with
that key, and the budgets bound the map.  Of the clients: the phases come in order
and the script the hook posts is not cached, so what is cached for a script never
changes and is its own.

`LifterProofs`: for code of any length over every modelled opcode, `RunsAsValidated`.
The inductive invariant `LiftIInv` carries three things: the code read so far is
whole instructions (`Whole`), accepted code still satisfies the validator and its
blocks are the leaders, and the machine is at an instruction, or at the spare word
of a generic step, inside the block it entered by with the list that the linear
scan expects there (`At`).  A scan is a recursive function over the slots, whose
existence is proved from a least counterexample (`Scans`); `Open` then gives the
list after each slot, and a step to the next slot keeps `At` because no leader is
between, a jump because every target starts a block and a block starts without a
list (`BlocksStartClosed`).  `EdgesLead` adds `SameControl`.  `ControlIInv` says that the
machine passes no RETURN in its block; so the first instruction that decides is the
one the machine leaves by (`DecidesFirst`), and a block without one ends where the
machine leaves it (`FallsThrough`).  Where edge and machine part, they meet again: a
trampoline is a block of one jump (`OneJump`, `Threads`), the spare word of a
generic step is a silent block (`GenericLeads`), and an empty body of a numeric loop
makes no statement, hence ends in a plain jump, which needs that the walk over a
block comes to its first decision (`WalkReaches`, `SilentEdges`).  Wherever the back
jump of a numeric loop is put, slot by slot, it leads on to where it was
(`StepLeads`, `ExitOn`), and to the body of a prep that conforms (`BackJumpKeeps`).

`BlocksDoTheSame` is `SameEffects`.  The machine and the walk over its block go side by
side (`EffectsIInv`): what the machine did is, but for what may move (`Same`), what the
walk made followed by the calls it still holds back, the walk's pending list is the
machine's open list, and where calls are held back the scan of
`admit_open_call_order` has a call open (`Done`).  A method's lookup and CALL, and a
closure and its captures, are one step of the walk and several of the machine
(`Passed`, `Reached`).  A call is held back until what takes its results, so nothing
that keeps an order may come between: what the scan lets pass is a hint, a closing
of upvalues, or a load of a FASTCALL's fallback callee (`PendingShape`).  The hard
part is the end of a block, where the walk drops what it holds back: were a call
held back there, no list would be open (`BlocksStartClosed`), so nothing could take its
results; the scan would have to go on over hints to the end of the code, which is a
jump or a RETURN that takes no open list (`NeverStuck`); the scan refuses both.  This is where code that
can run off its end is excluded.

The inductive invariants were model-checked on the instances of the runs before
they were proved.

### Only model-checked

* Every liveness property (`EveryRequestEnds`, `FreedMemoryReturned`, `Answered`,
  `EveryCallReturns`, `EveryRunEnds`): fairness and ENABLED are out of the prover's
  reach.
* The SSA modules and the AST passes: they are recursive over functions and
  programs.

## Not modelled

Most of the repository by size is source recovery by pattern over syntax trees:
names, tables, helpers, types, inlining and layout, one sequential data
transformation after another with hundreds of shapes each.  Their correctness is
the equivalence of Luau programs far larger than TLC can enumerate; a faithful
model of them would be a second implementation.  So these modules cover a
small share of the lines, about one in fourteen, and choose it by where order,
concurrency, failure and control flow decide.

Not modelled at all: `deinline.rs`, `name_locals.rs`, `simplify_gotos.rs` and the
other AST passes and the formatter; the pattern-based structurer `region.rs`; the SSA
inliner and structuring of jumps; captured cells, `for` step copies and debug
bindings in SSA; upvalue analysis; the reading of bytes; the Lua 5.1 front
end; folder validation, the command line and the scripts.  In the modelled
components: HTTP parsing and headers, JSON, link and path containment checks, the
Windows handle layer, log output, telemetry.  Power loss is not modelled (sources
and sidecars are not flushed, `decompile_core.rs:1979`; the repository's
documentation leaves the hash comparison to readers), nor are temporary files that
a killed process leaves behind.  In `FolderRun`, issues of an export manifest other
than rejected scripts (unreadable folders, discovery failures) and the "partial"
status of a single sidecar do not take part in the manifest's status or the exit
code.

## Plan

1. The AST passes next to the modelled ones, over the same `Programs`:
   `normalize_conditions`, `lower_conditionals`, `simplify_gotos`, `copy_cleanup`,
   `inline_temps`.
2. Captured cells in the SSA modules, and upvalue analysis beside `Lifter`.
3. The SSA modules restated with recursive functions, so that what the passes keep of
   a function's behaviour can be proved as well as checked.
