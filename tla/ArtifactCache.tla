--------------------------- MODULE ArtifactCache ---------------------------
(***************************************************************************)
(* The optional on-disk artifact cache of folder runs                      *)
(* (luau-lifter/src/decompile_cache.rs).                                   *)
(*                                                                         *)
(* A task is one call of get_or_compute.  Tasks run on rayon threads; while *)
(* a task computes, its thread may pick up another task, so every thread    *)
(* has a stack and only the top task moves.  Locks (one per stripe, one     *)
(* around the inventory) are not reentrant.  Files are read without any     *)
(* lock; eviction, rename and the inventory update hold the inventory lock. *)
(* The process may be killed between any two steps: files stay, the         *)
(* inventory is rebuilt by the next open.                                   *)
(***************************************************************************)
EXTENDS Integers, Sequences, FiniteSets, FiniteSetsExt

CONSTANTS
    Threads, Tasks, Keys, Stripes,
    KeyOf,        \* the cache key of each task
    StripeOf,     \* the lock stripe of each key
    Size,         \* bytes of each key's entry
    Oversized,    \* tasks whose input exceeds ENTRY_LIMIT: never cached
    MaxBytes,     \* --cache-max-mib
    CountLimit,   \* ENTRY_COUNT_LIMIT
    SyncMayFail,  \* whether sync_parent_directory may report an error
    MaxCrashes,   \* bound on killed runs
    None

ASSUME CacheAssumption ==
    /\ IsFiniteSet(Keys)
    /\ KeyOf \in [Tasks -> Keys]
    /\ StripeOf \in [Keys -> Stripes]
    /\ Size \in [Keys -> Nat \ {0}]
    /\ Oversized \subseteq Tasks
    /\ MaxBytes \in Nat \ {0}
    /\ CountLimit \in Nat \ {0}
    /\ SyncMayFail \in BOOLEAN
    /\ MaxCrashes \in Nat
    /\ None \notin Tasks

VARIABLES
    up,        \* a process has the cache open
    crashes,
    files,     \* entry file of each key: absent, good, or torn (checksum fails)
    records,   \* Inventory.records: the touch stamp of each key, 0 for none
    recency,   \* Inventory.recency: pairs <<stamp, key>>
    bytes,     \* Inventory.bytes
    clock,     \* Inventory.clock
    inventory, \* holder of the inventory mutex
    stripe,    \* holder of each stripe mutex
    stack,     \* tasks of each thread, the running one first
    phase,     \* where each task is in get_or_compute
    artifact   \* what each task returns

index  == <<records, recency, bytes, clock>>
locks  == <<inventory, stripe>>
vars   == <<up, crashes, files, index, locks, stack, phase, artifact>>

Phases == { "todo",       \* not started in this run
            "reading",    \* about to read the entry file
            "touching",   \* hit: about to refresh its recency
            "computing",  \* decompiling, no lock held
            "locking",    \* waiting for the stripe
            "rereading",  \* stripe held
            "retouching", \* stripe held, raced hit
            "preparing",  \* stripe held, writing the temporary file
            "guarding",   \* temporary file ready, waiting for the inventory
            "room",       \* inventory held: evict, then rename
            "renamed",    \* inventory held, entry visible, index not updated
            "done" }

Recorded == {k \in Keys : records[k] # 0}
OnDisk   == {k \in Keys : files[k] # "absent"}

\* The bytes of some entries, counted one by one.
BytesOf(S) == Cardinality(UNION {{k} \X (1 .. Size[k]) : k \in S})

\* Only the task on top of its thread's stack takes steps.
Running(t) == up /\ \E th \in Threads : stack[th] # <<>> /\ Head(stack[th]) = t

Init ==
    /\ up = FALSE
    /\ crashes = 0
    /\ files \in [Keys -> {"absent", "good", "torn"}]
    /\ Cardinality(OnDisk) <= CountLimit
    /\ records = [k \in Keys |-> 0]
    /\ recency = {}
    /\ bytes = 0
    /\ clock = 0
    /\ inventory = None
    /\ stripe = [s \in Stripes |-> None]
    /\ stack = [th \in Threads |-> <<>>]
    /\ phase = [t \in Tasks |-> "todo"]
    /\ artifact = [t \in Tasks |-> "none"]

-----------------------------------------------------------------------------
(* Helpers. *)

Goto(t, from, to) ==
    /\ Running(t)
    /\ phase[t] = from
    /\ phase' = [phase EXCEPT ![t] = to]
    /\ UNCHANGED <<up, crashes>>

\* get_or_compute returns: the task leaves its thread's stack.
Return(t, value) ==
    /\ artifact' = [artifact EXCEPT ![t] = value]
    /\ stack' = [th \in Threads |->
                   IF stack[th] # <<>> /\ Head(stack[th]) = t
                   THEN Tail(stack[th]) ELSE stack[th]]

\* Mutant of Unlock: the stripe stays locked.
UnlockInventoryOnly(t) ==
    /\ inventory' = IF inventory = t THEN None ELSE inventory
    /\ UNCHANGED stripe

Unlock(t) ==
    /\ inventory' = IF inventory = t THEN None ELSE inventory
    /\ stripe' = [s \in Stripes |-> IF stripe[s] = t THEN None ELSE stripe[s]]

\* Mutant of TouchRecord: the old recency pair is not removed.
TouchRecordKeepsOld(k) ==
    /\ inventory = None
    /\ clock' = clock + 1
    /\ IF k \in Recorded
       THEN /\ records' = [records EXCEPT ![k] = clock + 1]
            /\ recency' = recency \union {<<clock + 1, k>>}
       ELSE UNCHANGED <<records, recency>>
    /\ UNCHANGED bytes

\* Under the inventory lock, a verified entry becomes the most recent one, if
\* it still has a record.
TouchRecord(k) ==
    /\ inventory = None
    /\ clock' = clock + 1
    /\ IF k \in Recorded
       THEN /\ records' = [records EXCEPT ![k] = clock + 1]
            /\ recency' = (recency \ {<<records[k], k>>}) \union {<<clock + 1, k>>}
       ELSE UNCHANGED <<records, recency>>
    /\ UNCHANGED bytes

\* Mutant of NeedsRoom: the new entry is not counted before it is published.
NeedsRoomTooLate(k) ==
    \/ bytes > MaxBytes
    \/ Cardinality(Recorded) > CountLimit

\* The condition of the eviction loop in write.
NeedsRoom(k) ==
    \/ bytes - (IF k \in Recorded THEN Size[k] ELSE 0) + Size[k] > MaxBytes
    \/ Cardinality(Recorded \union {k}) > CountLimit

\* evict_one: the first entry in recency order, the retained one aside.
Victims(k) == {p \in recency : p[2] # k}
Oldest(S) == CHOOSE p \in S : \A q \in S : p[1] <= q[1]

-----------------------------------------------------------------------------
(* Cache::open and the folder run around it. *)

Orders(S) == {f \in [S -> 1 .. Cardinality(S)] : \A a, b \in S : a # b => f[a] # f[b]}

\* The directory is scanned in modification-time order (any order: timestamps
\* are best effort), and a lower quota is enforced at once.  A scan that meets
\* more than CountLimit entries refuses to open.
Open ==
    /\ ~up
    /\ Cardinality(OnDisk) <= CountLimit
    /\ \E order \in Orders(OnDisk) :
         LET after(n) == {k \in OnDisk : order[k] > n}
             evicted == Min({n \in 0 .. Cardinality(OnDisk) : BytesOf(after(n)) <= MaxBytes})
             kept == after(evicted)
         IN /\ files' = [k \in Keys |-> IF k \in kept THEN files[k] ELSE "absent"]
            /\ records' = [k \in Keys |-> IF k \in kept THEN order[k] ELSE 0]
            /\ recency' = {<<order[k], k>> : k \in kept}
            /\ bytes' = BytesOf(kept)
            /\ clock' = Cardinality(OnDisk)
    /\ up' = TRUE
    /\ UNCHANGED <<crashes, locks, stack, phase, artifact>>

\* A thread takes a task when it is free, or while its task computes: nested
\* rayon work may re-enter another folder task on the same worker.
Start(th, t) ==
    /\ up
    /\ phase[t] = "todo"
    /\ stack[th] # <<>> => phase[Head(stack[th])] = "computing"
    /\ stack' = [stack EXCEPT ![th] = <<t>> \o @]
    /\ phase' = [phase EXCEPT ![t] = "reading"]
    /\ UNCHANGED <<up, crashes, files, index, locks, artifact>>

\* The process is killed; the next run decompiles everything again.
Crash ==
    /\ up
    /\ crashes < MaxCrashes
    /\ crashes' = crashes + 1
    /\ up' = FALSE
    /\ records' = [k \in Keys |-> 0]
    /\ recency' = {}
    /\ bytes' = 0
    /\ clock' = 0
    /\ inventory' = None
    /\ stripe' = [s \in Stripes |-> None]
    /\ stack' = [th \in Threads |-> <<>>]
    /\ phase' = [t \in Tasks |-> "todo"]
    /\ artifact' = [t \in Tasks |-> "none"]
    /\ UNCHANGED files

\* Somebody else damages or removes an entry file.
Disturb(k) ==
    /\ files[k] # "absent"
    /\ \E state \in {"torn", "absent"} : files' = [files EXCEPT ![k] = state]
    /\ UNCHANGED <<up, crashes, index, locks, stack, phase, artifact>>

-----------------------------------------------------------------------------
(* get_or_compute up to the stripe. *)

\* The first read: a verified entry is a hit, anything else a miss.
Read(t) ==
    /\ LET hit == t \notin Oversized /\ files[KeyOf[t]] = "good"
       IN Goto(t, "reading", IF hit THEN "touching" ELSE "computing")
    /\ UNCHANGED <<files, index, locks, stack, artifact>>

\* The rest of a hit; the entry may have been evicted since it was read.
Touch(t) ==
    /\ Goto(t, "touching", "done")
    /\ TouchRecord(KeyOf[t])
    /\ Return(t, "good")
    /\ UNCHANGED <<files, locks>>

Compute(t) ==
    /\ t \notin Oversized
    /\ Goto(t, "computing", "locking")
    /\ UNCHANGED <<files, index, locks, stack, artifact>>

\* An oversized input bypasses the cache.
Bypass(t) ==
    /\ t \in Oversized
    /\ Goto(t, "computing", "done")
    /\ Return(t, "good")
    /\ UNCHANGED <<files, index, locks>>

\* Failures and panics are never cached.
ComputeFails(t) ==
    /\ Goto(t, "computing", "done")
    /\ Return(t, "error")
    /\ UNCHANGED <<files, index, locks>>

-----------------------------------------------------------------------------
(* get_or_compute under the stripe lock, and write. *)

LockStripe(t) ==
    /\ stripe[StripeOf[KeyOf[t]]] = None
    /\ Goto(t, "locking", "rereading")
    /\ stripe' = [stripe EXCEPT ![StripeOf[KeyOf[t]]] = t]
    /\ UNCHANGED <<files, index, inventory, stack, artifact>>

\* Mutant of Reread: the entry is not looked up again under the stripe lock.
RereadSkipped(t) ==
    /\ Goto(t, "rereading", "preparing")
    /\ UNCHANGED <<files, index, locks, stack, artifact>>

\* Somebody else may have published the entry while this task computed.
Reread(t) ==
    /\ Goto(t, "rereading",
            IF files[KeyOf[t]] = "good" THEN "retouching" ELSE "preparing")
    /\ UNCHANGED <<files, index, locks, stack, artifact>>

\* Raced hit.  The entry counts as used before the artifacts are compared: one
\* that is not what this call computed is an error.
Retouch(t) ==
    /\ Goto(t, "retouching", "done")
    /\ TouchRecord(KeyOf[t])
    /\ \E value \in {"good", "error"} : Return(t, value)
    /\ Unlock(t)
    /\ UNCHANGED files

\* The serialized entry fits and its temporary file is on disk.
Prepare(t) ==
    /\ Size[KeyOf[t]] <= MaxBytes
    /\ Goto(t, "preparing", "guarding")
    /\ UNCHANGED <<files, index, locks, stack, artifact>>

LockInventory(t) ==
    /\ inventory = None
    /\ Goto(t, "guarding", "room")
    /\ inventory' = t
    /\ UNCHANGED <<files, index, stripe, stack, artifact>>

EvictOne(t) ==
    /\ Goto(t, "room", "room")
    /\ NeedsRoom(KeyOf[t])
    /\ Victims(KeyOf[t]) # {}
    /\ LET victim == Oldest(Victims(KeyOf[t]))[2]
       IN /\ files' = [files EXCEPT ![victim] = "absent"]
          /\ records' = [records EXCEPT ![victim] = 0]
          /\ bytes' = bytes - Size[victim]
          /\ recency' = recency \ {<<records[victim], victim>>}
    /\ UNCHANGED <<clock, locks, stack, artifact>>

Rename(t) ==
    /\ ~NeedsRoom(KeyOf[t])
    /\ Goto(t, "room", "renamed")
    /\ files' = [files EXCEPT ![KeyOf[t]] = "good"]
    /\ UNCHANGED <<index, locks, stack, artifact>>

\* The directory is synced: the inventory learns of the new entry.
Commit(t) ==
    LET k == KeyOf[t] IN
    /\ Goto(t, "renamed", "done")
    /\ clock' = clock + 1
    /\ records' = [records EXCEPT ![k] = clock + 1]
    /\ recency' = (recency \ {<<records[k], k>>}) \union {<<clock + 1, k>>}
    /\ bytes' = bytes - (IF k \in Recorded THEN Size[k] ELSE 0) + Size[k]
    /\ Return(t, "good")
    /\ Unlock(t)
    /\ UNCHANGED files

\* write gives up: the entry does not fit, or the temporary file, an eviction
\* or the rename fails.  The artifact is returned all the same.
WriteSkipped(t) ==
    /\ \/ Goto(t, "preparing", "done")
       \/ Goto(t, "room", "done")
    /\ Return(t, "good")
    /\ Unlock(t)
    /\ UNCHANGED <<files, index>>

\* The rename took effect but syncing the directory reports an error: write
\* returns before it updates the inventory.
SyncFails(t) ==
    /\ SyncMayFail
    /\ Goto(t, "renamed", "done")
    /\ Return(t, "good")
    /\ Unlock(t)
    /\ UNCHANGED <<files, index>>

-----------------------------------------------------------------------------
TaskStep(t) ==
    \/ Read(t) \/ Touch(t) \/ Compute(t) \/ Bypass(t) \/ ComputeFails(t)
    \/ LockStripe(t) \/ Reread(t) \/ Retouch(t) \/ Prepare(t) \/ LockInventory(t)
    \/ EvictOne(t) \/ Rename(t) \/ Commit(t) \/ WriteSkipped(t) \/ SyncFails(t)

\* The run is over when every task has returned.
Finished ==
    /\ \A t \in Tasks : phase[t] = "done"
    /\ UNCHANGED vars

Next ==
    \/ Open \/ Crash \/ Finished
    \/ \E k \in Keys : Disturb(k)
    \/ \E t \in Tasks : TaskStep(t) \/ \E th \in Threads : Start(th, t)

Spec == Init /\ [][Next]_vars

\* A scheduled thread runs on; runs are not started and tasks not handed out by
\* fairness.
FairSpec == Spec /\ \A t \in Tasks : WF_vars(TaskStep(t))

-----------------------------------------------------------------------------
(* Properties. *)

\* Shapes of the inventory, the locks and the calls in flight.
TypeOK ==
    /\ up \in BOOLEAN /\ crashes \in 0 .. MaxCrashes
    /\ files \in [Keys -> {"absent", "good", "torn"}]
    /\ records \in [Keys -> 0 .. clock]
    /\ recency \subseteq (1 .. clock) \X Keys
    /\ bytes \in Nat /\ clock \in Nat
    /\ inventory \in Tasks \union {None}
    /\ stripe \in [Stripes -> Tasks \union {None}]
    /\ stack \in [Threads -> Seq(Tasks)]
    /\ phase \in [Tasks -> Phases]
    /\ artifact \in [Tasks -> {"none", "good", "error"}]

\* records, recency and bytes describe the same entries: the unwrap in
\* evict_one finds its record and no subtraction goes below zero.
InventoryAgrees ==
    /\ recency = {<<records[k], k>> : k \in Recorded}
    /\ bytes = BytesOf(Recorded)

\* The quota and the entry limit hold on disk, not only in the inventory, at
\* every moment an open cache can be observed, killed or reopened.
DiskWithinLimits ==
    up => /\ BytesOf(OnDisk) <= MaxBytes
          /\ Cardinality(OnDisk) <= CountLimit

\* "cache quota cannot be satisfied" is unreachable: while a write needs room
\* there is an entry other than its own to evict.
QuotaSatisfiable ==
    \A t \in Tasks : phase[t] = "room" /\ NeedsRoom(KeyOf[t])
                       => Victims(KeyOf[t]) # {}

\* A publication never replaces a valid entry: the read under the stripe lock
\* catches every entry that another task published while this one computed.
NoRedundantPublication ==
    \A t \in Tasks : phase[t] \in {"preparing", "guarding", "room"}
                       => files[KeyOf[t]] # "good"

\* A call that returns gives its locks back, and a lock is never held across
\* decompilation.
LocksHeldOnlyToPublish ==
    /\ \A s \in Stripes : stripe[s] # None =>
         /\ phase[stripe[s]] \in {"rereading", "retouching", "preparing",
                                  "guarding", "room", "renamed"}
         /\ StripeOf[KeyOf[stripe[s]]] = s
    /\ inventory # None => phase[inventory] \in {"room", "renamed"}

\* Every call that started returns or dies with its process, although threads
\* pick up further tasks while they compute: nobody waits for a lock that a
\* task below it on the same stack holds.
EveryCallReturns ==
    \A t \in Tasks : phase[t] = "reading" ~> phase[t] \in {"done", "todo"}

=============================================================================
