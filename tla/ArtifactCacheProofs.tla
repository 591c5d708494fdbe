------------------------ MODULE ArtifactCacheProofs ------------------------
(***************************************************************************)
(* Safety of the artifact cache for any finite set of keys, any tasks,      *)
(* threads, stripes, entry sizes and limits.                                *)
(*                                                                         *)
(* Two layers.  CacheInv: the inventory agrees with itself, and the phase   *)
(* of a task says which locks it holds; what is published and replaced      *)
(* under the locks follows.  QuotaInv, when directory syncs succeed: what   *)
(* is on disk is recorded or is just being published, and both fit.         *)
(***************************************************************************)
EXTENDS ArtifactCache, FiniteSetTheorems, WellFoundedInduction, TLAPS

-----------------------------------------------------------------------------
(* The inductive invariants. *)

\* Phases that hold the stripe, phases that hold the inventory, and phases in
\* which the entry is known to fit.
Striped  == {"rereading", "retouching", "preparing", "guarding", "room", "renamed"}
Guarded  == {"room", "renamed"}
Fitted   == {"guarding", "room", "renamed"}

\* A task holds the locks of its phase.  With LocksHeldOnlyToPublish: and no
\* other.
LocksMatchPhase ==
    \A t \in Tasks :
      /\ phase[t] \in Striped => stripe[StripeOf[KeyOf[t]]] = t
      /\ phase[t] \in Guarded => inventory = t
      /\ phase[t] \in Fitted => Size[KeyOf[t]] <= MaxBytes

\* Between two runs nobody calls the cache.
ClosedIsIdle ==
    ~up => /\ \A t \in Tasks : phase[t] = "todo"
           /\ records = [k \in Keys |-> 0]

LockInv == LocksHeldOnlyToPublish /\ LocksMatchPhase /\ NoRedundantPublication

CacheInv ==
    /\ TypeOK
    /\ InventoryAgrees
    /\ LockInv
    /\ ClosedIsIdle

\* The inventory keeps to the limits, also with the entry that is about to be
\* committed, and nothing else is on disk.
Fits(S) == BytesOf(S) <= MaxBytes /\ Cardinality(S) <= CountLimit

Accounted ==
    /\ Fits(Recorded)
    /\ \A t \in Tasks : phase[t] = "renamed" => Fits(Recorded \union {KeyOf[t]})
    /\ up => \A k \in OnDisk :
               k \in Recorded \/ \E t \in Tasks : phase[t] = "renamed" /\ KeyOf[t] = k

-----------------------------------------------------------------------------
(* The bytes of a set of entries. *)

ByteSet(S) == UNION {{k} \X (1 .. Size[k]) : k \in S}

\* The bytes of one entry are finitely many.
LEMMA EntryBytes ==
    ASSUME NEW k \in Keys
    PROVE  /\ Size[k] \in Nat \ {0}
           /\ IsFiniteSet({k} \X (1 .. Size[k]))
           /\ Cardinality({k} \X (1 .. Size[k])) = Size[k]
  <1>1. Size[k] \in Nat \ {0}
    BY CacheAssumption
  <1>2. IsFiniteSet({k}) /\ Cardinality({k}) = 1
    BY FS_Singleton
  <1>3. IsFiniteSet(1 .. Size[k]) /\ Cardinality(1 .. Size[k]) = Size[k]
    BY <1>1, FS_Interval
  <1>4. /\ IsFiniteSet({k} \X (1 .. Size[k]))
        /\ Cardinality({k} \X (1 .. Size[k])) = Cardinality({k}) * Cardinality(1 .. Size[k])
    BY <1>2, <1>3, FS_Product
  <1>5. 1 * Size[k] = Size[k]
    BY <1>1
  <1>. QED
    BY <1>1, <1>2, <1>3, <1>4, <1>5

\* So are the bytes of any set of entries.
LEMMA BytesType ==
    ASSUME NEW S \in SUBSET Keys
    PROVE  /\ IsFiniteSet(S) /\ Cardinality(S) \in Nat
           /\ IsFiniteSet(ByteSet(S))
           /\ BytesOf(S) = Cardinality(ByteSet(S)) /\ BytesOf(S) \in Nat
  <1>1. IsFiniteSet(S) /\ Cardinality(S) \in Nat
    BY CacheAssumption, FS_Subset, FS_CardinalityType
  <1>. DEFINE Of == {{k} \X (1 .. Size[k]) : k \in S}
              f == [k \in S |-> {k} \X (1 .. Size[k])]
  <1>2. f \in Surjection(S, Of)
    BY DEF Surjection
  <1>3. IsFiniteSet(Of)
    BY <1>1, <1>2, FS_Surjection
  <1>4. \A T \in Of : IsFiniteSet(T)
    BY EntryBytes
  <1>5. IsFiniteSet(UNION Of)
    BY <1>3, <1>4, FS_UNION
  <1>6. IsFiniteSet(ByteSet(S)) /\ BytesOf(S) = Cardinality(ByteSet(S))
    BY <1>5 DEF ByteSet, BytesOf
  <1>7. Cardinality(ByteSet(S)) \in Nat
    BY <1>6, FS_CardinalityType
  <1>. QED
    BY <1>1, <1>6, <1>7

\* No entries, no bytes.
LEMMA NoBytes == BytesOf({}) = 0
  BY FS_EmptySet DEF BytesOf

\* An entry more adds its size.
LEMMA BytesAdd ==
    ASSUME NEW S \in SUBSET Keys, NEW k \in Keys, k \notin S
    PROVE  /\ BytesOf(S \union {k}) = BytesOf(S) + Size[k]
           /\ Cardinality(S \union {k}) = Cardinality(S) + 1
  <1>. DEFINE K == {k} \X (1 .. Size[k])
  <1>1. ByteSet(S \union {k}) = ByteSet(S) \union K
    BY DEF ByteSet
  <1>2. ByteSet(S) \cap K = {}
    BY DEF ByteSet
  <1>3. IsFiniteSet(ByteSet(S)) /\ Cardinality(ByteSet(S)) \in Nat
    BY BytesType
  <1>4. IsFiniteSet(K) /\ Cardinality(K) = Size[k] /\ Size[k] \in Nat
    BY EntryBytes
  <1>. HIDE DEF K
  <1>5. Cardinality(ByteSet(S) \union K)
          = Cardinality(ByteSet(S)) + Cardinality(K) - Cardinality(ByteSet(S) \cap K)
    BY <1>3, <1>4, FS_Union
  <1>6. Cardinality(ByteSet(S) \union K) = Cardinality(ByteSet(S)) + Size[k]
    <2>1. Cardinality(ByteSet(S) \cap K) = 0
      BY <1>2, FS_EmptySet
    <2>. QED
      BY <1>3, <1>4, <1>5, <2>1
  <1>7. S \union {k} \in SUBSET Keys
    OBVIOUS
  <1>8. BytesOf(S \union {k}) = BytesOf(S) + Size[k]
    BY <1>1, <1>6, <1>7, BytesType
  <1>9. Cardinality(S \union {k}) = Cardinality(S) + 1
    BY BytesType, FS_AddElement
  <1>. QED
    BY <1>8, <1>9

\* An entry less takes its size away.
LEMMA BytesRemove ==
    ASSUME NEW S \in SUBSET Keys, NEW k \in S
    PROVE  /\ BytesOf(S \ {k}) = BytesOf(S) - Size[k]
           /\ Cardinality(S \ {k}) = Cardinality(S) - 1
  <1>1. S \ {k} \in SUBSET Keys /\ k \notin S \ {k} /\ (S \ {k}) \union {k} = S /\ k \in Keys
    OBVIOUS
  <1>2. /\ BytesOf(S) = BytesOf(S \ {k}) + Size[k]
        /\ Cardinality(S) = Cardinality(S \ {k}) + 1
    BY <1>1, BytesAdd
  <1>3. /\ BytesOf(S \ {k}) \in Nat /\ Cardinality(S \ {k}) \in Nat
        /\ BytesOf(S) \in Nat /\ Cardinality(S) \in Nat /\ Size[k] \in Nat
    BY <1>1, BytesType, EntryBytes
  <1>. QED
    BY <1>2, <1>3

\* Fewer entries have no more bytes.
LEMMA BytesSubset ==
    ASSUME NEW S \in SUBSET Keys, NEW T \in SUBSET S
    PROVE  BytesOf(T) <= BytesOf(S) /\ Cardinality(T) <= Cardinality(S)
  <1>1. ByteSet(T) \in SUBSET ByteSet(S)
    BY DEF ByteSet
  <1>2. T \in SUBSET Keys
    OBVIOUS
  <1>. QED
    BY <1>1, <1>2, BytesType, FS_Subset

-----------------------------------------------------------------------------
(* Minima: the oldest entry, and how many entries an open has to evict. *)

\* A set of numbers that is not empty has a least one.
LEMMA LeastNumber ==
    ASSUME NEW S \in SUBSET Nat, S # {}
    PROVE  \E x \in S : \A y \in S : x <= y
  <1>1. PICK x \in S : \A y \in S : <<y, x>> \notin OpToRel(<, Nat)
    BY NatLessThanWellFounded, WFMin
  <1>2. \A y \in S : ~(y < x)
    BY <1>1 DEF OpToRel
  <1>. QED
    BY <1>2

\* So the oldest recency pair exists and is one of the pairs.
LEMMA OldestIsMember ==
    ASSUME NEW S \in SUBSET (Nat \X Keys), S # {}
    PROVE  Oldest(S) \in S
  <1>. DEFINE Stamps == {p[1] : p \in S}
  <1>1. Stamps \in SUBSET Nat /\ Stamps # {}
    OBVIOUS
  <1>2. PICK n \in Stamps : \A m \in Stamps : n <= m
    BY <1>1, LeastNumber
  <1>3. \E p \in S : \A q \in S : p[1] <= q[1]
    BY <1>2
  <1>. QED
    BY <1>3 DEF Oldest

\* Likewise the least number of entries to evict.
LEMMA MinIsMember ==
    ASSUME NEW S \in SUBSET Nat, S # {}
    PROVE  Min(S) \in S
  BY LeastNumber DEF Min

-----------------------------------------------------------------------------
(* Types, and the inventory. *)

\* The variables outside the inventory have their shapes.
CallsOK ==
    /\ up \in BOOLEAN /\ crashes \in 0 .. MaxCrashes
    /\ files \in [Keys -> {"absent", "good", "torn"}]
    /\ inventory \in Tasks \union {None}
    /\ stripe \in [Stripes -> Tasks \union {None}]
    /\ stack \in [Threads -> Seq(Tasks)]
    /\ phase \in [Tasks -> Phases]
    /\ artifact \in [Tasks -> {"none", "good", "error"}]

IndexOK ==
    /\ records \in [Keys -> 0 .. clock]
    /\ recency \subseteq (1 .. clock) \X Keys
    /\ bytes \in Nat /\ clock \in Nat
    /\ InventoryAgrees

\* The two halves make up the type invariant and the agreement.
LEMMA Shapes == TypeOK /\ InventoryAgrees <=> CallsOK /\ IndexOK
  BY DEF TypeOK, CallsOK, IndexOK

\* An inventory that does not change stays in order.
LEMMA IndexKept ==
    ASSUME IndexOK, UNCHANGED index
    PROVE  IndexOK' /\ Recorded' = Recorded
  BY DEF IndexOK, index, InventoryAgrees, Recorded

\* A touched record gets a fresh stamp and nothing else changes.
LEMMA TouchKeeps ==
    ASSUME IndexOK, NEW k \in Keys, TouchRecord(k)
    PROVE  IndexOK' /\ Recorded' = Recorded /\ bytes' = bytes
  <1>1. clock \in Nat /\ clock' = clock + 1 /\ clock' \in Nat /\ clock \in 0 .. clock'
    BY DEF IndexOK, TouchRecord
  <1>2. bytes' = bytes
    BY DEF TouchRecord
  <1>3. CASE k \in Recorded
    <2>1. /\ records' = [records EXCEPT ![k] = clock + 1]
          /\ recency' = (recency \ {<<records[k], k>>}) \union {<<clock + 1, k>>}
      BY <1>3 DEF TouchRecord
    <2>2. records' \in [Keys -> 0 .. clock'] /\ Recorded' = Recorded
      BY <1>1, <1>3, <2>1 DEF IndexOK, Recorded
    <2>3. recency' = {<<records'[j], j>> : j \in Recorded}
      BY <1>1, <1>3, <2>1 DEF IndexOK, InventoryAgrees, Recorded
    <2>4. recency' \subseteq (1 .. clock') \X Keys
      BY <1>1, <2>1 DEF IndexOK
    <2>. QED
      BY <1>1, <1>2, <2>2, <2>3, <2>4 DEF IndexOK, InventoryAgrees
  <1>4. CASE k \notin Recorded
    <2>1. records' = records /\ recency' = recency
      BY <1>4 DEF TouchRecord
    <2>2. records' \in [Keys -> 0 .. clock'] /\ Recorded' = Recorded
      BY <1>1, <2>1 DEF IndexOK, Recorded
    <2>3. recency' \subseteq (1 .. clock') \X Keys
      BY <1>1, <2>1 DEF IndexOK
    <2>. QED
      BY <1>1, <1>2, <2>1, <2>2, <2>3 DEF IndexOK, InventoryAgrees
  <1>. QED
    BY <1>3, <1>4

\* An eviction removes one recorded entry, never the retained one.
LEMMA EvictKeeps ==
    ASSUME CallsOK, IndexOK, NEW t \in Tasks, EvictOne(t)
    PROVE  /\ IndexOK'
           /\ files' \in [Keys -> {"absent", "good", "torn"}]
           /\ \E v \in Recorded :
                /\ v # KeyOf[t]
                /\ files' = [files EXCEPT ![v] = "absent"]
                /\ Recorded' = Recorded \ {v}
                /\ bytes' = BytesOf(Recorded \ {v})
  <1>1. Victims(KeyOf[t]) \in SUBSET (Nat \X Keys) /\ Victims(KeyOf[t]) # {}
    BY DEF EvictOne, Victims, IndexOK
  <1>2. Oldest(Victims(KeyOf[t])) \in Victims(KeyOf[t])
    BY <1>1, OldestIsMember
  <1>. DEFINE v == Oldest(Victims(KeyOf[t]))[2]
  <1>3. v \in Recorded /\ v # KeyOf[t]
    BY <1>2 DEF Victims, IndexOK, InventoryAgrees
  <1>4. /\ files' = [files EXCEPT ![v] = "absent"]
        /\ records' = [records EXCEPT ![v] = 0]
        /\ bytes' = bytes - Size[v]
        /\ recency' = recency \ {<<records[v], v>>}
        /\ clock' = clock
    BY DEF EvictOne
  <1>. HIDE DEF v
  <1>5. v \in Keys /\ Recorded \in SUBSET Keys
    BY <1>3 DEF Recorded
  <1>6. Recorded' = Recorded \ {v} /\ records' \in [Keys -> 0 .. clock']
    BY <1>4, <1>5 DEF Recorded, IndexOK
  <1>7. recency' = {<<records'[j], j>> : j \in Recorded \ {v}}
    BY <1>3, <1>4, <1>5 DEF IndexOK, InventoryAgrees, Recorded
  <1>8. bytes' = BytesOf(Recorded \ {v})
    BY <1>3, <1>4, <1>5, BytesRemove DEF IndexOK, InventoryAgrees
  <1>9. bytes' \in Nat
    BY <1>5, <1>8, BytesType
  <1>10. recency' \subseteq (1 .. clock') \X Keys /\ clock' \in Nat
    BY <1>4 DEF IndexOK
  <1>11. IndexOK'
    BY <1>6, <1>7, <1>8, <1>9, <1>10 DEF IndexOK, InventoryAgrees
  <1>12. files' \in [Keys -> {"absent", "good", "torn"}]
    BY <1>4 DEF CallsOK
  <1>. QED
    BY <1>3, <1>4, <1>6, <1>8, <1>11, <1>12

\* A commit records its entry.
LEMMA CommitKeeps ==
    ASSUME CallsOK, IndexOK, NEW t \in Tasks, Commit(t)
    PROVE  /\ IndexOK'
           /\ Recorded' = Recorded \union {KeyOf[t]}
           /\ bytes' = BytesOf(Recorded \union {KeyOf[t]})
  <1>. DEFINE k == KeyOf[t]
  <1>1. k \in Keys /\ Recorded \in SUBSET Keys
    BY CacheAssumption DEF Recorded
  <1>2. /\ clock' = clock + 1
        /\ records' = [records EXCEPT ![k] = clock + 1]
        /\ recency' = (recency \ {<<records[k], k>>}) \union {<<clock + 1, k>>}
        /\ bytes' = bytes - (IF k \in Recorded THEN Size[k] ELSE 0) + Size[k]
    BY DEF Commit
  <1>. HIDE DEF k
  <1>3. clock \in Nat /\ clock' \in Nat /\ clock + 1 # 0
    BY <1>2 DEF IndexOK
  <1>4. Recorded' = Recorded \union {k} /\ records' \in [Keys -> 0 .. clock']
    BY <1>1, <1>2, <1>3 DEF Recorded, IndexOK
  <1>5. recency' = {<<records'[j], j>> : j \in Recorded \union {k}}
    BY <1>1, <1>2, <1>3 DEF IndexOK, InventoryAgrees, Recorded
  <1>6. bytes = BytesOf(Recorded) /\ BytesOf(Recorded) \in Nat /\ Size[k] \in Nat
    BY <1>1, BytesType, EntryBytes DEF IndexOK, InventoryAgrees
  <1>7. bytes' = BytesOf(Recorded \union {k})
    <2>1. CASE k \in Recorded
      <3>1. Recorded \union {k} = Recorded
        BY <2>1
      <3>2. bytes' = (bytes - Size[k]) + Size[k]
        BY <1>2, <2>1
      <3>3. bytes' = bytes
        BY <1>6, <3>2
      <3>. QED
        BY <1>6, <3>1, <3>3
    <2>2. CASE k \notin Recorded
      <3>1. BytesOf(Recorded \union {k}) = BytesOf(Recorded) + Size[k]
        BY <1>1, <2>2, BytesAdd
      <3>. QED
        BY <1>2, <1>6, <2>2, <3>1
    <2>. QED
      BY <2>1, <2>2
  <1>8. bytes' \in Nat
    <2>1. Recorded \union {k} \in SUBSET Keys
      BY <1>1
    <2>. QED
      BY <1>7, <2>1, BytesType
  <1>9. recency' \subseteq (1 .. clock') \X Keys
    BY <1>1, <1>2, <1>3 DEF IndexOK
  <1>10. IndexOK'
    BY <1>3, <1>4, <1>5, <1>7, <1>8, <1>9 DEF IndexOK, InventoryAgrees
  <1>. QED
    BY <1>4, <1>7, <1>10 DEF k

\* An open cache records what is on disk, and that fits.
LEMMA OpenKeeps ==
    ASSUME CallsOK, Open
    PROVE  /\ IndexOK'
           /\ files' \in [Keys -> {"absent", "good", "torn"}]
           /\ \A k \in Keys : files'[k] \in {files[k], "absent"}
           /\ Recorded' \in SUBSET OnDisk
           /\ OnDisk' = Recorded'
           /\ bytes' = BytesOf(Recorded') /\ bytes' <= MaxBytes
  <1>. DEFINE N == Cardinality(OnDisk)
  <1>1. PICK order \in Orders(OnDisk) :
          LET after(n) == {k \in OnDisk : order[k] > n}
              evicted == Min({n \in 0 .. N : BytesOf(after(n)) <= MaxBytes})
              kept == after(evicted)
          IN /\ files' = [k \in Keys |-> IF k \in kept THEN files[k] ELSE "absent"]
             /\ records' = [k \in Keys |-> IF k \in kept THEN order[k] ELSE 0]
             /\ recency' = {<<order[k], k>> : k \in kept}
             /\ bytes' = BytesOf(kept)
             /\ clock' = N
    BY DEF Open
  <1>. DEFINE after(n) == {k \in OnDisk : order[k] > n}
              enough == {n \in 0 .. N : BytesOf(after(n)) <= MaxBytes}
              kept == after(Min(enough))
  <1>2. OnDisk \in SUBSET Keys /\ N \in Nat
    BY BytesType DEF OnDisk
  <1>3. \A k \in OnDisk : order[k] \in 1 .. N
    BY DEF Orders
  <1>4. after(N) = {}
    BY <1>2, <1>3
  <1>5. N \in enough
    BY <1>2, <1>4, NoBytes, CacheAssumption
  <1>6. enough \in SUBSET Nat
    BY <1>2
  <1>7. Min(enough) \in enough
    BY <1>5, <1>6, MinIsMember
  <1>8. BytesOf(kept) <= MaxBytes /\ kept \in SUBSET OnDisk /\ kept \in SUBSET Keys
    BY <1>2, <1>7
  <1>9. /\ files' = [k \in Keys |-> IF k \in kept THEN files[k] ELSE "absent"]
        /\ records' = [k \in Keys |-> IF k \in kept THEN order[k] ELSE 0]
        /\ recency' = {<<order[k], k>> : k \in kept}
        /\ bytes' = BytesOf(kept)
        /\ clock' = N
    BY <1>1
  <1>. HIDE DEF kept, N
  <1>10. Recorded' = kept
    BY <1>3, <1>8, <1>9 DEF Recorded
  <1>11. OnDisk' = kept
    BY <1>8, <1>9 DEF OnDisk
  <1>12. files' \in [Keys -> {"absent", "good", "torn"}] /\ \A k \in Keys : files'[k] \in {files[k], "absent"}
    BY <1>9 DEF CallsOK
  <1>13. records' \in [Keys -> 0 .. clock'] /\ clock' \in Nat
    BY <1>2, <1>3, <1>8, <1>9
  <1>14. recency' = {<<records'[k], k>> : k \in kept}
    BY <1>8, <1>9
  <1>15. recency' \subseteq (1 .. clock') \X Keys
    BY <1>2, <1>3, <1>8, <1>9
  <1>16. bytes' \in Nat
    BY <1>8, <1>9, BytesType
  <1>17. IndexOK'
    BY <1>9, <1>10, <1>13, <1>14, <1>15, <1>16 DEF IndexOK, InventoryAgrees
  <1>. QED
    BY <1>8, <1>9, <1>10, <1>11, <1>12, <1>17

\* A task that returns leaves its stack and holds no lock.
LEMMA ReturnKeeps ==
    ASSUME CallsOK, NEW t \in Tasks, NEW v \in {"none", "good", "error"}, Return(t, v)
    PROVE  /\ artifact' \in [Tasks -> {"none", "good", "error"}]
           /\ stack' \in [Threads -> Seq(Tasks)]
  <1>1. artifact' \in [Tasks -> {"none", "good", "error"}]
    BY DEF Return, CallsOK
  <1>2. \A th \in Threads : stack[th] \in Seq(Tasks)
    BY DEF CallsOK
  <1>3. \A th \in Threads : stack[th] # <<>> => Tail(stack[th]) \in Seq(Tasks)
    BY <1>2
  <1>. QED
    BY <1>1, <1>2, <1>3 DEF Return

\* After Unlock the task holds nothing.
LEMMA UnlockKeeps ==
    ASSUME CallsOK, NEW t \in Tasks, Unlock(t)
    PROVE  /\ inventory' \in Tasks \union {None}
           /\ stripe' \in [Stripes -> Tasks \union {None}]
           /\ inventory' # t /\ \A s \in Stripes : stripe'[s] # t
  BY CacheAssumption DEF Unlock, CallsOK

\* A task that moves on changes its own phase only.
LEMMA GotoKeeps ==
    ASSUME CallsOK, NEW t \in Tasks, NEW from, NEW to \in Phases, Goto(t, from, to)
    PROVE  /\ up' = up /\ up = TRUE /\ up' \in BOOLEAN /\ crashes' \in 0 .. MaxCrashes
           /\ phase' \in [Tasks -> Phases]
           /\ phase[t] = from /\ phase'[t] = to
           /\ \A u \in Tasks \ {t} : phase'[u] = phase[u]
  BY DEF Goto, CallsOK, Running

\* The initial shapes.
LEMMA InitShapes == Init => CallsOK /\ IndexOK
  <1>. SUFFICES ASSUME Init PROVE CallsOK /\ IndexOK
    OBVIOUS
  <1>1. CallsOK
    <2>1. 0 \in 0 .. MaxCrashes /\ <<>> \in Seq(Tasks) /\ "todo" \in Phases
      BY CacheAssumption DEF Phases
    <2>. QED
      BY <2>1 DEF Init, CallsOK
  <1>2. Recorded = {}
    BY DEF Init, Recorded
  <1>3. IndexOK
    BY <1>2, NoBytes DEF Init, IndexOK, InventoryAgrees
  <1>. QED
    BY <1>1, <1>3

\* The steps of a task keep the shapes.
LEMMA TaskShapes ==
    ASSUME CallsOK, IndexOK, NEW t \in Tasks, TaskStep(t)
    PROVE  CallsOK' /\ IndexOK'
  <1>k. KeyOf[t] \in Keys /\ StripeOf[KeyOf[t]] \in Stripes
    BY CacheAssumption
  <1>1. CASE Read(t)
    <2>1. PICK to \in {"touching", "computing"} : Goto(t, "reading", to)
      BY <1>1 DEF Read
    <2>2. to \in Phases
      BY DEF Phases
    <2>. QED
      BY <1>1, <2>1, <2>2, GotoKeeps, IndexKept DEF Read, CallsOK, locks
  <1>2. CASE Touch(t)
    <2>1. "done" \in Phases
      BY DEF Phases
    <2>. QED
      BY <1>2, <1>k, <2>1, GotoKeeps, TouchKeeps, ReturnKeeps DEF Touch, CallsOK, locks
  <1>3. CASE Compute(t)
    <2>1. "locking" \in Phases
      BY DEF Phases
    <2>. QED
      BY <1>3, <2>1, GotoKeeps, IndexKept DEF Compute, CallsOK, locks
  <1>4. CASE Bypass(t) \/ ComputeFails(t)
    <2>1. "done" \in Phases
      BY DEF Phases
    <2>. QED
      BY <1>4, <2>1, GotoKeeps, IndexKept, ReturnKeeps DEF Bypass, ComputeFails, CallsOK, locks
  <1>5. CASE LockStripe(t)
    <2>1. "rereading" \in Phases
      BY DEF Phases
    <2>. QED
      BY <1>5, <1>k, <2>1, GotoKeeps, IndexKept DEF LockStripe, CallsOK
  <1>6. CASE Reread(t)
    <2>1. PICK to \in {"retouching", "preparing"} : Goto(t, "rereading", to)
      BY <1>6 DEF Reread
    <2>2. to \in Phases
      BY DEF Phases
    <2>. QED
      BY <1>6, <2>1, <2>2, GotoKeeps, IndexKept DEF Reread, CallsOK, locks
  <1>7. CASE Retouch(t)
    <2>1. "done" \in Phases
      BY DEF Phases
    <2>2. /\ Goto(t, "retouching", "done") /\ TouchRecord(KeyOf[t])
          /\ Unlock(t) /\ UNCHANGED files
      BY <1>7 DEF Retouch
    <2>3. PICK value \in {"good", "error"} : Return(t, value)
      BY <1>7 DEF Retouch
    <2>4. /\ artifact' \in [Tasks -> {"none", "good", "error"}]
          /\ stack' \in [Threads -> Seq(Tasks)]
      BY <2>3, ReturnKeeps
    <2>5. IndexOK'
      BY <1>k, <2>2, TouchKeeps
    <2>. QED
      BY <2>1, <2>2, <2>4, <2>5, GotoKeeps, UnlockKeeps DEF CallsOK
  <1>8. CASE Prepare(t)
    <2>1. "guarding" \in Phases
      BY DEF Phases
    <2>. QED
      BY <1>8, <2>1, GotoKeeps, IndexKept DEF Prepare, CallsOK, locks
  <1>9. CASE LockInventory(t)
    <2>1. "room" \in Phases
      BY DEF Phases
    <2>. QED
      BY <1>9, <2>1, GotoKeeps, IndexKept DEF LockInventory, CallsOK
  <1>10. CASE EvictOne(t)
    <2>1. "room" \in Phases
      BY DEF Phases
    <2>2. Goto(t, "room", "room") /\ UNCHANGED <<locks, stack, artifact>>
      BY <1>10 DEF EvictOne
    <2>. QED
      BY <1>10, <2>1, <2>2, GotoKeeps, EvictKeeps DEF CallsOK, locks
  <1>11. CASE Rename(t)
    <2>1. "renamed" \in Phases
      BY DEF Phases
    <2>. QED
      BY <1>11, <1>k, <2>1, GotoKeeps, IndexKept DEF Rename, CallsOK, locks
  <1>12. CASE Commit(t)
    <2>1. "done" \in Phases
      BY DEF Phases
    <2>2. Goto(t, "renamed", "done") /\ Return(t, "good") /\ Unlock(t) /\ UNCHANGED files
      BY <1>12 DEF Commit
    <2>. QED
      BY <1>12, <2>1, <2>2, GotoKeeps, CommitKeeps, ReturnKeeps, UnlockKeeps DEF CallsOK
  <1>13. CASE WriteSkipped(t) \/ SyncFails(t)
    <2>1. "done" \in Phases
      BY DEF Phases
    <2>2. PICK from \in {"preparing", "room", "renamed"} : Goto(t, from, "done")
      BY <1>13 DEF WriteSkipped, SyncFails
    <2>3. Return(t, "good") /\ Unlock(t) /\ UNCHANGED <<files, index>>
      BY <1>13 DEF WriteSkipped, SyncFails
    <2>. QED
      BY <2>1, <2>2, <2>3, GotoKeeps, IndexKept, ReturnKeeps, UnlockKeeps DEF CallsOK
  <1>. QED
    BY <1>1, <1>2, <1>3, <1>4, <1>5, <1>6, <1>7, <1>8, <1>9, <1>10, <1>11, <1>12, <1>13
       DEF TaskStep

\* So do all steps.
LEMMA StepShapes ==
    ASSUME CallsOK, IndexOK, [Next]_vars
    PROVE  CallsOK' /\ IndexOK'
  <1>1. CASE Open
    BY <1>1, OpenKeeps DEF Open, CallsOK, locks
  <1>2. CASE Crash
    <2>1. crashes' \in 0 .. MaxCrashes
      BY <1>2, CacheAssumption DEF Crash, CallsOK
    <2>2. CallsOK'
      <3>1. <<>> \in Seq(Tasks) /\ "todo" \in Phases
        BY DEF Phases
      <3>. QED
        BY <1>2, <2>1, <3>1 DEF Crash, CallsOK
    <2>3. Recorded' = {}
      BY <1>2 DEF Crash, Recorded
    <2>4. IndexOK'
      BY <1>2, <2>3, NoBytes DEF Crash, IndexOK, InventoryAgrees
    <2>. QED
      BY <2>2, <2>4
  <1>3. CASE UNCHANGED vars
    <2>1. UNCHANGED index
      BY <1>3 DEF vars
    <2>. QED
      BY <1>3, <2>1, IndexKept DEF vars, CallsOK, locks
  <1>4. ASSUME NEW k \in Keys, Disturb(k) PROVE CallsOK' /\ IndexOK'
    BY <1>4, IndexKept DEF Disturb, CallsOK, locks
  <1>5. ASSUME NEW t \in Tasks, TaskStep(t) PROVE CallsOK' /\ IndexOK'
    BY <1>5, TaskShapes
  <1>6. ASSUME NEW t \in Tasks, NEW th \in Threads, Start(th, t) PROVE CallsOK' /\ IndexOK'
    <2>1. "reading" \in Phases
      BY DEF Phases
    <2>2. <<t>> \o stack[th] \in Seq(Tasks)
      BY DEF CallsOK
    <2>3. stack' \in [Threads -> Seq(Tasks)]
      BY <1>6, <2>2 DEF Start, CallsOK
    <2>. QED
      BY <1>6, <2>1, <2>3, IndexKept DEF Start, CallsOK, locks
  <1>. QED
    BY <1>1, <1>2, <1>3, <1>4, <1>5, <1>6 DEF Next, Finished

-----------------------------------------------------------------------------
(* Locks and publications. *)

\* A step that leaves the locks alone and makes no entry good keeps LockInv
\* when the task stays among the phases with the same locks.
LEMMA SameLocks ==
    ASSUME CallsOK, LockInv, NEW t \in Tasks, NEW from, NEW to \in Phases,
           Goto(t, from, to), UNCHANGED locks,
           from \in Striped <=> to \in Striped,
           from \in Guarded <=> to \in Guarded,
           to \in Fitted => Size[KeyOf[t]] <= MaxBytes,
           \A k \in Keys : files'[k] = "good" => files[k] = "good",
           to \in {"preparing", "guarding", "room"} => files'[KeyOf[t]] # "good"
    PROVE  LockInv'
  <1>1. /\ phase[t] = from /\ phase'[t] = to
        /\ \A u \in Tasks \ {t} : phase'[u] = phase[u]
    BY GotoKeeps
  <1>2. inventory' = inventory /\ stripe' = stripe
    BY DEF locks
  <1>3. \A u \in Tasks : KeyOf[u] \in Keys
    BY CacheAssumption
  <1>4. \A s \in Stripes : stripe[s] \in Tasks \union {None}
    BY DEF CallsOK
  <1>5. LocksHeldOnlyToPublish'
    <2>1. ASSUME NEW s \in Stripes, stripe'[s] # None
          PROVE  phase'[stripe'[s]] \in Striped /\ StripeOf[KeyOf[stripe'[s]]] = s
      BY <1>1, <1>2, <1>4, <2>1 DEF LockInv, LocksHeldOnlyToPublish, Striped
    <2>2. inventory' # None => phase'[inventory'] \in Guarded
      BY <1>1, <1>2 DEF LockInv, LocksHeldOnlyToPublish, Guarded, CallsOK
    <2>. QED
      BY <2>1, <2>2 DEF LocksHeldOnlyToPublish, Striped, Guarded
  <1>6. LocksMatchPhase'
    BY <1>1, <1>2 DEF LockInv, LocksMatchPhase
  <1>7. NoRedundantPublication'
    BY <1>1, <1>3 DEF LockInv, NoRedundantPublication
  <1>. QED
    BY <1>5, <1>6, <1>7 DEF LockInv

\* A task that gives its locks back and is done leaves the others theirs.
LEMMA LocksReturned ==
    ASSUME CallsOK, LockInv, NEW t \in Tasks, NEW from, Goto(t, from, "done"), Unlock(t),
           \A k \in Keys : files'[k] = "good" => files[k] = "good"
    PROVE  LockInv'
  <1>1. /\ phase[t] = from /\ phase'[t] = "done"
        /\ \A u \in Tasks \ {t} : phase'[u] = phase[u]
    BY GotoKeeps DEF Phases
  <1>2. \A u \in Tasks : KeyOf[u] \in Keys /\ StripeOf[KeyOf[u]] \in Stripes
    BY CacheAssumption
  <1>3. \A s \in Stripes : stripe[s] \in Tasks \union {None} /\ stripe'[s] \in {stripe[s], None} \ {t}
    BY CacheAssumption DEF CallsOK, Unlock
  <1>4. inventory \in Tasks \union {None} /\ inventory' \in {inventory, None} \ {t}
    BY CacheAssumption DEF CallsOK, Unlock
  <1>5. LocksHeldOnlyToPublish'
    <2>1. ASSUME NEW s \in Stripes, stripe'[s] # None
          PROVE  phase'[stripe'[s]] \in Striped /\ StripeOf[KeyOf[stripe'[s]]] = s
      BY <1>1, <1>3, <2>1 DEF LockInv, LocksHeldOnlyToPublish, Striped
    <2>2. inventory' # None => phase'[inventory'] \in Guarded
      BY <1>1, <1>4 DEF LockInv, LocksHeldOnlyToPublish, Guarded
    <2>. QED
      BY <2>1, <2>2 DEF LocksHeldOnlyToPublish, Striped, Guarded
  <1>6. LocksMatchPhase'
    <2>1. ASSUME NEW u \in Tasks, u # t
          PROVE  /\ phase'[u] \in Striped => stripe'[StripeOf[KeyOf[u]]] = u
                 /\ phase'[u] \in Guarded => inventory' = u
                 /\ phase'[u] \in Fitted => Size[KeyOf[u]] <= MaxBytes
      BY <1>1, <1>2, <2>1 DEF LockInv, LocksMatchPhase, Unlock
    <2>2. "done" \notin Striped /\ "done" \notin Guarded /\ "done" \notin Fitted
      BY DEF Striped, Guarded, Fitted
    <2>. QED
      BY <1>1, <2>1, <2>2 DEF LocksMatchPhase
  <1>7. NoRedundantPublication'
    BY <1>1, <1>2 DEF LockInv, NoRedundantPublication
  <1>. QED
    BY <1>5, <1>6, <1>7 DEF LockInv

\* A task takes its stripe when nobody has it.
LEMMA StripeTaken ==
    ASSUME CallsOK, LockInv, NEW t \in Tasks, LockStripe(t)
    PROVE  LockInv'
  <1>1. /\ phase[t] = "locking" /\ phase'[t] = "rereading"
        /\ \A u \in Tasks \ {t} : phase'[u] = phase[u]
    BY GotoKeeps DEF LockStripe, Phases
  <1>2. \A u \in Tasks : KeyOf[u] \in Keys /\ StripeOf[KeyOf[u]] \in Stripes /\ u # None
    BY CacheAssumption
  <1>3. /\ stripe[StripeOf[KeyOf[t]]] = None
        /\ stripe' = [stripe EXCEPT ![StripeOf[KeyOf[t]]] = t]
        /\ inventory' = inventory /\ files' = files
    BY DEF LockStripe
  <1>4. \A s \in Stripes : stripe[s] \in Tasks \union {None}
    BY DEF CallsOK
  <1>5. LocksHeldOnlyToPublish'
    <2>1. ASSUME NEW s \in Stripes, stripe'[s] # None
          PROVE  phase'[stripe'[s]] \in Striped /\ StripeOf[KeyOf[stripe'[s]]] = s
      <3>1. CASE s = StripeOf[KeyOf[t]]
        BY <1>1, <1>3, <3>1 DEF CallsOK, Striped
      <3>2. CASE s # StripeOf[KeyOf[t]]
        <4>1. stripe'[s] = stripe[s] /\ stripe[s] \in Tasks
          BY <1>3, <1>4, <2>1, <3>2
        <4>2. phase[stripe[s]] \in Striped /\ StripeOf[KeyOf[stripe[s]]] = s
          BY <2>1, <4>1 DEF LockInv, LocksHeldOnlyToPublish, Striped
        <4>. QED
          BY <1>1, <4>1, <4>2 DEF Striped
      <3>. QED
        BY <3>1, <3>2
    <2>2. inventory' # None => phase'[inventory'] \in Guarded
      BY <1>1, <1>3 DEF LockInv, LocksHeldOnlyToPublish, Guarded, CallsOK
    <2>. QED
      BY <2>1, <2>2 DEF LocksHeldOnlyToPublish, Striped, Guarded
  <1>6. LocksMatchPhase'
    <2>1. ASSUME NEW u \in Tasks, u # t
          PROVE  /\ phase'[u] \in Striped => stripe'[StripeOf[KeyOf[u]]] = u
                 /\ phase'[u] \in Guarded => inventory' = u
                 /\ phase'[u] \in Fitted => Size[KeyOf[u]] <= MaxBytes
      BY <1>1, <1>2, <1>3, <2>1 DEF LockInv, LocksMatchPhase
    <2>2. stripe'[StripeOf[KeyOf[t]]] = t
      BY <1>2, <1>3 DEF CallsOK
    <2>3. "rereading" \notin Guarded /\ "rereading" \notin Fitted
      BY DEF Guarded, Fitted
    <2>. QED
      BY <1>1, <2>1, <2>2, <2>3 DEF LocksMatchPhase
  <1>7. NoRedundantPublication'
    BY <1>1, <1>3 DEF LockInv, NoRedundantPublication
  <1>. QED
    BY <1>5, <1>6, <1>7 DEF LockInv

\* Likewise the inventory.
LEMMA InventoryTaken ==
    ASSUME CallsOK, LockInv, NEW t \in Tasks, LockInventory(t)
    PROVE  LockInv'
  <1>1. /\ phase[t] = "guarding" /\ phase'[t] = "room"
        /\ \A u \in Tasks \ {t} : phase'[u] = phase[u]
    BY GotoKeeps DEF LockInventory, Phases
  <1>2. \A u \in Tasks : u # None
    BY CacheAssumption
  <1>3. inventory = None /\ inventory' = t /\ stripe' = stripe /\ files' = files
    BY DEF LockInventory
  <1>4. \A s \in Stripes : stripe[s] \in Tasks \union {None}
    BY DEF CallsOK
  <1>5. LocksHeldOnlyToPublish'
    BY <1>1, <1>3, <1>4 DEF LockInv, LocksHeldOnlyToPublish
  <1>6. LocksMatchPhase'
    BY <1>1, <1>2, <1>3 DEF LockInv, LocksMatchPhase, Striped, Guarded, Fitted
  <1>7. NoRedundantPublication'
    BY <1>1, <1>3 DEF LockInv, NoRedundantPublication
  <1>. QED
    BY <1>5, <1>6, <1>7 DEF LockInv

\* Renaming makes an entry good; no other task is about to publish that key.
LEMMA OnePublisher ==
    ASSUME CallsOK, LockInv, NEW t \in Tasks, Rename(t)
    PROVE  LockInv'
  <1>1. /\ phase[t] = "room" /\ phase'[t] = "renamed"
        /\ \A u \in Tasks \ {t} : phase'[u] = phase[u]
    BY GotoKeeps DEF Rename, Phases
  <1>2. \A u \in Tasks : KeyOf[u] \in Keys
    BY CacheAssumption
  <1>3. inventory' = inventory /\ stripe' = stripe /\ files' = [files EXCEPT ![KeyOf[t]] = "good"]
    BY DEF Rename, locks
  <1>4. \A s \in Stripes : stripe[s] \in Tasks \union {None}
    BY DEF CallsOK
  <1>5. LocksHeldOnlyToPublish'
    BY <1>1, <1>3, <1>4 DEF LockInv, LocksHeldOnlyToPublish, CallsOK
  <1>6. LocksMatchPhase'
    BY <1>1, <1>3 DEF LockInv, LocksMatchPhase, Striped, Guarded, Fitted
  <1>7. NoRedundantPublication'
    <2>1. ASSUME NEW u \in Tasks, phase'[u] \in {"preparing", "guarding", "room"}
          PROVE  files'[KeyOf[u]] # "good"
      <3>1. u # t /\ phase[u] \in {"preparing", "guarding", "room"}
        BY <1>1, <2>1
      <3>2. stripe[StripeOf[KeyOf[u]]] = u /\ stripe[StripeOf[KeyOf[t]]] = t
        BY <1>1, <3>1 DEF LockInv, LocksMatchPhase, Striped
      <3>3. KeyOf[u] # KeyOf[t] /\ files[KeyOf[u]] # "good"
        BY <3>1, <3>2 DEF LockInv, NoRedundantPublication
      <3>. QED
        BY <1>2, <1>3, <3>3 DEF CallsOK
    <2>. QED
      BY <2>1 DEF NoRedundantPublication
  <1>. QED
    BY <1>5, <1>6, <1>7 DEF LockInv

\* Every step of a task keeps LockInv.
LEMMA TaskLocks ==
    ASSUME CallsOK, IndexOK, LockInv, NEW t \in Tasks, TaskStep(t)
    PROVE  LockInv'
  <1>k. KeyOf[t] \in Keys
    BY CacheAssumption
  <1>p. Phases = {"todo", "done"} \union {"reading", "touching", "computing", "locking"} \union Striped
    BY DEF Phases, Striped
  <1>1. CASE Read(t)
    <2>1. PICK to \in {"touching", "computing"} : Goto(t, "reading", to)
      BY <1>1 DEF Read
    <2>2. UNCHANGED locks /\ files' = files
      BY <1>1 DEF Read
    <2>. QED
      BY <1>p, <2>1, <2>2, SameLocks DEF Striped, Guarded, Fitted
  <1>2. CASE Touch(t)
    <2>1. Goto(t, "touching", "done") /\ UNCHANGED locks /\ files' = files
      BY <1>2 DEF Touch
    <2>. QED
      BY <1>p, <2>1, SameLocks DEF Striped, Guarded, Fitted
  <1>3. CASE Compute(t)
    <2>1. Goto(t, "computing", "locking") /\ UNCHANGED locks /\ files' = files
      BY <1>3 DEF Compute
    <2>. QED
      BY <1>p, <2>1, SameLocks DEF Striped, Guarded, Fitted
  <1>4. CASE Bypass(t) \/ ComputeFails(t)
    <2>1. Goto(t, "computing", "done") /\ UNCHANGED locks /\ files' = files
      BY <1>4 DEF Bypass, ComputeFails
    <2>. QED
      BY <1>p, <2>1, SameLocks DEF Striped, Guarded, Fitted
  <1>5. CASE LockStripe(t)
    BY <1>5, StripeTaken
  <1>6. CASE Reread(t)
    <2>1. PICK to \in {"retouching", "preparing"} :
            Goto(t, "rereading", to) /\ (to = "preparing" => files[KeyOf[t]] # "good")
      BY <1>6 DEF Reread
    <2>2. UNCHANGED locks /\ files' = files
      BY <1>6 DEF Reread
    <2>. QED
      BY <1>p, <2>1, <2>2, SameLocks DEF Striped, Guarded, Fitted
  <1>7. CASE Retouch(t)
    <2>1. Goto(t, "retouching", "done") /\ Unlock(t) /\ files' = files
      BY <1>7 DEF Retouch
    <2>. QED
      BY <2>1, LocksReturned
  <1>8. CASE Prepare(t)
    <2>1. /\ Goto(t, "preparing", "guarding") /\ UNCHANGED locks /\ files' = files
          /\ Size[KeyOf[t]] <= MaxBytes
      BY <1>8 DEF Prepare
    <2>2. files[KeyOf[t]] # "good"
      BY <2>1 DEF LockInv, NoRedundantPublication, Goto
    <2>. QED
      BY <1>p, <2>1, <2>2, SameLocks DEF Striped, Guarded, Fitted
  <1>9. CASE LockInventory(t)
    BY <1>9, InventoryTaken
  <1>10. CASE EvictOne(t)
    <2>1. Goto(t, "room", "room") /\ UNCHANGED locks
      BY <1>10 DEF EvictOne
    <2>2. \A k \in Keys : files'[k] = "good" => files[k] = "good"
      BY <1>10, EvictKeeps DEF CallsOK
    <2>3. files'[KeyOf[t]] # "good" /\ Size[KeyOf[t]] <= MaxBytes
      BY <1>k, <2>1, <2>2 DEF LockInv, NoRedundantPublication, LocksMatchPhase, Goto, Fitted
    <2>. QED
      BY <1>p, <2>1, <2>2, <2>3, SameLocks DEF Striped, Guarded, Fitted
  <1>11. CASE Rename(t)
    BY <1>11, OnePublisher
  <1>12. CASE Commit(t)
    <2>1. Goto(t, "renamed", "done") /\ Unlock(t) /\ files' = files
      BY <1>12 DEF Commit
    <2>. QED
      BY <2>1, LocksReturned
  <1>13. CASE WriteSkipped(t) \/ SyncFails(t)
    <2>1. PICK from \in {"preparing", "room", "renamed"} : Goto(t, from, "done")
      BY <1>13 DEF WriteSkipped, SyncFails
    <2>2. Unlock(t) /\ files' = files
      BY <1>13 DEF WriteSkipped, SyncFails
    <2>. QED
      BY <2>1, <2>2, LocksReturned
  <1>. QED
    BY <1>1, <1>2, <1>3, <1>4, <1>5, <1>6, <1>7, <1>8, <1>9, <1>10, <1>11, <1>12, <1>13
       DEF TaskStep

\* When all calls are yet to start, nothing is held.
LEMMA IdleLocks ==
    ASSUME CallsOK, inventory = None, stripe = [s \in Stripes |-> None],
           \A t \in Tasks : phase[t] = "todo"
    PROVE  LockInv
  <1>1. LocksHeldOnlyToPublish
    BY DEF LocksHeldOnlyToPublish
  <1>2. LocksMatchPhase
    BY DEF LocksMatchPhase, Striped, Guarded, Fitted
  <1>3. NoRedundantPublication
    BY DEF NoRedundantPublication
  <1>. QED
    BY <1>1, <1>2, <1>3 DEF LockInv

\* Every step keeps LockInv.
LEMMA StepLocks ==
    ASSUME CallsOK, CallsOK', IndexOK, LockInv, ClosedIsIdle, [Next]_vars
    PROVE  LockInv'
  <1>k. \A t \in Tasks : KeyOf[t] \in Keys
    BY CacheAssumption
  <1>1. CASE Open
    <2>1. inventory' = inventory /\ stripe' = stripe /\ phase' = phase
      BY <1>1 DEF Open, locks
    <2>2. \A t \in Tasks : phase'[t] = "todo"
      BY <1>1, <2>1 DEF ClosedIsIdle, Open
    <2>3. LocksHeldOnlyToPublish'
      BY <2>1 DEF LockInv, LocksHeldOnlyToPublish
    <2>4. LocksMatchPhase'
      BY <2>1 DEF LockInv, LocksMatchPhase
    <2>5. NoRedundantPublication'
      BY <2>2 DEF NoRedundantPublication
    <2>. QED
      BY <2>3, <2>4, <2>5 DEF LockInv
  <1>2. CASE Crash
    <2>1. inventory' = None /\ stripe' = [s \in Stripes |-> None] /\ \A t \in Tasks : phase'[t] = "todo"
      BY <1>2 DEF Crash
    <2>2. LocksHeldOnlyToPublish'
      BY <2>1 DEF LocksHeldOnlyToPublish
    <2>3. LocksMatchPhase'
      BY <2>1 DEF LocksMatchPhase, Striped, Guarded, Fitted
    <2>4. NoRedundantPublication'
      BY <2>1 DEF NoRedundantPublication
    <2>. QED
      BY <2>2, <2>3, <2>4 DEF LockInv
  <1>3. CASE UNCHANGED vars
    BY <1>3 DEF vars, locks, LockInv, LocksHeldOnlyToPublish, LocksMatchPhase, NoRedundantPublication
  <1>4. ASSUME NEW k \in Keys, Disturb(k) PROVE LockInv'
    <2>1. UNCHANGED <<locks, phase>>
      BY <1>4 DEF Disturb
    <2>2. \A j \in Keys : files'[j] = "good" => files[j] = "good"
      BY <1>4 DEF Disturb, CallsOK
    <2>3. LocksHeldOnlyToPublish' /\ LocksMatchPhase'
      BY <2>1 DEF LockInv, LocksHeldOnlyToPublish, LocksMatchPhase, locks
    <2>4. NoRedundantPublication'
      BY <1>k, <2>1, <2>2 DEF LockInv, NoRedundantPublication
    <2>. QED
      BY <2>3, <2>4 DEF LockInv
  <1>5. ASSUME NEW t \in Tasks, TaskStep(t) PROVE LockInv'
    BY <1>5, TaskLocks
  <1>6. ASSUME NEW t \in Tasks, NEW th \in Threads, Start(th, t) PROVE LockInv'
    <2>1. /\ UNCHANGED <<locks, files>> /\ phase[t] = "todo" /\ phase'[t] = "reading"
          /\ \A u \in Tasks \ {t} : phase'[u] = phase[u]
      BY <1>6 DEF Start, CallsOK
    <2>2. \A s \in Stripes : stripe[s] \in Tasks \union {None}
      BY DEF CallsOK
    <2>3. LocksHeldOnlyToPublish'
      BY <2>1, <2>2 DEF LockInv, LocksHeldOnlyToPublish, locks, CallsOK
    <2>4. LocksMatchPhase'
      BY <2>1 DEF LockInv, LocksMatchPhase, Striped, Guarded, Fitted, locks
    <2>5. NoRedundantPublication'
      BY <2>1 DEF LockInv, NoRedundantPublication
    <2>. QED
      BY <2>3, <2>4, <2>5 DEF LockInv
  <1>. QED
    BY <1>1, <1>2, <1>3, <1>4, <1>5, <1>6 DEF Next, Finished

\* A closed cache is idle: only Open and Disturb step without a process.
LEMMA StepIdle ==
    ASSUME ClosedIsIdle, [Next]_vars
    PROVE  ClosedIsIdle'
  <1>1. CASE Open
    BY <1>1 DEF Open, ClosedIsIdle
  <1>2. CASE Crash
    BY <1>2 DEF Crash, ClosedIsIdle
  <1>3. CASE UNCHANGED vars
    BY <1>3 DEF vars, index, ClosedIsIdle
  <1>4. ASSUME NEW k \in Keys, Disturb(k) PROVE ClosedIsIdle'
    BY <1>4 DEF Disturb, index, ClosedIsIdle
  <1>5. ASSUME NEW t \in Tasks, TaskStep(t) PROVE ClosedIsIdle'
    <2>1. up /\ up' = up
      BY <1>5 DEF TaskStep, Read, Touch, Compute, Bypass, ComputeFails, LockStripe, Reread,
                  Retouch, Prepare, LockInventory, EvictOne, Rename, Commit, WriteSkipped,
                  SyncFails, Goto, Running
    <2>. QED
      BY <2>1 DEF ClosedIsIdle
  <1>6. ASSUME NEW t \in Tasks, NEW th \in Threads, Start(th, t) PROVE ClosedIsIdle'
    BY <1>6 DEF Start, ClosedIsIdle
  <1>. QED
    BY <1>1, <1>2, <1>3, <1>4, <1>5, <1>6 DEF Next, Finished

-----------------------------------------------------------------------------
(* Theorems of the first layer. *)

\* The inductive invariant holds in every reachable state.
THEOREM CacheSafe == Spec => []CacheInv
  <1>1. Init => CacheInv
    <2>. SUFFICES ASSUME Init PROVE CacheInv
      OBVIOUS
    <2>1. CallsOK /\ IndexOK
      BY InitShapes
    <2>2. LockInv
      BY <2>1, IdleLocks DEF Init
    <2>3. ClosedIsIdle
      BY DEF Init, ClosedIsIdle
    <2>. QED
      BY <2>1, <2>2, <2>3, Shapes DEF CacheInv
  <1>2. CacheInv /\ [Next]_vars => CacheInv'
    <2>. SUFFICES ASSUME CacheInv, [Next]_vars PROVE CacheInv'
      OBVIOUS
    <2>1. CallsOK /\ IndexOK /\ LockInv /\ ClosedIsIdle
      BY Shapes DEF CacheInv
    <2>2. CallsOK' /\ IndexOK'
      BY <2>1, StepShapes
    <2>3. LockInv' /\ ClosedIsIdle'
      BY <2>1, <2>2, StepLocks, StepIdle
    <2>4. TypeOK' /\ InventoryAgrees'
      BY <2>2 DEF TypeOK, CallsOK, IndexOK
    <2>. QED
      BY <2>3, <2>4 DEF CacheInv
  <1>. QED
    BY <1>1, <1>2, PTL DEF Spec

\* The variables keep their shapes; in particular the byte count of the
\* inventory never goes below zero.
THEOREM CacheTypes == Spec => []TypeOK
  <1>1. CacheInv => TypeOK
    BY DEF CacheInv
  <1>. QED
    BY <1>1, CacheSafe, PTL

\* The three parts of the inventory describe the same entries after every
\* touch, eviction, commit and open.
THEOREM InventorySafe == Spec => []InventoryAgrees
  <1>1. CacheInv => InventoryAgrees
    BY DEF CacheInv
  <1>. QED
    BY <1>1, CacheSafe, PTL

\* Whatever way a call ends, its locks are given back, and none is held while
\* it decompiles.
THEOREM LocksSafe == Spec => []LocksHeldOnlyToPublish
  <1>1. CacheInv => LocksHeldOnlyToPublish
    BY DEF CacheInv, LockInv
  <1>. QED
    BY <1>1, CacheSafe, PTL

\* A publication never replaces a valid entry.
THEOREM PublishedOnce == Spec => []NoRedundantPublication
  <1>1. CacheInv => NoRedundantPublication
    BY DEF CacheInv, LockInv
  <1>. QED
    BY <1>1, CacheSafe, PTL

-----------------------------------------------------------------------------
(* Limits. *)

\* What the eviction loop tests is whether the recorded entries and the new
\* one fit together.
LEMMA RoomMeansFits ==
    ASSUME IndexOK, NEW k \in Keys
    PROVE  /\ Recorded \union {k} \in SUBSET Keys
           /\ bytes - (IF k \in Recorded THEN Size[k] ELSE 0) + Size[k]
                = BytesOf(Recorded \union {k})
           /\ ~NeedsRoom(k) <=> Fits(Recorded \union {k})
  <1>1. Recorded \in SUBSET Keys /\ Recorded \union {k} \in SUBSET Keys
    BY DEF Recorded
  <1>2. bytes = BytesOf(Recorded) /\ BytesOf(Recorded) \in Nat /\ Size[k] \in Nat
    BY <1>1, BytesType, EntryBytes DEF IndexOK, InventoryAgrees
  <1>3. BytesOf(Recorded \union {k}) \in Nat /\ Cardinality(Recorded \union {k}) \in Nat
    BY <1>1, BytesType
  <1>4. bytes - (IF k \in Recorded THEN Size[k] ELSE 0) + Size[k] = BytesOf(Recorded \union {k})
    <2>1. CASE k \in Recorded
      <3>1. Recorded \union {k} = Recorded
        BY <2>1
      <3>2. (bytes - Size[k]) + Size[k] = bytes
        BY <1>2
      <3>. QED
        BY <1>2, <2>1, <3>1, <3>2
    <2>2. CASE k \notin Recorded
      <3>1. BytesOf(Recorded \union {k}) = BytesOf(Recorded) + Size[k]
        BY <1>1, <2>2, BytesAdd
      <3>2. bytes - 0 = bytes
        BY <1>2
      <3>. QED
        BY <1>2, <2>2, <3>1, <3>2
    <2>. QED
      BY <2>1, <2>2
  <1>5. NeedsRoom(k) <=> \/ BytesOf(Recorded \union {k}) > MaxBytes
                         \/ Cardinality(Recorded \union {k}) > CountLimit
    BY <1>4 DEF NeedsRoom
  <1>6. MaxBytes \in Nat /\ CountLimit \in Nat
    BY CacheAssumption
  <1>. QED
    BY <1>1, <1>3, <1>4, <1>5, <1>6 DEF Fits

\* Fewer entries fit as well.
LEMMA FitsSubset ==
    ASSUME NEW S \in SUBSET Keys, NEW T \in SUBSET S, Fits(S)
    PROVE  Fits(T)
  <1>1. T \in SUBSET Keys
    OBVIOUS
  <1>2. BytesOf(T) <= BytesOf(S) /\ Cardinality(T) <= Cardinality(S)
    BY BytesSubset
  <1>3. /\ BytesOf(T) \in Nat /\ BytesOf(S) \in Nat
        /\ Cardinality(T) \in Nat /\ Cardinality(S) \in Nat
    BY <1>1, BytesType
  <1>4. MaxBytes \in Nat /\ CountLimit \in Nat
    BY CacheAssumption
  <1>. QED
    BY <1>2, <1>3, <1>4 DEF Fits

\* A step that keeps the inventory and brings no file, with a task that is not
\* at "renamed" before or after.
LEMMA SameAccounts ==
    ASSUME CallsOK, Accounted, NEW t \in Tasks, NEW from, NEW to \in Phases,
           Goto(t, from, to), from # "renamed", to # "renamed",
           Recorded' = Recorded, files' = files
    PROVE  Accounted'
  <1>1. /\ phase[t] = from /\ phase'[t] = to /\ up' = up
        /\ \A u \in Tasks \ {t} : phase'[u] = phase[u]
    BY GotoKeeps
  <1>2. \A u \in Tasks : phase'[u] = "renamed" <=> phase[u] = "renamed"
    BY <1>1
  <1>3. OnDisk' = OnDisk
    BY DEF OnDisk
  <1>4. Fits(Recorded)' = Fits(Recorded)
    BY DEF Fits, BytesOf
  <1>5. \A u \in Tasks : Fits(Recorded \union {KeyOf[u]})' = Fits(Recorded \union {KeyOf[u]})
    BY DEF Fits, BytesOf
  <1>. QED
    BY <1>1, <1>2, <1>3, <1>4, <1>5 DEF Accounted

\* The steps of a task keep the accounts when directory syncs succeed.
LEMMA TaskAccounts ==
    ASSUME CallsOK, IndexOK, LockInv, Accounted, ~SyncMayFail, NEW t \in Tasks, TaskStep(t)
    PROVE  Accounted'
  <1>k. \A u \in Tasks : KeyOf[u] \in Keys
    BY CacheAssumption
  <1>p. /\ {"todo", "reading", "touching", "computing", "locking", "rereading"} \subseteq Phases
        /\ {"retouching", "preparing", "guarding", "room", "renamed", "done"} \subseteq Phases
    BY DEF Phases
  <1>1. CASE Read(t)
    <2>1. PICK to \in {"touching", "computing"} : Goto(t, "reading", to)
      BY <1>1 DEF Read
    <2>2. Recorded' = Recorded /\ files' = files
      BY <1>1, IndexKept DEF Read
    <2>. QED
      BY <1>p, <2>1, <2>2, SameAccounts
  <1>2. CASE Touch(t)
    <2>1. Goto(t, "touching", "done") /\ Recorded' = Recorded /\ files' = files
      BY <1>2, <1>k, TouchKeeps DEF Touch
    <2>. QED
      BY <1>p, <2>1, SameAccounts
  <1>3. CASE Compute(t)
    <2>1. Goto(t, "computing", "locking") /\ Recorded' = Recorded /\ files' = files
      BY <1>3, IndexKept DEF Compute
    <2>. QED
      BY <1>p, <2>1, SameAccounts
  <1>4. CASE Bypass(t) \/ ComputeFails(t)
    <2>1. Goto(t, "computing", "done") /\ Recorded' = Recorded /\ files' = files
      BY <1>4, IndexKept DEF Bypass, ComputeFails
    <2>. QED
      BY <1>p, <2>1, SameAccounts
  <1>5. CASE LockStripe(t)
    <2>1. Goto(t, "locking", "rereading") /\ Recorded' = Recorded /\ files' = files
      BY <1>5, IndexKept DEF LockStripe
    <2>. QED
      BY <1>p, <2>1, SameAccounts
  <1>6. CASE Reread(t)
    <2>1. PICK to \in {"retouching", "preparing"} : Goto(t, "rereading", to)
      BY <1>6 DEF Reread
    <2>2. Recorded' = Recorded /\ files' = files
      BY <1>6, IndexKept DEF Reread
    <2>. QED
      BY <1>p, <2>1, <2>2, SameAccounts
  <1>7. CASE Retouch(t)
    <2>1. Goto(t, "retouching", "done") /\ Recorded' = Recorded /\ files' = files
      BY <1>7, <1>k, TouchKeeps DEF Retouch
    <2>. QED
      BY <1>p, <2>1, SameAccounts
  <1>8. CASE Prepare(t)
    <2>1. Goto(t, "preparing", "guarding") /\ Recorded' = Recorded /\ files' = files
      BY <1>8, IndexKept DEF Prepare
    <2>. QED
      BY <1>p, <2>1, SameAccounts
  <1>9. CASE LockInventory(t)
    <2>1. Goto(t, "guarding", "room") /\ Recorded' = Recorded /\ files' = files
      BY <1>9, IndexKept DEF LockInventory
    <2>. QED
      BY <1>p, <2>1, SameAccounts
  <1>10. CASE EvictOne(t)
    <2>1. /\ phase[t] = "room" /\ phase'[t] = "room" /\ up' = up
          /\ \A u \in Tasks \ {t} : phase'[u] = phase[u]
      BY <1>10, <1>p, GotoKeeps DEF EvictOne
    <2>2. \A u \in Tasks : phase'[u] # "renamed"
      BY <2>1 DEF LockInv, LocksMatchPhase, Guarded
    <2>3. \A u \in Tasks : phase[u] # "renamed"
      BY <2>1, <2>2
    <2>4. PICK v \in Recorded :
            files' = [files EXCEPT ![v] = "absent"] /\ Recorded' = Recorded \ {v}
      BY <1>10, EvictKeeps
    <2>5. Recorded \in SUBSET Keys
      BY DEF Recorded
    <2>6. Fits(Recorded \ {v})
      BY <2>5, FitsSubset DEF Accounted
    <2>7. Fits(Recorded)'
      BY <2>4, <2>6 DEF Fits, BytesOf
    <2>8. OnDisk' = OnDisk \ {v}
      BY <2>4, <2>5 DEF OnDisk, CallsOK
    <2>9. up => \A k \in OnDisk : k \in Recorded
      BY <2>3 DEF Accounted
    <2>. QED
      BY <2>1, <2>2, <2>4, <2>7, <2>8, <2>9 DEF Accounted
  <1>11. CASE Rename(t)
    <2>1. /\ phase[t] = "room" /\ phase'[t] = "renamed" /\ up' = up
          /\ \A u \in Tasks \ {t} : phase'[u] = phase[u]
      BY <1>11, <1>p, GotoKeeps DEF Rename
    <2>2. ~NeedsRoom(KeyOf[t]) /\ files' = [files EXCEPT ![KeyOf[t]] = "good"]
      BY <1>11 DEF Rename
    <2>3. Recorded' = Recorded
      BY <1>11, IndexKept DEF Rename
    <2>4. Fits(Recorded \union {KeyOf[t]})
      BY <1>k, <2>2, RoomMeansFits
    <2>5. \A u \in Tasks : phase'[u] = "renamed" => u = t
      BY <2>1 DEF LockInv, LocksMatchPhase, Guarded
    <2>6. \A u \in Tasks : phase[u] # "renamed"
      BY <2>1, <2>5
    <2>7. OnDisk' \subseteq OnDisk \union {KeyOf[t]}
      BY <2>2 DEF OnDisk, CallsOK
    <2>8. Fits(Recorded)' /\ Fits(Recorded \union {KeyOf[t]})'
      BY <2>3, <2>4 DEF Accounted, Fits, BytesOf
    <2>. QED
      BY <2>1, <2>3, <2>5, <2>6, <2>7, <2>8 DEF Accounted
  <1>12. CASE Commit(t)
    <2>1. /\ phase[t] = "renamed" /\ phase'[t] = "done" /\ up' = up
          /\ \A u \in Tasks \ {t} : phase'[u] = phase[u]
      BY <1>12, <1>p, GotoKeeps DEF Commit
    <2>2. Recorded' = Recorded \union {KeyOf[t]} /\ files' = files
      BY <1>12, CommitKeeps DEF Commit
    <2>3. Fits(Recorded)'
      BY <2>1, <2>2 DEF Accounted, Fits, BytesOf
    <2>4. \A u \in Tasks : phase[u] = "renamed" => u = t
      BY <2>1 DEF LockInv, LocksMatchPhase, Guarded
    <2>5. \A u \in Tasks : phase'[u] # "renamed"
      BY <2>1, <2>4
    <2>6. OnDisk' = OnDisk
      BY <2>2 DEF OnDisk
    <2>. QED
      BY <2>1, <2>2, <2>3, <2>4, <2>5, <2>6 DEF Accounted
  <1>13. CASE WriteSkipped(t)
    <2>1. PICK from \in {"preparing", "room"} : Goto(t, from, "done")
      BY <1>13 DEF WriteSkipped
    <2>2. Recorded' = Recorded /\ files' = files
      BY <1>13, IndexKept DEF WriteSkipped
    <2>. QED
      BY <1>p, <2>1, <2>2, SameAccounts
  <1>14. CASE SyncFails(t)
    BY <1>14 DEF SyncFails
  <1>. QED
    BY <1>1, <1>2, <1>3, <1>4, <1>5, <1>6, <1>7, <1>8, <1>9, <1>10, <1>11, <1>12, <1>13, <1>14
       DEF TaskStep

\* Nothing recorded and nothing under way.
LEMMA EmptyAccounts ==
    ASSUME NEW S, S = {} PROVE Fits(S)
  <1>1. BytesOf(S) = 0 /\ Cardinality(S) = 0
    BY NoBytes, FS_EmptySet
  <1>. QED
    BY <1>1, CacheAssumption DEF Fits

\* All steps keep the accounts when directory syncs succeed.
LEMMA StepAccounts ==
    ASSUME CacheInv, CacheInv', Accounted, ~SyncMayFail, [Next]_vars
    PROVE  Accounted'
  <1>i. CallsOK /\ IndexOK /\ LockInv /\ ClosedIsIdle
    BY Shapes DEF CacheInv
  <1>1. CASE Open
    <2>1. \A t \in Tasks : phase'[t] # "renamed"
      BY <1>i, <1>1 DEF Open, ClosedIsIdle
    <2>2. /\ Recorded' \in SUBSET OnDisk /\ OnDisk' = Recorded'
          /\ BytesOf(Recorded') <= MaxBytes
      BY <1>i, <1>1, OpenKeeps
    <2>3. OnDisk \in SUBSET Keys /\ Cardinality(OnDisk) <= CountLimit
      BY <1>1 DEF Open, OnDisk
    <2>4. Cardinality(Recorded') <= Cardinality(OnDisk)
      BY <2>2, <2>3, BytesSubset
    <2>5. Cardinality(Recorded') \in Nat /\ Cardinality(OnDisk) \in Nat /\ CountLimit \in Nat
      BY <2>2, <2>3, BytesType, CacheAssumption
    <2>6. Fits(Recorded)'
      BY <2>2, <2>3, <2>4, <2>5 DEF Fits, BytesOf
    <2>. QED
      BY <2>1, <2>2, <2>6 DEF Accounted
  <1>2. CASE Crash
    <2>1. Recorded' = {} /\ ~up' /\ \A t \in Tasks : phase'[t] # "renamed"
      BY <1>2 DEF Crash, Recorded
    <2>2. Fits(Recorded')
      BY <2>1, EmptyAccounts
    <2>3. Fits(Recorded)'
      BY <2>2 DEF Fits, BytesOf
    <2>. QED
      BY <2>1, <2>3 DEF Accounted
  <1>3. CASE UNCHANGED vars
    BY <1>3 DEF vars, index, Accounted, Fits, BytesOf, Recorded, OnDisk
  <1>4. ASSUME NEW k \in Keys, Disturb(k) PROVE Accounted'
    <2>1. UNCHANGED <<phase, up>> /\ Recorded' = Recorded
      BY <1>4 DEF Disturb, index, Recorded
    <2>2. OnDisk' \subseteq OnDisk
      BY <1>i, <1>4 DEF Disturb, OnDisk, CallsOK
    <2>. QED
      BY <2>1, <2>2 DEF Accounted, Fits, BytesOf
  <1>5. ASSUME NEW t \in Tasks, TaskStep(t) PROVE Accounted'
    BY <1>i, <1>5, TaskAccounts
  <1>6. ASSUME NEW t \in Tasks, NEW th \in Threads, Start(th, t) PROVE Accounted'
    <2>1. UNCHANGED up /\ Recorded' = Recorded /\ OnDisk' = OnDisk
      BY <1>6 DEF Start, index, Recorded, OnDisk
    <2>2. \A u \in Tasks : phase'[u] = "renamed" <=> phase[u] = "renamed"
      BY <1>i, <1>6 DEF Start, CallsOK
    <2>. QED
      BY <2>1, <2>2 DEF Accounted, Fits, BytesOf
  <1>. QED
    BY <1>1, <1>2, <1>3, <1>4, <1>5, <1>6 DEF Next, Finished

\* What is on disk fits as soon as the accounts are in order.
LEMMA AccountsBound ==
    ASSUME CacheInv, Accounted
    PROVE  DiskWithinLimits
  <1>i. CallsOK /\ IndexOK /\ LockInv
    BY Shapes DEF CacheInv
  <1>k. \A u \in Tasks : KeyOf[u] \in Keys
    BY CacheAssumption
  <1>1. SUFFICES ASSUME up PROVE Fits(OnDisk)
    BY DEF DiskWithinLimits, Fits
  <1>2. CASE \E t \in Tasks : phase[t] = "renamed"
    <2>1. PICK t \in Tasks : phase[t] = "renamed"
      BY <1>2
    <2>2. \A u \in Tasks : phase[u] = "renamed" => u = t
      BY <1>i, <2>1 DEF LockInv, LocksMatchPhase, Guarded
    <2>3. OnDisk \subseteq Recorded \union {KeyOf[t]}
      BY <1>1, <2>2 DEF Accounted
    <2>4. Fits(Recorded \union {KeyOf[t]}) /\ Recorded \union {KeyOf[t]} \in SUBSET Keys
      BY <1>k, <2>1 DEF Accounted, Recorded
    <2>. QED
      BY <2>3, <2>4, FitsSubset
  <1>3. CASE ~ \E t \in Tasks : phase[t] = "renamed"
    <2>1. OnDisk \subseteq Recorded /\ Fits(Recorded) /\ Recorded \in SUBSET Keys
      BY <1>1, <1>3 DEF Accounted, Recorded
    <2>. QED
      BY <2>1, FitsSubset
  <1>. QED
    BY <1>2, <1>3

-----------------------------------------------------------------------------
(* Theorems of the second layer. *)

\* When directory syncs succeed, the entries on disk keep to the quota and to
\* the entry limit at every moment.
THEOREM QuotaSafe ==
    ASSUME ~SyncMayFail
    PROVE  Spec => []DiskWithinLimits
  <1>1. Init => Accounted
    <2>. SUFFICES ASSUME Init PROVE Accounted
      OBVIOUS
    <2>1. Recorded = {} /\ ~up /\ \A t \in Tasks : phase[t] # "renamed"
      BY DEF Init, Recorded
    <2>. QED
      BY <2>1, EmptyAccounts DEF Accounted
  <1>2. CacheInv /\ CacheInv' /\ Accounted /\ [Next]_vars => Accounted'
    BY StepAccounts
  <1>3. CacheInv /\ Accounted => DiskWithinLimits
    BY AccountsBound
  <1>. QED
    BY <1>1, <1>2, <1>3, CacheSafe, PTL DEF Spec

\* The error "cache quota cannot be satisfied" never happens: while a write
\* needs room there is an entry other than its own to evict.
THEOREM RoomCanBeMade == Spec => []QuotaSatisfiable
  <1>1. CacheInv => QuotaSatisfiable
    <2>. SUFFICES ASSUME CacheInv, NEW t \in Tasks, phase[t] = "room",
                         Victims(KeyOf[t]) = {}
                  PROVE  ~NeedsRoom(KeyOf[t])
      BY DEF QuotaSatisfiable
    <2>i. IndexOK /\ LockInv
      BY Shapes DEF CacheInv
    <2>k. KeyOf[t] \in Keys
      BY CacheAssumption
    <2>1. Recorded \union {KeyOf[t]} = {KeyOf[t]}
      <3>1. ASSUME NEW k \in Recorded PROVE k = KeyOf[t]
        <4>1. <<records[k], k>> \in recency
          BY <2>i DEF IndexOK, InventoryAgrees
        <4>. QED
          BY <4>1 DEF Victims
      <3>. QED
        BY <3>1
    <2>2. Size[KeyOf[t]] <= MaxBytes
      BY <2>i DEF LockInv, LocksMatchPhase, Fitted
    <2>3. {} \in SUBSET Keys /\ {} \union {KeyOf[t]} = {KeyOf[t]}
      OBVIOUS
    <2>4. BytesOf({KeyOf[t]}) = 0 + Size[KeyOf[t]] /\ Cardinality({KeyOf[t]}) = 0 + 1
      BY <2>k, <2>3, BytesAdd, NoBytes, FS_EmptySet
    <2>5. Size[KeyOf[t]] \in Nat
      BY <2>k, EntryBytes
    <2>6. Fits({KeyOf[t]})
      BY <2>2, <2>4, <2>5, CacheAssumption DEF Fits
    <2>. QED
      BY <2>i, <2>k, <2>1, <2>6, RoomMeansFits
  <1>. QED
    BY <1>1, CacheSafe, PTL
=============================================================================
