---------------------------- MODULE BatchProofs ----------------------------
(***************************************************************************)
(* Requests of the wasm worker of any length, over any bytecodes and names *)
(* and with any limits on what it keeps; and the executor clients, for any *)
(* scripts, chunk size and number of attempts; and the web server's batch  *)
(* requests, for any body.                                                 *)
(***************************************************************************)
EXTENDS WorkerBatch, BatchClient, BatchRequest, SequenceTheorems, FiniteSetTheorems,
        NaturalsInduction, TLAPS

(***************************************************************************)
(* The worker.  That a copied result is the script's own needs to be known *)
(* of the map too: each of its keys names an earlier result, of a script   *)
(* with that very key.                                                     *)
(***************************************************************************)

Script == [encoded : Bytecodes, name : Names, size : Sizes]
WorkerOutcomes == {Execute(e, n) : e \in Bytecodes, n \in Names}
WorkerResult == [index : Nat, outcome : WorkerOutcomes]

WorkerTypeOK ==
    /\ scripts \in Seq(Script)
    /\ outcomes \in Seq(WorkerResult)
    /\ Len(outcomes) <= Len(scripts)
    /\ keyBytes \in Nat
    /\ IsFiniteSet(DOMAIN contexts)

\* What the map knows of a key is an earlier result of a script with that key.
ContextsPoint ==
    \A k \in DOMAIN contexts : contexts[k] \in 1..Len(outcomes) /\ Key(contexts[k]) = k

WorkerIInv == WorkerTypeOK /\ ContextsPoint /\ SameAsFresh /\ RetentionBounded

LEMMA WorkerInitIInv == WorkerInit => WorkerIInv
  <1> SUFFICES ASSUME WorkerInit PROVE WorkerIInv
    OBVIOUS
  <1>1. scripts \in Seq(Script)
    <2>1. PICK n \in 0..Length : scripts \in [1..n -> Script]
      BY DEF WorkerInit, Script
    <2> QED BY <2>1, WorkerAssumption
  <1>2. Len(outcomes) = 0 /\ DOMAIN contexts = {} /\ keyBytes = 0 /\ outcomes \in Seq(WorkerResult)
    BY DEF WorkerInit
  <1>3. IsFiniteSet(DOMAIN contexts) /\ Cardinality(DOMAIN contexts) = 0
    BY <1>2, FS_EmptySet
  <1>4. Len(scripts) \in Nat
    BY <1>1
  <1> QED BY <1>1, <1>2, <1>3, <1>4, WorkerAssumption
          DEF WorkerIInv, WorkerTypeOK, ContextsPoint, SameAsFresh, RetentionBounded

\* The next script, and what appending its result does.
LEMMA Appended ==
    ASSUME WorkerIInv, NEW i, i = Len(outcomes) + 1, i <= Len(scripts), NEW o \in WorkerOutcomes,
           UNCHANGED scripts, outcomes' = Append(outcomes, [index |-> i, outcome |-> o])
    PROVE  /\ i \in 1..Len(scripts) /\ scripts[i] \in Script
           /\ outcomes' \in Seq(WorkerResult)
           /\ Len(outcomes') = i
           /\ outcomes'[i] = [index |-> i, outcome |-> o]
           /\ \A j \in 1..Len(outcomes) : outcomes'[j] = outcomes[j]
  BY DEF WorkerIInv, WorkerTypeOK, WorkerResult

LEMMA CopyIInv == WorkerIInv /\ Copy => WorkerIInv'
  <1> SUFFICES ASSUME WorkerIInv, Copy PROVE WorkerIInv'
    OBVIOUS
  <1> DEFINE i == Len(outcomes) + 1
             c == contexts[Key(i)]
             o == Execute(scripts[i].encoded, scripts[i].name)
  <1>1. /\ i <= Len(scripts)
        /\ Key(i) \in DOMAIN contexts
        /\ outcomes' = Append(outcomes, [index |-> i, outcome |-> outcomes[c].outcome])
        /\ UNCHANGED <<scripts, contexts, keyBytes>>
    BY DEF Copy
  <1>2. c \in 1..Len(outcomes) /\ Key(c) = Key(i)
    BY <1>1 DEF WorkerIInv, ContextsPoint
  <1>3. i \in 1..Len(scripts) /\ scripts[i] \in Script
    BY <1>1 DEF WorkerIInv, WorkerTypeOK
  <1>4. o \in WorkerOutcomes
    BY <1>3 DEF Script, WorkerOutcomes
  <1>5. outcomes[c].outcome = o
    <2>1. outcomes[c] = [index |-> c, outcome |-> Execute(scripts[c].encoded, scripts[c].name)]
      BY <1>2 DEF WorkerIInv, SameAsFresh
    <2>2. scripts[c].encoded = scripts[i].encoded /\ scripts[c].name = scripts[i].name
      BY <1>2 DEF Key
    <2> QED BY <2>1, <2>2
  <1>6. outcomes' = Append(outcomes, [index |-> i, outcome |-> o])
    BY <1>1, <1>5
  <1> HIDE DEF o
  <1>7. /\ outcomes' \in Seq(WorkerResult) /\ Len(outcomes') = i
        /\ outcomes'[i] = [index |-> i, outcome |-> o]
        /\ \A j \in 1..Len(outcomes) : outcomes'[j] = outcomes[j]
    BY <1>1, <1>4, <1>6, Appended
  <1>8. Len(outcomes) \in Nat
    BY DEF WorkerIInv, WorkerTypeOK
  <1>9. WorkerTypeOK' /\ ContextsPoint' /\ RetentionBounded'
    BY <1>1, <1>7, <1>8 DEF WorkerIInv, WorkerTypeOK, ContextsPoint, RetentionBounded, Key
  <1>10. SameAsFresh'
    BY <1>1, <1>7, <1>8 DEF WorkerIInv, SameAsFresh, o
  <1> QED BY <1>9, <1>10 DEF WorkerIInv

LEMMA RunIInv == WorkerIInv /\ Run => WorkerIInv'
  <1> SUFFICES ASSUME WorkerIInv, Run PROVE WorkerIInv'
    OBVIOUS
  <1> DEFINE i == Len(outcomes) + 1
             o == Execute(scripts[i].encoded, scripts[i].name)
             keep == reuse /\ CanRetain(i)
  <1>1. /\ i <= Len(scripts)
        /\ ~(reuse /\ Key(i) \in DOMAIN contexts)
        /\ outcomes' = Append(outcomes, [index |-> i, outcome |-> o])
        /\ contexts' = IF keep THEN [k \in DOMAIN contexts \cup {Key(i)} |->
                                       IF k = Key(i) THEN i ELSE contexts[k]] ELSE contexts
        /\ keyBytes' = IF keep THEN keyBytes + scripts[i].size ELSE keyBytes
        /\ UNCHANGED scripts
    BY DEF Run
  <1>2. i \in 1..Len(scripts) /\ scripts[i] \in Script /\ Len(outcomes) \in Nat
    BY <1>1 DEF WorkerIInv, WorkerTypeOK
  <1>3. o \in WorkerOutcomes
    BY <1>2 DEF Script, WorkerOutcomes
  <1> HIDE DEF o
  <1>4. /\ outcomes' \in Seq(WorkerResult) /\ Len(outcomes') = i
        /\ outcomes'[i] = [index |-> i, outcome |-> o]
        /\ \A j \in 1..Len(outcomes) : outcomes'[j] = outcomes[j]
    BY <1>1, <1>3, Appended
  <1>5. SameAsFresh'
    BY <1>1, <1>2, <1>4 DEF WorkerIInv, SameAsFresh, o
  <1>6. ContextsPoint'
    BY <1>1, <1>2, <1>4 DEF WorkerIInv, ContextsPoint, Key
  <1>7. /\ IsFiniteSet(DOMAIN contexts') /\ keyBytes' \in Nat
        /\ Cardinality(DOMAIN contexts') <= MaxKeys /\ keyBytes' <= MaxKeyBytes
    <2>1. CASE keep
      <3>1. scripts[i].size \in Nat /\ scripts[i].size <= MaxKeyBytes - keyBytes
        BY <1>2, <2>1, WorkerAssumption DEF Script, CanRetain
      <3>2. DOMAIN contexts' = DOMAIN contexts \cup {Key(i)} /\ Key(i) \notin DOMAIN contexts
        BY <1>1, <2>1
      <3>3. IsFiniteSet(DOMAIN contexts)
        BY DEF WorkerIInv, WorkerTypeOK
      <3>4. /\ IsFiniteSet(DOMAIN contexts')
            /\ Cardinality(DOMAIN contexts') = Cardinality(DOMAIN contexts) + 1
            /\ Cardinality(DOMAIN contexts) \in Nat
        BY <3>2, <3>3, FS_AddElement, FS_CardinalityType
      <3>5. Cardinality(DOMAIN contexts) < MaxKeys
        BY <2>1 DEF CanRetain
      <3> QED BY <1>1, <2>1, <3>1, <3>4, <3>5, WorkerAssumption DEF WorkerIInv, WorkerTypeOK
    <2>2. CASE ~keep
      BY <1>1, <2>2 DEF WorkerIInv, WorkerTypeOK, RetentionBounded
    <2> QED BY <2>1, <2>2
  <1> QED BY <1>1, <1>2, <1>4, <1>5, <1>6, <1>7 DEF WorkerIInv, WorkerTypeOK, RetentionBounded

LEMMA WorkerNextIInv == WorkerIInv /\ [WorkerNext]_workerVars => WorkerIInv'
  <1>1. ASSUME WorkerIInv, UNCHANGED workerVars PROVE WorkerIInv'
    BY <1>1 DEF WorkerIInv, WorkerTypeOK, ContextsPoint, SameAsFresh, RetentionBounded, Key, workerVars
  <1> QED BY <1>1, CopyIInv, RunIInv DEF WorkerNext

\* The invariant holds in every reachable state.
THEOREM WorkerInvariant == WorkerSpec => []WorkerIInv
  BY WorkerInitIInv, WorkerNextIInv, PTL DEF WorkerSpec

\* Whatever the worker copies, each script of a request is answered with what
\* its own bytecode and name give (decompile_batch_items).
THEOREM OwnResults == WorkerSpec => []SameAsFresh
  <1>1. WorkerIInv => SameAsFresh
    BY DEF WorkerIInv
  <1> QED BY <1>1, WorkerInvariant, PTL

\* The map of what was seen stays within its two limits.
THEOREM RetentionIsBounded == WorkerSpec => []RetentionBounded
  <1>1. WorkerIInv => RetentionBounded
    BY DEF WorkerIInv
  <1> QED BY <1>1, WorkerInvariant, PTL

(***************************************************************************)
(* The clients.  That the hook never contradicts a chunk's answer rests on *)
(* the order of the phases: no hook call returns before the last chunk is  *)
(* done, and a call that posts its script does so because that script is   *)
(* not cached, which it then stays.                                        *)
(***************************************************************************)

\* The cache holds an instance's own outcome or nothing, and so do the answers
\* of the hook, apart from what the client says for itself.
OwnEntries ==
    \A i \in Instances :
        /\ cache[i] \in {Missing, Outcome(i)}
        /\ answer[i] \in {Missing, Refused, NoBytecode, Outcome(i)}

\* While chunks are sent no hook call has returned, and a post of one script is
\* for one that is not cached.
Phased ==
    /\ phase = "walk" => first = 1
    /\ phase = "chunk" => first <= Len(entries)
    /\ phase \in {"walk", "chunk"} => \A i \in Instances : answer[i] = Missing
    /\ \A i \in asked : cache[i] = Missing
    /\ asked # {} => phase = "single"

ClientShapes ==
    /\ entries \in Seq(Instances)
    /\ first \in Nat \ {0} /\ attempt \in 0..(MaxAttempts - 1)
    /\ asked \in SUBSET Instances
    /\ DOMAIN cache = Instances /\ cache = [i \in Instances |-> cache[i]]
    /\ DOMAIN answer = Instances /\ answer = [i \in Instances |-> answer[i]]
    /\ phase \in {"walk", "chunk", "idle", "single", "ended"}

ClientIInv == ClientShapes /\ OwnEntries /\ Phased /\ OwnAnswer

LEMMA ClientInitIInv == ClientInit => ClientIInv
  BY ClientAssumption
     DEF ClientInit, ClientIInv, ClientShapes, OwnEntries, Phased, OwnAnswer, Missing

\* The walk lists instances.
LEMMA WalkIsSequence ==
    ASSUME NEW s \in SetToAllKPermutations(Instances) PROVE s \in Seq(Instances)
  <1>1. PICK S \in SUBSET Instances : s \in SetToSeqs(S)
    BY DEF SetToAllKPermutations
  <1>2. s \in [1..Cardinality(S) -> S]
    BY <1>1 DEF SetToSeqs
  <1>3. Cardinality(S) \in Nat
    BY ClientAssumption, FS_Subset, FS_CardinalityType
  <1> QED BY <1>2, <1>3

\* What a chunk's answers leave in the cache: an instance's own outcome, or
\* what was there before.
LEMMA AnswersAreOwn ==
    ASSUME ClientShapes, phase = "chunk", first <= Len(entries), ChunkAnswered
    PROVE  /\ cache' = [i \in Instances |-> cache'[i]]
           /\ \A i \in Instances : cache'[i] \in {cache[i], Outcome(i)}
  <1> DEFINE results == Results(Chunk)
             Brings(k, i) == EntryOf(results[k]) \in 1..Len(Chunk) /\ Chunk[EntryOf(results[k])] = i
  <1>1. Len(Chunk) \in Nat /\ Chunk \in Seq(Instances)
    <2> DEFINE last == IF first + ChunkSize - 1 < Len(entries) THEN first + ChunkSize - 1 ELSE Len(entries)
    <2>1. last \in first..Len(entries) /\ first \in 1..Len(entries)
      BY ClientAssumption DEF ClientShapes
    <2>2. Chunk = SubSeq(entries, first, last)
      BY DEF Chunk
    <2> HIDE DEF last
    <2>3. SubSeq(entries, first, last) \in Seq(Instances)
      BY <2>1, SubSeqProperties DEF ClientShapes
    <2> QED BY <2>2, <2>3
  <1>2. Len(results) = Len(Chunk)
    BY <1>1 DEF Results
  <1>3. \A k \in 1..Len(results) : EntryOf(results[k]) = k /\ results[k].result = Outcome(Chunk[k])
    BY <1>1, <1>2 DEF Results, EntryOf
  <1>4. cache' = [i \in Instances |->
            IF \E k \in 1..Len(results) : Brings(k, i)
            THEN results[CHOOSE k \in 1..Len(results) : Brings(k, i)].result
            ELSE cache[i]]
    BY DEF ChunkAnswered
  <1>5. ASSUME NEW i \in Instances PROVE cache'[i] \in {cache[i], Outcome(i)}
    <2>1. CASE \E k \in 1..Len(results) : Brings(k, i)
      <3> DEFINE c == CHOOSE k \in 1..Len(results) : Brings(k, i)
      <3>1. c \in 1..Len(results) /\ Brings(c, i)
        BY <2>1
      <3> HIDE DEF c
      <3>2. Chunk[c] = i
        BY <1>3, <3>1
      <3>3. results[c].result = Outcome(i)
        BY <1>3, <3>1, <3>2
      <3> QED BY <1>4, <2>1, <3>3 DEF c
    <2>2. CASE ~\E k \in 1..Len(results) : Brings(k, i)
      BY <1>4, <2>2
    <2> QED BY <2>1, <2>2
  <1> QED BY <1>4, <1>5

LEMMA ReadEntriesIInv == ClientIInv /\ ReadEntries => ClientIInv'
  <1> SUFFICES ASSUME ClientIInv, ReadEntries PROVE ClientIInv'
    OBVIOUS
  <1>1. /\ phase = "walk" /\ entries' \in Seq(Instances)
        /\ phase' = IF entries' = <<>> THEN "idle" ELSE "chunk"
        /\ UNCHANGED <<first, attempt, asked, cache, answer>>
    BY WalkIsSequence DEF ReadEntries
  <1>2. ClientShapes' /\ OwnEntries' /\ OwnAnswer'
    BY <1>1 DEF ClientIInv, ClientShapes, OwnEntries, OwnAnswer
  <1>3. first = 1 /\ asked = {}
    BY <1>1 DEF ClientIInv, Phased
  <1>4. entries' # <<>> => 1 <= Len(entries')
    BY <1>1
  <1>5. Phased'
    BY <1>1, <1>3, <1>4 DEF ClientIInv, Phased
  <1> QED BY <1>2, <1>5 DEF ClientIInv

LEMMA ReturnsIInv == ClientIInv /\ Returns => ClientIInv'
  <1> SUFFICES ASSUME ClientIInv, Returns PROVE ClientIInv'
    OBVIOUS
  <1>1. CASE Busy
    <2>1. attempt' \in 0..(MaxAttempts - 1)
      BY <1>1, ClientAssumption DEF Busy, ClientIInv, ClientShapes
    <2> QED BY <1>1, <2>1 DEF Busy, ClientIInv, ClientShapes, OwnEntries, OwnAnswer, Phased
  <1>2. CASE ChunkFailed \/ ChunkAnswered
    <2>1. /\ phase = "chunk" /\ attempt' = 0 /\ first' = first + ChunkSize
          /\ phase' = IF first + ChunkSize <= Len(entries) THEN "chunk" ELSE "idle"
          /\ UNCHANGED <<entries, asked, answer>>
      BY <1>2 DEF ChunkFailed, ChunkAnswered, ChunkDone
    <2>2. first <= Len(entries) /\ asked = {} /\ \A i \in Instances : answer[i] = Missing
      BY <2>1 DEF ClientIInv, Phased
    <2>3. /\ cache' = [i \in Instances |-> cache'[i]]
          /\ \A i \in Instances : cache'[i] \in {cache[i], Outcome(i)}
      BY <1>2, <2>1, <2>2, AnswersAreOwn DEF ClientIInv, ClientShapes, ChunkFailed
    <2>4. ClientShapes'
      BY <2>1, <2>3, ClientAssumption DEF ClientIInv, ClientShapes
    <2>5. OwnEntries'
      BY <2>1, <2>3 DEF ClientIInv, OwnEntries
    <2>6. Phased'
      BY <2>1, <2>2, ClientAssumption DEF ClientIInv, ClientShapes, Phased
    <2>7. OwnAnswer'
      BY <2>1, <2>2 DEF OwnAnswer, Missing
    <2> QED BY <2>4, <2>5, <2>6, <2>7 DEF ClientIInv
  <1>3. CASE SingleDone
    <2>1. PICK i \in asked, reply \in {"answer", "refusal"} :
            answer' = [answer EXCEPT ![i] = IF reply = "answer" THEN Outcome(i) ELSE Refused]
      BY <1>3 DEF SingleDone
    <2>2. /\ phase = "single" /\ asked' = {} /\ attempt' = 0 /\ phase' = "idle"
          /\ UNCHANGED <<entries, first, cache>>
      BY <1>3 DEF SingleDone
    <2>3. i \in Instances /\ cache[i] = Missing
      BY <2>1 DEF ClientIInv, ClientShapes, Phased
    <2>4. /\ answer'[i] \in {Refused, Outcome(i)}
          /\ \A j \in Instances : j # i => answer'[j] = answer[j]
          /\ DOMAIN answer' = Instances /\ answer' = [j \in Instances |-> answer'[j]]
      BY <2>1, <2>3 DEF ClientIInv, ClientShapes
    <2>5. ClientShapes' /\ Phased'
      BY <2>2, <2>4, ClientAssumption DEF ClientIInv, ClientShapes, Phased
    <2>6. OwnEntries'
      BY <2>2, <2>4 DEF ClientIInv, OwnEntries
    <2>7. OwnAnswer'
      BY <2>2, <2>3, <2>4 DEF ClientIInv, OwnAnswer, Outcome, Refused
    <2> QED BY <2>5, <2>6, <2>7 DEF ClientIInv
  <1>4. CASE Throws
    <2>1. /\ attempt' = 0 /\ asked' = {} /\ phase' \in {"ended", "idle"}
          /\ UNCHANGED <<entries, first, cache, answer>>
      BY <1>4 DEF Throws
    <2> QED BY <2>1, ClientAssumption DEF ClientIInv, ClientShapes, OwnEntries, OwnAnswer, Phased
  <1> QED BY <1>1, <1>2, <1>3, <1>4 DEF Returns

LEMMA HookIInv == ClientIInv /\ Hook => ClientIInv'
  <1> SUFFICES ASSUME ClientIInv, NEW i \in Instances, Hit(i) \/ Unreadable(i) \/ Miss(i) PROVE ClientIInv'
    BY DEF Hook
  <1>1. CASE Miss(i)
    <2>1. /\ phase = "idle" /\ cache[i] = Missing /\ asked' = {i} /\ phase' = "single"
          /\ UNCHANGED <<entries, first, attempt, cache, answer>>
      BY <1>1 DEF Miss
    <2> QED BY <2>1 DEF ClientIInv, ClientShapes, OwnEntries, Phased, OwnAnswer
  <1>2. CASE Hit(i) \/ Unreadable(i)
    <2>1. /\ phase = "idle"
          /\ UNCHANGED <<entries, first, attempt, asked, cache, phase>>
          /\ \/ cache[i] # Missing /\ answer' = [answer EXCEPT ![i] = cache[i]]
             \/ cache[i] = Missing /\ answer' = [answer EXCEPT ![i] = NoBytecode]
      BY <1>2 DEF Hit, Unreadable
    <2>2. /\ \/ cache[i] # Missing /\ answer'[i] = cache[i]
             \/ cache[i] = Missing /\ answer'[i] = NoBytecode
          /\ \A j \in Instances : j # i => answer'[j] = answer[j]
          /\ DOMAIN answer' = Instances /\ answer' = [j \in Instances |-> answer'[j]]
      BY <2>1 DEF ClientIInv, ClientShapes
    <2>3. ClientShapes' /\ Phased'
      BY <2>1, <2>2 DEF ClientIInv, ClientShapes, Phased
    <2>4. OwnEntries'
      BY <2>1, <2>2 DEF ClientIInv, OwnEntries
    <2>5. answer'[i].of \subseteq {i}
      <3>1. answer'[i] \in {Missing, NoBytecode, Outcome(i)}
        BY <2>2 DEF ClientIInv, OwnEntries
      <3>2. Missing.of = {} /\ NoBytecode.of = {} /\ Outcome(i).of = {i}
        BY DEF Outcome, NoBytecode, Missing
      <3> QED BY <3>1, <3>2
    <2>6. OwnAnswer'
      BY <2>1, <2>2, <2>5 DEF ClientIInv, OwnAnswer
    <2> QED BY <2>3, <2>4, <2>6 DEF ClientIInv
  <1> QED BY <1>1, <1>2

LEMMA ClientNextIInv == ClientIInv /\ [ClientNext]_clientVars => ClientIInv'
  <1>1. ASSUME ClientIInv, UNCHANGED clientVars PROVE ClientIInv'
    BY <1>1 DEF ClientIInv, ClientShapes, OwnEntries, Phased, OwnAnswer, clientVars
  <1> QED BY <1>1, ReadEntriesIInv, ReturnsIInv, HookIInv DEF ClientNext

\* The invariant holds in every reachable state.
THEOREM ClientInvariant == ClientSpec => []ClientIInv
  BY ClientInitIInv, ClientNextIInv, PTL DEF ClientSpec

\* The variables of the client keep their shapes, and what it caches and
\* answers is something a server can have said.
THEOREM ClientTypes == ClientSpec => []ClientTypeOK
  <1>1. ClientIInv => ClientTypeOK
    BY DEF ClientIInv, ClientShapes, OwnEntries, ClientTypeOK
  <1> QED BY <1>1, ClientInvariant, PTL

\* The hook answers each script with that script's own result, and never
\* against what its chunk brought (sendChunk, getgenv().decompile).
THEOREM HookAnswersOwn == ClientSpec => []OwnAnswer
  <1>1. ClientIInv => OwnAnswer
    BY DEF ClientIInv
  <1> QED BY <1>1, ClientInvariant, PTL

\* What was cached once stays as long as the client lives.
THEOREM CachedStays == ClientSpec => CacheStays
  <1>1. ASSUME ClientIInv, [ClientNext]_clientVars
        PROVE  [\A i \in Instances : cache[i] # Missing => cache'[i] = cache[i]]_clientVars
    <2>1. CASE UNCHANGED cache
      BY <2>1
    <2>2. CASE ChunkAnswered
      <3>1. phase = "chunk" /\ first <= Len(entries) /\ ClientShapes
        BY <1>1, <2>2 DEF ClientIInv, Phased, ChunkAnswered, ChunkDone
      <3> QED BY <1>1, <2>2, <3>1, AnswersAreOwn DEF ClientIInv, OwnEntries
    <2> QED BY <1>1, <2>1, <2>2
            DEF ClientNext, ReadEntries, Returns, Busy, ChunkFailed, SingleDone, Throws, Hook, Hit, Unreadable, Miss, clientVars
  <1> QED BY <1>1, ClientInvariant, PTL DEF ClientSpec, CacheStays

-----------------------------------------------------------------------------
(***************************************************************************)
(* The request of the web server.  A word and its number determine each    *)
(* other, so a piece is read exactly where the encoding of a string        *)
(* stands, and an entry exactly where the encoding of an entry does; the   *)
(* inductive invariant RequestInv says that the cursor stands at the end   *)
(* of entries in a row, and that every way to read the body as entries in  *)
(* a row passes there.                                                     *)
(***************************************************************************)

-----------------------------------------------------------------------------
(* Numbers and their words. *)

LEMMA LeastNumber ==
    ASSUME NEW S \in SUBSET Nat, S # {}
    PROVE  \E x \in S : \A y \in S : x <= y
  <1>1. PICK x \in S : \A y \in S : <<y, x>> \notin OpToRel(<, Nat)
    BY NatLessThanWellFounded, WFMin
  <1>2. \A y \in S : ~(y < x)
    BY <1>1 DEF OpToRel
  <1> QED BY <1>2

\* A value can be carried through n steps.
Steps(n, S) == [1..n -> [S -> S]]
Carried(f, n, S, a, g) == f \in [0..n -> S] /\ f[0] = a /\ \A k \in 1..n : f[k] = g[k][f[k - 1]]

LEMMA Iterates ==
    ASSUME NEW S, NEW n \in Nat, NEW a \in S, NEW g \in Steps(n, S)
    PROVE  \E f : Carried(f, n, S, a, g)
  <1> USE DEF Steps, Carried
  <1> DEFINE Carries(m, f) == Carried(f, m, S, a, g)
             Short == {m \in 0..n : ~\E f : Carries(m, f)}
  <1>1. SUFFICES ASSUME Short # {} PROVE FALSE
    <2>1. n \in 0..n
      OBVIOUS
    <2> QED BY <2>1
  <1>2. PICK m \in Short : \A i \in Short : m <= i
    <2>1. Short \in SUBSET Nat
      OBVIOUS
    <2> HIDE DEF Short
    <2> QED BY <1>1, <2>1, LeastNumber
  <1>3. m # 0
    <2> SUFFICES ASSUME m = 0 PROVE FALSE
      OBVIOUS
    <2>1. Carries(0, [k \in 0..0 |-> a])
      OBVIOUS
    <2> QED BY <2>1
  <1>4. m - 1 \in 0..n /\ m - 1 \notin Short /\ m \in 1..n
    BY <1>2, <1>3
  <1>5. PICK f : Carries(m - 1, f)
    BY <1>4
  <1>6. PICK b : b = g[m][f[m - 1]]
    OBVIOUS
  <1>7. b \in S
    <2>1. f[m - 1] \in S
      BY <1>4, <1>5
    <2>2. g[m] \in [S -> S]
      BY <1>4
    <2> QED BY <1>6, <2>1, <2>2
  <1>8. PICK h : h = [k \in 0..m |-> IF k = m THEN b ELSE f[k]]
    OBVIOUS
  <1>9. h \in [0..m -> S] /\ h[0] = a
    BY <1>4, <1>5, <1>7, <1>8
  <1>10. ASSUME NEW k \in 1..m PROVE h[k] = g[k][h[k - 1]]
    <2>1. k - 1 \in 0..m - 1 /\ h[k - 1] = f[k - 1]
      BY <1>4, <1>8
    <2>2. CASE k = m
      BY <1>6, <1>8, <2>1, <2>2
    <2>3. CASE k # m
      <3>1. k \in 1..m - 1 /\ h[k] = f[k]
        BY <1>4, <1>8, <2>3
      <3> QED BY <1>5, <2>1, <3>1
    <2> QED BY <2>2, <2>3
  <1> QED BY <1>2, <1>9, <1>10

LEMMA Constants ==
    Base \in Nat /\ Base >= 1 /\ Word \in Nat /\ Word >= 1 /\ MaxName \in Nat /\ MaxCode \in Nat /\ Byte \subseteq Nat
  BY RequestAssumption DEF Byte

\* What Number computes on the way.
LEMMA NumberReads ==
    ASSUME NEW w \in [1..Word -> Byte]
    PROVE  \E v \in [0..Word -> Nat] :
             /\ v[0] = 0
             /\ \A k \in 1..Word : v[k] = v[k - 1] * Base + w[Word + 1 - k]
             /\ Number(w) = v[Word]
  <1> DEFINE g == [k \in 1..Word |-> [x \in Nat |-> x * Base + w[Word + 1 - k]]]
  <1>1. g \in [1..Word -> [Nat -> Nat]]
    <2>1. ASSUME NEW k \in 1..Word, NEW x \in Nat PROVE x * Base + w[Word + 1 - k] \in Nat
      <3>1. Word + 1 - k \in 1..Word
        BY Constants
      <3>2. w[Word + 1 - k] \in Nat
        BY <3>1, Constants
      <3> QED BY <3>2, Constants
    <2> QED BY <2>1
  <1>2. \E f : Carried(f, Word, Nat, 0, g)
    <2>1. g \in Steps(Word, Nat)
      BY <1>1 DEF Steps
    <2> HIDE DEF g
    <2> QED BY <2>1, Iterates, Constants
  <1>3. PICK f \in [0..Word -> Nat] : f[0] = 0 /\ \A k \in 1..Word : f[k] = g[k][f[k - 1]]
    BY <1>2 DEF Carried
  <1>4. \A k \in 1..Word : f[k] = f[k - 1] * Base + w[Word + 1 - k]
    <2> SUFFICES ASSUME NEW k \in 1..Word PROVE f[k] = f[k - 1] * Base + w[Word + 1 - k]
      OBVIOUS
    <2>1. f[k - 1] \in Nat
      BY Constants
    <2> QED BY <1>3, <2>1
  <1> DEFINE value[k \in 0..Word] == IF k = 0 THEN 0 ELSE value[k - 1] * Base + w[Word + 1 - k]
             Reads(h) == h = [k \in 0..Word |-> IF k = 0 THEN 0 ELSE h[k - 1] * Base + w[Word + 1 - k]]
  <1>5. Reads(f)
    BY <1>3, <1>4, Constants
  <1>6. Reads(value)
    <2>1. value = CHOOSE h : Reads(h)
      OBVIOUS
    <2> HIDE DEF value, Reads
    <2> QED BY <1>5, <2>1
  <1>7. Number(w) = value[Word]
    BY DEF Number
  <1> HIDE DEF value
  <1>8. value[0] = 0 /\ \A k \in 1..Word : value[k] = value[k - 1] * Base + w[Word + 1 - k]
    BY <1>6, Constants
  <1>9. value = f
    <2> DEFINE Differ == {k \in 0..Word : value[k] # f[k]}
    <2>1. SUFFICES ASSUME Differ # {} PROVE FALSE
      BY <1>5, <1>6
    <2>2. PICK m \in Differ : \A i \in Differ : m <= i
      <3>1. Differ \in SUBSET Nat
        BY Constants
      <3> HIDE DEF Differ
      <3> QED BY <2>1, <3>1, LeastNumber
    <2>3. m # 0
      BY <1>3, <1>8
    <2>4. m - 1 \in 0..Word /\ m \in 1..Word
      BY <2>3, Constants
    <2>5. m - 1 \notin Differ
      BY <2>2
    <2>6. value[m - 1] = f[m - 1]
      BY <2>4, <2>5
    <2> QED BY <1>4, <1>8, <2>2, <2>4, <2>6
  <1> QED BY <1>3, <1>4, <1>7, <1>9


\* Division by the base, as long division needs it.
LEMMA QuotientType ==
    ASSUME NEW n \in Nat
    PROVE  n \div Base \in Nat
  BY Constants

LEMMA QuotientOf ==
    ASSUME NEW q \in Nat, NEW r \in 0..Base - 1, NEW n, n = q * Base + r
    PROVE  n \div Base = q /\ n % Base = r
  <1>1. PICK b \in Nat : b = Base /\ b >= 1
    BY Constants
  <1>2. (q * b + r) \div b = q
    BY <1>1
  <1>3. (q * b + r) % b = r
    BY <1>1
  <1> QED BY <1>1, <1>2, <1>3

\* What Digits computes on the way.
LEMMA DigitsDivide ==
    ASSUME NEW n \in Nat
    PROVE  \E r \in [0..Word -> Nat] :
             /\ r[0] = n
             /\ \A k \in 1..Word : r[k] = r[k - 1] \div Base
             /\ Digits(n) = [k \in 1..Word |-> r[k - 1] % Base]
  <1> DEFINE g == [k \in 1..Word |-> [x \in Nat |-> x \div Base]]
  <1>1. g \in [1..Word -> [Nat -> Nat]]
    BY QuotientType
  <1>2. \E f : Carried(f, Word, Nat, n, g)
    <2>1. g \in Steps(Word, Nat)
      BY <1>1 DEF Steps
    <2> HIDE DEF g
    <2> QED BY <2>1, Iterates, Constants
  <1>3. PICK f \in [0..Word -> Nat] : f[0] = n /\ \A k \in 1..Word : f[k] = g[k][f[k - 1]]
    BY <1>2 DEF Carried
  <1>4. \A k \in 1..Word : f[k] = f[k - 1] \div Base
    <2> SUFFICES ASSUME NEW k \in 1..Word PROVE f[k] = f[k - 1] \div Base
      OBVIOUS
    <2>1. f[k - 1] \in Nat
      BY Constants
    <2> QED BY <1>3, <2>1
  <1> DEFINE rest[k \in 0..Word] == IF k = 0 THEN n ELSE rest[k - 1] \div Base
             Divides(h) == h = [k \in 0..Word |-> IF k = 0 THEN n ELSE h[k - 1] \div Base]
  <1>5. Divides(f)
    BY <1>3, <1>4, Constants
  <1>6. Divides(rest)
    <2>1. rest = CHOOSE h : Divides(h)
      OBVIOUS
    <2> HIDE DEF rest, Divides
    <2> QED BY <1>5, <2>1
  <1>7. Digits(n) = [k \in 1..Word |-> rest[k - 1] % Base]
    BY DEF Digits
  <1> HIDE DEF rest
  <1>8. rest[0] = n /\ \A k \in 1..Word : rest[k] = rest[k - 1] \div Base
    BY <1>6, Constants
  <1>9. rest = f
    <2> DEFINE Differ == {k \in 0..Word : rest[k] # f[k]}
    <2>1. SUFFICES ASSUME Differ # {} PROVE FALSE
      BY <1>5, <1>6
    <2>2. PICK m \in Differ : \A i \in Differ : m <= i
      <3>1. Differ \in SUBSET Nat
        BY Constants
      <3> HIDE DEF Differ
      <3> QED BY <2>1, <3>1, LeastNumber
    <2>3. m # 0
      BY <1>3, <1>8
    <2>4. m - 1 \in 0..Word /\ m \in 1..Word
      BY <2>3, Constants
    <2>5. m - 1 \notin Differ
      BY <2>2
    <2>6. rest[m - 1] = f[m - 1]
      BY <2>4, <2>5
    <2> QED BY <1>4, <1>8, <2>2, <2>4, <2>6
  <1> QED BY <1>3, <1>4, <1>7, <1>9

\* Dividing what a word reads as gives the word back.
LEMMA DigitsOfNumber ==
    ASSUME NEW w \in [1..Word -> Byte]
    PROVE  Number(w) \in Nat /\ Digits(Number(w)) = w
  <1>1. PICK v \in [0..Word -> Nat] :
             /\ v[0] = 0
             /\ \A k \in 1..Word : v[k] = v[k - 1] * Base + w[Word + 1 - k]
             /\ Number(w) = v[Word]
    BY NumberReads
  <1>2. Number(w) \in Nat
    BY <1>1, Constants
  <1>3. PICK r \in [0..Word -> Nat] :
             /\ r[0] = Number(w)
             /\ \A k \in 1..Word : r[k] = r[k - 1] \div Base
             /\ Digits(Number(w)) = [k \in 1..Word |-> r[k - 1] % Base]
    BY <1>2, DigitsDivide
  <1>4. ASSUME NEW k \in 1..Word, r[k - 1] = v[Word + 1 - k]
        PROVE  r[k] = v[Word - k] /\ r[k - 1] % Base = w[k]
    <2>1. PICK j \in 1..Word : j = Word + 1 - k
      BY Constants
    <2>2. v[j] = v[j - 1] * Base + w[k]
      BY <1>1, <2>1, Constants
    <2>3. v[j - 1] \in Nat /\ w[k] \in 0..Base - 1
      BY <2>1, Constants DEF Byte
    <2>4. v[j] \div Base = v[j - 1] /\ v[j] % Base = w[k]
      BY <2>2, <2>3, QuotientOf
    <2>5. j - 1 = Word - k
      BY <2>1, Constants
    <2> QED BY <1>3, <1>4, <2>1, <2>4, <2>5
  <1>5. \A k \in 0..Word : r[k] = v[Word - k]
    <2> DEFINE Differ == {k \in 0..Word : r[k] # v[Word - k]}
    <2>1. SUFFICES ASSUME Differ # {} PROVE FALSE
      OBVIOUS
    <2>2. PICK m \in Differ : \A i \in Differ : m <= i
      <3>1. Differ \in SUBSET Nat
        BY Constants
      <3> HIDE DEF Differ
      <3> QED BY <2>1, <3>1, LeastNumber
    <2>3. m # 0
      BY <1>1, <1>3, Constants
    <2>4. m - 1 \in 0..Word /\ m \in 1..Word /\ Word - (m - 1) = Word + 1 - m
      BY <2>3, Constants
    <2>5. m - 1 \notin Differ
      BY <2>2
    <2>6. r[m - 1] = v[Word + 1 - m]
      BY <2>4, <2>5
    <2> QED BY <1>4, <2>2, <2>4, <2>6
  <1>6. \A k \in 1..Word : r[k - 1] % Base = w[k]
    <2> SUFFICES ASSUME NEW k \in 1..Word PROVE r[k - 1] % Base = w[k]
      OBVIOUS
    <2>1. k - 1 \in 0..Word /\ Word - (k - 1) = Word + 1 - k
      BY Constants
    <2> QED BY <1>4, <1>5, <2>1
  <1> QED BY <1>2, <1>3, <1>6

\* A length within the limits has a word, which reads as that length.
LEMMA NumberOfDigits ==
    ASSUME NEW n \in 0..MaxName \cup 0..MaxCode
    PROVE  Digits(n) \in [1..Word -> Byte] /\ Number(Digits(n)) = n
  <1>1. PICK w \in [1..Word -> Byte] : Number(w) = n
    BY RequestAssumption
  <1> QED BY <1>1, DigitsOfNumber


-----------------------------------------------------------------------------
(* Pieces of a body. *)

\* A stretch of a sequence that is two sequences in a row.
InARow(b, from, to, s, t) ==
  /\ b \in Seq(Byte) /\ from \in 0..Len(b) /\ to \in 0..Len(b)
  /\ s \in Seq(Byte) /\ t \in Seq(Byte) /\ Len(s) >= 1
  /\ SubSeq(b, from + 1, to) = s \o t

Apart(b, from, to, s, t) ==
  /\ to = from + Len(s) + Len(t)
  /\ SubSeq(b, from + 1, from + Len(s)) = s
  /\ SubSeq(b, from + Len(s) + 1, to) = t

LEMMA Splits ==
    ASSUME NEW b, NEW from, NEW to, NEW s, NEW t, InARow(b, from, to, s, t)
    PROVE  Apart(b, from, to, s, t)
  <1>0. /\ b \in Seq(Byte) /\ from \in 0..Len(b) /\ to \in 0..Len(b)
        /\ s \in Seq(Byte) /\ t \in Seq(Byte) /\ Len(s) >= 1
        /\ SubSeq(b, from + 1, to) = s \o t
    BY DEF InARow
  <1> HIDE DEF InARow
  <1>1. Len(b) \in Nat /\ Len(s) \in Nat /\ Len(t) \in Nat
    BY <1>0
  <1>2. /\ s \o t \in Seq(Byte) /\ Len(s \o t) = Len(s) + Len(t)
        /\ \A i \in 1..Len(s) + Len(t) : (s \o t)[i] = IF i <= Len(s) THEN s[i] ELSE t[i - Len(s)]
    BY <1>0, ConcatProperties
  <1>3. ASSUME NEW m \in 1..Len(b) + 1, NEW n \in 0..Len(b)
        PROVE  /\ SubSeq(b, m, n) \in Seq(Byte)
               /\ Len(SubSeq(b, m, n)) = IF m <= n THEN n - m + 1 ELSE 0
               /\ \A i \in 1..n - m + 1 : SubSeq(b, m, n)[i] = b[m + i - 1]
    <2>1. \A i \in m..n : b[i] \in Byte
      BY <1>0, <1>1, ElementOfSeq
    <2> QED BY <1>0, <1>1, <2>1, SubSeqProperties
  <1>4. to = from + Len(s) + Len(t)
    <2>1. Len(SubSeq(b, from + 1, to)) = IF from + 1 <= to THEN to - from ELSE 0
      BY <1>0, <1>1, <1>3
    <2> QED BY <1>0, <1>1, <1>2, <2>1
  <1>5. \A i \in 1..Len(s) + Len(t) : b[from + i] = IF i <= Len(s) THEN s[i] ELSE t[i - Len(s)]
    <2> SUFFICES ASSUME NEW i \in 1..Len(s) + Len(t)
                 PROVE  b[from + i] = IF i <= Len(s) THEN s[i] ELSE t[i - Len(s)]
      OBVIOUS
    <2>1. SubSeq(b, from + 1, to)[i] = b[from + i]
      BY <1>0, <1>1, <1>3, <1>4
    <2> QED BY <1>0, <1>2, <2>1
  <1>6. SubSeq(b, from + 1, from + Len(s)) = s
    <2>1. PICK m \in 0..Len(b) : m = from + Len(s)
      BY <1>0, <1>1, <1>4
    <2>2. PICK l \in 1..Len(b) + 1 : l = from + 1
      BY <1>0, <1>1
    <2>3. PICK q \in Seq(Byte) : q = SubSeq(b, l, m)
      BY <1>0, <1>3
    <2>4. Len(q) = Len(s) /\ \A i \in 1..Len(s) : q[i] = b[from + i]
      BY <1>0, <1>1, <1>3, <2>1, <2>2, <2>3
    <2>5. \A i \in 1..Len(s) : q[i] = s[i]
      <3> SUFFICES ASSUME NEW i \in 1..Len(s) PROVE q[i] = s[i]
        OBVIOUS
      <3>1. i \in 1..Len(s) + Len(t) /\ i <= Len(s)
        BY <1>0, <1>1
      <3> QED BY <1>0, <1>5, <2>4, <3>1
    <2>6. q = s
      BY <1>0, <2>4, <2>5, SeqEqual
    <2> QED BY <1>0, <2>1, <2>2, <2>3, <2>6
  <1>7. SubSeq(b, from + Len(s) + 1, to) = t
    <2>1. PICK m \in 1..Len(b) + 1 : m = from + Len(s) + 1
      BY <1>0, <1>1, <1>4
    <2>2. PICK q \in Seq(Byte) : q = SubSeq(b, m, to)
      BY <1>0, <1>1, <1>3
    <2>3. Len(q) = Len(t) /\ \A i \in 1..Len(t) : q[i] = b[from + Len(s) + i]
      BY <1>0, <1>1, <1>3, <1>4, <2>1, <2>2
    <2>4. \A i \in 1..Len(t) : q[i] = t[i]
      <3> SUFFICES ASSUME NEW i \in 1..Len(t) PROVE q[i] = t[i]
        OBVIOUS
      <3>1. PICK j \in 1..Len(s) + Len(t) : j = Len(s) + i
        BY <1>0, <1>1
      <3>2. b[from + j] = t[j - Len(s)]
        BY <1>0, <1>1, <1>5, <3>1
      <3>3. j - Len(s) = i /\ from + j = from + Len(s) + i
        BY <1>0, <1>1, <3>1
      <3> QED BY <2>3, <3>2, <3>3
    <2>5. q = t
      BY <1>0, <2>3, <2>4, SeqEqual
    <2> QED BY <1>0, <2>1, <2>2, <2>5
  <1> QED BY <1>4, <1>6, <1>7 DEF Apart

\* A word is a sequence of bytes, and so is a string within a limit.
LEMMA WordType ==
    ASSUME NEW w \in [1..Word -> Byte]
    PROVE  w \in Seq(Byte) /\ Len(w) = Word
  BY Constants

LEMMA StringType ==
    ASSUME NEW max \in Nat, NEW s
    PROVE  s \in Strings(max) <=> s \in Seq(Byte) /\ Len(s) <= max
  <1>1. ASSUME s \in Strings(max) PROVE s \in Seq(Byte) /\ Len(s) <= max
    <2>1. PICK n \in 0..max : s \in [1..n -> Byte]
      BY <1>1 DEF Strings
    <2> QED BY <2>1
  <1>2. ASSUME s \in Seq(Byte), Len(s) <= max PROVE s \in Strings(max)
    <2>1. Len(s) \in 0..max /\ s \in [1..Len(s) -> Byte]
      BY <1>2, LenProperties
    <2> QED BY <2>1 DEF Strings
  <1> QED BY <1>1, <1>2

LEMMA DigitsType ==
    ASSUME NEW max \in {MaxName, MaxCode}, NEW s \in Strings(max)
    PROVE  /\ s \in Seq(Byte) /\ Len(s) \in 0..max
           /\ Digits(Len(s)) \in Seq(Byte) /\ Len(Digits(Len(s))) = Word /\ Number(Digits(Len(s))) = Len(s)
           /\ Digits(Len(s)) \o s \in Seq(Byte) /\ Len(Digits(Len(s)) \o s) = Word + Len(s)
  <1>1. s \in Seq(Byte) /\ Len(s) \in 0..max
    BY StringType, Constants
  <1>2. PICK d : d = Digits(Len(s))
    OBVIOUS
  <1>3. d \in [1..Word -> Byte] /\ Number(d) = Len(s)
    BY <1>1, <1>2, NumberOfDigits
  <1>4. d \in Seq(Byte) /\ Len(d) = Word
    BY <1>3, WordType
  <1>5. d \o s \in Seq(Byte) /\ Len(d \o s) = Word + Len(s)
    BY <1>1, <1>4, ConcatProperties
  <1> QED BY <1>1, <1>2, <1>3, <1>4, <1>5

\* What is read as a length and as many bytes is their encoding.
LEMMA PieceReads ==
    ASSUME body.bytes \in Seq(Byte), NEW from \in 0..Len(body.bytes), NEW max \in {MaxName, MaxCode},
           NEW p, p = Piece(from, max), p.ok
    PROVE  /\ p.bytes \in Strings(max)
           /\ p.end \in from..Len(body.bytes)
           /\ SubSeq(body.bytes, from + 1, p.end) = Digits(Len(p.bytes)) \o p.bytes
  <1>1. PICK b \in Seq(Byte) : b = body.bytes
    OBVIOUS
  <1>2. PICK w : w = SubSeq(b, from + 1, from + Word)
    OBVIOUS
  <1>3. PICK n : n = Number(w)
    OBVIOUS
  <1>4. PICK s : s = SubSeq(b, from + Word + 1, from + Word + n)
    OBVIOUS
  <1>5. /\ from + Word <= Len(b) /\ n <= max /\ from + Word + n <= Len(b)
        /\ p = [ok |-> TRUE, bytes |-> s, end |-> from + Word + n]
    BY <1>1, <1>2, <1>3, <1>4 DEF Piece, TakeAt
  <1>6. Len(b) \in Nat /\ from \in Nat /\ Word \in Nat /\ max \in Nat
    BY <1>1, Constants
  <1>7. \A i \in 1..Len(b) : b[i] \in Byte
    BY ElementOfSeq
  <1>8. w \in [1..Word -> Byte]
    <2>1. w \in Seq(Byte) /\ Len(w) = Word
      <3>1. PICK l \in Int, m \in Int : l = from + 1 /\ m = from + Word
        BY <1>6
      <3>2. (\A i \in l..m : b[i] \in Byte) /\ l <= m /\ m - l + 1 = Word
        BY <1>5, <1>6, <1>7, <3>1, Constants
      <3>3. SubSeq(b, l, m) \in Seq(Byte) /\ Len(SubSeq(b, l, m)) = m - l + 1
        BY <3>2, SubSeqProperties
      <3> QED BY <1>2, <3>1, <3>2, <3>3
    <2> QED BY <2>1, LenProperties
  <1>9. n \in Nat /\ Digits(n) = w
    BY <1>3, <1>8, DigitsOfNumber
  <1>10. s \in Seq(Byte) /\ Len(s) = n
    <2>1. \A i \in from + Word + 1..from + Word + n : b[i] \in Byte
      BY <1>5, <1>6, <1>7, <1>9
    <2>2. from + Word + 1 \in Int /\ from + Word + n \in Int
      BY <1>6, <1>9
    <2> QED BY <1>4, <1>6, <1>9, <2>1, <2>2, SubSeqProperties
  <1>11. w \o s = SubSeq(b, from + 1, from + Word + n)
    <2>1. /\ from + 1 \in 1..Len(b) + 1 /\ from + Word \in (from + 1) - 1..Len(b)
          /\ from + Word + n \in from + Word..Len(b)
      BY <1>5, <1>6, <1>9
    <2> QED BY <1>2, <1>4, <2>1, ConcatAdjacentSubSeq
  <1>12. s \in Strings(max)
    BY <1>5, <1>6, <1>10, StringType
  <1>13. from + Word + n \in from..Len(b)
    BY <1>5, <1>6, <1>9
  <1>14. p.bytes = s /\ p.end = from + Word + n
    BY <1>5
  <1>15. Digits(Len(s)) \o s = w \o s
    BY <1>9, <1>10
  <1> QED BY <1>1, <1>11, <1>12, <1>13, <1>14, <1>15

\* The encoding of a string is read as that string.
LEMMA PieceFound ==
    ASSUME body.bytes \in Seq(Byte), NEW from \in 0..Len(body.bytes), NEW to \in 0..Len(body.bytes),
           NEW max \in {MaxName, MaxCode}, NEW s \in Strings(max),
           SubSeq(body.bytes, from + 1, to) = Digits(Len(s)) \o s
    PROVE  Piece(from, max) = [ok |-> TRUE, bytes |-> s, end |-> to]
  <1>1. PICK b \in Seq(Byte) : b = body.bytes
    OBVIOUS
  <1>2. PICK d : d = Digits(Len(s))
    OBVIOUS
  <1>3. /\ s \in Seq(Byte) /\ Len(s) \in 0..max
        /\ d \in Seq(Byte) /\ Len(d) = Word /\ Number(d) = Len(s)
    BY <1>2, DigitsType
  <1>4. /\ to = from + Len(d) + Len(s)
        /\ SubSeq(b, from + 1, from + Len(d)) = d
        /\ SubSeq(b, from + Len(d) + 1, to) = s
    <2>1. InARow(b, from, to, d, s)
      BY <1>1, <1>2, <1>3, Constants DEF InARow
    <2>2. Apart(b, from, to, d, s)
      BY <2>1, Splits
    <2> QED BY <2>2 DEF Apart
  <1>5. Len(b) \in Nat /\ from \in Nat /\ Word \in Nat /\ max \in Nat /\ Len(s) \in Nat
    BY <1>1, <1>3, Constants
  <1>6. TakeAt(from, Word) = d /\ TakeAt(from + Word, Len(s)) = s
    BY <1>1, <1>3, <1>4 DEF TakeAt
  <1>7. from + Word <= Len(body.bytes) /\ Len(s) <= max /\ from + Word + Len(s) <= Len(body.bytes)
    BY <1>1, <1>3, <1>4, <1>5
  <1>8. to = from + Word + Len(s)
    BY <1>3, <1>4
  <1> QED BY <1>3, <1>6, <1>7, <1>8 DEF Piece

\* An entry is two such pieces.
LEMMA EncodedType ==
    ASSUME NEW e \in Entries
    PROVE  /\ e.name \in Strings(MaxName) /\ e.code \in Strings(MaxCode)
           /\ Encoded(e) = (Digits(Len(e.name)) \o e.name) \o (Digits(Len(e.code)) \o e.code)
  <1>1. e.name \in Strings(MaxName) /\ e.code \in Strings(MaxCode)
    BY DEF Entries
  <1>2. PICK s : s = Digits(Len(e.name)) \o e.name
    OBVIOUS
  <1>3. PICK d : d = Digits(Len(e.code))
    OBVIOUS
  <1>4. PICK c : c = e.code
    OBVIOUS
  <1>5. s \in Seq(Byte) /\ d \in Seq(Byte) /\ c \in Seq(Byte)
    BY <1>1, <1>2, <1>3, <1>4, DigitsType
  <1>6. (s \o d) \o c = s \o (d \o c)
    BY <1>5, ConcatAssociative
  <1>7. Encoded(e) = (s \o d) \o c
    BY <1>2, <1>3, <1>4 DEF Encoded
  <1> QED BY <1>1, <1>2, <1>3, <1>4, <1>6, <1>7

LEMMA EntryFound ==
    ASSUME body.bytes \in Seq(Byte), NEW from \in 0..Len(body.bytes), NEW to \in 0..Len(body.bytes),
           NEW e \in Entries, SubSeq(body.bytes, from + 1, to) = Encoded(e)
    PROVE  /\ Piece(from, MaxName).ok /\ Piece(from, MaxName).bytes = e.name
           /\ Piece(Piece(from, MaxName).end, MaxCode) = [ok |-> TRUE, bytes |-> e.code, end |-> to]
  <1>1. PICK b \in Seq(Byte) : b = body.bytes
    OBVIOUS
  <1>2. PICK s : s = Digits(Len(e.name)) \o e.name
    OBVIOUS
  <1>3. PICK t : t = Digits(Len(e.code)) \o e.code
    OBVIOUS
  <1>4. e.name \in Strings(MaxName) /\ e.code \in Strings(MaxCode) /\ Encoded(e) = s \o t
    BY <1>2, <1>3, EncodedType
  <1>5. s \in Seq(Byte) /\ Len(s) \in Nat /\ Len(s) >= 1 /\ t \in Seq(Byte) /\ Len(t) \in Nat
    <2>1. s \in Seq(Byte) /\ Len(s) = Word + Len(e.name) /\ Len(e.name) \in 0..MaxName
      BY <1>2, <1>4, DigitsType
    <2>2. t \in Seq(Byte)
      BY <1>3, <1>4, DigitsType
    <2> QED BY <2>1, <2>2, Constants
  <1>6. /\ to = from + Len(s) + Len(t)
        /\ SubSeq(b, from + 1, from + Len(s)) = s
        /\ SubSeq(b, from + Len(s) + 1, to) = t
    <2>1. InARow(b, from, to, s, t)
      BY <1>1, <1>4, <1>5 DEF InARow
    <2>2. Apart(b, from, to, s, t)
      BY <2>1, Splits
    <2> QED BY <2>2 DEF Apart
  <1>7. PICK mid : mid = from + Len(s)
    OBVIOUS
  <1>8. mid \in 0..Len(b)
    BY <1>1, <1>5, <1>6, <1>7
  <1>9. Piece(from, MaxName) = [ok |-> TRUE, bytes |-> e.name, end |-> mid]
    BY <1>1, <1>2, <1>4, <1>6, <1>7, <1>8, PieceFound
  <1>10. Piece(mid, MaxCode) = [ok |-> TRUE, bytes |-> e.code, end |-> to]
    BY <1>1, <1>3, <1>4, <1>6, <1>7, <1>8, PieceFound
  <1> QED BY <1>9, <1>10

LEMMA EntryReads ==
    ASSUME body.bytes \in Seq(Byte), NEW from \in 0..Len(body.bytes),
           NEW p, p = Piece(from, MaxName), p.ok, NEW q, q = Piece(p.end, MaxCode), q.ok
    PROVE  LET e == [name |-> p.bytes, code |-> q.bytes]
           IN  e \in Entries /\ q.end \in 0..Len(body.bytes) /\ SubSeq(body.bytes, from + 1, q.end) = Encoded(e)
  <1>1. PICK b \in Seq(Byte) : b = body.bytes
    OBVIOUS
  <1>2. PICK s : s = Digits(Len(p.bytes)) \o p.bytes
    OBVIOUS
  <1>3. PICK t : t = Digits(Len(q.bytes)) \o q.bytes
    OBVIOUS
  <1>4. PICK mid, to : mid = p.end /\ to = q.end
    OBVIOUS
  <1>5. p.bytes \in Strings(MaxName) /\ mid \in from..Len(b) /\ SubSeq(b, from + 1, mid) = s
    BY <1>1, <1>2, <1>4, PieceReads
  <1>6. mid \in 0..Len(b)
    BY <1>1, <1>5
  <1>7. q.bytes \in Strings(MaxCode) /\ to \in mid..Len(b) /\ SubSeq(b, mid + 1, to) = t
    BY <1>1, <1>3, <1>4, <1>6, PieceReads
  <1>8. SubSeq(b, from + 1, to) = s \o t
    <2>1. from + 1 \in 1..Len(b) + 1 /\ mid \in (from + 1) - 1..Len(b) /\ to \in mid..Len(b)
      BY <1>1, <1>5, <1>7
    <2> QED BY <1>5, <1>7, <2>1, ConcatAdjacentSubSeq
  <1>9. PICK e : e = [name |-> p.bytes, code |-> q.bytes]
    OBVIOUS
  <1>10. e \in Entries /\ e.name = p.bytes /\ e.code = q.bytes
    BY <1>5, <1>7, <1>9 DEF Entries
  <1>11. Encoded(e) = s \o t
    BY <1>2, <1>3, <1>10, EncodedType
  <1>12. to \in 0..Len(b)
    BY <1>1, <1>6, <1>7
  <1> QED BY <1>1, <1>4, <1>8, <1>9, <1>10, <1>11, <1>12

-----------------------------------------------------------------------------
(* What holds while a body is read. *)

Items == [ready : BOOLEAN, code : Seq(Byte), name : Seq(Byte)]

RequestTypes ==
  /\ body \in Bodies
  /\ parsePhase \in {"header", "entries", "parsed", "answered", "bad request"}
  /\ parsed \in Seq(Items)
  /\ ~body.json => pos \in 0..Len(body.bytes)
  /\ body.json => parsePhase # "entries"
  /\ parsePhase = "header" => parsed = <<>> /\ pos = 0
  /\ ~body.json /\ parsePhase \in {"entries", "parsed", "answered"} => HeaderOK(body.header)
  /\ parsePhase = "entries" => Len(parsed) <= body.header.count

\* What was read so far is entries end to end, which were understood.
CutUpTo(cut, n) ==
  /\ cut \in [0..n -> 0..Len(body.bytes)] /\ cut[0] = 0 /\ cut[n] = pos
  /\ \A k \in 1..n : \E entry \in Entries :
        Holds(cut, k, entry) /\ parsed[k] = ParsedItem(entry.name, entry.code)

CutSoFar == parsePhase = "entries" => \E cut : CutUpTo(cut, Len(parsed))

\* Whichever way the body is the encoding of as many entries as it promises,
\* the cursor stands at the end of an entry of it.
IsEncoding(cut) ==
  /\ cut \in Cuts
  /\ \A k \in 1..body.header.count : \E entry \in Entries : Holds(cut, k, entry)

Follows == parsePhase = "entries" => \A cut : IsEncoding(cut) => cut[Len(parsed)] = pos

RequestInv == RequestTypes /\ CutSoFar /\ Follows /\ ExactlyTheEncodings /\ ResultsInOrder

LEMMA BodyTypes ==
    ASSUME body \in Bodies
    PROVE  /\ body.json \in BOOLEAN
           /\ ~body.json => body.bytes \in Seq(Byte) /\ Len(body.bytes) \in Nat /\ body.header.count \in Nat
           /\ body.json => body.entries \in Seq([base64 : BOOLEAN, code : Seq(Byte), name : Seq(Byte)])
  <1>1. PICK b \in Bodies : b = body
    OBVIOUS
  <1>2. /\ b.json \in BOOLEAN
        /\ b.json => b.entries \in Seq([base64 : BOOLEAN, code : Seq(Byte), name : Seq(Byte)])
        /\ ~b.json => b.bytes \in Seq(Byte) /\ b.header.count \in Nat
    <2> HIDE DEF Byte
    <2> QED BY RequestAssumption, Zenon
  <1> QED BY <1>1, <1>2, LenProperties

LEMMA RequestStarts == RequestInit => RequestInv
  <1> SUFFICES ASSUME RequestInit PROVE RequestInv
    OBVIOUS
  <1>1. RequestTypes
    BY BodyTypes DEF RequestInit, RequestTypes
  <1>2. CutSoFar /\ Follows /\ ExactlyTheEncodings /\ ResultsInOrder
    BY DEF RequestInit, CutSoFar, Follows, ExactlyTheEncodings, ResultsInOrder
  <1> QED BY <1>1, <1>2 DEF RequestInv

\* What Entry does, read as pieces.
LEMMA EntryReadsOne ==
    ASSUME RequestTypes, Entry,
           NEW name, name = Piece(pos, MaxName), NEW code, code = Piece(name.end, MaxCode), name.ok, code.ok
    PROVE  LET e == [name |-> name.bytes, code |-> code.bytes]
           IN  /\ e \in Entries /\ code.end \in 0..Len(body.bytes)
               /\ SubSeq(body.bytes, pos + 1, code.end) = Encoded(e)
               /\ ParsedItem(name.bytes, code.bytes) \in Items
               /\ parsed' = Append(parsed, ParsedItem(name.bytes, code.bytes)) /\ pos' = code.end
               /\ UNCHANGED <<body, parsePhase, answers>>
  <1>1. body.bytes \in Seq(Byte) /\ pos \in 0..Len(body.bytes)
    BY BodyTypes DEF RequestTypes, Entry
  <1>2. PICK e : e = [name |-> name.bytes, code |-> code.bytes]
    OBVIOUS
  <1>3. e \in Entries /\ code.end \in 0..Len(body.bytes) /\ SubSeq(body.bytes, pos + 1, code.end) = Encoded(e)
    BY <1>1, <1>2, EntryReads
  <1>4. e.name \in Seq(Byte) /\ e.code \in Seq(Byte)
    BY <1>3, StringType, Constants DEF Entries
  <1>5. ParsedItem(name.bytes, code.bytes) \in Items
    BY <1>2, <1>4 DEF ParsedItem, Items, NoName
  <1>6. /\ parsed' = Append(parsed, ParsedItem(name.bytes, code.bytes)) /\ pos' = code.end
        /\ UNCHANGED <<body, parsePhase, answers>>
    BY DEF Entry
  <1> QED BY <1>2, <1>3, <1>5, <1>6

LEMMA RequestTypesKept ==
    ASSUME RequestTypes, [RequestNext]_requestVars
    PROVE  RequestTypes'
  <1>0. body' \in Bodies /\ body' = body
    BY DEF RequestTypes, RequestNext, requestVars, Header, Entry, EndOfEntries, Json, Weave, Refuse
  <1>1. CASE Header
    <2>1. parsed = <<>> /\ ~body.json /\ body.header.count \in Nat /\ parsed' = parsed /\ pos' = pos
      BY <1>1, BodyTypes DEF RequestTypes, Header, Refuse
    <2>2. parsePhase' \in {"entries", "bad request"} /\ (parsePhase' = "entries" => HeaderOK(body.header))
      BY <1>1 DEF Header, Refuse
    <2>3. parsed' \in Seq(Items) /\ Len(parsed') = 0
      BY <2>1
    <2>4. pos' \in 0..Len(body'.bytes) /\ ~body'.json /\ 0 <= body'.header.count
      <3>1. pos \in 0..Len(body.bytes)
        BY <2>1 DEF RequestTypes
      <3>2. 0 <= body.header.count
        BY <2>1
      <3>3. ~body.json
        BY <2>1
      <3> QED BY <1>0, <2>1, <3>1, <3>2, <3>3
    <2>5. HeaderOK(body.header) => HeaderOK(body'.header)
      BY <1>0, Zenon
    <2> QED BY <1>0, <2>2, <2>3, <2>4, <2>5 DEF RequestTypes
  <1>2. CASE Entry
    <2>1. PICK name : name = Piece(pos, MaxName)
      OBVIOUS
    <2>2. PICK code : code = Piece(name.end, MaxCode)
      OBVIOUS
    <2>3. CASE name.ok /\ code.ok
      <3>1. PICK item \in Items : item = ParsedItem(name.bytes, code.bytes)
        BY <1>2, <2>1, <2>2, <2>3, EntryReadsOne
      <3>2. parsed' = Append(parsed, item) /\ pos' \in 0..Len(body.bytes) /\ parsePhase' = parsePhase
        BY <1>2, <2>1, <2>2, <2>3, <3>1, EntryReadsOne
      <3>3. parsed' \in Seq(Items) /\ Len(parsed') = Len(parsed) + 1
        BY <3>1, <3>2, AppendProperties DEF RequestTypes
      <3>4. ~body.json /\ Len(parsed) + 1 <= body.header.count
        BY <1>2, BodyTypes DEF Entry, RequestTypes
      <3> QED BY <1>0, <1>2, <3>2, <3>3, <3>4 DEF RequestTypes, Entry
    <2>4. CASE ~(name.ok /\ code.ok)
      <3>1. Refuse
        BY <1>2, <2>1, <2>2, <2>4 DEF Entry
      <3> QED BY <1>0, <3>1 DEF RequestTypes, Refuse
    <2> QED BY <2>3, <2>4
  <1>3. CASE EndOfEntries
    BY <1>3 DEF RequestTypes, EndOfEntries, Refuse
  <1>4. CASE Json
    <2>1. CASE Refuse
      BY <2>1 DEF RequestTypes, Refuse
    <2>2. CASE ~Refuse
      <3>1. /\ parsed' = [k \in 1..Len(body.entries) |->
                  [ready |-> body.entries[k].base64, code |-> body.entries[k].code, name |-> body.entries[k].name]]
            /\ parsePhase' = "parsed" /\ body.json
        BY <1>4, <2>2 DEF Json
      <3>2. body.entries \in Seq([base64 : BOOLEAN, code : Seq(Byte), name : Seq(Byte)])
        BY <3>1, BodyTypes DEF RequestTypes
      <3>3. parsed' \in Seq(Items)
        <4>1. PICK n \in Nat : n = Len(body.entries)
          BY <3>2, LenProperties
        <4>2. ASSUME NEW k \in 1..n PROVE parsed'[k] \in Items
          <5>1. body.entries[k] \in [base64 : BOOLEAN, code : Seq(Byte), name : Seq(Byte)]
            BY <3>2, <4>1, ElementOfSeq
          <5> QED BY <3>1, <4>1, <5>1 DEF Items
        <4>3. parsed' = [k \in 1..n |-> parsed'[k]]
          BY <3>1, <4>1
        <4>4. parsed' \in [1..n -> Items]
          BY <4>2, <4>3
        <4> QED BY <4>1, <4>4
      <3> QED BY <1>0, <3>1, <3>3 DEF RequestTypes
    <2> QED BY <2>1, <2>2
  <1>5. CASE Weave
    BY <1>5 DEF RequestTypes, Weave
  <1>6. CASE UNCHANGED requestVars
    BY <1>6 DEF RequestTypes, requestVars
  <1> QED BY <1>1, <1>2, <1>3, <1>4, <1>5, <1>6 DEF RequestNext

\* The cut grows by the entry that was read.
LEMMA CutKept ==
    ASSUME RequestTypes, CutSoFar, [RequestNext]_requestVars
    PROVE  CutSoFar'
  <1>1. CASE Header
    <2>1. CASE parsePhase' = "entries"
      <3>1. /\ body' = body /\ parsed' = <<>> /\ pos' = 0 /\ Len(parsed') = 0
            /\ body.bytes \in Seq(Byte) /\ Len(body.bytes) \in Nat
        BY <1>1, <2>1, BodyTypes DEF RequestTypes, Header, Refuse
      <3>2. PICK cut : cut = [k \in 0..0 |-> 0]
        OBVIOUS
      <3>3. CutUpTo(cut, 0)'
        BY <3>1, <3>2 DEF CutUpTo
      <3> QED BY <3>1, <3>3 DEF CutSoFar
    <2> QED BY <2>1 DEF CutSoFar
  <1>2. CASE Entry
    <2>1. PICK name : name = Piece(pos, MaxName)
      OBVIOUS
    <2>2. PICK code : code = Piece(name.end, MaxCode)
      OBVIOUS
    <2>3. CASE name.ok /\ code.ok
      <3>1. PICK e : e = [name |-> name.bytes, code |-> code.bytes]
        OBVIOUS
      <3>2. PICK item : item = ParsedItem(e.name, e.code)
        OBVIOUS
      <3>3. /\ e \in Entries /\ code.end \in 0..Len(body.bytes)
            /\ SubSeq(body.bytes, pos + 1, code.end) = Encoded(e)
            /\ item \in Items
            /\ parsed' = Append(parsed, item) /\ pos' = code.end /\ body' = body
        BY <1>2, <2>1, <2>2, <2>3, <3>1, <3>2, EntryReadsOne
      <3>4. PICK cut : CutUpTo(cut, Len(parsed))
        BY <1>2 DEF CutSoFar, Entry
      <3>5. PICK n : n = Len(parsed)
        OBVIOUS
      <3>6. /\ n \in Nat /\ Len(parsed') = n + 1 /\ parsed'[n + 1] = item
            /\ \A k \in 1..n : parsed'[k] = parsed[k]
        <4>1. parsed \in Seq(Items)
          BY DEF RequestTypes
        <4>2. /\ Len(Append(parsed, item)) = Len(parsed) + 1
              /\ \A k \in 1..Len(parsed) : Append(parsed, item)[k] = parsed[k]
              /\ Append(parsed, item)[Len(parsed) + 1] = item
          BY <3>3, <4>1, AppendProperties
        <4> QED BY <3>3, <3>5, <4>1, <4>2, LenProperties
      <3>7. PICK longer : longer = [k \in 0..n + 1 |-> IF k = n + 1 THEN code.end ELSE cut[k]]
        OBVIOUS
      <3>8. cut \in [0..n -> 0..Len(body.bytes)] /\ cut[0] = 0 /\ cut[n] = pos
        BY <3>4, <3>5 DEF CutUpTo
      <3>9. /\ longer \in [0..n + 1 -> 0..Len(body.bytes)] /\ longer[n + 1] = code.end
            /\ \A k \in 0..n : longer[k] = cut[k]
        BY <3>3, <3>6, <3>7, <3>8
      <3>10. ASSUME NEW k \in 1..n + 1
             PROVE  \E entry \in Entries :
                      Holds(longer, k, entry) /\ parsed'[k] = ParsedItem(entry.name, entry.code)
        <4>1. CASE k = n + 1
          <5>1. longer[k] = code.end /\ longer[k - 1] = pos
            BY <3>6, <3>8, <3>9, <4>1
          <5>2. Holds(longer, k, e) /\ parsed'[k] = ParsedItem(e.name, e.code)
            BY <3>2, <3>3, <3>6, <4>1, <5>1 DEF Holds
          <5> QED BY <3>3, <5>2
        <4>2. CASE k # n + 1
          <5>1. k \in 1..n /\ longer[k] = cut[k] /\ longer[k - 1] = cut[k - 1]
            BY <3>6, <3>9, <4>2
          <5>2. PICK entry \in Entries : Holds(cut, k, entry) /\ parsed[k] = ParsedItem(entry.name, entry.code)
            BY <3>4, <3>5, <5>1 DEF CutUpTo
          <5>3. Holds(longer, k, entry) /\ parsed'[k] = ParsedItem(entry.name, entry.code)
            BY <3>6, <5>1, <5>2 DEF Holds
          <5> QED BY <5>3
        <4> QED BY <4>1, <4>2
      <3>11. CutUpTo(longer, n + 1)'
        <4>1. \A k \in 1..n + 1 : \E entry \in Entries :
                Holds(longer, k, entry)' /\ parsed'[k] = ParsedItem(entry.name, entry.code)
          BY <3>3, <3>10 DEF Holds
        <4>2. longer[0] = 0
          BY <3>6, <3>8, <3>9
        <4> QED BY <3>3, <3>9, <4>1, <4>2 DEF CutUpTo
      <3> QED BY <3>6, <3>11 DEF CutSoFar
    <2>4. CASE ~(name.ok /\ code.ok)
      <3>1. Refuse
        BY <1>2, <2>1, <2>2, <2>4 DEF Entry
      <3> QED BY <3>1 DEF CutSoFar, Refuse
    <2> QED BY <2>3, <2>4
  <1>3. CASE EndOfEntries \/ Json \/ Weave
    BY <1>3 DEF CutSoFar, EndOfEntries, Json, Weave, Refuse
  <1>4. CASE UNCHANGED requestVars
    BY <1>4 DEF CutSoFar, CutUpTo, Holds, requestVars
  <1> QED BY <1>1, <1>2, <1>3, <1>4 DEF RequestNext

\* The next entry of an encoding is found where the cursor stands.
LEMMA NextIsFound ==
    ASSUME RequestTypes, Follows, Entry, NEW cut, IsEncoding(cut),
           NEW name, name = Piece(pos, MaxName), NEW code, code = Piece(name.end, MaxCode)
    PROVE  name.ok /\ code.ok /\ code.end = cut[Len(parsed) + 1]
  <1>1. PICK n : n = Len(parsed)
    OBVIOUS
  <1>2. /\ n \in Nat /\ body.header.count \in Nat /\ n < body.header.count
        /\ body.bytes \in Seq(Byte) /\ Len(body.bytes) \in Nat
        /\ cut[n] = pos
    BY <1>1, BodyTypes DEF RequestTypes, Follows, Entry
  <1>3. n + 1 \in 1..body.header.count /\ n + 1 \in 0..body.header.count
    BY <1>2
  <1>4. cut \in [0..body.header.count -> 0..Len(body.bytes)]
    BY DEF IsEncoding, Cuts
  <1>5. PICK to \in 0..Len(body.bytes) : to = cut[n + 1]
    BY <1>3, <1>4
  <1>6. PICK entry \in Entries : Holds(cut, n + 1, entry)
    BY <1>3 DEF IsEncoding
  <1>7. (n + 1) - 1 = n
    BY <1>2
  <1>8. SubSeq(body.bytes, pos + 1, to) = Encoded(entry)
    BY <1>2, <1>5, <1>6, <1>7 DEF Holds
  <1>9. pos \in 0..Len(body.bytes)
    BY DEF RequestTypes, Entry
  <1>10. name.ok /\ code = [ok |-> TRUE, bytes |-> entry.code, end |-> to]
    BY <1>2, <1>8, <1>9, EntryFound
  <1> QED BY <1>1, <1>5, <1>10

LEMMA FollowsKept ==
    ASSUME RequestTypes, Follows, [RequestNext]_requestVars
    PROVE  Follows'
  <1>1. CASE Header
    <2>1. CASE parsePhase' = "entries"
      <3>1. body' = body /\ parsed' = <<>> /\ pos' = 0 /\ Len(parsed') = 0
        BY <1>1, <2>1 DEF RequestTypes, Header, Refuse
      <3>2. ASSUME NEW cut, IsEncoding(cut)' PROVE cut[0] = 0
        BY <3>2 DEF IsEncoding, Cuts
      <3> QED BY <3>1, <3>2 DEF Follows
    <2> QED BY <2>1 DEF Follows
  <1>2. CASE Entry
    <2>1. PICK name : name = Piece(pos, MaxName)
      OBVIOUS
    <2>2. PICK code : code = Piece(name.end, MaxCode)
      OBVIOUS
    <2>3. CASE name.ok /\ code.ok
      <3>1. PICK item \in Items : item = ParsedItem(name.bytes, code.bytes)
        BY <1>2, <2>1, <2>2, <2>3, EntryReadsOne
      <3>2. body' = body /\ parsed' = Append(parsed, item) /\ pos' = code.end
        BY <1>2, <2>1, <2>2, <2>3, <3>1, EntryReadsOne
      <3>3. Len(parsed') = Len(parsed) + 1
        BY <3>1, <3>2, AppendProperties DEF RequestTypes
      <3>4. ASSUME NEW cut, IsEncoding(cut)' PROVE cut[Len(parsed')] = pos'
        <4>1. IsEncoding(cut)
          BY <3>2, <3>4 DEF IsEncoding, Cuts, Holds
        <4>2. code.end = cut[Len(parsed) + 1]
          BY <1>2, <2>1, <2>2, <4>1, NextIsFound
        <4> QED BY <3>2, <3>3, <4>2
      <3> QED BY <3>4 DEF Follows
    <2>4. CASE ~(name.ok /\ code.ok)
      <3>1. Refuse
        BY <1>2, <2>1, <2>2, <2>4 DEF Entry
      <3> QED BY <3>1 DEF Follows, Refuse
    <2> QED BY <2>3, <2>4
  <1>3. CASE EndOfEntries \/ Json \/ Weave
    BY <1>3 DEF Follows, EndOfEntries, Json, Weave, Refuse
  <1>4. CASE UNCHANGED requestVars
    BY <1>4 DEF Follows, IsEncoding, Cuts, Holds, requestVars
  <1> QED BY <1>1, <1>2, <1>3, <1>4 DEF RequestNext

\* The two verdicts on a body, as a function of it.
Refusable(b) ==
  \/ ~HeaderOK(b.header)
  \/ \A cut \in {c \in [0..b.header.count -> 0..Len(b.bytes)] : c[0] = 0 /\ c[b.header.count] = Len(b.bytes)} :
        \E k \in 1..b.header.count : \A entry \in Entries :
            SubSeq(b.bytes, cut[k - 1] + 1, cut[k]) # Encoded(entry)

Understood(b, items) ==
  /\ HeaderOK(b.header) /\ Len(items) = b.header.count
  /\ \E cut \in {c \in [0..b.header.count -> 0..Len(b.bytes)] : c[0] = 0 /\ c[b.header.count] = Len(b.bytes)} :
        \A k \in 1..b.header.count : \E entry \in Entries :
            /\ SubSeq(b.bytes, cut[k - 1] + 1, cut[k]) = Encoded(entry)
            /\ items[k] = ParsedItem(entry.name, entry.code)

Verdict(b, how, items) ==
  ~b.json =>
    /\ how = "bad request" => Refusable(b)
    /\ how \in {"parsed", "answered"} => Understood(b, items)

LEMMA VerdictIs ==
    /\ ExactlyTheEncodings <=> Verdict(body, parsePhase, parsed)
    /\ ExactlyTheEncodings' <=> Verdict(body', parsePhase', parsed')
  BY DEF ExactlyTheEncodings, Verdict, Refusable, Understood, Cuts, Holds

LEMMA EncodingsKept ==
    ASSUME RequestInv, [RequestNext]_requestVars
    PROVE  ExactlyTheEncodings'
  <1>0. RequestTypes /\ CutSoFar /\ Follows /\ Verdict(body, parsePhase, parsed) /\ body' = body
    BY VerdictIs DEF RequestInv, RequestNext, requestVars, Header, Entry, EndOfEntries, Json, Weave, Refuse
  <1> SUFFICES Verdict(body, parsePhase', parsed')
    BY <1>0, VerdictIs
  <1>7. ASSUME \A cut : ~IsEncoding(cut) PROVE Refusable(body)
    BY <1>7 DEF IsEncoding, Refusable, Cuts, Holds
  <1>1. CASE Header
    BY <1>0, <1>1 DEF Verdict, Refusable, Header, Refuse
  <1>2. CASE Entry
    <2>1. PICK name : name = Piece(pos, MaxName)
      OBVIOUS
    <2>2. PICK code : code = Piece(name.end, MaxCode)
      OBVIOUS
    <2>3. CASE name.ok /\ code.ok
      <3>1. parsePhase' = "entries"
        BY <1>2, <2>1, <2>2, <2>3 DEF Entry
      <3> QED BY <3>1 DEF Verdict
    <2>4. CASE ~(name.ok /\ code.ok)
      <3>1. Refuse
        BY <1>2, <2>1, <2>2, <2>4 DEF Entry
      <3>2. \A cut : ~IsEncoding(cut)
        BY <1>0, <1>2, <2>1, <2>2, <2>4, NextIsFound
      <3>3. parsePhase' = "bad request"
        BY <3>1 DEF Refuse
      <3> QED BY <1>7, <3>2, <3>3 DEF Verdict
    <2> QED BY <2>3, <2>4
  <1>3. CASE EndOfEntries
    <2>1. /\ parsePhase = "entries" /\ ~body.json /\ HeaderOK(body.header)
          /\ Len(parsed) = body.header.count /\ body.header.count \in Nat
      BY <1>0, <1>3, BodyTypes DEF EndOfEntries, RequestTypes
    <2>2. CASE pos = Len(body.bytes)
      <3>1. parsePhase' = "parsed" /\ parsed' = parsed
        BY <1>3, <2>2 DEF EndOfEntries
      <3>2. PICK cut : CutUpTo(cut, body.header.count)
        BY <1>0, <2>1 DEF CutSoFar
      <3>3. Understood(body, parsed)
        BY <2>1, <2>2, <3>2 DEF CutUpTo, Understood, Holds
      <3> QED BY <3>1, <3>3 DEF Verdict
    <2>3. CASE pos # Len(body.bytes)
      <3>1. parsePhase' = "bad request"
        BY <1>3, <2>3 DEF EndOfEntries, Refuse
      <3>2. ASSUME NEW cut, IsEncoding(cut) PROVE FALSE
        <4>1. cut[body.header.count] = pos
          BY <1>0, <2>1, <3>2 DEF Follows
        <4>2. cut[body.header.count] = Len(body.bytes)
          BY <3>2 DEF IsEncoding, Cuts
        <4> QED BY <2>3, <4>1, <4>2
      <3> QED BY <1>7, <3>1, <3>2 DEF Verdict
    <2> QED BY <2>2, <2>3
  <1>4. CASE Json
    BY <1>0, <1>4 DEF Verdict, Json
  <1>5. CASE Weave
    BY <1>0, <1>5 DEF Verdict, Weave
  <1>6. CASE UNCHANGED requestVars
    BY <1>0, <1>6 DEF requestVars
  <1> QED BY <1>1, <1>2, <1>3, <1>4, <1>5, <1>6 DEF RequestNext

-----------------------------------------------------------------------------
(* The results. *)

\* Ready scripts have ranks of their own, from 1 to their number.
LEMMA RankType ==
    ASSUME NEW k \in Nat
    PROVE  IsFiniteSet(ReadyUpTo(k)) /\ Rank(k) \in Nat
  <1>1. IsFiniteSet(1..k)
    BY FS_Interval
  <1>2. ReadyUpTo(k) \in SUBSET (1..k)
    BY DEF ReadyUpTo
  <1>3. IsFiniteSet(ReadyUpTo(k))
    BY <1>1, <1>2, FS_Subset
  <1> QED BY <1>3, FS_CardinalityType DEF Rank

LEMMA RankGrows ==
    ASSUME NEW i \in Nat, NEW k \in Nat, i <= k
    PROVE  /\ Rank(i) <= Rank(k)
           /\ i < k /\ parsed[k].ready => Rank(i) < Rank(k)
  <1>1. ReadyUpTo(i) \in SUBSET ReadyUpTo(k)
    BY DEF ReadyUpTo
  <1>2. /\ Cardinality(ReadyUpTo(i)) <= Cardinality(ReadyUpTo(k))
        /\ Cardinality(ReadyUpTo(i)) = Cardinality(ReadyUpTo(k)) => ReadyUpTo(i) = ReadyUpTo(k)
    BY <1>1, RankType, FS_Subset
  <1>3. ASSUME i < k, parsed[k].ready PROVE ReadyUpTo(i) # ReadyUpTo(k)
    <2>1. k \in ReadyUpTo(k) /\ k \notin ReadyUpTo(i)
      BY <1>3 DEF ReadyUpTo
    <2> QED BY <2>1
  <1>4. Rank(i) \in Nat /\ Rank(k) \in Nat
    BY RankType
  <1> QED BY <1>2, <1>3, <1>4 DEF Rank

LEMMA SlotFound ==
    ASSUME parsed \in Seq(Items), NEW k \in 1..Len(parsed), parsed[k].ready
    PROVE  Slot(k) \in 1..Len(Ready) /\ Ready[Slot(k)] = k
  <1>1. PICK n \in Nat : n = Len(parsed)
    BY LenProperties
  <1>2. k \in Nat /\ k >= 1 /\ k <= n
    BY <1>1
  <1>3. Rank(n) \in Nat /\ Rank(k) \in Nat /\ Rank(k) <= Rank(n)
    BY <1>2, RankType, RankGrows
  <1>4. Rank(k) >= 1
    <2>1. 0 \in Nat /\ 0 <= k /\ 0 < k
      BY <1>2
    <2>2. Rank(0) < Rank(k) /\ Rank(0) \in Nat
      BY <2>1, <1>2, RankType, RankGrows
    <2> QED BY <1>3, <2>2
  <1>5. k \in ReadyUpTo(n)
    BY <1>2 DEF ReadyUpTo
  <1>6. ASSUME NEW i \in ReadyUpTo(n), Rank(i) = Rank(k) PROVE i = k
    <2>1. i \in Nat /\ parsed[i].ready
      BY DEF ReadyUpTo
    <2>2. ~(i < k)
      BY <1>2, <1>3, <1>6, <2>1, RankGrows
    <2>3. ~(k < i)
      BY <1>2, <1>3, <1>6, <2>1, RankGrows
    <2> QED BY <1>2, <2>1, <2>2, <2>3
  <1>7. Ready = [j \in 1..Rank(n) |-> CHOOSE i \in ReadyUpTo(n) : Rank(i) = j]
    BY <1>1 DEF Ready
  <1>8. PICK j : j = Rank(k)
    OBVIOUS
  <1>9. j \in 1..Rank(n)
    BY <1>3, <1>4, <1>8
  <1>10. (CHOOSE i \in ReadyUpTo(n) : Rank(i) = j) = k
    BY <1>5, <1>6, <1>8
  <1>11. Ready[j] = k
    BY <1>7, <1>9, <1>10
  <1>12. Len(Ready) = Rank(n)
    BY <1>3, <1>7
  <1> QED BY <1>9, <1>11, <1>12 DEF Slot

LEMMA OrderKept ==
    ASSUME RequestTypes, ResultsInOrder, [RequestNext]_requestVars
    PROVE  ResultsInOrder'
  <1>1. CASE Weave
    <2>1. /\ parsed' = parsed /\ body' = body
          /\ answers' = [k \in 1..Len(parsed) |->
               [index |-> k, outcome |-> IF parsed[k].ready THEN Outcomes[Slot(k)] ELSE Failed]]
      BY <1>1 DEF Weave
    <2>2. parsed \in Seq(Items) /\ Len(parsed) \in Nat
      BY LenProperties DEF RequestTypes
    <2>3. Len(answers') = Len(parsed)
      BY <2>1, <2>2
    <2>4. ASSUME NEW k \in 1..Len(parsed)
          PROVE  /\ answers'[k].index = k
                 /\ answers'[k].outcome =
                      IF parsed[k].ready THEN Decompile(parsed[k].code, parsed[k].name, body.options) ELSE Failed
      <3>1. ASSUME parsed[k].ready
            PROVE  Outcomes[Slot(k)] = Decompile(parsed[k].code, parsed[k].name, body.options)
        <4>1. Slot(k) \in 1..Len(Ready) /\ Ready[Slot(k)] = k
          BY <2>2, <3>1, SlotFound
        <4> QED BY <4>1 DEF Outcomes
      <3> QED BY <2>1, <3>1
    <2> QED BY <2>1, <2>3, <2>4 DEF ResultsInOrder
  <1>2. CASE Header \/ Entry \/ EndOfEntries \/ Json
    <2>1. parsePhase' # "answered"
      BY <1>2 DEF Header, Entry, EndOfEntries, Json, Refuse
    <2> QED BY <2>1 DEF ResultsInOrder
  <1>3. CASE UNCHANGED requestVars
    BY <1>3 DEF ResultsInOrder, requestVars
  <1> QED BY <1>1, <1>2, <1>3 DEF RequestNext

-----------------------------------------------------------------------------
(* The theorems about a batch request. *)

\* What holds at every moment of a request: the cursor stands where the
\* entries that were understood end, and where every way to read the body as
\* such entries goes on.
THEOREM RequestSafe == RequestSpec => []RequestInv
  <1>1. RequestInit => RequestInv
    BY RequestStarts
  <1>2. ASSUME RequestInv, [RequestNext]_requestVars PROVE RequestInv'
    BY <1>2, RequestTypesKept, CutKept, FollowsKept, EncodingsKept, OrderKept DEF RequestInv
  <1> QED BY <1>1, <1>2, PTL DEF RequestSpec

\* The MDB1 parser accepts exactly the bodies that are the encoding of as many
\* entries as their header counts, all within the limits, and understands them
\* as those entries.
THEOREM AcceptsTheEncodings == RequestSpec => []ExactlyTheEncodings
  <1>1. RequestInv => ExactlyTheEncodings
    BY DEF RequestInv
  <1> QED BY <1>1, RequestSafe, PTL

\* Every result answers the script at its own place of the request, however
\* many scripts before it failed on their own.
THEOREM AnswersInOrder == RequestSpec => []ResultsInOrder
  <1>1. RequestInv => ResultsInOrder
    BY DEF RequestInv
  <1> QED BY <1>1, RequestSafe, PTL

=============================================================================
