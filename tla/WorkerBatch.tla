---------------------------- MODULE WorkerBatch ----------------------------
(***************************************************************************)
(* decompile_batch_items of the wasm worker: the scripts of a request one  *)
(* after the other, with a bounded map of the inputs seen so far, whose    *)
(* results later equal inputs copy.                                        *)
(***************************************************************************)
EXTENDS Naturals, Sequences, FiniteSets, FiniteSetsExt

CONSTANTS
    Bytecodes,      \* encoded bytecodes
    Names,          \* script names
    Sizes,          \* capacities a key may hold on to
    Length,         \* longest request
    Execute(_, _),  \* decode and decompile: an outcome per (encoded, name)
    MaxKeys,        \* MAX_BATCH_REUSE_ENTRIES
    MaxKeyBytes     \* MAX_BATCH_REUSE_KEY_BYTES

ASSUME WorkerAssumption == Sizes \subseteq Nat /\ Length \in Nat /\ MaxKeys \in Nat /\ MaxKeyBytes \in Nat

VARIABLES
    scripts,    \* the request: <<[encoded, name, size]>>
    reuse,      \* reuse_results
    contexts,   \* the map: (encoded, name) -> index of a result
    keyBytes,   \* key_bytes
    outcomes    \* results: what was answered so far

workerVars == <<scripts, reuse, contexts, keyBytes, outcomes>>

\* Mutant: the name is not part of the key.
KeyOfCode(i) == <<scripts[i].encoded>>

Key(i) == <<scripts[i].encoded, scripts[i].name>>

WorkerInit ==
    /\ scripts \in UNION {[1..n -> [encoded : Bytecodes, name : Names, size : Sizes]] : n \in 0..Length}
    /\ reuse \in {FALSE, Len(scripts) > 1}
    /\ contexts = <<>>
    /\ keyBytes = 0
    /\ outcomes = <<>>

\* Decided before the lookup: room for one more key, and for its bytes.
CanRetain(i) ==
    Cardinality(DOMAIN contexts) < MaxKeys /\ scripts[i].size <= MaxKeyBytes - keyBytes

\* The input was seen: copy its result under this index.
Copy ==
    LET i == Len(outcomes) + 1
    IN /\ i <= Len(scripts) /\ reuse /\ Key(i) \in DOMAIN contexts
       /\ outcomes' = Append(outcomes, [index |-> i, outcome |-> outcomes[contexts[Key(i)]].outcome])
       /\ UNCHANGED <<scripts, reuse, contexts, keyBytes>>

\* It was not: decompile it, and remember where its result is.
Run ==
    LET i == Len(outcomes) + 1
        keep == reuse /\ CanRetain(i)
    IN /\ i <= Len(scripts) /\ ~(reuse /\ Key(i) \in DOMAIN contexts)
       /\ outcomes' = Append(outcomes, [index |-> i, outcome |-> Execute(scripts[i].encoded, scripts[i].name)])
       /\ contexts' = IF keep THEN [k \in DOMAIN contexts \cup {Key(i)} |->
                                      IF k = Key(i) THEN i ELSE contexts[k]] ELSE contexts
       /\ keyBytes' = IF keep THEN keyBytes + scripts[i].size ELSE keyBytes
       /\ UNCHANGED <<scripts, reuse>>

WorkerNext == Copy \/ Run

WorkerSpec == WorkerInit /\ [][WorkerNext]_workerVars

----------------------------------------------------------------------------
\* Each result is the one its own input gives, copied or not.
SameAsFresh ==
    \A i \in 1..Len(outcomes) :
        outcomes[i] = [index |-> i, outcome |-> Execute(scripts[i].encoded, scripts[i].name)]

\* What the map holds on to stays within both bounds.
RetentionBounded == Cardinality(DOMAIN contexts) <= MaxKeys /\ keyBytes <= MaxKeyBytes
=============================================================================
