--------------------------- MODULE DecompilePool ---------------------------
(***************************************************************************)
(* One batch of scripts decompiled on the rayon pool: the layout of equal  *)
(* items, the attempts of one script, the functions of a script decompiled *)
(* in parallel, and the state each worker thread keeps between them (the   *)
(* counter local ids come from and the scopes of the script it drives).    *)
(*                                                                         *)
(* A worker that waits for the functions of its script takes up any other  *)
(* job meanwhile: a function of another script, or a whole other script,   *)
(* which then runs on top of the waiting one and uses the same counter and *)
(* the same scopes.  Everything between two such points runs on one thread *)
(* without yielding, and is one action.                                    *)
(***************************************************************************)
EXTENDS Naturals, Sequences, FiniteSets, SequencesExt

CONSTANTS
    Threads,    \* workers of the pool
    Batches,    \* what may be asked: <<[program, name]>> and [strict, compact]
    Hint(_),    \* script_module_hint
    Stride      \* ID_STRIDE

VARIABLES
    items,      \* the batch: <<[program, name]>>
    options,    \* [strict, compact], shared by the batch
    fresh,      \* requires_fresh_decompilation
    jobs,       \* jobs no thread has taken: <<item>> or <<item, function>>
    stack,      \* per thread, the scripts it drives, the waiting ones below
    counter,    \* per thread, NEXT_LOCAL_ID
    scope,      \* per thread, the script and attempt whose evidence is set
    base,       \* per item, id_base: the counter when lifting was done
    bodies,     \* per item, function by function, [kind, ids] or NoBody
    tail,       \* per item, the ids of the serial tail
    outcome,    \* per item, its Result or NoResult
    results     \* what the call returns, <<>> before it does

vars == <<items, options, fresh, jobs, stack, counter, scope, base, bodies, tail, outcome, results>>

NoBody == [kind |-> "none", ids |-> <<>>]
NoScope == [item |-> 0, attempt |-> 0]
NoSource == [script |-> <<>>, bodies |-> <<>>, tail |-> <<>>, evidence |-> <<>>]
NoResult == [status |-> "pending", source |-> NoSource]
Error == [status |-> "error", source |-> NoSource]

\* Ids a pass mints: construction, a speculative or a certified structuring,
\* the marker of a failure, the passes after structuring, the serial tail.
Prepared == 1
Structuring == 2
Dispatching == 1
Marker == 1
Late == 1
TailLocals == 2
ASSUME StrideAssumption == Stride \in Nat /\ Stride > Prepared + 2 * Structuring + 2 * Dispatching + 2 * Marker + Late

Item == 1..Len(items)
Functions(i) == 1..Len(items[i].program.functions)

\* What becomes of a function.
Fates ==
    [ssa : {"ok", "budget", "panic"}, structured : BOOLEAN, residual : BOOLEAN,
     certified : BOOLEAN, synthetic : BOOLEAN, leftover : BOOLEAN]
ProgramOK(p) ==
    /\ p.lift \in {"ok", "malformed", "panic"} /\ p.locals \in Nat /\ p.tail \in {"ok", "panic"}
    /\ p.excess \in Nat
    /\ p.functions \in Seq(Fates)
ASSUME ProgramAssumption ==
    \A b \in Batches :
        /\ b.items \in Seq({b.items[i] : i \in DOMAIN b.items})
        /\ \A i \in 1..Len(b.items) : ProgramOK(b.items[i].program)
        /\ b.options.strict \in BOOLEAN /\ b.options.compact \in BOOLEAN

----------------------------------------------------------------------------
\* batch_layout: an item's context, and the items that stand for theirs.

\* Mutant: the script's name plays no part.
ContextOfCode(i) == items[i].program
Context(i) == <<items[i].program, Hint(items[i].name)>>

Representative(i) ==
    IF fresh \/ Len(items) < 2 THEN i
    ELSE CHOOSE j \in Item : Context(j) = Context(i) /\ \A k \in Item : Context(k) = Context(i) => j <= k

Init ==
    /\ \E b \in Batches : items = b.items /\ options = b.options
    /\ fresh \in BOOLEAN
    /\ jobs = {<<Representative(i)>> : i \in Item}
    /\ stack = [t \in Threads |-> <<>>]
    /\ counter = [t \in Threads |-> 0]
    /\ scope = [t \in Threads |-> NoScope]
    /\ base = [i \in Item |-> 0]
    /\ bodies = [i \in Item |-> <<>>]
    /\ tail = [i \in Item |-> <<>>]
    /\ outcome = [i \in Item |-> NoResult]
    /\ results = <<>>

----------------------------------------------------------------------------
\* Frames.  A thread is free for a job when it drives nothing, or when the
\* script on top of its stack waits for its functions (rayon).

Top(t) == stack[t][Len(stack[t])]
Free(t) == stack[t] # <<>> => Top(t).phase = "join"
SetTop(t, frame) == [stack EXCEPT ![t][Len(stack[t])] = frame]
Pop(t) == [stack EXCEPT ![t] = Front(@)]
Mint(from, n) == [k \in 1..n |-> from + k - 1]

\* reset_local_ids and set_local_id_base: the counter of t from here on.
ResetIds(t) == 0
\* Mutant: the counter is left where the thread's last job put it.
SetBaseNever(t, start) == counter[t]
SetBase(t, start) == start

\* A worker takes a script: decompile_batch's closure, the loop of attempts.
Take(t, i) ==
    /\ Free(t) /\ <<i>> \in jobs
    /\ jobs' = jobs \ {<<i>>}
    /\ stack' = [stack EXCEPT ![t] = Append(@,
         [item |-> i, phase |-> "attempt", attempt |-> 1, sharing |-> 0,
          compact |-> options.compact, saved |-> NoScope])]
    /\ UNCHANGED <<items, options, fresh, counter, scope, base, bodies, tail, outcome, results>>

\* The script is answered: its frame goes, and with it, last, its scopes.
\* Mutant: a scope that ends clears the thread instead of restoring it.
AnswerCleared(t, result, previous) ==
    /\ outcome' = [outcome EXCEPT ![Top(t).item] = result]
    /\ stack' = Pop(t)
    /\ scope' = [scope EXCEPT ![t] = NoScope]

Answer(t, result, previous) ==
    /\ outcome' = [outcome EXCEPT ![Top(t).item] = result]
    /\ stack' = Pop(t)
    /\ scope' = [scope EXCEPT ![t] = previous]

\* decompile_bytecode_internal up to the parallel loop: reset the ids, enter
\* the scopes, validate, lift on this thread, fork the functions.
Attempt(t) ==
    LET frame == Top(t)
        program == items[frame.item].program
        lifted == ResetIds(t) + program.locals
    IN /\ stack[t] # <<>> /\ frame.phase = "attempt"
       /\ tail' = [tail EXCEPT ![frame.item] = <<>>]
       /\ \/ /\ program.lift # "ok"
             /\ counter' = [counter EXCEPT ![t] = ResetIds(t)]
             /\ Answer(t, Error, scope[t])
             /\ UNCHANGED <<jobs, base, bodies>>
          \/ /\ program.lift = "ok"
             /\ counter' = [counter EXCEPT ![t] = lifted]
             /\ base' = [base EXCEPT ![frame.item] = lifted]
             /\ scope' = [scope EXCEPT ![t] = [item |-> frame.item, attempt |-> frame.attempt]]
             /\ bodies' = [bodies EXCEPT ![frame.item] = [f \in Functions(frame.item) |-> NoBody]]
             /\ jobs' = jobs \cup {<<frame.item, f>> : f \in Functions(frame.item)}
             /\ stack' = SetTop(t, [frame EXCEPT !.phase = "join", !.saved = scope[t]])
             /\ UNCHANGED outcome
       /\ UNCHANGED <<items, options, fresh, results>>

----------------------------------------------------------------------------
\* decompile_function with the counter at start.  A block is what the
\* structurer, the dispatcher or the marker of a failure left, with the ids of
\* the locals that survive in it and the counter after it.

Block(kind, start, n) == [kind |-> kind, ids |-> Mint(start, n), end |-> start + n]

\* certified_fallback_for_policy
Certified(fate) == fate.certified /\ ~(options.strict /\ fate.synthetic)
Fallback(fate, start) ==
    IF Certified(fate) THEN Block("dispatcher", start, Dispatching) ELSE Block("marker", start, Marker)

\* The first attempt: source-like, or rolled back to start and dispatched.
FirstBlock(fate, start) ==
    IF fate.structured THEN Block("source", start, Structuring) ELSE Fallback(fate, start)

\* Jumps left in the first block reject it; the ids of a source-like one are
\* given back, and the counter ends above both attempts.
\* Mutant: the certified fallback is taken under the strict policy too, and
\* keeps the ids of the attempt it replaces.
SecondBlockAnyPolicy(fate, start) ==
    LET first == FirstBlock(fate, start)
    IN IF fate.residual \/ first.kind = "marker"
       THEN IF fate.certified THEN Block("dispatcher", start, Dispatching) ELSE Block("marker", start, Marker)
       ELSE first
SecondBlock(fate, start) ==
    LET first == FirstBlock(fate, start)
        again == IF fate.structured THEN start ELSE first.end
        second == IF options.strict THEN Block("marker", again, Marker) ELSE Fallback(fate, again)
    IN IF ~(fate.residual \/ first.kind = "marker") THEN first
       ELSE IF second.kind = "marker" /\ ~options.strict /\ first.end > second.end
            THEN [second EXCEPT !.end = first.end] ELSE second

\* Under the strict policy a dispatcher that was only tried fails the function.
FinalBlock(fate, start) ==
    LET second == SecondBlock(fate, start)
    IN IF options.strict /\ ~fate.structured THEN Block("marker", second.end, Marker) ELSE second

\* Mutant: the locals of an attempt that was rolled back live on in the next.
DecompiledRewound(fate, start) ==
    [kind |-> FinalBlock(fate, start + Prepared).kind, end |-> start + Prepared,
     ids |-> Mint(start, Prepared) \o FirstBlock(fate, start + Prepared).ids \o Mint(start + Prepared, Late)]
Decompiled(fate, start) ==
    LET after == start + Prepared
        final == FinalBlock(fate, after)
    IN CASE fate.ssa = "panic" -> [kind |-> "marker", ids |-> Mint(after, Marker), end |-> after + Marker]
         [] fate.ssa = "budget" ->
              [kind |-> "marker", ids |-> Mint(start, Prepared + Marker), end |-> after + Marker]
         [] OTHER ->
              [kind |-> IF final.kind = "dispatcher" /\ fate.leftover THEN "residual" ELSE final.kind,
               ids |-> Mint(start, Prepared) \o final.ids \o Mint(final.end, Late),
               end |-> final.end + Late]

\* The closure of the parallel loop: re-base the counter, decompile, keep a
\* panic to this function.
Function(t, i, f) ==
    /\ Free(t) /\ <<i, f>> \in jobs
    /\ LET start == SetBase(t, base[i] + (f - 1) * Stride)
           body == Decompiled(items[i].program.functions[f], start)
       IN /\ counter' = [counter EXCEPT ![t] = body.end]
          /\ bodies' = [bodies EXCEPT ![i][f] = [kind |-> body.kind, ids |-> body.ids]]
    /\ jobs' = jobs \ {<<i, f>>}
    /\ UNCHANGED <<items, options, fresh, stack, scope, base, tail, outcome, results>>

----------------------------------------------------------------------------
\* The serial tail.

\* function_tree_has_residual_control: a jump, a label or a marker is left.
Residual(parts) == \E f \in DOMAIN parts : parts[f].kind \in {"marker", "residual"}

Level(sharing, compact) == sharing + IF compact THEN 1 ELSE 0

\* More locals or registers at once than Luau allows.
OverLimit(frame) == items[frame.item].program.excess > Level(frame.sharing, frame.compact)

\* Everything the printed source depends on: the script and its hint, the
\* locals (hashed by id), and the evidence the passes found on their thread.
Output(i, parts, last, seen) ==
    [status |-> "ok", source |-> [script |-> <<items[i].program, Hint(items[i].name)>>, bodies |-> parts, tail |-> last,
        evidence |-> IF seen = NoScope THEN <<>> ELSE <<items[seen.item].program, seen.attempt>>]]

\* Sharing::next, then the compact style.
\* Mutant: the loop repeats the attempt it came from.
RetriedAlike(frame) == [frame EXCEPT !.phase = "attempt"]
Retried(frame) ==
    [frame EXCEPT !.phase = "attempt", !.attempt = @ + 1,
        !.sharing = IF @ < 2 THEN @ + 1 ELSE @, !.compact = frame.sharing = 2 \/ @]

\* The passes over the whole chunk, on the thread that drives it, once its
\* functions are done: fail, retry with more sharing, or format.
SerialTail(t) ==
    LET frame == Top(t)
        i == frame.item
        program == items[i].program
        start == SetBase(t, base[i] + Len(program.functions) * Stride)
        failed == program.tail = "panic" \/ Residual(bodies[i])
        over == OverLimit(frame)
        retry == over /\ ~failed /\ (frame.sharing < 2 \/ ~frame.compact)
        last == Mint(start, TailLocals)
    IN /\ stack[t] # <<>> /\ frame.phase = "join"
       /\ \A f \in Functions(i) : bodies[i][f] # NoBody
       /\ counter' = [counter EXCEPT ![t] = start + TailLocals]
       /\ tail' = [tail EXCEPT ![i] = last]
       /\ \/ /\ retry
             /\ stack' = SetTop(t, Retried(frame))
             /\ scope' = [scope EXCEPT ![t] = frame.saved]
             /\ UNCHANGED outcome
          \/ /\ ~retry
             /\ Answer(t, IF failed \/ over THEN Error ELSE Output(i, bodies[i], last, scope[t]), frame.saved)
       /\ UNCHANGED <<items, options, fresh, jobs, base, bodies, results>>

\* Every representative is answered: the results in the order of the items.
Return ==
    /\ results = <<>>
    /\ \A i \in Item : outcome[Representative(i)] # NoResult
    /\ results' = [i \in Item |-> outcome[Representative(i)]]
    /\ UNCHANGED <<items, options, fresh, jobs, stack, counter, scope, base, bodies, tail, outcome>>

Next ==
    \/ \E t \in Threads :
        \/ \E i \in Item : Take(t, i) \/ \E f \in Functions(i) : Function(t, i, f)
        \/ Attempt(t) \/ SerialTail(t)
    \/ Return

\* A pool thread that can run goes on, and takes jobs while there are any.
Fairness ==
    /\ \A t \in Threads : WF_vars(Attempt(t)) /\ WF_vars(SerialTail(t))
    /\ \A t \in Threads : WF_vars(\E i \in Item : Take(t, i) \/ \E f \in Functions(i) : Function(t, i, f))
    /\ WF_vars(Return)

Spec == Init /\ [][Next]_vars /\ Fairness

----------------------------------------------------------------------------
TypeOK ==
    /\ jobs \subseteq ({<<i>> : i \in Item} \cup (Item \X Nat))
    /\ counter \in [Threads -> Nat] /\ base \in [Item -> Nat]
    /\ scope \in [Threads -> [item : 0..Len(items), attempt : Nat]]
    /\ \A t \in Threads : \A k \in 1..Len(stack[t]) :
        stack[t][k].item \in Item /\ stack[t][k].sharing \in 0..2

\* The attempt a script needs when nothing else runs: the sharing levels in
\* turn, then the compact style, unless no level is enough.
Reached(excess) ==
    IF options.compact THEN IF excess <= 1 THEN 1 ELSE excess ELSE excess + 1

Part(i, f) ==
    LET body == Decompiled(items[i].program.functions[f], items[i].program.locals + (f - 1) * Stride)
    IN [kind |-> body.kind, ids |-> body.ids]
Parts(i) == [f \in Functions(i) |-> Part(i, f)]
TailIds(i) == Mint(items[i].program.locals + Len(items[i].program.functions) * Stride, TailLocals)

Alone(i) ==
    LET p == items[i].program
        broken == p.lift # "ok" \/ p.tail = "panic" \/ p.excess > 3 \/ Residual(Parts(i))
    IN IF broken THEN Error
       ELSE Output(i, Parts(i), TailIds(i), [item |-> i, attempt |-> Reached(p.excess)])

\* Each item of the answer is what decompiling that script on its own gives,
\* whatever ran beside it, below it or before it on its thread, whichever
\* equal item was decompiled in its place, and whatever else panicked.
AsIfAlone == results # <<>> => \A i \in Item : results[i] = Alone(i)

\* The ids of the locals of an item: those of lifting, of the serial tail and
\* of each function.
IdsOf(i) ==
    LET lifted == items[i].program.locals
    IN <<Mint(base[i] - lifted, lifted), tail[i]>> \o [f \in DOMAIN bodies[i] |-> bodies[i][f].ids]

\* No two locals of one decompilation share an id, attempts that were rolled
\* back included: RcLocal compares by id alone.
IdsUnique ==
    \A i \in Item : bodies[i] # <<>> =>
        \A p, q \in DOMAIN IdsOf(i) : \A j \in DOMAIN IdsOf(i)[p], k \in DOMAIN IdsOf(i)[q] :
            IdsOf(i)[p][j] = IdsOf(i)[q][k] => p = q /\ j = k

\* Under STRICT_NO_SYNTHETIC_CONTROL no script with a dispatched function is
\* answered as a success, and under no policy one with a function that failed.
FailsClosed ==
    \A i \in Item : outcome[i].status = "ok" => \A f \in Functions(i) :
        bodies[i][f].kind \in IF options.strict THEN {"source"} ELSE {"source", "dispatcher"}

\* Every batch is answered: no attempt is retried for ever, and waiting
\* scripts do not keep the pool from the functions they wait for.
Answered == <>(Len(results) = Len(items))
=============================================================================
