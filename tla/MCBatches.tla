----------------------------- MODULE MCBatches -----------------------------
(***************************************************************************)
(* The path of a batch, part by part: the server's parser and answers      *)
(* (BatchRequest), the pool that decompiles (DecompilePool), the worker    *)
(* behind the site (WorkerBatch) and the script that asks in the game      *)
(* (BatchClient).  They meet only in requests and answers, and each is     *)
(* checked against every request and every answer of the others, so a      *)
(* behaviour runs one of them while the others have nothing to do.         *)
(***************************************************************************)
EXTENDS DecompilePool, BatchRequest, WorkerBatch, BatchClient

VARIABLES
    part        \* the one that runs

----------------------------------------------------------------------------
\* Scripts for the pool.

Fate(ssa, structured, residual, certified, synthetic) ==
    [ssa |-> ssa, structured |-> structured, residual |-> residual, certified |-> certified,
     synthetic |-> synthetic, leftover |-> FALSE]
Plain == Fate("ok", TRUE, FALSE, TRUE, TRUE)
Jumpy == Fate("ok", TRUE, TRUE, TRUE, TRUE)
Irreducible == Fate("ok", FALSE, FALSE, TRUE, TRUE)
Crashing == Fate("panic", TRUE, FALSE, TRUE, TRUE)

Program(functions, excess) ==
    [lift |-> "ok", locals |-> 1, functions |-> functions, tail |-> "ok", excess |-> excess]

\* For the interleavings of a batch, under two paths of one module and another
\* module.
MixedPrograms == {Program(<<Plain>>, 0), Program(<<Jumpy>>, 1), Program(<<Plain, Crashing>>, 0)}
AllNames == {"a/Widget", "b/Widget", "b/Gadget"}
ModuleHint(name) == IF name = "b/Gadget" THEN "Gadget" ELSE "Widget"

\* Every fate of a function, every excess over the limits, every way to fail.
AllPrograms ==
    {Program(<<f>>, 0) :
        f \in [ssa : {"ok", "budget", "panic"}, structured : BOOLEAN, residual : BOOLEAN,
               certified : BOOLEAN, synthetic : BOOLEAN, leftover : BOOLEAN]}
    \cup {Program(<<Plain, Irreducible>>, e) : e \in 0..4}
    \cup {[lift |-> l, locals |-> 1, functions |-> <<Plain>>, tail |-> k, excess |-> 0] :
        l \in {"ok", "malformed", "panic"}, k \in {"ok", "panic"}}

Batch(items_, strict, compact) == [items |-> items_, options |-> [strict |-> strict, compact |-> compact]]
NoBatch == Batch(<<>>, FALSE, FALSE)
AllBatches ==
    {NoBatch}
    \cup {Batch(b, FALSE, FALSE) : b \in [1..2 -> [program : MixedPrograms, name : AllNames]]}
    \cup {Batch(<<[program |-> p, name |-> "a/Widget"]>>, s, c) : p \in AllPrograms, s, c \in BOOLEAN}

----------------------------------------------------------------------------
\* The request: a word of two bits, names of up to one and codes of up to two,
\* of which one does not decompile.

IsText(name) == name # <<1>>
DecompileOne(code, name, requested) ==
    IF code = <<1>> THEN [ok |-> FALSE, source |-> <<>>] ELSE [ok |-> TRUE, source |-> <<code, name, requested>>]

Good(count) == [whole |-> TRUE, magic |-> TRUE, version |-> 1, known |-> TRUE, reserved |-> 0, count |-> count]
BadHeaders ==
    {[Good(1) EXCEPT !.whole = FALSE], [Good(1) EXCEPT !.magic = FALSE], [Good(1) EXCEPT !.version = 2],
     [Good(1) EXCEPT !.known = FALSE], [Good(1) EXCEPT !.reserved = 1], Good(4)}

\* Every body of up to nine bytes behind a good header; the longer ones that two
\* entries need, as the encodings with a byte more, less or changed.
Mdb1Bodies(header, strings) ==
    {[json |-> FALSE, header |-> header, bytes |-> s, options |-> "a"] : s \in strings}
Near(s) ==
    {s, Append(s, 0), Append(s, 1)} \cup (IF s = <<>> THEN {} ELSE {Front(s)})
        \cup {[s EXCEPT ![k] = 1 - @] : k \in 1..Len(s)}
TwoEntries == UNION {Near(Encoded(e) \o Encoded(f)) : e, f \in Entries}
JsonBodies ==
    {[json |-> TRUE, valid |-> v, entries |-> e, options |-> "a"] : v \in BOOLEAN,
        e \in UNION {[1..n -> [base64 : BOOLEAN, code : {<<0>>, <<1>>}, name : {<<>>, <<0>>}]] : n \in 0..4}}
AllBodies ==
    UNION {Mdb1Bodies(Good(c), Strings(9)) : c \in 0..2} \cup Mdb1Bodies(Good(2), TwoEntries)
        \cup UNION {Mdb1Bodies(h, {<<0, 0, 0, 0>>}) : h \in BadHeaders} \cup JsonBodies

----------------------------------------------------------------------------
\* The worker: "bad" does not decode, the others give what they hold and are
\* called.

WorkerExecute(encoded, name) ==
    IF encoded = "bad" THEN [ok |-> FALSE, text |-> <<>>] ELSE [ok |-> TRUE, text |-> <<encoded, name>>]

----------------------------------------------------------------------------
allVars == <<part, vars, requestVars, workerVars, clientVars>>

\* A part that does not run has answered an empty request, and the client has
\* nothing to send.
MCInit ==
    /\ part \in {"pool", "request", "worker", "client"}
    /\ IF part = "pool" THEN Init /\ items # <<>> ELSE items = <<>> /\ fresh = FALSE /\ Init
    /\ IF part = "request"
       THEN RequestInit
       ELSE /\ body = [json |-> TRUE, valid |-> TRUE, entries |-> <<>>, options |-> "a"]
            /\ pos = 0 /\ parsed = <<>> /\ parsePhase = "answered" /\ answers = <<>>
    /\ IF part = "worker" THEN WorkerInit ELSE scripts = <<>> /\ WorkerInit
    /\ IF part = "client"
       THEN ClientInit
       ELSE /\ entries = <<>> /\ first = 1 /\ attempt = 0 /\ asked = {} /\ phase = "idle"
            /\ cache = [i \in Instances |-> Missing] /\ answer = [i \in Instances |-> Missing]

MCNext ==
    \/ part = "pool" /\ Next /\ UNCHANGED <<part, requestVars, workerVars, clientVars>>
    \/ part = "request" /\ RequestNext /\ UNCHANGED <<part, vars, workerVars, clientVars>>
    \/ part = "worker" /\ WorkerNext /\ UNCHANGED <<part, vars, requestVars, clientVars>>
    \/ part = "client" /\ ClientNext /\ UNCHANGED <<part, vars, requestVars, workerVars>>

MCSpec == MCInit /\ [][MCNext]_allVars /\ Fairness

=============================================================================
