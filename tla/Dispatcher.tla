----------------------------- MODULE Dispatcher -----------------------------
(***************************************************************************)
(* The dispatcher of restructure/src/fallback.rs: a control-flow graph that  *)
(* cannot be structured becomes                                             *)
(*                                                                         *)
(*     local <persistent locals>                                            *)
(*     local state = <entry>                                                *)
(*     while true do if state == 0 then ... elseif state == 1 ... end end   *)
(*                                                                         *)
(* in which every edge assigns its arguments and the next state and then     *)
(* continues.  Locals that are not declared in front of the loop are fresh   *)
(* in every iteration.                                                       *)
(*                                                                         *)
(* The graph and its dispatcher run side by side, one statement at a time.  *)
(* A local is a sequence of cells, of which the last is the one it has now: *)
(* closures that capture the local share that cell, and keep it when the    *)
(* local is given a new one.  Where the graph's cells were closed is not     *)
(* known when the fallback runs (CLOSEUPVALS is gone), so the graph may      *)
(* close any locals on any edge: the dispatcher has to agree with each       *)
(* possibility.                                                             *)
(***************************************************************************)
EXTENDS Naturals, Sequences, SequencesExt

CONSTANTS
    Functions,   \* control-flow graphs to lower
    CfgLocals,
    Values,      \* what a register may hold; Nil is one of them
    Nil,
    Closure      \* the value of a local that holds a closure

(***************************************************************************)
(* A graph is [entry, ignored, blocks], blocks a sequence of                 *)
(* [body, test, edges]: statements, the local an If terminator tests or      *)
(* "none", and edges [kind, to, arguments].  Statements and arguments:       *)
(*   <<"set", x, e>>   x = e, where e is <<"value", v>>, <<"local", y>> or   *)
(*                     <<"ref", y>>, a closure that captures y by reference  *)
(*   <<"use", x>>      x is passed to a function: observable                 *)
(*   <<"call", v>>     a closure made so far may be called: it shows its     *)
(*                     cell and writes v to it                               *)
(*   <<"opaque">>      an embedded block, break, continue or loop marker     *)
(***************************************************************************)
Expressions   == ({"value"} \X Values) \union ({"local", "ref"} \X CfgLocals)
Assignments   == {"set"} \X CfgLocals \X Expressions
AllStatements == Assignments \union ({"use"} \X CfgLocals) \union ({"call"} \X Values) \union {<<"opaque">>}

IsGraph(f) ==
    /\ f.ignored \subseteq CfgLocals
    /\ f.entry \in DOMAIN f.blocks
    /\ f.blocks \in Seq([body : Seq(AllStatements), test : CfgLocals \union {"none"},
            edges : Seq([kind : {"then", "else", "unconditional"}, to : DOMAIN f.blocks,
                         arguments : Seq(Assignments)])])

\* The graphs are well-formed.
ASSUME DispatcherAssumption ==
    /\ Nil \in Values /\ Closure \in Values /\ "none" \notin CfgLocals
    /\ \A f \in Functions : IsGraph(f)

VARIABLES
    graph,       \* the function
    status,      \* "new", "lifted", "refused", "ended"
    persistent,  \* locals declared in front of the loop
    node,        \* block of the graph
    current,     \* the dispatcher's state local
    position,    \* next statement of the block
    original,    \* machine that runs the graph
    dispatched,  \* machine that runs the dispatcher
    captured     \* <<x, i, j>>: a closure holds the i-th cell of x in the
                 \* graph, the j-th in the dispatcher

dispatcherVars == <<graph, status, persistent, node, current, position, original, dispatched, captured>>

Nodes(g)      == DOMAIN g.blocks
Targets(g, n) == {g.blocks[n].edges[i].to : i \in DOMAIN g.blocks[n].edges}

-----------------------------------------------------------------------------
(* Facts about states. *)

Leads(g, S) == \A n \in S : Targets(g, n) \subseteq S

\* reachable_nodes.
Reachable(g) == {n \in Nodes(g) : \A S \in SUBSET Nodes(g) : g.entry \in S /\ Leads(g, S) => n \in S}

ReadsOf(e)    == IF e[1] = "value" THEN {} ELSE {e[2]}
CapturesOf(e) == IF e[1] = "ref" THEN {e[2]} ELSE {}

Reads(s)    == IF s[1] = "use" THEN {s[2]} ELSE IF s[1] = "set" THEN ReadsOf(s[3]) ELSE {}
Writes(s)   == IF s[1] = "set" THEN {s[2]} ELSE {}
Captures(s) == IF s[1] = "set" THEN CapturesOf(s[3]) ELSE {}

\* Arguments of all edges of a block.
Arguments(g, n) ==
    UNION {{g.blocks[n].edges[i].arguments[j] : j \in DOMAIN g.blocks[n].edges[i].arguments}
             : i \in DOMAIN g.blocks[n].edges}

\* analyze_state.  The test is read after the body, and so are arguments.
DefsBefore(g, n, k) == UNION {Writes(g.blocks[n].body[j]) : j \in 1..k - 1}
Defs(g, n) == DefsBefore(g, n, Len(g.blocks[n].body) + 1)

UseBeforeDef(g, n) ==
    (UNION {Reads(g.blocks[n].body[i]) \ DefsBefore(g, n, i) : i \in DOMAIN g.blocks[n].body})
      \union ((({g.blocks[n].test} \ {"none"}) \union (UNION {Reads(a) : a \in Arguments(g, n)}))
                \ Defs(g, n))

CapturedRef(g, n) ==
    (UNION {Captures(g.blocks[n].body[i]) : i \in DOMAIN g.blocks[n].body})
      \union (UNION {Captures(a) : a \in Arguments(g, n)})

\* persistent_locals: the least solution of the liveness equations.  (The
\* queue the code finds it with is in StateLiveness.)
NeededAt(g, x, S) ==
    \A n \in Nodes(g) :
        x \in UseBeforeDef(g, n) \/ (x \notin Defs(g, n) /\ Targets(g, n) \intersect S # {}) => n \in S

LiveIn(g, n) == {x \in CfgLocals : \A S \in SUBSET Nodes(g) : NeededAt(g, x, S) => n \in S}

\* Mutant of Persistent: only what the entry needs is declared in front.
PersistentAtEntry(g) == LiveIn(g, g.entry) \ g.ignored

Persistent(g) == (UNION {LiveIn(g, n) : n \in Reachable(g)}) \ g.ignored

\* cyclic_states.  (The two passes the code finds them with are in
\* CyclicStates.)
Ahead(g, n) ==
    {m \in Nodes(g) : \A S \in SUBSET Nodes(g) : Targets(g, n) \subseteq S /\ Leads(g, S) => m \in S}

CyclicNodes(g) == {n \in Reachable(g) : n \in Ahead(g, n)}

\* Locals that edges of a block write or read.
EdgeValues(g, n) == UNION {Writes(a) \union Reads(a) : a \in Arguments(g, n)}

Touches(g, n) == CapturedRef(g, n) \union UseBeforeDef(g, n) \union Defs(g, n) \union EdgeValues(g, n)

\* Mutant of ContainsRefCapture: only cells that live across states count.
ContainsPersistentCapture(g) ==
    \E n \in Reachable(g) : \E x \in CapturedRef(g, n) \ g.ignored : x \in Persistent(g)

\* contains_ref_capture: a captured local must belong to one state that is
\* entered once, and to none of its edges.
ContainsRefCapture(g) ==
    \E n \in Reachable(g) : \E x \in CapturedRef(g, n) \ g.ignored :
        \/ x \in Persistent(g)
        \/ n \in CyclicNodes(g)
        \/ x \in EdgeValues(g, n)
        \/ \E m \in Reachable(g) \ {n} : x \in Touches(g, m)

-----------------------------------------------------------------------------
(* Lowering. *)

Kinds(g, n) == [i \in DOMAIN g.blocks[n].edges |-> g.blocks[n].edges[i].kind]

\* lower_block: an If has a Then and an Else edge, another block at most one
\* unconditional edge.
Lowers(g, n) ==
    IF g.blocks[n].test # "none"
    THEN Kinds(g, n) \in {<<"then", "else">>, <<"else", "then">>}
    ELSE Kinds(g, n) \in {<<>>, <<"unconditional">>}

Opaque(g, n) == \E i \in DOMAIN g.blocks[n].body : g.blocks[n].body[i][1] = "opaque"

\* lift_certified_with_ignored_locals.
Lifts(g) ==
    /\ \A n \in Reachable(g) : ~Opaque(g, n) /\ Lowers(g, n)
    /\ ~ContainsRefCapture(g)

-----------------------------------------------------------------------------
(* Machines: the cells of every local, and what the last statement showed.   *)

\* Parameters and upvalues hold v when the function starts.
Fresh(v) == [cells |-> [x \in CfgLocals |-> IF x \in graph.ignored THEN <<v>> ELSE <<Nil>>], out |-> <<>>]

\* The value of a local, in the cell it has now.
Held(m, x) == m.cells[x][Len(m.cells[x])]

Eval(m, e) ==
    IF e[1] = "value" THEN e[2] ELSE IF e[1] = "local" THEN Held(m, e[2]) ELSE Closure

\* A local gets a value, in the cell it has now.
Written(cells, v) == [cells EXCEPT ![Len(cells)] = v]

\* An assignment or a use.
Execute(m, s) ==
    IF s[1] = "set"
    THEN [cells |-> [m.cells EXCEPT ![s[2]] = Written(@, Eval(m, s[3]))], out |-> <<>>]
    ELSE [cells |-> m.cells, out |-> <<Held(m, s[2])>>]

\* A closure that holds the i-th cell of x shows it and writes to it.
Through(m, x, i, v) == [cells |-> [m.cells EXCEPT ![x][i] = v], out |-> <<m.cells[x][i]>>]

\* Closures that capture these locals now.
New(xs) == {<<x, Len(original.cells[x]), Len(dispatched.cells[x])>> : x \in xs}

\* The cells that closures hold, in either machine.
InOriginal(closures)   == {<<c[1], c[2]>> : c \in closures}
InDispatched(closures) == {<<c[1], c[3]>> : c \in closures}

\* The edge a machine leaves block b on.
Wanted(m, b) ==
    IF b.test = "none" THEN "unconditional" ELSE IF Held(m, b.test) # Nil THEN "then" ELSE "else"

Chosen(m, b) == b.edges[CHOOSE j \in DOMAIN b.edges : b.edges[j].kind = Wanted(m, b)]

\* Arguments are assigned in parallel.
Assigns(arguments, x) == {j \in DOMAIN arguments : arguments[j][2] = x}

Assign(m, arguments) ==
    [cells |-> [x \in CfgLocals |->
        IF Assigns(arguments, x) = {} THEN m.cells[x]
        ELSE Written(m.cells[x], Eval(m, arguments[CHOOSE j \in Assigns(arguments, x) : TRUE][3]))],
     out |-> <<>>]

\* Cells of locals are closed: a closure keeps the cell, the local gets
\* another one with the same value.
Close(m, held, xs) ==
    [cells |-> [x \in CfgLocals |->
        IF x \in xs /\ <<x, Len(m.cells[x])>> \in held THEN Append(m.cells[x], Held(m, x)) ELSE m.cells[x]],
     out |-> m.out]

\* Locals that a new iteration of the loop declares again.
Scoped == CfgLocals \ (persistent \union graph.ignored)

\* A new iteration: scoped locals hold nil, in a new cell if a closure holds
\* the old one.
Iterate(m, held) ==
    [cells |-> [x \in CfgLocals |->
        IF x \notin Scoped THEN m.cells[x]
        ELSE IF <<x, Len(m.cells[x])>> \in held THEN Append(m.cells[x], Nil)
        ELSE Written(m.cells[x], Nil)],
     out |-> m.out]

\* Mutant of Transition: arguments are assigned one after the other.
TransitionInTurn(m, arguments, held) ==
    Iterate(FoldLeft(LAMBDA acc, a : Assign(acc, <<a>>), m, arguments), held)

\* transition: one parallel assignment, then continue.
Transition(m, arguments, held) == Iterate(Assign(m, arguments), held)

-----------------------------------------------------------------------------

DispatcherInit ==
    /\ graph \in Functions
    /\ status = "new"
    /\ persistent = {}
    /\ node = graph.entry
    /\ current = 0
    /\ position = 1
    /\ \E v \in Values : original = Fresh(v)
    /\ dispatched = original
    /\ captured = {}

\* The fallback lowers the function or refuses it.
Lift ==
    /\ status = "new"
    /\ status' = IF Lifts(graph) THEN "lifted" ELSE "refused"
    /\ persistent' = Persistent(graph)
    /\ current' = graph.entry
    /\ UNCHANGED <<graph, node, position, original, dispatched, captured>>

\* Both are at the same statement.
At(kinds) ==
    /\ status = "lifted" /\ node = current
    /\ position <= Len(graph.blocks[node].body)
    /\ graph.blocks[node].body[position][1] \in kinds

\* An assignment, which may capture a local, or a use.
Statement ==
    LET s == graph.blocks[node].body[position]
    IN /\ At({"set", "use"})
       /\ original' = Execute(original, s)
       /\ dispatched' = Execute(dispatched, s)
       /\ captured' = captured \union New(Captures(s))
       /\ position' = position + 1
       /\ UNCHANGED <<graph, status, persistent, node, current>>

\* One of the closures is called.
Call ==
    LET v == graph.blocks[node].body[position][2]
    IN /\ At({"call"})
       /\ \E c \in captured :
            /\ original' = Through(original, c[1], c[2], v)
            /\ dispatched' = Through(dispatched, c[1], c[3], v)
       /\ position' = position + 1
       /\ UNCHANGED <<graph, status, persistent, node, current, captured>>

\* None is.
NoCall ==
    /\ At({"call"})
    /\ original' = [cells |-> original.cells, out |-> <<>>]
    /\ dispatched' = [cells |-> dispatched.cells, out |-> <<>>]
    /\ position' = position + 1
    /\ UNCHANGED <<graph, status, persistent, node, current, captured>>

AtEnd == status = "lifted" /\ node = current /\ position > Len(graph.blocks[node].body)

\* Both leave the block: the graph closes the cells of some locals on the
\* edge, the dispatcher begins a new iteration.
Leave ==
    LET e == Chosen(original, graph.blocks[node])
        f == Chosen(dispatched, graph.blocks[current])
        ys == UNION {Captures(e.arguments[j]) : j \in DOMAIN e.arguments}
    IN /\ AtEnd /\ graph.blocks[node].edges # <<>>
       /\ node' = e.to
       /\ current' = f.to
       /\ position' = 1
       /\ captured' = captured \union New(ys)
       /\ \E xs \in SUBSET (CfgLocals \ graph.ignored) :
            original' = Close(Assign(original, e.arguments), InOriginal(captured'), xs)
       /\ dispatched' = Transition(dispatched, f.arguments, InDispatched(captured'))
       /\ UNCHANGED <<graph, status, persistent>>

\* A block without edges: return, or break out of the loop.
End ==
    /\ AtEnd /\ graph.blocks[node].edges = <<>>
    /\ status' = "ended"
    /\ UNCHANGED <<graph, persistent, node, current, position, original, dispatched, captured>>

DispatcherNext == Lift \/ Statement \/ Call \/ NoCall \/ Leave \/ End

DispatcherSpec == DispatcherInit /\ [][DispatcherNext]_dispatcherVars

-----------------------------------------------------------------------------
(* Properties. *)

\* The dispatcher does what the graph does: it is in the same block and shows
\* the same values, also through closures, for every way the graph's cells may
\* have been closed.
SameBehaviour ==
    status \in {"lifted", "ended"} => node = current /\ original.out = dispatched.out

\* Locals a block may still need have the graph's values in the dispatcher.
LiveValuesAgree ==
    status = "lifted" /\ position = 1 =>
        \A x \in LiveIn(graph, node) : Held(original, x) = Held(dispatched, x)

\* A local captured by reference has the lifetime its closure needs: when the
\* dispatcher drops its cell, nothing of the function can use it any more.
DroppedCellsAreDead ==
    status = "lifted" /\ position = 1 =>
        \A c \in captured : c[3] < Len(dispatched.cells[c[1]]) =>
             \A n \in {node} \union Ahead(graph, node) : c[1] \notin Touches(graph, n)

\* The dispatcher loop shows what the graph shows, also through closures: the
\* locals a block may still need have the graph's values, and a cell the
\* dispatcher drops is one nothing uses any more
\* (lift_certified_with_ignored_locals).
DispatcherBehaviour == SameBehaviour /\ LiveValuesAgree /\ DroppedCellsAreDead
=============================================================================
