---------------------------- MODULE SsaDestruct -----------------------------
(***************************************************************************)
(* cfg/src/ssa/destruct.rs up to the coalescing, for functions without      *)
(* closures: block parameters become parallel copies, and what is known of  *)
(* the locals of the resulting function is worked out.                      *)
(***************************************************************************)
EXTENDS SsaConstruct, Dominators, FiniteSetsExt

VARIABLES analysis,   \* what is known of the function with its copies
          joined      \* the classes of locals, and their equal ancestors

NotYet == <<>>

-----------------------------------------------------------------------------
\* lift_params.
MintLike(f, locals) == FoldLeft(LAMBDA g, l : Mint(g, f.register[l]), f, locals)

LiftEdge(f, n, temps, k) ==
    LET edge == f.edges[k]
        args == edge.args
        minted == MintLike(f, [a \in DOMAIN args |-> args[a][1]])
        temp(a) == Minted(f) + a
        copy == Parallel([a \in DOMAIN args |-> temp(a)], [a \in DOMAIN args |-> Copy(args[a][2])])
        carried == [a \in DOMAIN args |-> <<temps[args[a][1]], temp(a)>>]
        split == Len(f.blocks) + 1
    IN IF Len(EdgesFrom(f, edge.from)) = 1
       THEN [minted EXCEPT !.edges[k].args = carried, !.blocks[edge.from] = Append(@, copy)]
       ELSE [minted EXCEPT !.blocks = Append(@, <<copy>>),
                           !.edges = RemoveAt(@, k)
                               \o <<[Edge(split, n, "always") EXCEPT !.args = carried],
                                    Edge(edge.from, split, edge.branch)>>]

\* Both ends get a local of their own: the block for every parameter, copied
\* at its head in the order of a hash map, and every edge for every argument.
LiftBlock(f, n, order) ==
    LET params == ParamsOf(f, n)
        temps == [p \in ToSet(params) |-> Minted(f) + Position(params, p)]
        head == Parallel(order, [k \in DOMAIN order |-> Copy(temps[order[k]])])
        minted == [MintLike(f, params) EXCEPT !.blocks[n] = <<head>> \o @]
    IN IF params = <<>> THEN f
       ELSE FoldLeft(LAMBDA g, k : LiftEdge(g, n, temps, k), minted, IndicesTo(f, n))

Lift ==
    /\ stage \in {"ssa", "lift"}
    /\ LET n == IF stage = "ssa" THEN 1 ELSE rank
           last == Len(source.blocks)
       IN /\ \E order \in Orders(ToSet(ParamsOf(function, n))) :
                function' = LiftBlock(function, n, order)
          /\ rank' = n + 1
          /\ stage' = IF n = last THEN "lifted" ELSE "lift"
    /\ UNCHANGED <<source, current, incomplete, sealed, analysis, joined>>

-----------------------------------------------------------------------------
\* build_def_use: where every local is defined, by the dominator preorder.
Slots == 100
Statements == 50

RECURSIVE Preorder(_, _, _)
Preorder(f, idom, stack) ==
    IF stack = <<>> THEN <<>>
    ELSE LET n == Last(stack)
             children == SelectSeq([m \in Nodes(f) |-> m], LAMBDA m : m # Entry /\ idom[m] = n)
         IN <<n>> \o Preorder(f, idom, Front(stack) \o children)

ParamDefs(f, order, n, params) ==
    {<<params[k], n, Slots * (Position(order, n) - 1) + k>> : k \in DOMAIN params}

StatementDefs(f, order, n) ==
    UNION {{<<l, n, Slots * (Position(order, n) - 1) + Statements + k>> : l \in ToSet(f.blocks[n][k].left)} :
              k \in DOMAIN f.blocks[n]}

Definitions(f, order) ==
    ParamDefs(f, order, Entry, f.params)
        \cup UNION {ParamDefs(f, order, n, ParamsOf(f, n)) \cup StatementDefs(f, order, n) : n \in Nodes(f)}

ReadsIn(f, n) == {l \in Locals(f) : \E k \in DOMAIN f.blocks[n] : Contains(ReadsOf(f.blocks[n][k]), l)}
WritesIn(f, n) == {l \in Locals(f) : \E k \in DOMAIN f.blocks[n] : Contains(f.blocks[n][k].left, l)}
PassedBy(f, n) == {l \in Locals(f) : \E k \in DOMAIN f.edges :
                      f.edges[k].from = n /\ \E a \in DOMAIN f.edges[k].args : f.edges[k].args[a][2] = l}

LastUse(f, order, n, l) ==
    Slots * (Position(order, n) - 1) + Statements
        + Max({k \in DOMAIN f.blocks[n] : Contains(ReadsOf(f.blocks[n][k]), l)})

-----------------------------------------------------------------------------
\* destruct/liveness.rs: back from the reads to the definition.

\* Mutant of WalkBack: a parameter is live before its block.
RECURSIVE WalkPastParams(_, _, _, _)
WalkPastParams(f, l, work, live) ==
    IF work = {} THEN live
    ELSE LET n == CHOOSE m \in work : TRUE
             before == ToSet(Predecessors(f, n))
         IN IF l \in WritesIn(f, n) \/ n \in live.into THEN WalkPastParams(f, l, work \ {n}, live)
            ELSE WalkPastParams(f, l, (work \ {n}) \cup before, [into |-> live.into \cup {n}, out |-> live.out \cup before])

RECURSIVE WalkBack(_, _, _, _)
WalkBack(f, l, work, live) ==
    IF work = {} THEN live
    ELSE LET n == CHOOSE m \in work : TRUE
             before == ToSet(Predecessors(f, n))
             entered == [live EXCEPT !.into = @ \cup {n}]
         IN IF l \in WritesIn(f, n) \/ n \in live.into THEN WalkBack(f, l, work \ {n}, live)
            ELSE IF Contains(ParamsOf(f, n), l) THEN WalkBack(f, l, work \ {n}, entered)
            ELSE WalkBack(f, l, (work \ {n}) \cup before, [entered EXCEPT !.out = @ \cup before])

Liveness(f, l) ==
    LET passed == {n \in Nodes(f) : l \in PassedBy(f, n)}
        used == {n \in Nodes(f) : l \in ReadsIn(f, n)}
    IN WalkBack(f, l, passed \cup used, [into |-> {}, out |-> passed])

-----------------------------------------------------------------------------
\* compute_value_interference: what copies connect holds one value.
CopiesOf(f) ==
    UNION {{<<s.left[k], s.right[k].reads[1]>> : k \in {j \in DOMAIN s.left : IsCopy(s, j)}} :
              s \in UNION {ToSet(f.blocks[n]) : n \in Nodes(f)}}

ConnectValues(values, copy) ==
    LET both == values[copy[1]] \cup values[copy[2]]
    IN [l \in DOMAIN values |-> IF l \in both THEN both ELSE values[l]]

Analyse ==
    /\ stage = "lifted"
    /\ LET sorted == [function EXCEPT !.edges = [k \in DOMAIN @ |->
                         [@[k] EXCEPT !.args = SortSeq(@, LAMBDA a, b : a[1] < b[1])]]]
           idom == ImmediateDominators(sorted)
           order == Preorder(sorted, idom, <<Entry>>)
           defs == Definitions(sorted, order)
           def(l) == CHOOSE d \in defs : d[1] = l
           defined == {d[1] : d \in defs}
       IN /\ function' = sorted
          /\ analysis' = [idom |-> idom, order |-> order,
                          block |-> [l \in defined |-> def(l)[2]],
                          key |-> [l \in defined |-> def(l)[3]],
                          uses |-> [l \in defined |->
                              [n \in {m \in Nodes(sorted) : l \in ReadsIn(sorted, m)} |->
                                  LastUse(sorted, order, n, l)]],
                          live |-> [l \in defined |-> Liveness(sorted, l)],
                          values |-> FoldSet(LAMBDA copy, values : ConnectValues(values, copy),
                                             [l \in Locals(sorted) |-> {l}], CopiesOf(sorted))]
          /\ joined' = [class |-> [l \in Locals(sorted) |-> None],
                        equalIn |-> [l \in Locals(sorted) |-> None],
                        equalOut |-> [l \in Locals(sorted) |-> None]]
    /\ stage' = "analysed"
    /\ rank' = 1
    /\ UNCHANGED <<source, current, incomplete, sealed>>

=============================================================================
