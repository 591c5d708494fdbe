---------------------------- MODULE SsaConstruct ----------------------------
(***************************************************************************)
(* cfg/src/ssa/construct.rs for functions without closures: every write of  *)
(* a register gets a local of its own, a read finds the one that reaches    *)
(* it, and a block where several meet takes them as a parameter.            *)
(***************************************************************************)
EXTENDS SsaFunctions

VARIABLES source,      \* the function before
          function,    \* what it has become
          current,     \* register -> block -> the local it holds there, or None
          incomplete,  \* block -> its <<register, parameter>> pairs without arguments
          sealed,      \* blocks whose predecessors are all renamed
          stage, rank

constructVars == <<source, function, current, incomplete, sealed, stage, rank>>

Unnamed == 0

Registers == {source.register[l] : l \in DOMAIN source.register}

-----------------------------------------------------------------------------
Write(st, n, r, l) == [st EXCEPT !.current[r][n] = l]

RECURSIVE FindLocal(_, _, _)

\* Mutant of AddArguments: every edge brings what the newest one finds.
AddFirstToAll(st, n, r, param) ==
    FoldLeft(LAMBDA s, k : LET found == FindLocal(s, EdgesTo(s.f, n)[1].from, r)
                           IN [found EXCEPT !.f.edges[k].args = Append(@, <<param, found.local>>)],
             st, IndicesTo(st.f, n))

AddArguments(st, n, r, param) ==
    FoldLeft(LAMBDA s, k : LET found == FindLocal(s, s.f.edges[k].from, r)
                           IN [found EXCEPT !.f.edges[k].args = Append(@, <<param, found.local>>)],
             st, IndicesTo(st.f, n))

\* The local that register r holds at block n, left in .local.
FindLocal(st, n, r) ==
    LET minted == [st EXCEPT !.f = Mint(@, r)]
        param == Minted(minted.f)
        recorded(s, l) == [Write(s, n, r, l) EXCEPT !.local = l]
    IN CASE st.current[r][n] # None -> [st EXCEPT !.local = st.current[r][n]]
         [] st.current[r][n] = None /\ n \notin st.sealed ->
                recorded([minted EXCEPT !.incomplete[n] = Append(@, <<r, param>>)], param)
         [] st.current[r][n] = None /\ n \in st.sealed /\ Len(Predecessors(st.f, n)) = 1 ->
                LET found == FindLocal(st, Predecessors(st.f, n)[1], r) IN recorded(found, found.local)
         [] OTHER -> recorded(AddArguments(Write(minted, n, r, param), n, r, param), param)

-----------------------------------------------------------------------------
ReadInto(st, r) ==
    LET found == FindLocal(st, st.node, r) IN [found EXCEPT !.reads = Append(@, found.local)]

RenameValue(st, v) ==
    LET found == FoldLeft(ReadInto, [st EXCEPT !.reads = <<>>], v.reads)
    IN [found EXCEPT !.right = Append(@, [v EXCEPT !.reads = found.reads])]

RenameTarget(st, r) ==
    LET minted == [st EXCEPT !.f = Mint(@, r)]
    IN [Write(minted, st.node, r, Minted(minted.f)) EXCEPT !.left = Append(@, Minted(minted.f))]

\* Mutant of RenameStatement: the targets are renamed before the reads.
RenameTargetsFirst(st, s) ==
    LET written == FoldLeft(RenameTarget, [st EXCEPT !.left = <<>>, !.right = <<>>], s.left)
        done == FoldLeft(RenameValue, written, s.right)
    IN [done EXCEPT !.statements = Append(@, [s EXCEPT !.left = done.left, !.right = done.right])]

RenameStatement(st, s) ==
    LET read == FoldLeft(RenameValue, [st EXCEPT !.left = <<>>, !.right = <<>>], s.right)
        done == FoldLeft(RenameTarget, read, s.left)
    IN [done EXCEPT !.statements = Append(@, [s EXCEPT !.left = done.left, !.right = done.right])]

RenameBlock(st, n) ==
    LET done == FoldLeft(RenameStatement, [st EXCEPT !.node = n, !.statements = <<>>], st.f.blocks[n])
    IN [done EXCEPT !.f.blocks[n] = done.statements]

\* Mutant of ReadyAt: a block is sealed when it is visited.
ReadyWhenVisited(f, n) == CHOOSE k \in DOMAIN Dfs(f) : Dfs(f)[k] = n

\* A block is sealed when it and its last predecessor have been visited.
ReadyAt(f, n) ==
    CHOOSE k \in DOMAIN Dfs(f) :
        /\ Dfs(f)[k] \in {n} \cup ToSet(Predecessors(f, n))
        /\ \A m \in DOMAIN Dfs(f) : Dfs(f)[m] \in {n} \cup ToSet(Predecessors(f, n)) => m <= k

Seal(st, n) ==
    LET filled == FoldLeft(LAMBDA s, p : AddArguments(s, n, p[1], p[2]), st, st.incomplete[n])
    IN [filled EXCEPT !.sealed = @ \cup {n}, !.incomplete[n] = <<>>]

SealReady(st, k) ==
    FoldLeft(Seal, st, SelectSeq(Dfs(st.f), LAMBDA n : n # Entry /\ ReadyAt(st.f, n) = k))

\* One block in depth-first order.
Visit ==
    /\ stage = "visit"
    /\ LET st == [f |-> function, current |-> current, incomplete |-> incomplete, sealed |-> sealed,
                  local |-> None, node |-> None, reads |-> <<>>, left |-> <<>>, right |-> <<>>,
                  statements |-> <<>>]
       IN \E done \in {SealReady(RenameBlock(st, Dfs(function)[rank]), rank)} :
             /\ function' = done.f
             /\ current' = done.current
             /\ incomplete' = done.incomplete
             /\ sealed' = done.sealed
    /\ rank' = rank + 1
    /\ stage' = IF rank = Len(Dfs(function)) THEN "parameters" ELSE "visit"
    /\ UNCHANGED source

\* What the entry lacks are the parameters; one that nothing reads is new.
TakeParameter(f, r) ==
    LET wanted == SelectSeq(incomplete[Entry], LAMBDA p : p[1] = r)
    IN IF wanted # <<>> THEN [f EXCEPT !.params = Append(@, wanted[1][2])]
       ELSE LET minted == Mint(f, Unnamed) IN [minted EXCEPT !.params = Append(@, Minted(minted))]

TakeParameters ==
    /\ stage = "parameters"
    /\ function' = IF incomplete[Entry] = <<>> THEN function
                   ELSE FoldLeft(TakeParameter, [function EXCEPT !.params = <<>>], function.params)
    /\ incomplete' = [incomplete EXCEPT ![Entry] = <<>>]
    /\ stage' = "propagate"
    /\ UNCHANGED <<source, current, sealed, rank>>

-----------------------------------------------------------------------------
\* A map of locals is followed to its end.
RECURSIVE Resolve(_, _)
Resolve(map, l) == IF l \in DOMAIN map THEN Resolve(map, map[l]) ELSE l

ApplyLocalMap(f, map) == RenameLocals(f, LAMBDA l : Resolve(map, l))

Extend(map, from, to) == (from :> to) @@ map

SingleCopy(s) == Len(s.left) = 1 /\ Len(s.right) = 1 /\ IsCopy(s, 1)

PropagateFrom(map, s) ==
    IF SingleCopy(s) THEN Extend(map, s.left[1], Resolve(map, s.right[1].reads[1])) ELSE map

\* Single copies go, and what they define is the local they copy.
PropagateCopies ==
    /\ stage = "propagate"
    /\ LET map == FoldLeft(PropagateFrom, <<>>, FlattenSeq(function.blocks))
           kept == [n \in Nodes(function) |->
                       SelectSeq(function.blocks[n], LAMBDA s : ~SingleCopy(s))]
       IN function' = ApplyLocalMap([function EXCEPT !.blocks = kept], map)
    /\ stage' = "clean"
    /\ UNCHANGED <<source, current, incomplete, sealed, rank>>

-----------------------------------------------------------------------------
\* The arguments that parameter k of block n gets, newest edge first.
ArgumentsOf(f, n, k) == LET into == EdgesTo(f, n) IN [e \in DOMAIN into |-> into[e].args[k][2]]

Unnecessary(f, n, k) == Cardinality(Range(ArgumentsOf(f, n, k))) = 1

\* Pairs of an edge and a parameter of n that p takes on it: param_dependency_graph.rs.
Dependencies(f, n, p, gone) ==
    {<<e, q>> \in (DOMAIN f.edges) \X Range(ParamsOf(f, n)) :
        /\ q \notin gone \cup {p}
        /\ f.edges[e].to = n
        /\ Contains(f.edges[e].args, <<p, q>>)}

\* Parameters leave when they depend on none that is still there.
RECURSIVE Leave(_, _, _, _, _, _)
Leave(f, n, stack, gone, removable, map) ==
    IF stack = <<>> THEN map
    ELSE LET p == Last(stack)
             freed == SetToSeq({q \in DOMAIN removable \ gone :
                          LET needs == Dependencies(f, n, q, gone)
                          IN Cardinality(needs) = 1 /\ \E d \in needs : d[2] = p})
         IN Leave(f, n, Front(stack) \o freed, gone \cup {p}, removable,
                  Extend(map, p, Resolve(map, removable[p])))

RemoveBlockParams(st, n) ==
    LET f == st.f
        params == ParamsOf(f, n)
        useless == {k \in DOMAIN params : Unnecessary(f, n, k)}
        param(k) == Resolve(st.map, params[k])
        arg(k) == Resolve(st.map, ArgumentsOf(f, n, k)[1])
        trivial == {param(k) : k \in {j \in useless : arg(j) = param(j)}}
        removable == [p \in {param(k) : k \in useless} \ trivial |->
                         arg(CHOOSE k \in useless : param(k) = p)]
        free == SetToSeq({p \in DOMAIN removable : Dependencies(f, n, p, trivial) = {}})
        leaving == {param(k) : k \in useless}
    IN IF useless = {} THEN st
       ELSE [f |-> [f EXCEPT !.edges = [e \in DOMAIN @ |->
                        IF @[e].to # n THEN @[e]
                        ELSE [@[e] EXCEPT !.args = SelectSeq(@, LAMBDA a :
                                  Resolve(st.map, a[1]) \notin leaving)]]],
             map |-> Leave(f, n, free, trivial, removable, st.map)]

RemoveUnnecessaryParams(f) ==
    LET done == FoldLeft(RemoveBlockParams, [f |-> f, map |-> <<>>], [n \in Nodes(f) |-> n])
    IN ApplyLocalMap(done.f, done.map)

\* Once at the end of the construction, then in every cleanup round.
RemoveParams ==
    /\ stage = "clean"
    /\ function' = RemoveUnnecessaryParams(function)
    /\ stage' = IF function' = function THEN "ssa" ELSE "clean"
    /\ UNCHANGED <<source, current, incomplete, sealed, rank>>

ConstructInit(functions) ==
    /\ source \in functions
    /\ function = source
    /\ current = [r \in Registers |-> [n \in Nodes(source) |-> None]]
    /\ incomplete = [n \in Nodes(source) |-> <<>>]
    /\ sealed = {}
    /\ stage = "visit"
    /\ rank = 1

ConstructNext == Visit \/ TakeParameters \/ PropagateCopies \/ RemoveParams
=============================================================================
