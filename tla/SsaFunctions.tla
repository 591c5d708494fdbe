---------------------------- MODULE SsaFunctions ----------------------------
(***************************************************************************)
(* Functions as cfg/src/function.rs keeps them: blocks of assignments, and  *)
(* edges that may assign block parameters.  Every call tells its arguments  *)
(* to the world and answers something new, so two functions that do the     *)
(* same calls with the same arguments do the same.                          *)
(***************************************************************************)
EXTENDS Integers, FiniteSets, SequencesExt, Functions, TLC

\* Values: a local, a call, or an update of its first operand in place.
Copy(l) == [kind |-> "copy", id |-> 0, reads |-> <<l>>]
Call(id, reads) == [kind |-> "call", id |-> id, reads |-> reads]
Update(id, reads) == [kind |-> "update", id |-> id, reads |-> reads]

\* Every statement is an assignment; a call for its effects assigns nothing.
Assign(left, right) == [left |-> left, right |-> right, parallel |-> FALSE]
Parallel(left, right) == [left |-> left, right |-> right, parallel |-> TRUE]

ReadsOf(s) == FlattenSeq([k \in DOMAIN s.right |-> s.right[k].reads])
IsCopy(s, k) == k \in DOMAIN s.right /\ s.right[k].kind = "copy"

\* Edges stand in the order they were added; the graph lists them backwards.
Edge(from, to, branch) == [from |-> from, to |-> to, branch |-> branch, args |-> <<>>]
IndicesTo(f, n) == Reverse(SelectSeq([k \in DOMAIN f.edges |-> k], LAMBDA k : f.edges[k].to = n))
EdgesTo(f, n) == Reverse(SelectSeq(f.edges, LAMBDA e : e.to = n))
EdgesFrom(f, n) == Reverse(SelectSeq(f.edges, LAMBDA e : e.from = n))
Predecessors(f, n) == LET into == EdgesTo(f, n) IN [k \in DOMAIN into |-> into[k].from]
Successors(f, n) == LET out == EdgesFrom(f, n) IN [k \in DOMAIN out |-> out[k].to]
Nodes(f) == 1..Len(f.blocks)
Entry == 1
None == 0

\* A new local of the register r: the locals are numbered as they are minted.
Locals(f) == DOMAIN f.register
Mint(f, r) == [f EXCEPT !.register = Append(@, r)]
Minted(f) == Len(f.register)

ParamsOf(f, n) ==
    LET into == EdgesTo(f, n)
    IN IF into = <<>> THEN <<>> ELSE [k \in DOMAIN into[1].args |-> into[1].args[k][1]]

\* A new name for every local that has one, everywhere.
RenameLocals(f, to(_)) ==
    LET value(v) == [v EXCEPT !.reads = [k \in DOMAIN @ |-> to(@[k])]]
        statement(s) == [s EXCEPT !.left = [k \in DOMAIN @ |-> to(@[k])],
                                  !.right = [k \in DOMAIN @ |-> value(@[k])]]
    IN [f EXCEPT !.blocks = [n \in DOMAIN @ |-> [k \in DOMAIN @[n] |-> statement(@[n][k])]],
                 !.edges = [k \in DOMAIN @ |->
                    [@[k] EXCEPT !.args = [a \in DOMAIN @ |-> <<to(@[a][1]), to(@[a][2])>>]]],
                 !.params = [k \in DOMAIN @ |-> to(@[k])]]

\* The orders in which a hash table may list a set.
Orders(S) ==
    LET listed == SetToSeq(S)
    IN {[k \in DOMAIN listed |-> p[listed[k]]] : p \in Permutations(S)}

-----------------------------------------------------------------------------
\* The order of petgraph's Dfs: a stack that may hold a block several times.
RECURSIVE DfsFrom(_, _, _)
DfsFrom(f, stack, seen) ==
    IF stack = <<>> THEN seen
    ELSE IF Contains(seen, Last(stack)) THEN DfsFrom(f, Front(stack), seen)
    ELSE LET found == Append(seen, Last(stack))
         IN DfsFrom(f, Front(stack) \o SelectSeq(Successors(f, Last(stack)), LAMBDA n : ~Contains(found, n)),
                    found)

Dfs(f) == DfsFrom(f, <<Entry>>, <<>>)

-----------------------------------------------------------------------------
\* What a function does: its calls with their arguments, for given outcomes
\* of its branches, until they are used up.
Unset == <<-1, 0>>

Evaluate(st, v) ==
    LET args == [k \in DOMAIN v.reads |-> st.env[v.reads[k]]]
    IN IF v.kind = "copy" THEN [st EXCEPT !.results = Append(@, args[1])]
       ELSE [st EXCEPT !.trace = Append(@, <<v.id, args>>),
                       !.results = Append(@, <<Len(st.trace) + 1, 1>>)]

\* The last call gives what is left of the targets.
Result(results, k) ==
    LET last == results[Len(results)]
    IN IF k <= Len(results) THEN results[k] ELSE <<last[1], k - Len(results) + 1>>

Execute(st, s) ==
    LET done == FoldLeft(Evaluate, [st EXCEPT !.results = <<>>], s.right)
        target(l) == CHOOSE k \in DOMAIN s.left :
                        s.left[k] = l /\ \A m \in DOMAIN s.left : s.left[m] = l => m <= k
    IN [done EXCEPT !.env = [l \in DOMAIN @ |->
                                IF Contains(s.left, l) THEN Result(done.results, target(l)) ELSE @[l]]]

Pass(st, args) ==
    [st EXCEPT !.env = [l \in DOMAIN @ |->
        IF \E k \in DOMAIN args : args[k][1] = l
        THEN @[args[CHOOSE k \in DOMAIN args : args[k][1] = l][2]] ELSE @[l]]]

RECURSIVE Continue(_, _, _, _)
Continue(f, n, st, oracle) ==
    LET done == FoldLeft(Execute, st, f.blocks[n])
        out == EdgesFrom(f, n)
        taken == SelectSeq(out, LAMBDA e : e.branch = (IF Head(oracle) THEN "then" ELSE "else"))[1]
    IN CASE out = <<>> -> done.trace
         [] Len(out) = 1 -> Continue(f, out[1].to, Pass(done, out[1].args), oracle)
         [] Len(out) = 2 /\ oracle = <<>> -> done.trace
         [] OTHER -> Continue(f, taken.to, Pass(done, taken.args), Tail(oracle))

Run(f, oracle) ==
    LET env == [l \in Locals(f) |-> IF Contains(f.params, l)
                                    THEN <<0, CHOOSE k \in DOMAIN f.params : f.params[k] = l>> ELSE Unset]
    IN Continue(f, Entry, [env |-> env, trace |-> <<>>, results |-> <<>>], oracle)

\* Executions of two functions with up to depth decisions.
SameCalls(f, g, depth) == \A oracle \in [1..depth -> BOOLEAN] : Run(f, oracle) = Run(g, oracle)
=============================================================================
