----------------------------- MODULE Dominators -----------------------------
(***************************************************************************)
(* cfg/src/dominators.rs: immediate dominators by sweeps over the reverse   *)
(* postorder, and what they have to be.                                     *)
(***************************************************************************)
EXTENDS SsaFunctions

RECURSIVE PostOrderFrom(_, _, _)
PostOrderFrom(f, n, acc) ==
    LET below == FoldLeft(LAMBDA a, m : IF m \in a.seen THEN a ELSE PostOrderFrom(f, m, a),
                          [acc EXCEPT !.seen = @ \cup {n}], Successors(f, n))
    IN [below EXCEPT !.order = Append(@, n)]

PostOrder(f) == PostOrderFrom(f, Entry, [seen |-> {}, order |-> <<>>]).order

Position(order, n) == CHOOSE k \in DOMAIN order : order[k] = n

\* The closure intersect: the two fingers climb to the nearest common ancestor.
RECURSIVE Meet(_, _, _, _)
Meet(order, idom, a, b) ==
    IF a = b THEN a
    ELSE IF Position(order, a) < Position(order, b) THEN Meet(order, idom, idom[a], b)
    ELSE Meet(order, idom, a, idom[b])

\* Mutant of Parent: predecessors found later are not met with the first.
ParentOfFirst(f, order, idom, n) ==
    LET known == SelectSeq(Predecessors(f, n), LAMBDA p : idom[p] # None)
    IN IF known = <<>> THEN None ELSE known[1]

Parent(f, order, idom, n) ==
    LET known == SelectSeq(Predecessors(f, n), LAMBDA p : idom[p] # None)
    IN IF known = <<>> THEN None
       ELSE FoldLeft(LAMBDA found, p : Meet(order, idom, p, found), known[1], Tail(known))

Sweep(f, order, idom) ==
    FoldLeft(LAMBDA tree, n : IF n = Entry \/ Parent(f, order, tree, n) = None THEN tree
                              ELSE [tree EXCEPT ![n] = Parent(f, order, tree, n)],
             idom, Reverse(order))

RECURSIVE Settled(_, _, _)
Settled(f, order, idom) ==
    LET next == Sweep(f, order, idom) IN IF next = idom THEN idom ELSE Settled(f, order, next)

ImmediateDominators(f) ==
    Settled(f, PostOrder(f), [n \in Nodes(f) |-> IF n = Entry THEN Entry ELSE None])

\* The block and its dominators up to the entry.
RECURSIVE Ancestors(_, _)
Ancestors(idom, n) == IF n = Entry THEN {n} ELSE {n} \cup Ancestors(idom, idom[n])

-----------------------------------------------------------------------------
\* The blocks that a walk from the entry finds without entering one of them.
RECURSIVE Spread(_, _, _)
Spread(f, avoided, found) ==
    LET next == {n \in Nodes(f) \ avoided :
                    n \in found \/ \E k \in DOMAIN f.edges : f.edges[k].from \in found /\ f.edges[k].to = n}
    IN IF next = found THEN found ELSE Spread(f, avoided, next)

\* By definition: without a, nothing leads to b.
StandsBefore(f, a, b) == b \notin Spread(f, {a}, {Entry} \ {a})
=============================================================================
