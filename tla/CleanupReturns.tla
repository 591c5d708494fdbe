--------------------------- MODULE CleanupReturns ---------------------------
(***************************************************************************)
(* ast/src/cleanup_returns.rs: statements after an unconditional transfer  *)
(* and the value-less return at the end of a function go, and in tail      *)
(* position a guard that returns takes the if after it as its else.        *)
(* Closures are functions of their own, cleaned the same way.              *)
(***************************************************************************)
EXTENDS Programs

IsEmpty(s) == s.k = "empty"
RealAt(b) == {i \in 1..Len(b) : ~IsEmpty(b[i])}
Largest(S) == CHOOSE i \in S : \A j \in S : j <= i
Least(S) == CHOOSE i \in S : \A j \in S : i <= j
IsVoidReturn(s) == IsReturn(s) /\ s.es = <<>>
RemoveAt(b, i) == SubSeq(b, 1, i - 1) \o Rest(b, i + 1)

\* A label after the transfer may be entered by a goto: the suffix stays.
Truncate(b) ==
    LET ends == {i \in 1..Len(b) : Leaves(b[i])}
    IN  IF ends = {} \/ \E i \in Least(ends) + 1..Len(b) : b[i].k = "label" THEN b
        ELSE SubSeq(b, 1, Least(ends))

RECURSIVE CleanSameFunction(_)
CleanSameFunction(b) ==
    LET cut == Truncate(b)
    IN  [i \in 1..Len(cut) |->
            CASE IsIf(cut[i]) -> [cut[i] EXCEPT !.t = CleanSameFunction(@), !.e = CleanSameFunction(@)]
              [] IsLoop(cut[i]) -> [cut[i] EXCEPT !.b = CleanSameFunction(@)]
              [] OTHER -> cut[i]]

\* if c then A return end, then an if that ends the block: the if becomes the
\* guard's else.  A guard that holds nothing but its return stays.
IsTailGuard(s) ==
    /\ IsIf(s) /\ s.e = <<>>
    /\ Cardinality(RealAt(s.t)) >= 2
    /\ IsVoidReturn(s.t[Largest(RealAt(s.t))])

RECURSIVE MergeTailGuards(_)
MergeTailGuards(b) ==
    LET real == RealAt(b)
        tail == Largest(real)
        guard == Largest(real \ {tail})
    IN  IF Cardinality(real) < 2 \/ ~IsIf(b[tail]) \/ ~IsTailGuard(b[guard]) THEN b
        ELSE MergeTailGuards(RemoveAt([b EXCEPT ![guard] = If(@.c, @.t, <<b[tail]>>)], tail))

\* strip_tail: the value-less return that ends a block in tail position, and
\* the arms of an if there.  A then arm keeps its only statement.
RECURSIVE StripTail(_, _)
StripTail(b, mayEmpty) ==
    LET real == RealAt(b)
        pos == Largest(real)
        stripped == IF IsVoidReturn(b[pos]) THEN RemoveAt(b, pos) ELSE b
        merged == MergeTailGuards(stripped)
        last == Largest(RealAt(merged))
    IN  IF real = {} \/ (IsVoidReturn(b[pos]) /\ ~mayEmpty /\ Cardinality(real) = 1) THEN b
        ELSE IF RealAt(merged) # {} /\ IsIf(merged[last])
        THEN [merged EXCEPT ![last].t = StripTail(@, FALSE), ![last].e = StripTail(@, TRUE)]
        ELSE merged

CleanupReturnsPass(b) == StripTail(CleanSameFunction(b), TRUE)
=============================================================================
