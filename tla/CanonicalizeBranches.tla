------------------------ MODULE CanonicalizeBranches ------------------------
(***************************************************************************)
(* ast/src/canonicalize_branches.rs: nesting alone changes.  Nested ifs    *)
(* join, adjacent return arms over one value chain into elseif, an endless *)
(* loop that ends with its exit becomes a repeat, ancestor walks and       *)
(* two-copy unrollings are rolled up.                                      *)
(***************************************************************************)
EXTENDS FlattenGuards, FactorTails

CONSTANT LoopFits   \* whether a rolled-up loop fits the registers of the function

ASSUME LoopAssumption == LoopFits \in BOOLEAN

\* No effect and no error, wherever it is evaluated.
RECURSIVE TotalPure(_)
TotalPure(e) ==
    CASE e.op \in {"lit", "local"} -> TRUE
      [] e.op = "not" -> TotalPure(e.a)
      [] e.op \in {"and", "or"} -> TotalPure(e.a) /\ TotalPure(e.b)
      [] OTHER -> FALSE

\* merge_nested_conjunct_ifs

RECURSIVE FirstConjunct(_)
FirstConjunct(e) == IF e.op = "and" THEN FirstConjunct(e.a) ELSE e

\* The inner test repeats the outer one: the outer one decides nothing.
JoinTests(c, d) == IF TotalPure(c) /\ FirstConjunct(d) = c THEN d ELSE Bin("and", c, d)

RECURSIVE MergeNested(_)
MergeNested(s) ==
    IF IsIf(s) /\ s.e = <<>> /\ Len(s.t) = 1 /\ IsIf(s.t[1]) /\ s.t[1].e = <<>>
    THEN MergeNested(If(JoinTests(s.c, s.t[1].c), s.t[1].t, <<>>))
    ELSE s

\* recover_parent_walks

ParentAdvance(s, x) == s = Set(x, Bin("index", Local(x), Lit("Parent")))

OnlyIf(s) == IsIf(s) /\ s.e = <<>>

\* while true do if not x then FAIL break end; if .. then .. break end;
\* x = x.Parent end
ParentWalk(s) ==
    /\ s.k = "while" /\ s.c = True
    /\ Len(s.b) = 3 /\ OnlyIf(s.b[1]) /\ OnlyIf(s.b[2])
    /\ LET fail == s.b[1]
           found == s.b[2]
       IN  /\ fail.c.op = "not" /\ fail.c.a.op = "local"
           /\ ParentAdvance(s.b[3], fail.c.a.x)
           /\ Len(fail.t) = 2 /\ fail.t[1].k = "set" /\ fail.t[2] = Break
           /\ found.t # <<>> /\ Final(found.t) = Break
           /\ WritesOf(<<found>>, fail.c.a.x) = 0
           /\ ~ContainsJump(found.t)

\* Mutant: a cursor that a closure writes is walked as well.
WalksCaptured(s) == ParentWalk(s)

\* The cursor is a local of this function that no closure captures.
Walks(s) == ParentWalk(s) /\ s.b[1].c.a.x \notin Captured

RECURSIVE ParentWalks(_)
ParentWalks(b) ==
    IF b = <<>> THEN b
    ELSE LET s == Head(b)
             cursor == s.b[1].c.a
         IN  (IF Walks(s)
              THEN <<While(cursor, Tail(s.b)), If(Not(cursor), <<s.b[1].t[1]>>, <<>>)>>
              ELSE <<s>>) \o ParentWalks(Tail(b))

\* reroll_two_index_blocks: local a = xs[1]; BODY; local b = xs[2]; the same
\* BODY over b.

RECURSIVE LoopControl(_)
LoopControl(b) ==
    \E i \in 1..Len(b) :
        \/ b[i].k \in {"break", "continue"}
        \/ IsIf(b[i]) /\ (LoopControl(b[i].t) \/ LoopControl(b[i].e))

Indexed(s, n) == s.k = "set" /\ s.decl /\ s.e.op = "index" /\ s.e.b = Lit(n)

\* x is the local of the two statements at i alone, and written once.
Confined(b, i, x) ==
    /\ x \notin Captured
    /\ WritesOf(b, x) = 1 /\ WritesOf(SubSeq(b, i, i + 1), x) = 1
    /\ x \notin ReadsOf(SubSeq(b, 1, i - 1)) \cup ReadsOf(Rest(b, i + 2))

TwoCopies(b, i) ==
    /\ i + 3 <= Len(b)
    /\ Indexed(b[i], "1") /\ Indexed(b[i + 2], "2") /\ b[i].e.a = b[i + 2].e.a
    /\ BlockSize(SubSeq(b, i, i + 1)) >= 3
    /\ ~ContainsJump(<<b[i + 1], b[i + 3]>>) /\ ~LoopControl(<<b[i + 1], b[i + 3]>>)
    /\ Confined(b, i, b[i].x) /\ Confined(b, i + 2, b[i + 2].x)
    /\ b[i].x \in ReadsOf(<<b[i + 1]>>)
    /\ \E f \in [Locals -> Locals] :
        f[b[i].x] = b[i + 2].x /\ AlphaEqWith(<<b[i + 1]>>, <<b[i + 3]>>, {b[i].x}, f)

\* The loop counter is a local no program uses.
Counter == "i"

\* What becomes of b from i on; who reads and writes a local is asked of b as
\* it was before the first loop.
RECURSIVE Reroll(_, _)
Reroll(b, i) ==
    IF i + 3 > Len(b) THEN Rest(b, i)
    ELSE IF ~TwoCopies(b, i) \/ ~LoopFits THEN <<b[i]>> \o Reroll(b, i + 1)
    ELSE <<Twice(Counter, <<[b[i] EXCEPT !.e.b = Local(Counter)], b[i + 1]>>)>> \o Reroll(b, i + 4)

\* chain_adjacent_return_ifs: if x == CONST then .. return end, one after another

IsArm(s) ==
    /\ OnlyIf(s) /\ s.t # <<>> /\ IsReturn(Final(s.t)) /\ ~ContainsJump(s.t)
    /\ s.c.op = "eq" /\ (s.c.a.op = "lit") # (s.c.b.op = "lit")
    /\ TotalPure(s.c.a) /\ TotalPure(s.c.b)

Scrutinee(s) == IF s.c.a.op = "lit" THEN s.c.b ELSE s.c.a
Constant(s) == IF s.c.a.op = "lit" THEN s.c.a ELSE s.c.b

\* How many arms from the first of b on test one value against new constants.
RECURSIVE ArmsFrom(_, _)
ArmsFrom(b, n) ==
    IF n < Len(b) /\ IsArm(b[n + 1]) /\ Scrutinee(b[n + 1]) = Scrutinee(b[1])
       /\ \A j \in 1..n : Constant(b[j]) # Constant(b[n + 1])
    THEN ArmsFrom(b, n + 1)
    ELSE n

RECURSIVE Chain(_)
Chain(arms) == IF Len(arms) = 1 THEN arms ELSE <<[arms[1] EXCEPT !.e = Chain(Tail(arms))]>>

RECURSIVE ChainReturns(_)
ChainReturns(b) ==
    IF Len(b) < 2 THEN b
    ELSE IF ~IsArm(b[1]) THEN <<b[1]>> \o ChainReturns(Tail(b))
    ELSE LET n == ArmsFrom(b, 1) IN Chain(SubSeq(b, 1, n)) \o ChainReturns(Rest(b, n + 1))

\* flatten_leading_repeat_in_infinite_while: repeat task.wait() until c, then
\* the rest of an endless loop.
Wait == Call("wait")

FlattenLeadingRepeat(s) ==
    IF s.k = "while" /\ s.c = True /\ Len(s.b) >= 2 /\ s.b[1].k = "repeat" /\ s.b[1].b = <<Wait>>
    THEN While(True, <<Wait, If(s.b[1].c, Tail(s.b), <<>>)>>)
    ELSE s

\* reroll_terminal_while

RerollTerminalWhile(s) ==
    IF s.k = "while" /\ s.c = True /\ s.b # <<>> /\ OnlyIf(Final(s.b)) /\ Final(s.b).t = <<Break>>
       /\ ~ContainsJump(s.b) /\ ~LoopControl(Before(s.b))
    THEN Repeat(Final(s.b).c, Before(s.b))
    ELSE s

RECURSIVE CanonicalizePass(_)
CanonicalizePass(b) ==
    LET inner == [i \in 1..Len(b) |->
            RerollTerminalWhile(FlattenLeadingRepeat(
                CASE IsIf(b[i]) -> [b[i] EXCEPT !.t = CanonicalizePass(@), !.e = CanonicalizePass(@)]
                  [] IsLoop(b[i]) -> [b[i] EXCEPT !.b = CanonicalizePass(@)]
                  [] OTHER -> b[i]))]
        chained == ChainReturns(Reroll(ParentWalks(inner), 1))
    IN  [i \in 1..Len(chained) |-> MergeNested(chained[i])]
=============================================================================
