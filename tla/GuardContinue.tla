---------------------------- MODULE GuardContinue ----------------------------
(***************************************************************************)
(* ast/src/recover_guard_continue.rs: an if that ends a loop body becomes  *)
(* guards that continue, and adjacent guards with the same terminator      *)
(* become one.                                                             *)
(***************************************************************************)
EXTENDS FlattenGuards

CONSTANTS
    MaxDisjuncts,   \* MAX_MERGED_GUARD_DISJUNCTS, 4 in the code
    MaxGuardCost,   \* MAX_MERGED_GUARD_COST, 48 in the code
    HeavyCondition  \* COND_COST_THRESHOLD, 24 in the code

ASSUME ContinueAssumption == MaxDisjuncts \in Nat /\ MaxGuardCost \in Nat /\ HeavyCondition \in Nat

RECURSIVE GuardCost(_)
GuardCost(e) ==
    CASE e.op \in {"call", "multi"} -> 9
      [] e.op \in {"lit", "local"} -> 1
      [] e.op = "not" -> 1 + GuardCost(e.a)
      [] e.op = "if" -> 4 + GuardCost(e.c) + GuardCost(e.a) + GuardCost(e.b)
      [] OTHER -> 1 + GuardCost(e.a) + GuardCost(e.b)

\* The operands of an and (an or) spine, left to right.
RECURSIVE Spine(_, _)
Spine(op, e) == IF e.op = op THEN Spine(op, e.a) \o Spine(op, e.b) ELSE <<e>>

RECURSIVE FoldBin(_, _, _)
FoldBin(op, acc, es) == IF es = <<>> THEN acc ELSE FoldBin(op, Bin(op, acc, Head(es)), Tail(es))

BareTerminator(b) == Len(b) = 1 /\ Leaves(b[1])

HasNegated(c) == \E i \in 1..Len(Spine("and", c)) : Spine("and", c)[i].op = "not"

HeuristicsFire(c, body) ==
    \/ BlockSize(body) > 1
    \/ GuardCost(c) > HeavyCondition
    \/ Len(Spine("and", c)) >= 2 /\ HasNegated(c)

\* build_guards: one guard per conjunct, a run of negated ones as one or.
Guard(c) == If(c, <<Continue>>, <<>>)

RECURSIVE BuildGuards(_)
BuildGuards(es) ==
    IF es = <<>> THEN <<>>
    ELSE IF Head(es).op # "not" THEN <<Guard(Negate(Head(es)))>> \o BuildGuards(Tail(es))
    ELSE LET plain == {i \in 1..Len(es) : es[i].op # "not"}
             end == IF plain = {} THEN Len(es) + 1 ELSE CHOOSE i \in plain : \A j \in plain : i <= j
             run == [i \in 1..end - 1 |-> es[i].a]
         IN  <<Guard(FoldBin("or", run[1], Tail(run)))>> \o BuildGuards(Rest(es, end))

Peelable(s) ==
    /\ IsIf(s) /\ s.e = <<>> /\ s.t # <<>>
    /\ ~BareTerminator(s.t)
    /\ Final(s.t).k \notin {"break", "return"}
    /\ ~ContainsJump(s.t)
    /\ HeuristicsFire(s.c, s.t)

RECURSIVE Peel(_)
Peel(b) ==
    IF b = <<>> \/ ~Peelable(Final(b)) THEN b
    ELSE Peel(Before(b) \o BuildGuards(Spine("and", Final(b).c)) \o Final(b).t)

\* merge_adjacent_terminal_guards
IsGuard(s) == IsIf(s) /\ s.e = <<>> /\ BareTerminator(s.t)

\* Exactly equal terminators.
SameTerminal(s, r) == s.t[1] = r.t[1]

RECURSIVE AndCount(_)
AndCount(e) == IF e.op = "and" THEN AndCount(e.a) + AndCount(e.b) ELSE 1

RECURSIVE OrCount(_)
OrCount(e) ==
    CASE e.op = "or" -> OrCount(e.a) + OrCount(e.b)
      [] e.op = "not" -> AndCount(e.a)
      [] OTHER -> 1

CleanInverse(c) == c.op \in {"not", "eq", "ne"}

\* Mutant: the merged guards are joined by and.
MergeConditionsAnd(cs) == FoldBin("and", cs[1], Tail(cs))

MergeConditions(cs) ==
    IF \A i \in 1..Len(cs) : CleanInverse(cs[i])
    THEN Not(FoldBin("and", Negate(cs[1]), Tail([i \in 1..Len(cs) |-> Negate(cs[i])])))
    ELSE FoldBin("or", cs[1], Tail(cs))

\* The run that starts at the first statement of b: its length.
RECURSIVE RunOf(_, _, _, _)
RunOf(b, n, disjuncts, cost) ==
    IF n = Len(b) \/ ~IsGuard(b[n + 1]) \/ ~SameTerminal(b[1], b[n + 1])
       \/ disjuncts + OrCount(b[n + 1].c) > MaxDisjuncts
       \/ cost + 1 + GuardCost(b[n + 1].c) > MaxGuardCost
    THEN n
    ELSE RunOf(b, n + 1, disjuncts + OrCount(b[n + 1].c), cost + 1 + GuardCost(b[n + 1].c))

RECURSIVE MergeGuards(_)
MergeGuards(b) ==
    IF b = <<>> THEN b
    ELSE IF ~IsGuard(Head(b)) THEN <<Head(b)>> \o MergeGuards(Tail(b))
    ELSE LET n == RunOf(b, 1, OrCount(b[1].c), GuardCost(b[1].c))
             merged == If(MergeConditions([i \in 1..n |-> b[i].c]), b[1].t, <<>>)
         IN  <<IF n = 1 THEN b[1] ELSE merged>> \o MergeGuards(Rest(b, n + 1))

\* No continue is made for a repeat: its condition may read what the continue
\* would jump over.
RECURSIVE Process(_, _)
Process(b, isLoop) ==
    LET inner == [i \in 1..Len(b) |->
            CASE IsIf(b[i]) -> [b[i] EXCEPT !.t = Process(@, FALSE), !.e = Process(@, FALSE)]
              [] IsLoop(b[i]) -> [b[i] EXCEPT !.b = Process(@, b[i].k # "repeat")]
              [] OTHER -> b[i]]
    IN  MergeGuards(IF isLoop THEN Peel(inner) ELSE inner)

GuardContinuePass(b) == Process(b, FALSE)
=============================================================================
