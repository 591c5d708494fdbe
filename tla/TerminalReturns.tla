--------------------------- MODULE TerminalReturns ---------------------------
(***************************************************************************)
(* ast/src/terminal_returns.rs: a local that is only assigned to be        *)
(* returned gives its values to the returns, and two returns that an if    *)
(* chooses from become one and, or, not chain.  The budgets of the code    *)
(* (nesting, nodes, rewrites) stop it early: MaxFolds is the one per       *)
(* block.                                                                  *)
(***************************************************************************)
EXTENDS FlattenGuards

CONSTANTS
    Inferred,   \* the locals without a recorded name
    Conditional,    \* those of them that hold the result of a conditional expression
    MaxFolds,   \* rewrites per block, 32 in the code
    MaxChain    \* bound on the size of a folded chain (its width in the code)

ASSUME ReturnAssumption ==
    Inferred \subseteq Locals /\ Conditional \subseteq Inferred /\ MaxFolds \in Nat /\ MaxChain \in Nat

\* Mutant: a closure may read the local that goes.
EligibleCaptured(x, declared) == x \in declared /\ x \in Inferred

Eligible(x, declared) == x \in declared \ Captured /\ x \in Inferred

\* One value, not all the results of a call.
Scalar(e) == IF e.op = "multi" THEN Ask(e.f) ELSE e

WritesResult(s, x) == s.k = "set" /\ s.x = x

\* return_from_branch: the returns go into the branch tails.
\* done: every path of b returns now; changed: some write became a return.
RECURSIVE ReturnFrom(_, _)
ReturnFrom(b, x) ==
    LET last == Final(b)
        t == ReturnFrom(last.t, x)
        e == ReturnFrom(last.e, x)
    IN  CASE b = <<>> -> [b |-> b, done |-> FALSE, changed |-> FALSE]
          [] WritesResult(last, x) ->
                [b |-> Append(Before(b), Return(<<Scalar(last.e)>>)), done |-> TRUE, changed |-> TRUE]
          [] IsReturn(last) -> [b |-> b, done |-> TRUE, changed |-> FALSE]
          [] IsIf(last) ->
                [b |-> Append(Before(b), If(last.c, t.b, e.b)),
                 done |-> t.done /\ e.done, changed |-> t.changed \/ e.changed]
          [] OTHER -> [b |-> b, done |-> FALSE, changed |-> FALSE]

\* direct_return
ReturnsLocal(b, declared) ==
    /\ Len(b) >= 2 /\ IsReturn(Final(b))
    /\ Len(Final(b).es) = 1 /\ Final(b).es[1].op = "local"
    /\ Eligible(Final(b).es[1].x, declared)

DirectReturn(b, declared) ==
    LET x == Final(b).es[1].x
        s == b[Len(b) - 1]
        new == ReturnFrom(<<s>>, x)
    IN  IF ~ReturnsLocal(b, declared) \/ ~(WritesResult(s, x) \/ IsIf(s)) \/ ~(new.changed \/ new.done)
        THEN [b |-> b, removed |-> {}, changed |-> FALSE]
        ELSE [b |-> SubSeq(b, 1, Len(b) - 2) \o new.b \o (IF new.done THEN <<>> ELSE <<Final(b)>>),
              removed |-> IF new.changed THEN {x} ELSE {}, changed |-> TRUE]

\* fold_guard

IsScalar(es) == Len(es) = 1 /\ es[1].op # "multi"
OneReturn(b) == Len(b) = 1 /\ IsReturn(b[1]) /\ IsScalar(b[1].es)
Falsy(e) == e \in {Nil, False}

\* chain_kind and build_chain: the value of if c then return yes end return no
\* as one expression, or <<>>.
LocalOf(c) == IF c.op = "not" THEN c.a ELSE c

\* Mutant: a condition that is not a boolean is returned as it is.
ChainOfAny(c, yes, no) ==
    CASE Falsy(yes) /\ Falsy(no) -> <<>>
      [] yes = True /\ no = False -> <<c>>
      [] OTHER -> <<>>

ChainOf(c, yes, no) ==
    LET x == LocalOf(c)
        negated == c.op = "not"
    IN  CASE x.op = "local" /\ yes = x -> <<Bin(IF negated THEN "and" ELSE "or", x, no)>>
          [] x.op = "local" /\ no = x -> <<Bin(IF negated THEN "or" ELSE "and", x, yes)>>
          [] Falsy(yes) /\ Falsy(no) -> <<>>
          [] yes = False /\ no = True -> <<Not(c)>>
          [] yes = False -> <<Bin("and", Not(c), no)>>
          [] no = True -> <<Bin("or", Not(c), yes)>>
          [] IsBoolean(c) /\ yes = True /\ no = False -> <<c>>
          [] IsBoolean(c) /\ no = False -> <<Bin("and", c, yes)>>
          [] IsBoolean(c) /\ yes = True -> <<Bin("or", c, no)>>
          [] OTHER -> <<>>

\* preserve_binding: the binding stays as it is.
Preserved(x) == x \notin Inferred \/ x \in Conditional

\* local v = a; return v and b: v is read nowhere else, so a takes its place.
\* (No body has a local function that calls itself for v: a would read it.)
FoldHead(b, value) ==
    IF value.op \in {"and", "or"} /\ value.a.op = "local" /\ b # <<>>
       /\ Declares(Final(b)) = {value.a.x} /\ ~Preserved(value.a.x)
       /\ value.a.x \notin ReadsIn(value.b)
    THEN Append(Before(b), Return(<<[value EXCEPT !.a = Scalar(Final(b).e)]>>))
    ELSE Append(b, Return(<<value>>))

FoldGuard(b) ==
    LET outer == Len(b) >= 2 /\ IsReturn(Final(b))
        at == IF outer THEN Len(b) - 1 ELSE Len(b)
        f == b[at]
        no == IF outer THEN Final(b).es[1] ELSE f.e[1].es[1]
        chain == ChainOf(f.c, f.t[1].es[1], no)
    IN  CASE b = <<>> -> [b |-> b, changed |-> FALSE]
          [] ~IsIf(f) -> [b |-> b, changed |-> FALSE]
          [] ~OneReturn(f.t) -> [b |-> b, changed |-> FALSE]
          [] ~(IF outer THEN f.e = <<>> /\ IsScalar(Final(b).es) ELSE OneReturn(f.e)) -> [b |-> b, changed |-> FALSE]
          [] chain = <<>> -> [b |-> b, changed |-> FALSE]
          [] ValueCost(chain[1]) > MaxChain -> [b |-> b, changed |-> FALSE]
          [] OTHER -> [b |-> FoldHead(SubSeq(b, 1, at - 1), chain[1]), changed |-> TRUE]

\* rewrite_block: the blocks inside first.  acc: [b, removed].
RECURSIVE Folds(_, _, _)
Folds(acc, declared, n) ==
    LET direct == DirectReturn(acc.b, declared)
        fold == FoldGuard(acc.b)
    IN  CASE n = 0 -> acc
          [] direct.changed -> Folds([b |-> direct.b, removed |-> acc.removed \cup direct.removed], declared, n - 1)
          [] fold.changed -> Folds([acc EXCEPT !.b = fold.b], declared, n - 1)
          [] OTHER -> acc

RECURSIVE RewriteReturns(_, _)
RewriteReturns(b, declared) ==
    LET inner == [i \in 1..Len(b) |->
            LET bs == BlocksIn(b[i]) IN [j \in 1..Len(bs) |-> RewriteReturns(bs[j], declared)]]
        new == [i \in 1..Len(b) |->
            CASE IsIf(b[i]) -> If(b[i].c, inner[i][1].b, inner[i][2].b)
              [] IsLoop(b[i]) -> [b[i] EXCEPT !.b = inner[i][1].b]
              [] OTHER -> b[i]]
        removed == UNION {UNION {inner[i][j].removed : j \in 1..Len(inner[i])} : i \in 1..Len(b)}
    IN  Folds([b |-> new, removed |-> removed], declared, MaxFolds)

\* remove_orphan_declarations: a removed local that nothing else uses.
RECURSIVE DropOrphans(_, _)
DropOrphans(b, orphans) ==
    LET kept == SelectSeq(b, LAMBDA s : ~(s.k = "set" /\ s.decl /\ s.x \in orphans /\ s.e = Nil))
    IN  [i \in 1..Len(kept) |->
            CASE IsIf(kept[i]) -> [kept[i] EXCEPT !.t = DropOrphans(@, orphans), !.e = DropOrphans(@, orphans)]
              [] IsLoop(kept[i]) -> [kept[i] EXCEPT !.b = DropOrphans(@, orphans)]
              [] OTHER -> kept[i]]

TerminalReturnsPass(b) ==
    LET r == RewriteReturns(b, DeclaredIn(b))
        orphans == {x \in r.removed \ Captured : x \notin ReadsOf(r.b) /\ WritesOf(r.b, x) = 1}
    IN  IF ContainsJump(b) THEN b ELSE DropOrphans(r.b, orphans)
=============================================================================
