----------------------------- MODULE FactorTails -----------------------------
(***************************************************************************)
(* ast/src/factor_common_tails.rs: a continuation that was cloned into     *)
(* several branches is kept once.  Blocks are values here, so no two       *)
(* branches share one: unshare_blocks has nothing to do.                   *)
(***************************************************************************)
EXTENDS Programs

\* Equal up to an injective renaming of the locals the pattern declares and of
\* extra ones; every other local must be the same.  The code refuses labels,
\* gotos and closes, and closures match when what they capture does.
RECURSIVE Matchable(_)
Matchable(b) ==
    \A i \in 1..Len(b) :
        /\ ~Jumps(b[i])
        /\ LET bs == BlocksIn(b[i]) IN \A j \in 1..Len(bs) : Matchable(bs[j])

Renamings(D) ==
    {[x \in Locals |-> IF x \in D THEN g[x] ELSE x] : g \in
        {h \in [D -> Locals] :
            /\ \A x, y \in D : h[x] = h[y] => x = y
            /\ \A x \in D : x \in Captured <=> h[x] \in Captured}}

AlphaEqWith(p, q, extra, f) ==
    /\ f \in Renamings(DeclaredIn(p) \cup extra)
    /\ Len(p) = Len(q) /\ Matchable(p) /\ Rename(p, f) = q

AlphaEq(p, q) ==
    \/ p = q /\ Matchable(p)
    \/ DeclaredIn(p) # {} /\ \E f \in Renamings(DeclaredIn(p)) : AlphaEqWith(p, q, {}, f)

Suffix(b, n) == SubSeq(b, Len(b) - n + 1, Len(b))
Prefix(b, n) == SubSeq(b, 1, Len(b) - n)
EndsIn(b, tail) == Len(b) >= Len(tail) /\ AlphaEq(tail, Suffix(b, Len(tail)))

\* has_local_declaration: directly in the block.
Declaring(b) == \E i \in 1..Len(b) : Declares(b[i]) # {}

Hoistable(b) == \E i \in 1..Len(b) : b[i].k # "empty"

RECURSIVE SequenceTerminates(_)
SequenceTerminates(b) ==
    LET real == {i \in 1..Len(b) : b[i].k # "empty"}
        s == b[CHOOSE i \in real : \A j \in real : j <= i]
    IN  /\ real # {}
        /\ Leaves(s) \/ (IsIf(s) /\ SequenceTerminates(s.t) /\ SequenceTerminates(s.e))

\* Before declarations are placed only a tail that assigns a local which no
\* closure captures is worth factoring.
RECURSIVE ShouldFactor(_, _)
ShouldFactor(b, early) ==
    early => \E i \in 1..Len(b) :
        \/ b[i].k = "set" /\ b[i].x \notin Captured
        \/ LET bs == BlocksIn(b[i]) IN \E j \in 1..Len(bs) : ShouldFactor(bs[j], early)

----------------------------------------------------------------------------
\* HoistLeafTails: the last statement of a block in tail position is an if,
\* and paths of its then arm end in a copy of its else arm.

RECURSIVE Weight(_)
Weight(b) ==
    IF b = <<>> THEN 0
    ELSE LET bs == BlocksIn(Head(b))
         IN  1 + (IF bs = <<>> THEN 0 ELSE Weight(bs[1])) + (IF Len(bs) < 2 THEN 0 ELSE Weight(bs[2]))
             + Weight(Tail(b))

\* A path that ends in the tail, declaring nothing before it.
StripLeaf(b, tail) == EndsIn(b, tail) /\ ~Declaring(Prefix(b, Len(tail)))

\* collect_leaves: how many paths lose the tail and how many get a terminator.
RECURSIVE LeavesOf(_, _)
LeavesOf(b, tail) ==
    CASE b = <<>> -> [ok |-> FALSE, strips |-> 0, terminators |-> 0]
      [] StripLeaf(b, tail) -> [ok |-> TRUE, strips |-> 1, terminators |-> 0]
      [] IsIf(Final(b)) ->
            LET t == LeavesOf(Final(b).t, tail)
                e == LeavesOf(Final(b).e, tail)
            IN  [ok |-> t.ok /\ e.ok, strips |-> t.strips + e.strips, terminators |-> t.terminators + e.terminators]
      [] OTHER -> [ok |-> TRUE, strips |-> 0, terminators |-> IF SequenceTerminates(b) THEN 0 ELSE 1]

HoistPays(then, else) ==
    /\ then # <<>> /\ Hoistable(else)
    /\ LET leaves == LeavesOf(then, else)
       IN  leaves.ok /\ leaves.strips > 0 /\ Weight(else) * leaves.strips > leaves.terminators

\* Mutant: the other paths fall into the hoisted tail.
RECURSIVE OpenLeaves(_, _, _)
OpenLeaves(b, tail, terminator) ==
    CASE StripLeaf(b, tail) -> Prefix(b, Len(tail))
      [] IsIf(Final(b)) ->
            [b EXCEPT ![Len(b)].t = OpenLeaves(@, tail, terminator), ![Len(b)].e = OpenLeaves(@, tail, terminator)]
      [] OTHER -> b

RECURSIVE HoistLeaves(_, _, _)
HoistLeaves(b, tail, terminator) ==
    CASE StripLeaf(b, tail) -> Prefix(b, Len(tail))
      [] IsIf(Final(b)) ->
            [b EXCEPT ![Len(b)].t = HoistLeaves(@, tail, terminator), ![Len(b)].e = HoistLeaves(@, tail, terminator)]
      [] SequenceTerminates(b) -> b
      [] OTHER -> Append(b, terminator)

----------------------------------------------------------------------------
\* ReuseParent and MergeArms

LargestOr0(S) == IF S = {} THEN 0 ELSE CHOOSE n \in S : \A m \in S : m <= n
Least2(m, n) == IF m < n THEN m ELSE n

\* Mutant: the overlap need not transfer control.
OverlapFallsThrough(branch, parent) ==
    LargestOr0({n \in 1..Least2(Len(branch), Len(parent)) : AlphaEq(Suffix(branch, n), SubSeq(parent, 1, n))})

\* terminal_parent_overlap
ParentOverlap(branch, parent) ==
    LargestOr0({n \in 1..Least2(Len(branch), Len(parent)) :
                    /\ AlphaEq(Suffix(branch, n), SubSeq(parent, 1, n))
                    /\ SequenceTerminates(SubSeq(parent, 1, n))})

\* common_suffix_len
CommonSuffix(a, b) ==
    LargestOr0({n \in 1..Least2(Len(a), Len(b)) : Hoistable(Suffix(a, n)) /\ AlphaEq(Suffix(a, n), Suffix(b, n))})

\* Mutant: a tail may use a local the branch declared before it.
MergesDeclared(then, else, n, early) == n > 0

Merges(then, else, n, early) ==
    /\ n > 0
    /\ ShouldFactor(Suffix(then, n), early)
    /\ ~Declaring(Prefix(then, n)) /\ ~Declaring(Prefix(else, n))

----------------------------------------------------------------------------

Terminator(tail) == IF tail = "return" THEN Return(<<>>) ELSE Continue

\* What can be done at the if b[at]; then and else count the statements that
\* its arms lose.
Action(kind, at, then, else) == [kind |-> kind, at |-> at, then |-> then, else |-> else]
NoAction == Action("none", 0, 0, 0)

ActionAt(b, at, tail, early) ==
    LET f == b[at]
        parent == Rest(b, at + 1)
        n == ParentOverlap(f.t, parent)
        m == ParentOverlap(f.e, parent)
        count == CommonSuffix(f.t, f.e)
    IN  CASE ~IsIf(f) -> NoAction
          [] tail # "none" /\ at = Len(b) /\ ShouldFactor(f.e, early) /\ HoistPays(f.t, f.e) ->
                Action("hoist", at, 0, Len(f.e))
          [] (n > 0 \/ m > 0) /\ ShouldFactor(SubSeq(parent, 1, IF n < m THEN m ELSE n), early) ->
                Action("reuse", at, n, m)
          [] Merges(f.t, f.e, count, early) -> Action("merge", at, count, count)
          [] OTHER -> NoAction

\* find_action: the last if at which there is one.
LastOf(actions) == CHOOSE a \in actions : \A other \in actions : other.at <= a.at
FindAction(b, tail, early) == LastOf({NoAction} \cup {ActionAt(b, i, tail, early) : i \in 1..Len(b)})

\* apply_action
ApplyAction(b, action, tail) ==
    LET f == b[action.at]
        arms(then) == <<If(f.c, then, Prefix(f.e, action.else))>>
        short == Prefix(f.t, action.then)
    IN  SubSeq(b, 1, action.at - 1)
        \o (CASE action.kind = "hoist" -> arms(HoistLeaves(f.t, f.e, Terminator(tail))) \o f.e
              [] action.kind = "reuse" -> arms(short)
              [] action.kind = "merge" -> arms(short) \o Suffix(f.t, action.then))
        \o Rest(b, action.at + 1)

\* Mutant: nothing is visited again.
DirtyNothing(b, new, at) == {}

\* The if an action changed and what it moved.
Dirty(b, new, at) == at..at + Len(new) - Len(b)

TailAt(b, i, tail) == IF i = Len(b) THEN tail ELSE "none"

RECURSIVE FactorBlock(_, _, _)
RECURSIVE FactorChild(_, _, _)
RECURSIVE Settle(_, _, _)
FactorChild(s, tail, early) ==
    CASE IsIf(s) -> [s EXCEPT !.t = FactorBlock(@, tail, early), !.e = FactorBlock(@, tail, early)]
      [] s.k = "repeat" -> [s EXCEPT !.b = FactorBlock(@, "none", early)]
      [] IsLoop(s) -> [s EXCEPT !.b = FactorBlock(@, "continue", early)]
      [] OTHER -> s

\* Bottom-up, then actions to a fixed point.
FactorBlock(b, tail, early) ==
    Settle([i \in 1..Len(b) |-> FactorChild(b[i], TailAt(b, i, tail), early)], tail, early)

\* Only what is dirty is visited again.
Revisit(b, new, at, tail, early) ==
    LET dirty == Dirty(b, new, at)
    IN  [i \in 1..Len(new) |->
            IF i \in dirty THEN FactorChild(new[i], TailAt(new, i, tail), early) ELSE new[i]]

Settle(b, tail, early) ==
    LET action == FindAction(b, tail, early)
    IN  IF action = NoAction THEN b
        ELSE Settle(Revisit(b, ApplyAction(b, action, tail), action.at, tail, early), tail, early)

FactorFunctionTailsPass(b) == FactorBlock(b, "return", TRUE)
FactorTailsPass(b) == FactorBlock(b, "return", FALSE)
=============================================================================
