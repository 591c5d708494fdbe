---------------------------- MODULE SsaCoalesce -----------------------------
(***************************************************************************)
(* cfg/src/ssa/destruct.rs from the coalescing on: locals that do not       *)
(* interfere become one, and the copies that are left are put in an order.  *)
(***************************************************************************)
EXTENDS SsaDestruct

CONSTANTS Depth,        \* decisions of the executions that are compared
          Functions     \* the functions before the SSA construction

vars == <<constructVars, analysis, joined>>

-----------------------------------------------------------------------------
Before(a, b) == analysis.key[a] < analysis.key[b]

Dominates(a, b) ==
    LET in == analysis.block[a]
        of == analysis.block[b]
    IN IF in = of THEN Before(a, b) ELSE in \in Ancestors(analysis.idom, of)

\* intersect: b, defined first, is still needed where a is defined.
Intersect(a, b) ==
    LET n == analysis.block[a]
    IN \/ n \in analysis.live[b].out
       \/ /\ n \in analysis.live[b].into \/ n = analysis.block[b]
          /\ n \in DOMAIN analysis.uses[b]
          /\ analysis.uses[b][n] > analysis.key[a]

SameValue(a, b) == b \in analysis.values[a]

Owned(co, l) == IF co.class[l] = None THEN [co EXCEPT !.class[l] = l] ELSE co
Members(co, c) == {l \in DOMAIN co.class : co.class[l] = c}

RECURSIVE ByPosition(_)
ByPosition(locals) ==
    IF locals = {} THEN <<>>
    ELSE LET first == CHOOSE l \in locals : \A m \in locals \ {l} : ~Before(m, l)
         IN <<first>> \o ByPosition(locals \ {first})

InOrder(co, c) == ByPosition(Members(co, c))

\* merge_congruence_classes: what the check found becomes what is known.
Merge(co, a, b) ==
    LET class == [l \in DOMAIN co.class |-> IF co.class[l] = b THEN a ELSE co.class[l]]
        news == {l \in DOMAIN class : class[l] = a /\ co.equalOut[l] # None
                    /\ (co.equalIn[l] = None \/ Before(co.equalIn[l], co.equalOut[l]))}
    IN [co EXCEPT !.class = class,
                  !.equalIn = [l \in DOMAIN @ |-> IF l \in news THEN co.equalOut[l] ELSE @[l]]]

\* A parameter and what every edge gives it are one local.
JoinArgument(co, pair) ==
    LET owned == Owned(co, pair[1])
        c == owned.class[pair[1]]
        held == owned.class[pair[2]]
    IN CASE held = None -> [owned EXCEPT !.class[pair[2]] = c]
         [] held # None /\ held # c -> Merge(owned, held, c)
         [] OTHER -> owned

CoalesceParams ==
    /\ stage = "analysed"
    /\ LET incoming == FlattenSeq([n \in Nodes(function) |-> EdgesTo(function, n)])
       IN joined' = FoldLeft(LAMBDA co, e : FoldLeft(JoinArgument, co, e.args), joined, incoming)
    /\ function' = [function EXCEPT !.edges = [k \in DOMAIN @ |-> [@[k] EXCEPT !.args = <<>>]]]
    /\ stage' = "register"
    /\ UNCHANGED <<source, current, incomplete, sealed, rank, analysis>>

-----------------------------------------------------------------------------
\* check_interfere: both classes in dominator preorder, every member against
\* the nearest one that dominates it.
Pop(w, l) ==
    LET kept == {k \in 0..Len(w.dom) : k = 0 \/ Dominates(w.dom[k].local, l)}
    IN [w EXCEPT !.dom = SubSeq(@, 1, Max(kept))]

OnStack(w, side) == \E k \in DOMAIN w.dom : w.dom[k].side = side
Push(w, l, side) == [w EXCEPT !.dom = Append(@, [local |-> l, side |-> side])]

DeepestDominating(co, c, l) ==
    LET above == {m \in Members(co, c) : Dominates(m, l)}
    IN IF above = {} THEN None ELSE CHOOSE m \in above : \A k \in above : k = m \/ Before(k, m)

\* The nearest of b and its equal ancestors that is still needed at a.
RECURSIVE StillNeeded(_, _, _)
StillNeeded(co, a, b) ==
    IF b = None \/ Intersect(a, b) THEN b ELSE StillNeeded(co, a, co.equalIn[b])

\* interference: the verdict and what is remembered of a.
Interference(co, a, b, sameClass) ==
    LET cleared == [co EXCEPT !.equalOut[a] = None]
        other == IF sameClass THEN cleared.equalOut[b] ELSE b
        needed == IF other = None THEN None ELSE StillNeeded(cleared, a, other)
    IN CASE other = None -> [co |-> cleared, found |-> FALSE]
         [] other # None /\ ~SameValue(a, other) -> [co |-> cleared, found |-> needed # None]
         [] OTHER -> [co |-> [cleared EXCEPT !.equalOut[a] = needed], found |-> FALSE]

\* With nothing remembered, the larger class is skipped where the smaller one
\* has no member on the stack.
Skipped(w) ==
    LET small == w.small
        large == 3 - small
    IN IF small # 0 /\ ~OnStack(w, small) /\ w.left[1] # <<>> /\ w.left[2] # <<>>
       THEN [w EXCEPT !.left[large] = SelectSeq(@, LAMBDA m : ~Before(m, Head(w.left[small])))]
       ELSE w

NextSide(w) ==
    CASE w.left[1] # <<>> /\ w.left[2] # <<>> -> IF Before(Head(w.left[1]), Head(w.left[2])) THEN 1 ELSE 2
      [] w.left[2] = <<>> -> 1
      [] OTHER -> 2

\* A member of the smaller class meets the skipped member above it.
WithSkippedAncestor(w, classes, side, l) ==
    LET above == DeepestDominating(w.co, classes[3 - side], l)
    IN IF w.small = side /\ above # None /\ (w.dom = <<>> \/ Before(Last(w.dom).local, above))
       THEN Push(w, above, 3 - side) ELSE w

\* A member that is left may still meet one of the other class.
More(w, classes, l) ==
    \/ \E side \in {1, 2} : w.left[side] # <<>> /\ OnStack(w, 3 - side)
    \/ w.left[1] # <<>> /\ w.left[2] # <<>>
    \/ /\ w.small # 0
       /\ w.left[w.small] # <<>>
       /\ DeepestDominating(w.co, classes[3 - w.small], l) # None

\* The next member of a side, its ancestors on the stack.
Met(w, classes, side) ==
    LET l == Head(w.left[side])
    IN WithSkippedAncestor(Pop([w EXCEPT !.left[side] = Tail(@)], l), classes, side, l)

Verdict(met, side, l) ==
    IF met.dom = <<>> THEN [co |-> met.co, found |-> FALSE]
    ELSE Interference(met.co, l, Last(met.dom).local, Last(met.dom).side = side)

RECURSIVE WalkClasses(_, _)
RECURSIVE WalkOn(_, _, _)
WalkClasses(w, classes) ==
    LET l == Head(w.left[NextSide(w)])
        met == Met(w, classes, NextSide(w))
        verdict == Verdict(met, NextSide(w), l)
    IN WalkOn(verdict, Push([met EXCEPT !.co = verdict.co], l, NextSide(w)), classes)

WalkOn(verdict, done, classes) ==
    IF verdict.found \/ ~More(done, classes, Last(done.dom).local) THEN verdict
    ELSE WalkClasses(Skipped(done), classes)

CheckInterfere(co, red, blue) ==
    LET cleared == [co EXCEPT !.equalOut[InOrder(co, red)[1]] = None,
                              !.equalOut[InOrder(co, blue)[1]] = None]
        skips == Len(function.blocks) > 1 /\ \A l \in DOMAIN cleared.equalOut : cleared.equalOut[l] = None
        small == IF ~skips THEN 0
                 ELSE IF Cardinality(Members(co, red)) > Cardinality(Members(co, blue)) THEN 2 ELSE 1
    IN WalkClasses(Skipped([co |-> cleared, small |-> small, dom |-> <<>>,
                            left |-> <<InOrder(co, red), InOrder(co, blue)>>]), <<red, blue>>)

\* Two classes of one member each.
CheckSingle(co, red, blue) ==
    LET x == InOrder(co, red)[1]
        y == InOrder(co, blue)[1]
        a == IF Before(x, y) THEN y ELSE x
        b == IF Before(x, y) THEN x ELSE y
    IN IF Intersect(a, b) /\ ~SameValue(a, b) THEN [co |-> co, found |-> TRUE]
       ELSE [co |-> [co EXCEPT !.equalIn[a] = b], found |-> FALSE]

-----------------------------------------------------------------------------
ShareDefinitionPoint(co, a, b) ==
    \E x \in Members(co, a), y \in Members(co, b) : analysis.key[x] = analysis.key[y]

HoldsEntryValue(co, c) == \E l \in Members(co, c) : Contains(function.params, l)

Joined(co, yes) == [co |-> co, yes |-> yes]

MergedUnless(check, a, b) ==
    IF check.found THEN Joined(check.co, FALSE) ELSE Joined(Merge(check.co, a, b), TRUE)

Check(co, a, b) ==
    IF Cardinality(Members(co, a)) = 1 /\ Cardinality(Members(co, b)) = 1
    THEN CheckSingle(co, a, b) ELSE CheckInterfere(co, a, b)

Refused(co, a, b) ==
    ShareDefinitionPoint(co, a, b) \/ (HoldsEntryValue(co, a) /\ HoldsEntryValue(co, b))

JoinClasses(co, a, b) ==
    IF a = b THEN Joined(co, TRUE)
    ELSE IF Refused(co, a, b) THEN Joined(co, FALSE)
    ELSE MergedUnless(Check(co, a, b), a, b)

\* try_coalesce_copy_by_value.
ByValue(co, left, right) ==
    LET owned == Owned(Owned(co, left), right)
    IN JoinClasses(owned, owned.class[left], owned.class[right])

\* try_coalesce_copy_by_sharing: another holder of the value, c, takes its place.
ShareWith(state, c, left, right) ==
    LET owned == Owned(Owned(Owned(state.co, left), right), c)
        x == owned.class[left]
        y == owned.class[right]
        z == owned.class[c]
    IN IF state.yes \/ c \in {left, right} \/ ~Before(c, left) \/ ~Intersect(left, c) THEN state
       ELSE CASE x = z /\ x # y -> Joined(owned, TRUE)
              [] Cardinality({x, y, z}) = 3 -> ByValue(owned, left, c)
              [] OTHER -> Joined(owned, FALSE)

BySharing(co, left, right, order) ==
    FoldLeft(LAMBDA state, c : ShareWith(state, c, left, right),
             Joined(Owned(Owned(co, left), right), FALSE), order)

\* The values of a class stand in the order of a hash set.
OrShared(byValue, left, right) ==
    IF byValue.yes THEN {byValue}
    ELSE {BySharing(byValue.co, left, right, order) :
             order \in Orders(analysis.values[left] \ {left, right})}

CopyOutcomes(co, left, right, sameRegister) ==
    LET register == function.register
    IN IF sameRegister /\ (register[left] = Unnamed \/ register[left] # register[right])
       THEN {Joined(co, FALSE)}
       ELSE OrShared(ByValue(co, left, right), left, right)

\* One pair of a statement: it is kept unless its copy is not needed any more.
PairOutcomes(state, s, k, sameRegister) ==
    LET kept == [state EXCEPT !.left = Append(@, s.left[k]), !.right = Append(@, s.right[k])]
    IN IF ~IsCopy(s, k) THEN {kept}
       ELSE {[(IF o.yes THEN state ELSE kept) EXCEPT !.co = o.co] :
                o \in CopyOutcomes(state.co, s.left[k], s.right[k].reads[1], sameRegister)}

\* A statement without copies stays as it is, and one without targets goes.
StatementOutcomes(state, s, sameRegister) ==
    LET started == [state EXCEPT !.left = <<>>, !.right = <<>>]
        ended == FoldLeft(LAMBDA states, k : UNION {PairOutcomes(st, s, k, sameRegister) : st \in states},
                          {started}, [k \in DOMAIN s.left |-> k])
    IN IF \E k \in DOMAIN s.left : IsCopy(s, k)
       THEN {[st EXCEPT !.block = IF st.left = <<>> THEN @
                                  ELSE Append(@, [s EXCEPT !.left = st.left, !.right = st.right])] : st \in ended}
       ELSE {[state EXCEPT !.block = Append(@, s)]}

BlockOutcomes(n, sameRegister) ==
    FoldLeft(LAMBDA states, s : UNION {StatementOutcomes(st, s, sameRegister) : st \in states},
             {[co |-> joined, block |-> <<>>, left |-> <<>>, right |-> <<>>]}, function.blocks[n])

\* First the copies between locals of one register, then all of them.
CoalesceCopies ==
    /\ stage \in {"register", "all"}
    /\ LET dfs == Dfs(function)
           n == dfs[rank]
       IN /\ \E o \in BlockOutcomes(n, stage = "register") :
                /\ joined' = o.co
                /\ function' = [function EXCEPT !.blocks[n] = o.block]
          /\ rank' = IF rank = Len(dfs) THEN 1 ELSE rank + 1
          /\ stage' = IF rank < Len(dfs) THEN stage ELSE IF stage = "register" THEN "all" ELSE "dead"
    /\ UNCHANGED <<source, current, incomplete, sealed, analysis>>

-----------------------------------------------------------------------------
\* The single assignments, by where they define their target.
SingleAssignments ==
    LET all == SelectSeq(FlattenSeq(function.blocks), LAMBDA s : ~s.parallel /\ Len(s.left) = 1)
    IN SortSeq(all, LAMBDA s, t : Before(s.left[1], t.left[1]))

IsRead(l) == DOMAIN analysis.uses[l] # {}
OwnReads(s, r) == {l \in ToSet(ReadsOf(s)) : function.register[l] = r}

\* A result that nobody reads joins the one version of its register that it
\* is made of.
JoinDead(co, s) ==
    LET dst == s.left[1]
        r == function.register[dst]
        operand == CHOOSE l \in OwnReads(s, r) : TRUE
        owned == Owned(Owned(co, dst), operand)
        dead == owned.class[dst]
        living == owned.class[operand]
        check == CheckInterfere(owned, living, dead)
    IN IF r = Unnamed \/ IsRead(dst) \/ Cardinality(OwnReads(s, r)) # 1 THEN co
       ELSE IF dead = living \/ Cardinality(Members(owned, dead)) # 1 THEN owned
       ELSE IF check.found THEN check.co ELSE Merge(check.co, living, dead)

CoalesceDeadSelfUpdates ==
    /\ stage = "dead"
    /\ joined' = FoldLeft(JoinDead, joined, SingleAssignments)
    /\ stage' = "live"
    /\ UNCHANGED <<source, function, current, incomplete, sealed, rank, analysis>>

Reads(l) == FoldLeft(LAMBDA count, s : count + Len(SelectSeq(ReadsOf(s), LAMBDA read : read = l)),
                     0, FlattenSeq(function.blocks))

IsUpdate(s) == Len(s.right) = 1 /\ s.right[1].kind = "update" /\ s.right[1].reads # <<>>

\* An update in place of a variable that is read elsewhere too.
UpdatesInPlace(s) ==
    LET dst == s.left[1]
        operand == s.right[1].reads[1]
        r == function.register[operand]
    IN /\ IsUpdate(s)
       /\ IsRead(dst)
       /\ r # Unnamed
       /\ \/ function.register[dst] = r
          \/ joined.class[dst] # None /\ \E l \in Members(joined, joined.class[dst]) : function.register[l] = r
       /\ OwnReads(s, r) = {operand}
       /\ Reads(dst) >= 2
       /\ Contains(function.params, operand) \/ Reads(operand) >= 2

JoinLive(co, s) ==
    LET dst == s.left[1]
        operand == s.right[1].reads[1]
        owned == Owned(Owned(co, dst), operand)
        update == owned.class[dst]
        updated == owned.class[operand]
        check == CheckInterfere(owned, updated, update)
    IN IF update = updated \/ ShareDefinitionPoint(owned, update, updated) THEN owned
       ELSE IF check.found THEN check.co ELSE Merge(check.co, updated, update)

\* Only in functions that hold no inlined copy and that Luau inlined nowhere.
CoalesceLiveSelfUpdates ==
    /\ stage = "live"
    /\ \E enabled \in BOOLEAN :
          joined' = IF enabled THEN FoldLeft(JoinLive, joined, SelectSeq(SingleAssignments, UpdatesInPlace))
                    ELSE joined
    /\ stage' = "joined"
    /\ UNCHANGED <<source, function, current, incomplete, sealed, rank, analysis>>

\* The first member names the class.
Rename ==
    /\ stage = "joined"
    /\ LET name == [l \in Locals(function) |->
                       IF joined.class[l] = None THEN l ELSE InOrder(joined, joined.class[l])[1]]
       IN function' = RenameLocals(function, LAMBDA l : name[l])
    /\ stage' = "renamed"
    /\ UNCHANGED <<source, current, incomplete, sealed, rank, analysis, joined>>

-----------------------------------------------------------------------------
\* sequentialize: copies whose target nobody waits for, then through a spill.
Move(q, to, from) == [q EXCEPT !.result = Append(@, Assign(<<to>>, <<Copy(from)>>))]

CopyReady(q, pred) ==
    LET to == Last(q.ready)
        from == pred[to]
        at == q.loc[from]
        copied == Move([q EXCEPT !.ready = Front(@)], to, at)
    IN [copied EXCEPT !.loc[from] = to,
                      !.ready = IF from = at /\ from \in DOMAIN pred THEN Append(@, from) ELSE @]

RECURSIVE CopyAllReady(_, _)
CopyAllReady(q, pred) == IF q.ready = <<>> THEN q ELSE CopyAllReady(CopyReady(q, pred), pred)

Spill(q, l, spill) ==
    [Move(q, spill, l) EXCEPT !.loc[l] = spill, !.ready = Append(@, l), !.spilled = TRUE]

OrderTarget(q, l, pred, spill) ==
    LET copied == CopyAllReady(q, pred)
    IN IF copied.loc[pred[l]] = l THEN copied ELSE Spill(copied, l, spill)

InSequence(s, spill) ==
    LET pairs == {<<s.left[k], s.right[k].reads[1]>> : k \in DOMAIN s.left}
        pred == [l \in ToSet(s.left) |-> (CHOOSE p \in pairs : p[1] = l)[2]]
        read == {p[2] : p \in pairs}
        start == [loc |-> [l \in read \cup ToSet(s.left) \cup {spill} |-> l],
                  ready |-> SelectSeq(s.left, LAMBDA l : l \notin read),
                  result |-> <<>>, spilled |-> FALSE]
    IN FoldLeft(LAMBDA q, l : OrderTarget(q, l, pred, spill), start, Reverse(s.left))

SequentializeStatement(state, s) ==
    LET spill == Minted(state.f) + 1
        order == InSequence(s, spill)
        put(g, statements) == [state EXCEPT !.f = g, !.block = @ \o statements]
    IN CASE ~s.parallel -> put(state.f, <<s>>)
         [] s.parallel /\ Len(s.left) = 1 /\ s.right[1] = Copy(s.left[1]) -> state
         [] s.parallel /\ Len(s.left) = 1 /\ s.right[1] # Copy(s.left[1]) ->
                put(state.f, <<[s EXCEPT !.parallel = FALSE]>>)
         [] OTHER -> put(IF order.spilled THEN Mint(state.f, Unnamed) ELSE state.f, order.result)

SequentializeBlock(f, n) ==
    LET done == FoldLeft(SequentializeStatement, [f |-> f, block |-> <<>>], f.blocks[n])
    IN [done.f EXCEPT !.blocks[n] = done.block]

Sequentialize ==
    /\ stage = "renamed"
    /\ function' = FoldLeft(SequentializeBlock, function, [n \in Nodes(function) |-> n])
    /\ stage' = "done"
    /\ UNCHANGED <<source, current, incomplete, sealed, rank, analysis, joined>>

-----------------------------------------------------------------------------
Init == ConstructInit(Functions) /\ analysis = NotYet /\ joined = NotYet

Done == stage = "done" /\ UNCHANGED vars

Next ==
    \/ ConstructNext /\ UNCHANGED <<analysis, joined>>
    \/ Lift
    \/ Analyse
    \/ CoalesceParams
    \/ CoalesceCopies
    \/ CoalesceDeadSelfUpdates
    \/ CoalesceLiveSelfUpdates
    \/ Rename
    \/ Sequentialize
    \/ Done

Spec == Init /\ [][Next]_vars

-----------------------------------------------------------------------------
\* Where a function may be run: not while the reads are renamed, nor while
\* parameters and their arguments are classes only.
Runnable == {"propagate", "clean", "ssa", "lift", "lifted", "analysed", "renamed", "done"}

\* The constructed and the final function make the calls of the original with
\* its arguments on every path, and so does every form in between: no lost
\* copy, no swapped pair, no version of another path.
SameBehaviour == stage \in Runnable => SameCalls(source, function, Depth)

\* What a statement or an edge reads was defined before, on every path to it,
\* and by one definition: what the analyses of the destruction assume.
DefinitionsOf(f) ==
    {<<l, Entry, 0>> : l \in ToSet(f.params)}
        \cup UNION {{<<l, n, 0>> : l \in ToSet(ParamsOf(f, n))} : n \in Nodes(f)}
        \cup UNION {UNION {{<<l, n, k>> : l \in ToSet(f.blocks[n][k].left)} :
                             k \in DOMAIN f.blocks[n]} : n \in Nodes(f)}

Reached(f, d, n, k) == IF d[2] = n THEN d[3] < k ELSE StandsBefore(f, d[2], n)

SsaForm ==
    stage \in {"propagate", "clean", "ssa", "lift", "lifted"} =>
        LET defs == DefinitionsOf(function)
            defined(l, n, k) == \E d \in defs : d[1] = l /\ Reached(function, d, n, k)
        IN /\ \A d, e \in defs : d[1] = e[1] => d = e
           /\ \A n \in Nodes(function) : \A k \in DOMAIN function.blocks[n] :
                \A l \in ToSet(ReadsOf(function.blocks[n][k])) : defined(l, n, k)
           /\ \A e \in ToSet(function.edges) : \A a \in DOMAIN e.args :
                defined(e.args[a][2], e.from, Len(function.blocks[e.from]) + 1)

\* Dominators and liveness are what their definitions say, for every graph
\* that the copies of the parameters leave: the coalescing rests on them.
NeededAfter(l, passing, ends) ==
    LET definer == analysis.block[l]
        leading == {m \in Nodes(function) \ {definer} : Spread(function, {definer}, {m}) \cap ends # {}}
    IN passing \cup {n \in Nodes(function) : ToSet(Successors(function, n)) \cap leading # {}}

AnalysesExact ==
    stage = "analysed" =>
        LET passed == [n \in Nodes(function) |-> PassedBy(function, n)]
            needed == [n \in Nodes(function) |-> passed[n] \cup ReadsIn(function, n)]
            at(table, l) == {n \in Nodes(function) : l \in table[n]}
        IN /\ \A a \in Nodes(function) :
                 LET kept == Spread(function, {a}, {Entry} \ {a})
                 IN \A b \in Nodes(function) : (a \in Ancestors(analysis.idom, b)) = (b \notin kept)
           /\ \A l \in DOMAIN analysis.live :
                 analysis.live[l].out = NeededAfter(l, at(passed, l), at(needed, l))

\* Two locals that became one are never needed at once with two values, nor
\* does one statement define both: the check of whole classes, which skips
\* most pairs, has missed none.
ClassesDoNotInterfere ==
    stage \in {"register", "all", "dead", "live", "joined"} =>
        \A x, y \in DOMAIN analysis.key :
            x # y /\ joined.class[x] # None /\ joined.class[x] = joined.class[y] =>
                /\ analysis.key[x] # analysis.key[y]
                /\ Dominates(x, y) => SameValue(x, y) \/ ~Intersect(y, x)
=============================================================================
