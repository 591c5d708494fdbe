--------------------------- MODULE MCControlPasses ---------------------------
EXTENDS ControlPasses

P == Ask("p")
Q == Ask("q")
X == Local("x")
Y == Local("y")

\* No statement follows a loop that is never left, and the test of a repeat can
\* be reached: the graph a body is built from has no other blocks.
RECURSIVE Breaks(_)
Breaks(b) ==
    \E i \in 1..Len(b) :
        b[i].k = "break" \/ (IsIf(b[i]) /\ (Breaks(b[i].t) \/ Breaks(b[i].e)))

RECURSIVE NoDeadTail(_)
NoDeadTail(b) ==
    \A i \in 1..Len(b) :
        /\ i < Len(b) => ~(b[i].k = "while" /\ b[i].c = True /\ ~Breaks(b[i].b))
        /\ b[i].k = "repeat" => ~SequenceTerminates(b[i].b)
        /\ IsIf(b[i]) => NoDeadTail(b[i].t) /\ NoDeadTail(b[i].e)
        /\ IsLoop(b[i]) => NoDeadTail(b[i].b)

\* A local is not declared again where it is visible.
RECURSIVE Unshadowed(_, _)
Unshadowed(b, visible) ==
    \A i \in 1..Len(b) :
        LET seen == visible \cup DeclaredTo(b, i - 1)
            bs == BlocksIn(b[i])
        IN  /\ Declares(b[i]) \cap seen = {}
            /\ \A j \in 1..Len(bs) : Unshadowed(bs[j], seen)

Valid(Sets) == {{b \in S : NoDeadTail(b) /\ Scoped(b, Params(b)) /\ Unshadowed(b, {})} : S \in Sets}

\* Loops and what leaves them.
LoopGrammar ==
    [plain |-> {Call("f")},
     last |-> {Return(<<>>)},
     lastInLoop |-> {Return(<<>>), Break, Continue},
     conds |-> {Not(P)},
     heads |-> {While(True, <<>>), Repeat(Q, <<>>)}]

LoopSources ==
    Valid(UpTo(4, LoopGrammar)
          \cup {{<<While(True, <<Call("f")>> \o b), Call("g")>> : b \in LoopBlocks(4, LoopGrammar)[i]} : i \in 1..4})

\* Guards and how their conditions are negated, merged and joined.
GuardSources == Valid(UpTo(4,
    [plain |-> {Call("f")},
     last |-> {Return(<<>>), Return(<<Lit("a")>>)},
     lastInLoop |-> {Return(<<>>), Continue},
     conds |-> {Bin("lt", P, Nil), Bin("and", P, Not(Q))},
     heads |-> {For("step", <<>>)}]))

\* Locals declared in branches and loops, y captured.
ScopeSources == Valid(UpTo(4,
    [plain |-> {Declare("x", P), Declare("y", P), CallWith("f", <<X>>), CallWith("f", <<Y>>)},
     last |-> {Return(<<>>)},
     lastInLoop |-> {Break, Continue},
     conds |-> {P},
     heads |-> {Repeat(X, <<>>), While(True, <<>>)}])
    \cup {{<<If(P, <<Declare("x", c), CallWith("f", <<X>>)>>, <<Declare("x", d), CallWith("f", <<X>>)>>)>> \o b :
             c, d \in {P, Q}, b \in {<<>>, <<Call("f")>>}}})

\* A result that is assigned on some paths and returned at the end; captured
\* when it is y, that of a conditional when it is z.
ResultGrammar ==
    [plain |-> {Set("x", Multi("p"))},
     last |-> {Return(<<X>>), Return(<<True>>), Return(<<Multi("q")>>)},
     lastInLoop |-> {},
     conds |-> {Not(X), Q},
     heads |-> {}]

ConstantResults ==
    UpTo(3, [ResultGrammar EXCEPT !.plain = {Set("x", Lit("a"))}, !.last = {Return(<<c>>) : c \in {X, True, False}}])

ResultOf(y, S) == {Rename(<<Declare("x", Nil)>> \o b, [x \in Locals |-> IF x = "x" THEN y ELSE x]) : b \in S}

ResultSources ==
    {ResultOf(y, S) : y \in {"x", "y"}, S \in UpTo(4, ResultGrammar) \cup ConstantResults}
    \cup {ResultOf("z", S) : S \in ConstantResults}

\* The shapes that the rewrites of several statements look for, each with
\* variations that must keep them away.

ParentOf(x) == Bin("index", Local(x), Lit("Parent"))

Walk(x, fail, found, leave) ==
    <<Set(x, P),
      While(True, <<If(Not(Local(x)), <<fail, Break>>, <<>>), If(Q, found \o <<leave>>, <<>>), Set(x, ParentOf(x))>>),
      CallWith("f", <<Local(x)>>)>>

WalkSources ==
    UNION {{Walk(x, fail, found, leave) :
                fail \in {Call("g"), Set(x, Lit("a"))}, leave \in {Break, Continue},
                found \in {<<>>, <<Set(x, Nil)>>, <<If(P, <<Continue>>, <<>>)>>, <<If(P, <<Return(<<>>)>>, <<>>)>>}}
           : x \in {"x", "y"}}

Element(x, n) == Declare(x, Bin("index", P, Lit(n)))

RerollSources ==
    {<<For("step", <<Element("x", "1"), If(X, b, <<>>), Element("z", n), If(Local("z"), c, <<>>)>> \o after)>> :
        n \in {"1", "2"}, after \in {<<>>, <<CallWith("g", <<X>>)>>, <<Call("g")>>},
        b \in {<<CallWith("f", <<X>>)>>, <<CallWith("f", <<X>>), Break>>, <<Return(<<X>>)>>, <<Set("x", Nil)>>},
        c \in {<<CallWith("f", <<Local("z")>>)>>, <<CallWith("f", <<Local("z")>>), Break>>, <<Return(<<Local("z")>>)>>}}

WaitSources ==
    {<<While(True, <<Repeat(P, <<s>>)>> \o rest)>> :
        s \in {Wait, Call("f")},
        rest \in {<<>>, <<Call("g")>>, <<Break>>, <<If(Q, <<Break>>, <<>>), Call("g")>>, <<If(Q, <<Continue>>, <<>>), Return(<<>>)>>}}

ArmSources ==
    {<<If(c, s, <<>>), If(d, <<Call("g"), Return(<<>>)>>, <<>>), If(Bin("eq", X, Lit("true")), <<Return(<<P>>)>>, <<>>), Call("h")>> :
        c \in {Bin("eq", X, Nil), Bin("eq", P, Nil), Bin("ne", X, Nil)},
        d \in {Bin("eq", Lit("true"), X), Bin("eq", X, Nil), Bin("eq", X, Lit("a")), Bin("eq", P, Lit("a"))},
        s \in {<<Call("f"), Return(<<X>>)>>, <<Call("f")>>}}

NestedSources ==
    {<<Set("x", Q), If(c, <<If(d, <<If(e, <<Call("f")>>, <<>>)>>, <<>>)>>, other)>> :
        c \in {X, P, Not(X)}, d \in {X, Bin("and", X, Q), Bin("and", P, Q), Bin("and", Not(X), P)},
        e \in {X, P, Bin("lt", P, X)}, other \in {<<>>, <<Return(<<>>)>>}}

\* A then arm some of whose paths end like the else arm.
HoistBlocks(n) == UNION UpTo(n,
    [plain |-> {Call("f"), Call("g")}, last |-> {Return(<<>>)}, lastInLoop |-> {}, conds |-> {Q}, heads |-> {}])

HoistSources ==
    {<<If(P, then \o s, s)>> \o after :
        then \in {b \in HoistBlocks(3) : ~EndsInTerminator(b)}, s \in {<<Call("f")>>, <<Call("g"), Call("f")>>}, after \in {<<>>, <<Return(<<>>)>>}}
    \cup {<<If(P, <<If(Q, then, else)>>, s)>> :
        then, else \in HoistBlocks(2), s \in {<<Call("f")>>, <<Call("g"), Call("f")>>, <<Call("g"), Call("f"), Call("h")>>}}
    \cup {<<If(P, <<If(Q, <<If(P, <<Call("f")>>, e)>>, s)>>, s)>> :
        e \in {<<Call("g")>>, <<Call("g"), Return(<<>>)>>}, s \in {<<Call("f"), Call("g"), Call("h")>>}}

\* Guards in a row in a loop, and a long last if.
MergeSources ==
    {<<[loop EXCEPT !.b = <<If(c, <<Continue>>, <<>>), If(d, <<s>>, <<>>), If(e, <<Call("f")>> \o rest, <<>>)>>]>> :
        loop \in {For("step", <<>>), Repeat(Q, <<>>)}, c, d \in {Not(P), Bin("eq", P, Nil), Bin("lt", P, Nil)},
        e \in {P, Bin("and", P, Not(Q)), Bin("and", Not(P), Not(Q))}, s \in {Continue, Break},
        rest \in {<<>>, <<Call("g")>>, <<Break>>, <<If(P, <<Call("g")>>, <<Call("h")>>)>>}}

ShapeSources ==
    Valid({WalkSources, RerollSources, WaitSources, ArmSources, NestedSources, HoistSources, MergeSources})

BodySources == LoopSources \cup GuardSources \cup ScopeSources \cup ResultSources \cup ShapeSources
=============================================================================
