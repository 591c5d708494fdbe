------------------------------ MODULE Programs ------------------------------
(***************************************************************************)
(* Luau programs as the AST passes see them, and what running one does.    *)
(*                                                                         *)
(* A block is a sequence of statements; expressions and statements are     *)
(* records, told apart by op and k.  A run is a log of calls: each call    *)
(* shows its name and the captured locals, and answers with the next value *)
(* of an oracle, so two programs behave alike when every oracle gives them *)
(* the same log and the same outcome.  A run that asks more than the       *)
(* oracle holds, or logs too much, or loops without a call, is cut short.  *)
(***************************************************************************)
EXTENDS Naturals, Sequences, FiniteSets

CONSTANTS
    Locals,     \* local variables (a declaration may not shadow another)
    Captured,   \* the locals some closure reads when it is called
    Answers,    \* the values a call may answer
    MaxAnswers, \* how many answers an oracle holds
    MaxLog      \* bound on the log of a run

ASSUME ProgramAssumption ==
    /\ Captured \subseteq Locals
    /\ Answers \subseteq {"nil", "false", "true", "object"}
    /\ MaxAnswers \in Nat /\ MaxLog \in Nat

----------------------------------------------------------------------------
\* Expressions

Lit(v) == [op |-> "lit", v |-> v]
Local(x) == [op |-> "local", x |-> x]
Ask(f) == [op |-> "call", f |-> f]              \* a call for its first result
Multi(f) == [op |-> "multi", f |-> f]           \* a call for all its results
Not(a) == [op |-> "not", a |-> a]
Bin(op, a, b) == [op |-> op, a |-> a, b |-> b]  \* "and", "or", "eq", "ne", "lt", "ge"
Cond(c, a, b) == [op |-> "if", c |-> c, a |-> a, b |-> b]   \* if c then a else b
True == Lit("true")
False == Lit("false")
Nil == Lit("nil")

\* Statements

Empty == [k |-> "empty"]
CallWith(f, es) == [k |-> "call", f |-> f, es |-> es]
Call(f) == CallWith(f, <<>>)
Set(x, e) == [k |-> "set", x |-> x, e |-> e, decl |-> FALSE]
Declare(x, e) == [k |-> "set", x |-> x, e |-> e, decl |-> TRUE]
Return(es) == [k |-> "return", es |-> es]
Break == [k |-> "break"]
Continue == [k |-> "continue"]
Goto(l) == [k |-> "goto", l |-> l]
Label(l) == [k |-> "label", l |-> l]
If(c, t, e) == [k |-> "if", c |-> c, t |-> t, e |-> e]
While(c, b) == [k |-> "while", c |-> c, b |-> b]
Repeat(c, b) == [k |-> "repeat", c |-> c, b |-> b]
For(f, b) == [k |-> "for", f |-> f, b |-> b]    \* numeric or generic: f steps it
Twice(x, b) == [k |-> "twice", x |-> x, b |-> b]    \* for x = 1, 2 do b end

IsIf(s) == s.k = "if"
IsReturn(s) == s.k = "return"
IsLoop(s) == s.k \in {"while", "repeat", "for", "twice"}
Leaves(s) == s.k \in {"return", "break", "continue"}
Jumps(s) == s.k \in {"goto", "label"}

Final(b) == b[Len(b)]
Before(b) == SubSeq(b, 1, Len(b) - 1)
Rest(b, i) == SubSeq(b, i, Len(b))

----------------------------------------------------------------------------
\* Running.  A state holds the locals, the log, the answers left, how many
\* rounds of loops may still go without a call, and whether the run was cut.

Truthy(v) == v \notin {"nil", "false"}
Bool(p) == IF p THEN "true" ELSE "false"
Rounds == 5

Start(oracle) ==
    [env |-> [x \in Locals |-> "nil"], log |-> <<>>, oracle |-> oracle, rounds |-> Rounds, cut |-> FALSE]

Cut(s) == [s EXCEPT !.cut = TRUE]

\* What a call or a comparison of two values shows.
Show(s, event) ==
    IF Len(s.log) >= MaxLog THEN Cut(s)
    ELSE [s EXCEPT !.log = Append(@, <<event, [x \in Captured |-> s.env[x]]>>), !.rounds = Rounds]

\* A call shows the captured locals and writes them: its closures leave the
\* opposite of the answer there.
Answer(s, event) ==
    IF s.oracle = <<>> THEN [v |-> "nil", s |-> Cut(s)]
    ELSE LET v == Head(s.oracle)
             shown == Show([s EXCEPT !.oracle = Tail(@)], event)
         IN  [v |-> v,
              s |-> [shown EXCEPT !.env = [x \in Locals |-> IF x \in Captured THEN Bool(~Truthy(v)) ELSE @[x]]]]

RECURSIVE Eval(_, _)
Eval(e, s) ==
    IF s.cut THEN [v |-> "nil", s |-> s]
    ELSE CASE e.op = "lit" -> [v |-> e.v, s |-> s]
           [] e.op = "local" -> [v |-> s.env[e.x], s |-> s]
           [] e.op \in {"call", "multi"} -> Answer(s, e.f)
           [] e.op = "not" -> LET r == Eval(e.a, s) IN [r EXCEPT !.v = Bool(~Truthy(@))]
           [] e.op = "and" -> LET r == Eval(e.a, s) IN IF Truthy(r.v) THEN Eval(e.b, r.s) ELSE r
           [] e.op = "or" -> LET r == Eval(e.a, s) IN IF Truthy(r.v) THEN r ELSE Eval(e.b, r.s)
           [] e.op = "if" -> LET r == Eval(e.c, s) IN Eval(IF Truthy(r.v) THEN e.a ELSE e.b, r.s)
           [] e.op \in {"eq", "ne"} ->
                LET r == Eval(e.a, s)
                    t == Eval(e.b, r.s)
                IN  [v |-> Bool((r.v = t.v) <=> (e.op = "eq")), s |-> t.s]
           [] OTHER -> LET r == Eval(e.a, s)
                           t == Eval(e.b, r.s)
                       IN  IF t.s.cut THEN t ELSE Answer(t.s, <<e.op, r.v, t.v>>)

\* The values of a list; its last expression gives all its results.
RECURSIVE EvalList(_, _)
EvalList(es, s) ==
    IF es = <<>> THEN [vs |-> <<>>, s |-> s]
    ELSE LET r == Eval(Head(es), s)
             t == EvalList(Tail(es), r.s)
             v == IF Len(es) = 1 /\ Head(es).op = "multi" THEN <<r.v, "...">> ELSE <<r.v>>
         IN  [vs |-> v \o t.vs, s |-> t.s]

Done(out, s) == [out |-> IF s.cut THEN <<"cut">> ELSE out, s |-> s]
Next1 == <<"next">>

\* One more round of a loop.
Round(s) == IF s.rounds = 0 THEN Cut(s) ELSE [s EXCEPT !.rounds = @ - 1]

RECURSIVE ExecBlock(_, _, _)
RECURSIVE After(_, _, _)
RECURSIVE Exec(_, _)
RECURSIVE ExecWhile(_, _)
RECURSIVE ExecRepeat(_, _)
RECURSIVE ExecFor(_, _)
RECURSIVE ExecTwice(_, _, _)
ExecBlock(b, i, s) ==
    IF s.cut \/ i > Len(b) THEN Done(Next1, s) ELSE After(b, i, Exec(b[i], s))

\* Where a block goes on when its i-th statement has given r.
After(b, i, r) ==
    CASE r.out = Next1 -> ExecBlock(b, i + 1, r.s)
      [] r.out[1] = "goto" /\ \E j \in 1..Len(b) : b[j] = Label(r.out[2]) ->
           ExecBlock(b, CHOOSE j \in 1..Len(b) : b[j] = Label(r.out[2]), Round(r.s))
      [] OTHER -> r

Exec(st, s) ==
    CASE st.k \in {"empty", "label"} -> Done(Next1, s)
      [] st.k = "call" -> LET r == EvalList(st.es, s)
                          IN  Done(Next1, IF r.s.cut THEN r.s ELSE Show(r.s, <<st.f, r.vs>>))
      [] st.k = "set" -> LET r == Eval(st.e, s) IN Done(Next1, [r.s EXCEPT !.env[st.x] = r.v])
      [] st.k = "return" -> LET r == EvalList(st.es, s) IN Done(<<"return", r.vs>>, r.s)
      [] st.k \in {"break", "continue"} -> Done(<<st.k>>, s)
      [] st.k = "goto" -> Done(<<"goto", st.l>>, s)
      [] st.k = "if" -> LET r == Eval(st.c, s) IN ExecBlock(IF Truthy(r.v) THEN st.t ELSE st.e, 1, r.s)
      [] st.k = "while" -> ExecWhile(st, Round(s))
      [] st.k = "repeat" -> ExecRepeat(st, Round(s))
      [] st.k = "for" -> ExecFor(st, Round(s))
      [] st.k = "twice" -> ExecTwice(st, <<"1", "2">>, s)

ExecWhile(st, s) ==
    LET c == Eval(st.c, s)
        r == ExecBlock(st.b, 1, c.s)
    IN  CASE ~Truthy(c.v) \/ c.s.cut -> Done(Next1, c.s)
          [] r.out \in {Next1, <<"continue">>} -> ExecWhile(st, Round(r.s))
          [] r.out = <<"break">> -> Done(Next1, r.s)
          [] OTHER -> r

ExecRepeat(st, s) ==
    LET r == ExecBlock(st.b, 1, s)
        c == Eval(st.c, r.s)
    IN  CASE r.out \in {Next1, <<"continue">>} ->
                IF Truthy(c.v) \/ c.s.cut THEN Done(Next1, c.s) ELSE ExecRepeat(st, Round(c.s))
          [] r.out = <<"break">> -> Done(Next1, r.s)
          [] OTHER -> r

ExecFor(st, s) ==
    LET c == Answer(s, st.f)
        r == ExecBlock(st.b, 1, c.s)
    IN  CASE s.cut \/ c.s.cut \/ ~Truthy(c.v) -> Done(Next1, IF s.cut THEN s ELSE c.s)
          [] r.out \in {Next1, <<"continue">>} -> ExecFor(st, Round(r.s))
          [] r.out = <<"break">> -> Done(Next1, r.s)
          [] OTHER -> r

ExecTwice(st, values, s) ==
    LET r == ExecBlock(st.b, 1, [s EXCEPT !.env[st.x] = Head(values)])
    IN  CASE values = <<>> -> Done(Next1, s)
          [] r.out \in {Next1, <<"continue">>} -> ExecTwice(st, Tail(values), r.s)
          [] r.out = <<"break">> -> Done(Next1, r.s)
          [] OTHER -> r

\* The log and the outcome of a function whose body is b, and what its closures
\* see after it; more is asked when the oracle has ended.  Running off the end
\* returns nothing.
Seen(r) ==
    [log |-> r.s.log, out |-> IF r.out = Next1 THEN <<"return", <<>>>> ELSE r.out,
     seen |-> [x \in Captured |-> r.s.env[x]], asks |-> r.s.cut /\ r.s.oracle = <<>>]

Run(b, oracle) == Seen(ExecBlock(b, 1, Start(oracle)))

\* An oracle grows while a run asks for more.
RECURSIVE SameFrom(_, _, _)
SameFrom(b, c, oracle) ==
    \E r \in {Run(b, oracle)} :
        /\ r = Run(c, oracle)
        /\ r.asks /\ Len(oracle) < MaxAnswers =>
              \A v \in Answers : SameFrom(b, c, Append(oracle, v))

SameRuns(b, c) == SameFrom(b, c, <<>>)

----------------------------------------------------------------------------
\* The locals of a block.

ExprsOf(e) ==
    CASE e.op = "not" -> <<e.a>>
      [] e.op = "if" -> <<e.c, e.a, e.b>>
      [] e.op \in {"lit", "local", "call", "multi"} -> <<>>
      [] OTHER -> <<e.a, e.b>>

\* The expressions a statement evaluates itself, and its blocks.
ValuesOf(s) ==
    CASE s.k \in {"return", "call"} -> s.es
      [] s.k = "set" -> <<s.e>>
      [] s.k \in {"if", "while", "repeat"} -> <<s.c>>
      [] OTHER -> <<>>

BlocksIn(s) == IF IsIf(s) THEN <<s.t, s.e>> ELSE IF IsLoop(s) THEN <<s.b>> ELSE <<>>

RECURSIVE ReadsIn(_)
ReadsIn(e) ==
    IF e.op = "local" THEN {e.x}
    ELSE LET es == ExprsOf(e) IN UNION {ReadsIn(es[i]) : i \in 1..Len(es)}

RECURSIVE ReadsOf(_)
ReadsOf(b) ==
    UNION {LET es == ValuesOf(b[i])
               bs == BlocksIn(b[i])
           IN  UNION {ReadsIn(es[j]) : j \in 1..Len(es)} \cup UNION {ReadsOf(bs[j]) : j \in 1..Len(bs)}
           : i \in 1..Len(b)}

\* Every assignment of x in b counts once.
RECURSIVE WritesOf(_, _)
WritesOf(b, x) ==
    IF b = <<>> THEN 0
    ELSE LET s == Head(b)
             bs == BlocksIn(s)
         IN  (IF s.k = "set" /\ s.x = x THEN 1 ELSE 0)
             + (IF bs = <<>> THEN 0 ELSE WritesOf(bs[1], x))
             + (IF Len(bs) < 2 THEN 0 ELSE WritesOf(bs[2], x))
             + WritesOf(Tail(b), x)

RECURSIVE DeclaredIn(_)
DeclaredIn(b) ==
    UNION {LET bs == BlocksIn(b[i])
           IN  (CASE b[i].k = "set" /\ b[i].decl -> {b[i].x}
                  [] b[i].k = "twice" -> {b[i].x}
                  [] OTHER -> {})
               \cup UNION {DeclaredIn(bs[j]) : j \in 1..Len(bs)}
           : i \in 1..Len(b)}

RECURSIVE RenameIn(_, _)
RenameIn(e, f) ==
    CASE e.op = "local" -> Local(f[e.x])
      [] e.op = "not" -> Not(RenameIn(e.a, f))
      [] e.op = "if" -> Cond(RenameIn(e.c, f), RenameIn(e.a, f), RenameIn(e.b, f))
      [] e.op \in {"lit", "call", "multi"} -> e
      [] OTHER -> Bin(e.op, RenameIn(e.a, f), RenameIn(e.b, f))

\* b with every local x of it replaced by f[x].
RECURSIVE Rename(_, _)
Rename(b, f) ==
    [i \in 1..Len(b) |->
        CASE b[i].k \in {"return", "call"} -> [b[i] EXCEPT !.es = [j \in 1..Len(@) |-> RenameIn(@[j], f)]]
          [] b[i].k = "set" -> [b[i] EXCEPT !.x = f[@], !.e = RenameIn(@, f)]
          [] IsIf(b[i]) -> If(RenameIn(b[i].c, f), Rename(b[i].t, f), Rename(b[i].e, f))
          [] b[i].k \in {"while", "repeat"} -> [b[i] EXCEPT !.c = RenameIn(@, f), !.b = Rename(@, f)]
          [] b[i].k = "for" -> [b[i] EXCEPT !.b = Rename(@, f)]
          [] b[i].k = "twice" -> Twice(f[b[i].x], Rename(b[i].b, f))
          [] OTHER -> b[i]]

----------------------------------------------------------------------------
\* What Luau's parser and compiler ask of a block: what leaves it is its last
\* statement, and break and continue are inside a loop.
RECURSIVE WellFormedIn(_, _)
WellFormedIn(b, inLoop) ==
    \A i \in 1..Len(b) :
        /\ Leaves(b[i]) => i = Len(b)
        /\ b[i].k \in {"break", "continue"} => inLoop
        /\ IsIf(b[i]) => WellFormedIn(b[i].t, inLoop) /\ WellFormedIn(b[i].e, inLoop)
        /\ IsLoop(b[i]) => WellFormedIn(b[i].b, TRUE)
WellFormed(b) == WellFormedIn(b, FALSE)

\* A local is used inside the block that declares it, after the declaration;
\* the condition of a repeat sees what its body declares, unless a continue may
\* jump over the declaration.
RECURSIVE Continues(_)
Continues(s) ==
    \/ s.k = "continue"
    \/ IsIf(s) /\ \E b \in {s.t, s.e} : \E i \in 1..Len(b) : Continues(b[i])

Declares(s) == IF s.k = "set" /\ s.decl THEN {s.x} ELSE {}
DeclaredTo(b, i) == UNION {Declares(b[j]) : j \in 1..i}

RECURSIVE Scoped(_, _)
Scoped(b, visible) ==
    \A i \in 1..Len(b) :
        LET s == b[i]
            seen == visible \cup DeclaredTo(b, i - 1)
            skips == {j \in 1..Len(s.b) : Continues(s.b[j])}
            kept == IF skips = {} THEN Len(s.b) ELSE CHOOSE j \in skips : \A k \in skips : j <= k
        IN  CASE s.k = "set" -> ReadsIn(s.e) \subseteq seen /\ (s.decl \/ s.x \in seen)
              [] s.k = "repeat" -> Scoped(s.b, seen) /\ ReadsIn(s.c) \subseteq seen \cup DeclaredTo(s.b, kept)
              [] s.k = "twice" -> Scoped(s.b, seen \cup {s.x})
              [] OTHER -> LET bs == BlocksIn(s)
                              es == ValuesOf(s)
                          IN  /\ \A j \in 1..Len(es) : ReadsIn(es[j]) \subseteq seen
                              /\ \A j \in 1..Len(bs) : Scoped(bs[j], seen)

----------------------------------------------------------------------------
\* Every block of a given size, from the statements and conditions of a
\* grammar g: [plain, last, lastInLoop, conds, heads], heads being loops with
\* an empty body.

StatementsOf(n, g, arms, bodies) ==
    (IF n = 1 THEN g.plain ELSE {})
    \cup UNION {{If(c, t, e) : c \in g.conds, t \in arms[i + 1], e \in arms[n - i]} : i \in 0..n - 1}
    \cup {[h EXCEPT !.b = b] : h \in g.heads, b \in bodies[n]}

\* Blocks whose first statement has size k.
Starting(k, n, blocks, statements) == {<<s>> \o b : s \in statements[k], b \in blocks[n - k + 1]}

BlocksOf(n, blocks, statements, last) ==
    UNION {Starting(k, n, blocks, statements) : k \in 1..n}
    \cup (IF n = 1 THEN {<<s>> : s \in last} ELSE {})

\* All of size less than n, and the statements of size up to n.
RECURSIVE Sizes(_, _, _, _, _)
Sizes(n, g, last, bodies, acc) ==
    LET m == Len(acc.blocks)
        st == Append(acc.statements,
                     StatementsOf(m, g, acc.blocks, IF bodies = <<>> THEN acc.blocks ELSE bodies))
    IN  IF m = n THEN [statements |-> st, blocks |-> acc.blocks]
        ELSE Sizes(n, g, last, bodies,
                   [statements |-> st, blocks |-> Append(acc.blocks, BlocksOf(m, acc.blocks, st, last))])

NoSizes == [statements |-> <<>>, blocks |-> <<{<<>>}>>]

\* Blocks of less than n statements, in a loop and outside one.
LoopBlocks(n, g) == Sizes(n, g, g.lastInLoop, <<>>, NoSizes).blocks
FunctionBlocks(n, g) == Sizes(n, g, g.last, LoopBlocks(n, g), NoSizes)

\* Every block of up to n statements, n > 1, as a set of sets: a union of large
\* sets takes TLC too long.
UpTo(n, g) ==
    LET sizes == FunctionBlocks(n, g)
    IN  {sizes.blocks[i] : i \in 1..n}
        \cup {Starting(k, n, sizes.blocks, sizes.statements) : k \in 1..n}
=============================================================================
