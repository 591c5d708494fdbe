---------------------------- MODULE FlattenGuards ----------------------------
(***************************************************************************)
(* ast/src/flatten_guards.rs: an if with a branch that only bails out      *)
(* becomes a guard clause followed by the other branch (flatten_guards),   *)
(* and an if before a single terminator becomes a guard for it             *)
(* (flatten_terminal_tail_guards).                                         *)
(***************************************************************************)
EXTENDS Programs

CONSTANTS
    MaxLifted,      \* MAX_LIFTED_GUARD_BODY_SIZE, 2 in the code
    MinDenest       \* COMPLEX_NEGATION_DENEST_MIN_BODY_SIZE, 4 in the code

ASSUME GuardAssumption == MaxLifted \in Nat /\ MinDenest \in Nat

RECURSIVE ContainsJump(_)
ContainsJump(b) ==
    \E i \in 1..Len(b) :
        \/ Jumps(b[i])
        \/ IsIf(b[i]) /\ (ContainsJump(b[i].t) \/ ContainsJump(b[i].e))
        \/ IsLoop(b[i]) /\ ContainsJump(b[i].b)

EndsInTerminator(b) == b # <<>> /\ Leaves(Final(b))

RECURSIVE BlockSize(_)
BlockSize(b) ==
    IF b = <<>> THEN 0
    ELSE LET s == Head(b)
         IN  1 + BlockSize(Tail(b))
             + (IF IsIf(s) THEN BlockSize(s.t) + BlockSize(s.e)
                ELSE IF IsLoop(s) THEN BlockSize(s.b) ELSE 0)

\* Mutant: a relational comparison is turned round, as if no operand were NaN.
NegateRelational(c) ==
    CASE c.op = "not" -> c.a
      [] c.op = "eq" -> [c EXCEPT !.op = "ne"]
      [] c.op = "ne" -> [c EXCEPT !.op = "eq"]
      [] c.op = "lt" -> [c EXCEPT !.op = "ge"]
      [] OTHER -> Not(c)

\* Logical negation; < and >= are not each other's complement (NaN).
Negate(c) ==
    CASE c.op = "not" -> c.a
      [] c.op = "eq" -> [c EXCEPT !.op = "ne"]
      [] c.op = "ne" -> [c EXCEPT !.op = "eq"]
      [] OTHER -> Not(c)

\* A value that is always true or false.
RECURSIVE IsBoolean(_)
IsBoolean(e) ==
    CASE e.op = "lit" -> e.v \in {"true", "false"}
      [] e.op \in {"not", "eq", "ne", "lt", "ge"} -> TRUE
      [] e.op \in {"and", "or"} -> IsBoolean(e.a) /\ IsBoolean(e.b)
      [] OTHER -> FALSE

RECURSIVE Simplifiable(_)
Simplifiable(e) ==
    CASE e.op = "not" -> IsBoolean(e.a)
      [] e.op \in {"eq", "ne"} -> TRUE
      [] e.op \in {"and", "or"} -> Simplifiable(e.a) \/ Simplifiable(e.b)
      [] OTHER -> FALSE

ReadableNegation(c) ==
    CASE c.op \in {"local", "lit", "call", "multi", "not", "eq", "ne"} -> TRUE
      [] c.op \in {"and", "or"} -> Simplifiable(c.a) \/ Simplifiable(c.b)
      [] OTHER -> FALSE

\* Which branch of f is lifted into a guard: "else", "then" or none.  hasRest:
\* more statements follow f; elseif: f is all of an else.
ReturnsValue(b) == IsReturn(Final(b)) /\ Final(b).es # <<>>

Pull(f, hasRest, elseif) ==
    LET then == EndsInTerminator(f.t)
        else == EndsInTerminator(f.e)
        m == BlockSize(f.t)
        n == BlockSize(f.e)
        bails == ~elseif /\ Len(f.e) = 1 /\ Leaves(f.e[1])
    IN  CASE else /\ ~then -> IF n <= MaxLifted /\ (m > n \/ bails) THEN "else" ELSE "none"
          [] then /\ ~else -> IF m <= MaxLifted /\ n > m THEN "then" ELSE "none"
          [] then /\ else ->
                CASE hasRest \/ (m > MaxLifted /\ n > MaxLifted) -> "none"
                  [] m = n -> IF elseif \/ ~ReturnsValue(f.t) \/ ~ReturnsValue(f.e) THEN "none" ELSE "then"
                  [] OTHER -> IF n < m THEN "else" ELSE "then"
          [] OTHER -> "none"

\* guard_split: the guard and what follows it, or f alone.
Split(f, hasRest, elseif) ==
    LET pull == Pull(f, hasRest, elseif)
    IN  CASE ContainsJump(f.t) \/ ContainsJump(f.e) \/ pull = "none" -> [guard |-> f, inline |-> <<>>, split |-> FALSE]
          [] pull = "then" -> [guard |-> If(f.c, f.t, <<>>), inline |-> f.e, split |-> TRUE]
          [] OTHER ->
                IF ~ReadableNegation(f.c) /\ BlockSize(f.t) < MinDenest
                THEN [guard |-> f, inline |-> <<>>, split |-> FALSE]
                ELSE [guard |-> If(Negate(f.c), f.e, <<>>), inline |-> f.t, split |-> TRUE]

\* The work list of flatten_guards_in: what a split inlines is worked again.
RECURSIVE Flattened(_, _, _)
Flattened(work, out, elseif) ==
    IF work = <<>> THEN out
    ELSE IF ~IsIf(Head(work)) THEN Flattened(Tail(work), Append(out, Head(work)), elseif)
    ELSE LET r == Split(Head(work), Tail(work) # <<>>, elseif /\ out = <<>>)
         IN  Flattened(r.inline \o Tail(work), Append(out, r.guard), elseif)

RECURSIVE FlattenIn(_, _)
FlattenIn(b, isElse) ==
    LET inner == [i \in 1..Len(b) |->
            CASE IsIf(b[i]) -> [b[i] EXCEPT !.t = FlattenIn(@, FALSE), !.e = FlattenIn(@, TRUE)]
              [] IsLoop(b[i]) -> [b[i] EXCEPT !.b = FlattenIn(@, FALSE)]
              [] OTHER -> b[i]]
    IN  Flattened(inner, <<>>, isElse /\ Len(b) = 1)

FlattenGuardsPass(b) == FlattenIn(b, FALSE)

----------------------------------------------------------------------------
\* flatten_terminal_tail_guards

\* A call costs more than a guard may hold.
RECURSIVE ValueCost(_)
ValueCost(e) ==
    CASE e.op \in {"call", "multi"} -> 13
      [] e.op \in {"lit", "local"} -> 1
      [] e.op = "not" -> 1 + ValueCost(e.a)
      [] e.op = "if" -> 1 + ValueCost(e.c) + ValueCost(e.a) + ValueCost(e.b)
      [] OTHER -> 1 + ValueCost(e.a) + ValueCost(e.b)

RECURSIVE ListCost(_)
ListCost(es) == IF es = <<>> THEN 0 ELSE ValueCost(Head(es)) + ListCost(Tail(es))

SmallGuardTail(s) == Leaves(s) /\ (IsReturn(s) => ListCost(s.es) <= 12)

TailGuard(f, tail) ==
    /\ IsIf(f) /\ SmallGuardTail(tail)
    /\ f.e = <<>> /\ f.t # <<>>
    /\ ~ContainsJump(f.t)
    /\ BlockSize(f.t) >= MinDenest
    /\ ReadableNegation(f.c) \/ BlockSize(f.t) >= 2 * MinDenest

RECURSIVE TailGuardsFrom(_, _)
TailGuardsFrom(b, i) ==
    IF i >= Len(b) THEN b
    ELSE IF ~TailGuard(b[i], b[i + 1]) THEN TailGuardsFrom(b, i + 1)
    ELSE LET f == b[i]
             new == <<If(Negate(f.c), <<b[i + 1]>>, <<>>)>> \o f.t
             rest == IF EndsInTerminator(f.t) THEN Rest(b, i + 2) ELSE Rest(b, i + 1)
         IN  TailGuardsFrom(SubSeq(b, 1, i - 1) \o new \o rest, i + Len(new))

InvertEmptyThen(b) ==
    [i \in 1..Len(b) |->
        IF IsIf(b[i]) /\ b[i].t = <<>> /\ b[i].e # <<>> THEN If(Negate(b[i].c), b[i].e, <<>>) ELSE b[i]]

RECURSIVE TailGuardsPass(_)
TailGuardsPass(b) ==
    LET inner == [i \in 1..Len(b) |->
            CASE IsIf(b[i]) -> [b[i] EXCEPT !.t = TailGuardsPass(@), !.e = TailGuardsPass(@)]
              [] IsLoop(b[i]) -> [b[i] EXCEPT !.b = TailGuardsPass(@)]
              [] OTHER -> b[i]]
    IN  InvertEmptyThen(TailGuardsFrom(inner, 1))
=============================================================================
