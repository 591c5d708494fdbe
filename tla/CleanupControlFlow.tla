------------------------- MODULE CleanupControlFlow -------------------------
(***************************************************************************)
(* ast/src/cleanup_control_flow.rs: the last pass over control flow.  What *)
(* follows a then arm that leaves is lifted out of the else, an endless    *)
(* loop that begins or ends with its exit gets it as its condition, and a  *)
(* loop that runs once goes.                                               *)
(***************************************************************************)
EXTENDS FlattenGuards

Trivia(s) == s.k = "empty"
Real(b) == SelectSeq(b, LAMBDA s : ~Trivia(s))
TriviaOf(b) == SelectSeq(b, Trivia)
AllTrivia(b) == Real(b) = <<>>
FirstReal(b) == CHOOSE i \in 1..Len(b) : ~Trivia(b[i]) /\ \A j \in 1..i - 1 : Trivia(b[j])
LastReal(b) == CHOOSE i \in 1..Len(b) : ~Trivia(b[i]) /\ \A j \in i + 1..Len(b) : Trivia(b[j])

Terminates(b) == ~AllTrivia(b) /\ Leaves(b[LastReal(b)])
DeclaresLocal(b) == \E i \in 1..Len(b) : b[i].k = "set" /\ b[i].decl
SingletonIf(b) == Len(Real(b)) = 1 /\ IsIf(Real(b)[1])

GuardOf(s, kind) ==
    IsIf(s) /\ Len(Real(s.t)) = 1 /\ Real(s.t)[1].k = kind /\ AllTrivia(s.e)

\* What of a block may leave its loop, bottom-up; a nested loop keeps its own.
NoFlow == [breaks |-> 0, continues |-> FALSE, unstructured |-> FALSE]
Include(f, g) ==
    [breaks |-> f.breaks + g.breaks, continues |-> f.continues \/ g.continues,
     unstructured |-> f.unstructured \/ g.unstructured]

FlowOf(s) ==
    CASE s.k = "break" -> [NoFlow EXCEPT !.breaks = 1]
      [] s.k = "continue" -> [NoFlow EXCEPT !.continues = TRUE]
      [] Jumps(s) -> [NoFlow EXCEPT !.unstructured = TRUE]
      [] OTHER -> NoFlow

Splice(b, i, new) == SubSeq(b, 1, i - 1) \o new \o Rest(b, i + 1)

\* The head of an endless loop: a break or a return guard becomes its
\* condition, the return then stands after the loop.
HeadRewrite(body, flow) ==
    LET at == FirstReal(body)
        g == body[at]
    IN  CASE flow.unstructured \/ AllTrivia(body) -> [c |-> True, b |-> body, after |-> <<>>]
          [] GuardOf(g, "break") ->
                [c |-> Negate(g.c), b |-> Splice(body, at, TriviaOf(g.t) \o TriviaOf(g.e)), after |-> <<>>]
          [] GuardOf(g, "return") /\ flow.breaks = 0 ->
                [c |-> Negate(g.c), b |-> Splice(body, at, <<>>), after |-> <<Real(g.t)[1]>>]
          [] OTHER -> [c |-> True, b |-> body, after |-> <<>>]

\* The end of an endless loop: a loop that always breaks there runs once; a
\* break guard there makes it a repeat.  A continue would skip the test.
TailRewrite(w, flow) ==
    LET at == LastReal(w.b)
        g == w.b[at]
    IN  IF w.c # True \/ flow.continues \/ flow.unstructured \/ AllTrivia(w.b) THEN <<w>>
        ELSE CASE g.k = "break" /\ flow.breaks = 1 /\ ~DeclaresLocal(w.b) -> Splice(w.b, at, <<>>)
               [] GuardOf(g, "break") ->
                    <<Repeat(g.c, Splice(w.b, at, <<>>) \o TriviaOf(g.t) \o TriviaOf(g.e))>>
               [] OTHER -> <<w>>

RewriteWhile(w, body, flow) ==
    LET head == IF w.c = True THEN HeadRewrite(body, flow) ELSE [c |-> w.c, b |-> body, after |-> <<>>]
    IN  TailRewrite(While(head.c, head.b), flow) \o head.after

RECURSIVE CleanBlock(_, _)
RECURSIVE CleanFrom(_, _, _, _)
CleanBlock(b, elseArm) == CleanFrom(b, 1, elseArm /\ SingletonIf(b), [b |-> <<>>, flow |-> NoFlow])

\* Statement i of b, and those after it, onto what is out already.
CleanFrom(b, i, elseif, acc) ==
    IF i > Len(b) THEN acc
    ELSE LET s == b[i]
             add(out, flow) ==
                CleanFrom(b, i + 1, elseif, [b |-> acc.b \o out, flow |-> Include(acc.flow, flow)])
         IN  CASE IsIf(s) ->
                    LET t == CleanBlock(s.t, FALSE)
                        e == CleanBlock(s.e, TRUE)
                        flow == Include(t.flow, e.flow)
                        lift == /\ ~elseif /\ ~flow.unstructured
                                /\ Terminates(t.b)
                                /\ ~AllTrivia(e.b) /\ ~SingletonIf(e.b) /\ ~DeclaresLocal(e.b)
                                /\ i = LastReal(b) \/ ~Terminates(e.b)
                    IN  add(IF lift THEN <<If(s.c, t.b, <<>>)>> \o e.b ELSE <<If(s.c, t.b, e.b)>>, flow)
               [] IsLoop(s) ->
                    LET body == CleanBlock(s.b, FALSE)
                        out == IF s.k = "while" THEN RewriteWhile(s, body.b, body.flow)
                               ELSE <<[s EXCEPT !.b = body.b]>>
                    IN  add(out, [NoFlow EXCEPT !.unstructured = body.flow.unstructured])
               [] OTHER -> add(<<s>>, FlowOf(s))

CleanupControlFlowPass(b) == CleanBlock(b, FALSE).b
=============================================================================
