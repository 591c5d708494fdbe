---------------------------- MODULE ControlPasses ----------------------------
(***************************************************************************)
(* The passes over control flow in the order luau-lifter/src/lib.rs runs   *)
(* them on a function body: two before its locals are declared, the others *)
(* on the linked chunk.  Passes that are not modelled run between them, so *)
(* a body may enter at any of the Entries.                                 *)
(***************************************************************************)
EXTENDS CleanupReturns, TerminalReturns, CanonicalizeBranches, GuardContinue, CleanupControlFlow

CONSTANT Sources    \* sets of bodies that may enter

VARIABLES
    source,     \* the body that entered
    body,       \* what the passes have made of it
    stage       \* the pass that runs next

vars == <<source, body, stage>>

Early == {"function_tails", "flatten_guards"}
Cleaned == {"final_tail_guards", "control_flow", "done"}
Stages ==
    Early \cup Cleaned \cup
    {"lifted", "factor_tails", "factor_again", "cleanup_returns", "tail_guards",
     "terminal_returns", "canonicalize", "guard_continue", "final_returns"}

Params(b) == Locals \ (DeclaredIn(b) \cup {Counter})

\* Passes that are not modelled run before each of these.
Entries ==
    Early \cup {"factor_tails", "cleanup_returns", "terminal_returns", "guard_continue"}

Init == (\E bodies \in Sources : source \in bodies) /\ body = source /\ stage = "lifted"

\* Locals are declared after the early passes.
Enter ==
    /\ stage = "lifted"
    /\ stage' \in Entries
    /\ stage' \in Early => DeclaredIn(source) = {}
    /\ UNCHANGED <<source, body>>

Pass(from, to, new) ==
    /\ stage = from
    /\ stage' = to
    /\ body' = new
    /\ UNCHANGED source

FactorFunctionTails == Pass("function_tails", "flatten_guards", FactorFunctionTailsPass(body))

FlattenGuards == Pass("flatten_guards", "factor_tails", FlattenGuardsPass(body))

FactorCommonTails == Pass("factor_tails", "factor_again", FactorTailsPass(body))

\* Until nothing changes, the de-inliner between two rounds.
FactorAgain ==
    Pass("factor_again", IF FactorTailsPass(body) = body THEN "cleanup_returns" ELSE "factor_again",
         FactorTailsPass(body))

CleanupRedundantReturns == Pass("cleanup_returns", "tail_guards", CleanupReturnsPass(body))

FlattenTailGuards == Pass("tail_guards", "terminal_returns", TailGuardsPass(body))

ReconstructTerminalReturns == Pass("terminal_returns", "canonicalize", TerminalReturnsPass(body))

CanonicalizeBranches == Pass("canonicalize", "guard_continue", CanonicalizePass(body))

RecoverGuardContinue == Pass("guard_continue", "final_returns", GuardContinuePass(body))

FinalReturns == Pass("final_returns", "final_tail_guards", CleanupReturnsPass(body))

FinalTailGuards == Pass("final_tail_guards", "control_flow", TailGuardsPass(body))

CleanupControlFlow == Pass("control_flow", "done", CleanupControlFlowPass(body))

Next ==
    \/ Enter
    \/ FactorFunctionTails
    \/ FlattenGuards
    \/ FactorCommonTails
    \/ FactorAgain
    \/ CleanupRedundantReturns
    \/ FlattenTailGuards
    \/ ReconstructTerminalReturns
    \/ CanonicalizeBranches
    \/ RecoverGuardContinue
    \/ FinalReturns
    \/ FinalTailGuards
    \/ CleanupControlFlow

Spec == Init /\ [][Next]_vars /\ WF_vars(Next)

----------------------------------------------------------------------------

\* Whatever its calls answer, the body that leaves a pass runs as the one that
\* entered it: the same calls in the same order with the same captured values,
\* and the same returned values (every pass of ast/src that
\* luau-lifter/src/lib.rs runs here claims to be exact).
SameBehaviour == [][body' = body \/ SameRuns(body, body')]_vars

\* No pass takes the use of a local out of the scope of its declaration, or
\* lets a continue jump over a declaration that the condition of a repeat
\* reads: Luau refuses both.
StaysScoped == Scoped(body, Params(source))

\* What leaves the last cleanup parses: nothing follows a return, a break or a
\* continue, and break and continue stay inside loops.
StaysWellFormed == stage \in Cleaned => WellFormed(body)

\* Factoring visits again only what an action changed (factor_block), and one
\* round of it is a fixed point all the same.
TailsSettle == stage = "factor_again" => FactorTailsPass(body) = body

\* The three together, as one thing the pipeline keeps at every stage.
StaysValid == StaysScoped /\ StaysWellFormed /\ TailsSettle
=============================================================================
