----------------------------- MODULE MCSsaFunctions ---------------------------
(***************************************************************************)
(* Small functions for the SSA construction and the way out of it: every    *)
(* shape of a branch or a loop with every choice of a few statements.       *)
(***************************************************************************)
EXTENDS SsaFunctions

\* The statements of the lifter: a move, a call, a call's result, an update.
MoveTo(a, b) == Assign(<<a>>, <<Copy(b)>>)
Observe(l) == Assign(<<>>, <<Call(1, <<l>>)>>)
Assigned(l) == Assign(<<l>>, <<Call(2, <<>>)>>)
Both == Assign(<<1, 2>>, <<Call(3, <<>>)>>)
UpdateOf(l) == Assign(<<l>>, <<Update(4, <<l>>)>>)
UpdateInto(a, b) == Assign(<<a>>, <<Update(4, <<b>>)>>)

UpTo(n, S) == UNION {[1..k -> S] : k \in 0..n}

\* Edges of a block that jumps and of one that branches.
Jump(from, to) == <<Edge(from, to, "always")>>
Branch(from, yes, no) == <<Edge(from, yes, "then"), Edge(from, no, "else")>>

IfThen == Branch(1, 2, 3) \o Jump(2, 3)
IfElse == Branch(1, 2, 3) \o Jump(2, 4) \o Jump(3, 4)
While == Jump(1, 2) \o Branch(2, 3, 4) \o Jump(3, 2)
Repeat == Jump(1, 2) \o Branch(2, 2, 3)
WithBreak == Jump(1, 2) \o Branch(2, 3, 5) \o Branch(3, 4, 5) \o Jump(4, 2)
WithContinue == Jump(1, 2) \o Branch(2, 3, 5) \o Branch(3, 2, 4) \o Jump(4, 2)
EmptyBranch == Branch(1, 2, 2)
IfInLoop == Jump(1, 2) \o Branch(2, 3, 6) \o Branch(3, 4, 5) \o Jump(4, 5) \o Jump(5, 2)
LoopInLoop == Jump(1, 2) \o Branch(2, 3, 6) \o Branch(3, 4, 5) \o Jump(4, 3) \o Jump(5, 2)
IfAfterIf == Branch(1, 2, 3) \o Jump(2, 3) \o Branch(3, 4, 5) \o Jump(4, 5)

FunctionOf(registers, edges, blocks) ==
    [blocks |-> blocks, edges |-> edges, params |-> [r \in 1..registers |-> r],
     register |-> [r \in 1..registers |-> r]]

ObserveAll(registers) == Assign(<<>>, <<Call(9, [r \in 1..registers |-> r])>>)

Ends(registers) == <<ObserveAll(registers)>>

-----------------------------------------------------------------------------
\* Three registers that are only moved: swaps, rotations, lost copies.
Moves == {MoveTo(a, b) : <<a, b>> \in {<<1, 2>>, <<1, 3>>, <<2, 1>>, <<2, 3>>, <<3, 1>>, <<3, 2>>}}

\* The registers are alike: of three moves the first is into register 1.
MoveBodies == UpTo(2, Moves) \cup {moves \in [1..3 -> Moves] : moves[1].left = <<1>>}

MoveFunctions ==
    LET end == Ends(3)
    IN {FunctionOf(3, While, <<<<>>, <<>>, body, end>>) : body \in MoveBodies}
       \cup {FunctionOf(3, Repeat, <<<<>>, body, end>>) : body \in UpTo(2, Moves)}
       \cup {FunctionOf(3, IfThen, <<before, inside, end>>) :
            before \in {<<>>, <<MoveTo(1, 2)>>, <<MoveTo(3, 1)>>}, inside \in UpTo(2, Moves)}
       \cup {FunctionOf(3, EmptyBranch, <<before, end>>) : before \in UpTo(2, Moves)}

-----------------------------------------------------------------------------
\* Two registers with everything that can be done to them.
Steps == {MoveTo(1, 2), MoveTo(2, 1), Assigned(1), Assigned(2), Both, UpdateOf(1), UpdateInto(2, 1), Observe(1)}

\* What comes before them.
Earlier == {<<>>, <<MoveTo(2, 1)>>, <<Assigned(1)>>, <<Observe(1)>>}

StepFunctions ==
    LET end == Ends(2)
    IN {FunctionOf(2, IfThen, <<before, inside, end>>) :
            before \in {<<>>, <<Assigned(1)>>}, inside \in UpTo(2, Steps)}
       \cup {FunctionOf(2, IfElse, <<<<>>, yes, no, end>>) : yes, no \in UpTo(1, Steps)}
       \cup {FunctionOf(2, While, <<<<>>, test, body, end>>) : test \in Earlier, body \in UpTo(2, Steps)}
       \cup {FunctionOf(2, WithBreak, <<<<>>, <<>>, body, step, end>>) : body, step \in UpTo(1, Steps)}
       \cup {FunctionOf(2, WithContinue, <<<<>>, <<>>, body, step, end>>) : body, step \in UpTo(1, Steps)}

-----------------------------------------------------------------------------
\* Parameters that pass to parameters: whole classes are joined.
WebSteps == {MoveTo(1, 2), MoveTo(2, 1), Both, UpdateOf(1), Observe(1)}

Later == {<<>>, <<Observe(1)>>}

WebFunctions ==
    LET end == Ends(2)
    IN {FunctionOf(2, edges, <<<<>>, <<>>, first, second, third, end>>) :
            edges \in {IfInLoop, LoopInLoop}, first, second \in UpTo(1, WebSteps), third \in Later}
       \cup {FunctionOf(2, IfAfterIf, <<<<>>, first, second, third, end>>) :
            first, second \in UpTo(1, WebSteps), third \in Later}

AllFunctions == MoveFunctions \cup StepFunctions \cup WebFunctions
=============================================================================
