------------------------------ MODULE MCGraphs ------------------------------
(***************************************************************************)
(* The graph algorithms of the lifter, on small graphs: the search through *)
(* the nesting of prototypes (PrototypeGraph), the facts of the dispatcher *)
(* fallback (StateLiveness, CyclicStates), the dispatcher it makes of a    *)
(* function (Dispatcher), and the way into and out of SSA (SsaCoalesce).   *)
(* Each works alone on a function or a chunk, so a behaviour runs one of   *)
(* them while the others have nothing to do.                               *)
(***************************************************************************)
EXTENDS PrototypeGraph, StateLiveness, CyclicStates, Dispatcher

CONSTANTS localX, localY, valueV, valueW    \* two locals and two values

VARIABLES
    part,                                                   \* the one that runs
    source, function, names, incomplete, sealed, stage,     \* SsaCoalesce
    rank, analysis, joined

----------------------------------------------------------------------------
\* Functions of two blocks, with an unreachable second block among them.
Statements ==
    { <<"set", localX, <<"value", valueV>>>>, <<"set", localX, <<"value", valueW>>>>, <<"set", localY, <<"local", localX>>>>,
      <<"set", localY, <<"ref", localX>>>>, <<"use", localX>>, <<"use", localY>>, <<"call", valueW>> }

Bodies ==
    {<<>>} \union {<<s>> : s \in Statements}
    \union {<<s, t>> : s \in {u \in Statements : u[1] = "set"}, t \in Statements}

Later == {<<"set", localX, <<"value", valueW>>>>, <<"use", localX>>, <<"use", localY>>, <<"call", valueW>>}

Edge(kind, to, arguments) == [kind |-> kind, to |-> to, arguments |-> arguments]

Swap    == <<<<"set", localX, <<"local", localY>>>>, <<"set", localY, <<"local", localX>>>>>>
Capture == <<<<"set", localY, <<"ref", localX>>>>>>

Jump(to, arguments) == [test |-> "none", edges |-> <<Edge("unconditional", to, arguments)>>]
Stop == [test |-> "none", edges |-> <<>>]

Exits ==
    { Stop, Jump(1, Swap), Jump(2, <<>>), Jump(2, Capture),
      [test |-> localX, edges |-> <<Edge("then", 1, <<>>), Edge("else", 2, <<>>)>>],
      [test |-> localX, edges |-> <<Edge("else", 2, Swap), Edge("then", 2, <<>>)>>] }

Block(body, exit) == [body |-> body, test |-> exit.test, edges |-> exit.edges]

TwoBlocks ==
    { [entry |-> 1, ignored |-> {}, blocks |-> <<Block(b, e), Block(c, f)>>]
        : b \in Bodies, e \in Exits, c \in {<<>>} \union {<<s>> : s \in Later}, f \in Exits \ {Stop} }

\* Functions of three blocks of one statement, the first one branching.
ThreeBlocks ==
    { [entry |-> 1, ignored |-> i, blocks |-> <<Block(<<s>>, e), Block(<<t>>, f), Block(<<u>>, g)>>]
        : i \in {{}, {localX}},
          s \in Statements \union {<<"opaque">>}, t \in Later, u \in {<<"use", localX>>, <<"use", localY>>},
          e \in { [test |-> localX, edges |-> <<Edge("then", 2, <<>>), Edge("else", 3, Swap)>>],
                  [test |-> localX, edges |-> <<Edge("then", 2, <<>>)>>], Jump(2, <<>>) },
          f \in {Jump(3, <<>>), Jump(1, Swap), Jump(2, <<>>)},
          g \in {Stop, Jump(1, <<>>), Jump(2, Capture)} }

\* Functions whose first block makes closures of x, called there or later.
Closures ==
    { [entry |-> 1, ignored |-> {},
       blocks |-> <<Block(<<<<"set", localX, <<"value", valueV>>>>, <<"set", localY, <<"ref", localX>>>>, s>>, e),
                    Block(<<t, u>>, f)>>]
        : s \in Statements, e \in Exits, t \in Statements, u \in Later, f \in {Stop, Jump(2, <<>>)} }

GraphFunctions == TwoBlocks \union ThreeBlocks \union Closures
GraphLocals == {localX, localY}
GraphValues == {Nil, valueV, valueW, Closure}

SsaSamples == INSTANCE MCSsaFunctions
Ssa == INSTANCE SsaCoalesce WITH Depth <- 3, Functions <- SsaSamples!AllFunctions, current <- names

----------------------------------------------------------------------------
ssaVars == <<source, function, names, incomplete, sealed, stage, rank, analysis, joined>>
allVars == <<part, vars, livenessVars, cyclesVars, dispatcherVars, ssaVars>>

\* A part that does not run has ended, or has nothing to begin with.
Idle == <<>>

MCInit ==
    /\ part \in {"prototypes", "liveness", "cycles", "fallback", "ssa"}
    /\ IF part = "prototypes"
       THEN Init
       ELSE /\ adjacency = [p \in Protos |-> {}] /\ state = [p \in Protos |-> Finished]
            /\ stack = <<>> /\ phase = "accepted" /\ start = N
    /\ IF part = "liveness"
       THEN LivenessInit
       ELSE /\ uses = [s \in DispatcherStates |-> {}] /\ defs = uses /\ succ = uses /\ liveIn = uses /\ work = {}
    /\ IF part = "cycles" THEN CyclesInit ELSE edges = [s \in States |-> {}] /\ CyclesInit
    /\ IF part = "fallback"
       THEN DispatcherInit
       ELSE /\ graph = Idle /\ status = "refused" /\ persistent = Idle /\ node = Idle /\ current = Idle
            /\ position = Idle /\ original = Idle /\ dispatched = Idle /\ captured = Idle
    /\ IF part = "ssa"
       THEN Ssa!Init
       ELSE /\ source = Idle /\ function = Idle /\ names = Idle /\ incomplete = Idle /\ sealed = Idle
            /\ stage = Idle /\ rank = Idle /\ analysis = Idle /\ joined = Idle

MCNext ==
    \/ /\ part = "prototypes" /\ Next
       /\ UNCHANGED <<part, livenessVars, cyclesVars, dispatcherVars, ssaVars>>
    \/ /\ part = "liveness" /\ LivenessNext
       /\ UNCHANGED <<part, vars, cyclesVars, dispatcherVars, ssaVars>>
    \/ /\ part = "cycles" /\ CyclesNext
       /\ UNCHANGED <<part, vars, livenessVars, dispatcherVars, ssaVars>>
    \/ /\ part = "fallback" /\ DispatcherNext
       /\ UNCHANGED <<part, vars, livenessVars, cyclesVars, ssaVars>>
    \/ /\ part = "ssa" /\ Ssa!Next
       /\ UNCHANGED <<part, vars, livenessVars, cyclesVars, dispatcherVars>>

MCSpec == MCInit /\ [][MCNext]_allVars

----------------------------------------------------------------------------
\* The constructed function, the final one and every form in between make the
\* calls of the original with its arguments on every path: what is read has one
\* definition, dominators and liveness are what their definitions say, and two
\* locals that became one are never needed at once with two values (construct,
\* destruct).
SsaBehaviour ==
    part = "ssa" => Ssa!SameBehaviour /\ Ssa!SsaForm /\ Ssa!AnalysesExact /\ Ssa!ClassesDoNotInterfere
=============================================================================
