--------------------------- MODULE StateLiveness ---------------------------
(***************************************************************************)
(* persistent_locals of restructure/src/fallback.rs: which locals are live  *)
(* on entry to some state of a dispatcher.  The code works off a queue of   *)
(* states and revisits the predecessors of a state that gained a local.     *)
(* The queue is a set here and any member may be next, so what is shown     *)
(* does not depend on the order of the queue.                               *)
(***************************************************************************)
CONSTANTS DispatcherStates, DispatcherLocals

VARIABLES
    uses,      \* StateFacts::use_before_def
    defs,      \* StateFacts::defs
    succ,      \* state_successors, reachable states only
    liveIn,    \* live_in
    work       \* states whose queued flag is set

facts == <<uses, defs, succ>>
livenessVars == <<facts, liveIn, work>>

Facts == [DispatcherStates -> SUBSET DispatcherLocals]

LivenessInit ==
    /\ uses \in Facts
    /\ defs \in Facts
    /\ succ \in [DispatcherStates -> SUBSET DispatcherStates]
    /\ liveIn = uses
    /\ work = DispatcherStates

LiveOut(s) == UNION {liveIn[t] : t \in succ[s]}

Predecessors(s) == {p \in DispatcherStates : s \in succ[p]}

\* Mutant of VisitState: the state visited is not queued again, although a self
\* loop or a later change of a successor asks for it.
VisitStateOnce(s) ==
    LET gained == (LiveOut(s) \ defs[s]) \ liveIn[s]
    IN /\ s \in work
       /\ liveIn' = [liveIn EXCEPT ![s] = @ \union gained]
       /\ work' = work \ {s}
       /\ UNCHANGED facts

\* Mutant of VisitState: a definition does not end a live range.
VisitStateThrough(s) ==
    LET gained == LiveOut(s) \ liveIn[s]
    IN /\ s \in work
       /\ liveIn' = [liveIn EXCEPT ![s] = @ \union gained]
       /\ work' = (work \ {s}) \union (IF gained = {} THEN {} ELSE Predecessors(s))
       /\ UNCHANGED facts

\* One round of the loop: the state leaves the queue, gains what its
\* successors need and it does not define, and if that is anything its
\* predecessors are queued.
VisitState(s) ==
    LET gained == (LiveOut(s) \ defs[s]) \ liveIn[s]
    IN /\ s \in work
       /\ liveIn' = [liveIn EXCEPT ![s] = @ \union gained]
       /\ work' = (work \ {s}) \union (IF gained = {} THEN {} ELSE Predecessors(s))
       /\ UNCHANGED facts

\* The queue is empty: the sets are read off.
ReadOff == work = {} /\ UNCHANGED livenessVars

LivenessNext == (\E s \in DispatcherStates : VisitState(s)) \/ ReadOff

LivenessSpec == LivenessInit /\ [][LivenessNext]_livenessVars

-----------------------------------------------------------------------------
(* Properties. *)

\* The data-flow equations of liveness, as inequations: x holds everything a
\* state reads, and what a successor needs unless the state defines it.
IsSolution(x) ==
    \A s \in DispatcherStates :
        /\ uses[s] \subseteq x[s]
        /\ \A t \in succ[s] : x[t] \ defs[s] \subseteq x[s]

LivenessTypeOK ==
    /\ uses \in Facts
    /\ defs \in Facts
    /\ succ \in [DispatcherStates -> SUBSET DispatcherStates]
    /\ liveIn \in Facts
    /\ work \subseteq DispatcherStates

\* When the queue is empty nothing that is live is missing: revisiting only the
\* predecessors of states that changed is enough.  A local missed here would be
\* declared inside the dispatcher loop and lose its value between states.
NoLiveLocalMissed == work = {} => IsSolution(liveIn)

\* At no time is a local taken for live that is not: liveIn stays below every
\* solution, so the result is the least one and no local is hoisted in vain.
NothingHoistedInVain ==
    \A x \in Facts : IsSolution(x) => \A s \in DispatcherStates : liveIn[s] \subseteq x[s]
=============================================================================
