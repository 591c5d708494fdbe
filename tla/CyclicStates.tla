---------------------------- MODULE CyclicStates ----------------------------
(***************************************************************************)
(* cyclic_states of restructure/src/fallback.rs: which dispatcher states     *)
(* can be entered again.  One depth-first pass with an explicit stack lists  *)
(* the states in the order they are left; a second one over the reversed     *)
(* edges, in the opposite order, collects strongly connected components.     *)
(* Targets are pushed in the order of the adjacency list, which may be any.  *)
(***************************************************************************)
EXTENDS Naturals, Sequences, SequencesExt

CONSTANT StateCount   \* number of states

ASSUME StateCountAssumption == StateCount \in Nat

States == 1..StateCount

VARIABLES
    edges,      \* targets of each state
    pass,       \* "order", "collect" or "done"
    next,       \* states of the outer loop that are still to come
    walk,       \* stack of <<state, exiting>>
    visited,
    order,      \* states in the order they were left
    pending,       \* stack of the second pass
    component,  \* component being collected
    cyclic      \* the result

cyclesVars == <<edges, pass, next, walk, visited, order, pending, component, cyclic>>

CyclesInit ==
    /\ edges \in [States -> SUBSET States]
    /\ pass = "order"
    /\ next = [i \in States |-> i]
    /\ walk = <<>>
    /\ visited = {}
    /\ order = <<>>
    /\ pending = <<>>
    /\ component = {}
    /\ cyclic = {}

Sources(s) == {p \in States : s \in edges[p]}

\* A set pushed onto a stack, in any order.
Pushed(stack, set) == {stack \o q : q \in SetToSeqs(set)}

-----------------------------------------------------------------------------
(* First pass. *)

\* The next start of the outer loop.
Start ==
    /\ pass = "order" /\ walk = <<>> /\ next # <<>>
    /\ walk' = <<<<Head(next), FALSE>>>>
    /\ next' = Tail(next)
    /\ UNCHANGED <<edges, pass, visited, order, pending, component, cyclic>>

\* A state is left.
Exit ==
    /\ pass = "order" /\ walk # <<>> /\ Last(walk)[2]
    /\ walk' = Front(walk)
    /\ order' = Append(order, Last(walk)[1])
    /\ UNCHANGED <<edges, pass, next, visited, pending, component, cyclic>>

\* A state is entered, unless it was meanwhile entered from elsewhere.
Enter ==
    LET s == Last(walk)[1]
    IN /\ pass = "order" /\ walk # <<>> /\ ~Last(walk)[2]
       /\ IF s \in visited
          THEN walk' = Front(walk) /\ UNCHANGED visited
          ELSE /\ visited' = visited \union {s}
               /\ walk' \in Pushed(Append(Front(walk), <<s, TRUE>>),
                                   {<<t, FALSE>> : t \in edges[s] \ visited'})
       /\ UNCHANGED <<edges, pass, next, order, pending, component, cyclic>>

\* All starts are used up; the second pass takes the order backwards.
Turn ==
    /\ pass = "order" /\ walk = <<>> /\ next = <<>>
    /\ pass' = "collect"
    /\ next' = Reverse(order)
    /\ visited' = {}
    /\ UNCHANGED <<edges, walk, order, pending, component, cyclic>>

-----------------------------------------------------------------------------
(* Second pass. *)

\* The next state in reverse order of leaving starts a component, unless it
\* belongs to one already.
NextRoot ==
    /\ pass = "collect" /\ pending = <<>> /\ component = {} /\ next # <<>>
    /\ IF Head(next) \in visited
       THEN next' = Tail(next) /\ UNCHANGED pending
       ELSE pending' = <<Head(next)>> /\ UNCHANGED next
    /\ UNCHANGED <<edges, pass, walk, visited, order, component, cyclic>>

\* One state of the component, or one that was collected before.
Collect ==
    LET s == Last(pending)
    IN /\ pass = "collect" /\ pending # <<>>
       /\ IF s \in visited
          THEN pending' = Front(pending) /\ UNCHANGED <<visited, component>>
          ELSE /\ visited' = visited \union {s}
               /\ component' = component \union {s}
               /\ pending' \in Pushed(Front(pending), Sources(s))
       /\ UNCHANGED <<edges, pass, next, walk, order, cyclic>>

\* Mutant of Mark: a single state is never cyclic.
MarkPairs ==
    /\ pass = "collect" /\ pending = <<>> /\ component # {}
    /\ cyclic' = IF component # {Head(next)} THEN cyclic \union component ELSE cyclic
    /\ component' = {}
    /\ next' = Tail(next)
    /\ UNCHANGED <<edges, pass, walk, visited, order, pending>>

\* A component of several states, or of one with an edge to itself, is cyclic.
Mark ==
    /\ pass = "collect" /\ pending = <<>> /\ component # {}
    /\ cyclic' = IF component # {Head(next)} \/ Head(next) \in edges[Head(next)]
                 THEN cyclic \union component ELSE cyclic
    /\ component' = {}
    /\ next' = Tail(next)
    /\ UNCHANGED <<edges, pass, walk, visited, order, pending>>

AllCollected ==
    /\ pass = "collect" /\ pending = <<>> /\ component = {} /\ next = <<>>
    /\ pass' = "done"
    /\ UNCHANGED <<edges, next, walk, visited, order, pending, component, cyclic>>

CyclesNext == Start \/ Exit \/ Enter \/ Turn \/ NextRoot \/ Collect \/ Mark \/ AllCollected

CyclesSpec == CyclesInit /\ [][CyclesNext]_cyclesVars

-----------------------------------------------------------------------------
(* Properties. *)

\* What one can get to from s along edges E in one step or more: the least set
\* that holds the targets of s and the targets of everything in it.
Closed(E, C) == \A u \in C : E[u] \subseteq C
Onward(E, s) == {t \in States : \A C \in SUBSET States : E[s] \subseteq C /\ Closed(E, C) => t \in C}

\* All along the second pass the states marked are those on a cycle among the
\* states whose component is complete, and in the end those of the whole graph:
\* a closure made in a state that is not marked is made once.
ExactlyTheCycles ==
    /\ pass # "order" => cyclic = {s \in visited \ component : s \in Onward(edges, s)}
    /\ pass = "done" => cyclic = {s \in States : s \in Onward(edges, s)}

=============================================================================
