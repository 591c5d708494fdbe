--------------------------- MODULE PrototypeGraph ---------------------------
(***************************************************************************)
(* validate_prototype_graph: the prototypes of a chunk, the children each  *)
(* names in its table and through the closure constants it duplicates, and *)
(* the depth-first search that refuses a chunk whose prototypes nest in    *)
(* themselves.                                                             *)
(***************************************************************************)
EXTENDS Naturals, Sequences, FiniteSets

CONSTANTS N     \* number of prototypes, 0..N-1

ASSUME CountAssumption == N \in Nat

Protos == 0..N - 1
Outside == N    \* stands for every index past the last prototype

Unseen == 0
Open == 1
Finished == 2

VARIABLES
    adjacency,  \* children of each prototype read so far, NoChildren before
    state,      \* the search: Unseen, Open or Finished
    stack,      \* frames [proto, todo]: the children still to look at
    phase,      \* "read", "search", "accepted", "refused"
    start       \* the next prototype the outer loop tries

vars == <<adjacency, state, stack, phase, start>>

Init ==
    /\ adjacency = [p \in Protos |-> {}]
    /\ state = [p \in Protos |-> Unseen]
    /\ stack = <<>>
    /\ phase = "read"
    /\ start = 0

\* The main index, then each prototype in order: its child table and the
\* children of its DUPCLOSURE constants.  Any index outside refuses the chunk.
Children(table, dups) == table \cup dups

Read(table, dups) ==
    /\ phase = "read"
    /\ start < N
    /\ adjacency' = [adjacency EXCEPT ![start] = Children(table, dups)]
    /\ phase' = IF Outside \in Children(table, dups) THEN "refused" ELSE "read"
    /\ start' = start + 1
    /\ UNCHANGED <<state, stack>>

\* A main index outside, or a closure constructor whose index is negative,
\* outside its table or not a closure constant.
ReadBad ==
    /\ phase = "read"
    /\ phase' = "refused"
    /\ UNCHANGED <<adjacency, state, stack, start>>

ReadAll ==
    /\ phase = "read"
    /\ start = N
    /\ phase' = "search"
    /\ start' = 0
    /\ UNCHANGED <<adjacency, state, stack>>

Top == stack[Len(stack)]

\* The stack once its top frame has taken a child from its list.
Rest(child) == [stack EXCEPT ![Len(stack)] = [Top EXCEPT !.todo = @ \ {child}]]

\* Mutant: the search begins at one prototype only.
BeginFirst ==
    /\ phase = "search"
    /\ stack = <<>>
    /\ start < N
    /\ start' = N
    /\ state' = [state EXCEPT ![start] = Open]
    /\ stack' = <<[proto |-> start, todo |-> adjacency[start]]>>
    /\ UNCHANGED <<adjacency, phase>>

\* The outer loop: the next prototype, unless it was reached already.
Begin ==
    /\ phase = "search"
    /\ stack = <<>>
    /\ start < N
    /\ IF state[start] = Unseen
       THEN /\ state' = [state EXCEPT ![start] = Open]
            /\ stack' = <<[proto |-> start, todo |-> adjacency[start]]>>
       ELSE UNCHANGED <<state, stack>>
    /\ start' = start + 1
    /\ UNCHANGED <<adjacency, phase>>

\* Every child was looked at.
Finish ==
    /\ phase = "search"
    /\ stack # <<>>
    /\ Top.todo = {}
    /\ state' = [state EXCEPT ![Top.proto] = Finished]
    /\ stack' = SubSeq(stack, 1, Len(stack) - 1)
    /\ UNCHANGED <<adjacency, phase, start>>

\* Mutant: a finished prototype met again counts as an ancestor.
VisitRefusesSeen(child) ==
    /\ phase = "search"
    /\ stack # <<>>
    /\ child \in Top.todo
    /\ IF state[child] = Unseen
       THEN /\ state' = [state EXCEPT ![child] = Open]
            /\ stack' = Append(Rest(child), [proto |-> child, todo |-> adjacency[child]])
            /\ UNCHANGED phase
       ELSE phase' = "refused" /\ UNCHANGED <<state, stack>>
    /\ UNCHANGED <<adjacency, start>>

\* The next child, least index first: an unseen one is opened, an open one is
\* an ancestor, a finished one is crossed off.
Visit(child) ==
    /\ phase = "search"
    /\ stack # <<>>
    /\ child \in Top.todo
    /\ \A other \in Top.todo : child <= other
    /\ \/ /\ state[child] = Unseen
          /\ state' = [state EXCEPT ![child] = Open]
          /\ stack' = Append(Rest(child), [proto |-> child, todo |-> adjacency[child]])
          /\ UNCHANGED phase
       \/ /\ state[child] = Open
          /\ phase' = "refused"
          /\ UNCHANGED <<state, stack>>
       \/ /\ state[child] = Finished
          /\ stack' = Rest(child)
          /\ UNCHANGED <<state, phase>>
    /\ UNCHANGED <<adjacency, start>>

Accept ==
    /\ phase = "search"
    /\ stack = <<>>
    /\ start = N
    /\ phase' = "accepted"
    /\ UNCHANGED <<adjacency, state, stack, start>>

Search == Begin \/ Finish \/ Accept \/ \E child \in Protos : Visit(child)

Next ==
    \/ \E table, dups \in SUBSET (Protos \cup {Outside}) : Read(table, dups)
    \/ ReadBad \/ ReadAll \/ Search

Spec == Init /\ [][Next]_vars

----------------------------------------------------------------------------
Frame == [proto : Protos, todo : SUBSET Protos]

TypeOK ==
    /\ adjacency \in [Protos -> SUBSET (Protos \cup {Outside})]
    /\ state \in [Protos -> {Unseen, Open, Finished}]
    /\ stack \in Seq(Frame)
    /\ phase \in {"read", "search", "accepted", "refused"}
    /\ start \in 0..N

\* The open prototypes are the frames of the stack, no prototype twice.
OpenIsStack ==
    /\ \A p \in Protos : state[p] = Open <=> \E k \in 1..Len(stack) : stack[k].proto = p
    /\ \A j, k \in 1..Len(stack) : stack[j].proto = stack[k].proto => j = k

\* Each frame is a child of the one below it: what is refused as an ancestor
\* closes a cycle.
StackIsPath ==
    \A k \in 1..Len(stack) - 1 : stack[k + 1].proto \in adjacency[stack[k].proto]

\* A finished prototype has only finished children: no later step has to look
\* at it again.
FinishedIsClosed ==
    \A p \in Protos : state[p] = Finished =>
        adjacency[p] \subseteq {c \in Protos : state[c] = Finished}

\* A frame looks at children of its prototype only.
TodoIsChildren ==
    \A k \in 1..Len(stack) : stack[k].todo \subseteq adjacency[stack[k].proto]

\* A frame forgets a child only once the child is finished or is the frame
\* above.
FramesComplete ==
    \A k \in 1..Len(stack) :
        \A c \in adjacency[stack[k].proto] \ stack[k].todo :
            state[c] = Finished \/ (k < Len(stack) /\ stack[k + 1].proto = c)

\* Some of these prototypes nest in one another round a cycle: each has a child
\* among them.
Cyclic(S) == S # {} /\ \A p \in S : adjacency[p] \cap S # {}

\* The finished prototypes hold no cycle: what the search has left behind.
FinishedIsAcyclic ==
    \A S \in SUBSET {p \in Protos : state[p] = Finished} : ~Cyclic(S)

\* Every prototype the outer loop has passed was opened.
PassedIsSeen ==
    phase \in {"search", "accepted"} => \A p \in Protos : p < start => state[p] # Unseen

\* Nothing is searched before the chunk is read, and what is read is inside.
ReadFirst ==
    /\ phase = "read" => stack = <<>> /\ \A p \in Protos : state[p] = Unseen
    /\ phase # "refused" => \A p \in Protos : adjacency[p] \subseteq Protos
    /\ phase = "accepted" => stack = <<>> /\ start = N

\* What holds all through the search: the parts above together.  A prototype
\* the search has left is never on a cycle, whatever is still to be read.
SearchInvariant ==
    /\ OpenIsStack /\ StackIsPath /\ TodoIsChildren /\ FinishedIsClosed /\ FramesComplete
    /\ FinishedIsAcyclic /\ PassedIsSeen /\ ReadFirst

\* An accepted chunk has no child outside it and no cycle, unreachable
\* prototypes included; the passes that follow recurse over prototypes and
\* would not end on a cycle.
AcceptedIsAcyclic ==
    phase = "accepted" =>
        /\ \A p \in Protos : adjacency[p] \subseteq Protos
        /\ \A S \in SUBSET Protos : ~Cyclic(S)

\* The search refuses a chunk only on a real cycle.
RefusedIsCyclic ==
    [][phase = "search" /\ phase' = "refused" => \E S \in SUBSET Protos : Cyclic(S)]_vars

=============================================================================
