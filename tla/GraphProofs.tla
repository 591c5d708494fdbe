---------------------------- MODULE GraphProofs ----------------------------
(***************************************************************************)
(* The search through the nesting of prototypes, for every number of       *)
(* prototypes; the liveness worklist of the dispatcher, for any number of  *)
(* states and locals and any order of the queue; and the dispatcher, for   *)
(* every graph.                                                            *)
(***************************************************************************)
EXTENDS PrototypeGraph, StateLiveness, Dispatcher, SequenceTheorems, TLAPS

(***************************************************************************)
(* The prototypes.  The search keeps SearchInvariant, so an accepted chunk *)
(* has no cycle and a refused one has.                                     *)
(***************************************************************************)
IInv == TypeOK /\ SearchInvariant

\* All but the last element of a sequence.
LEMMA FrontOfSeq ==
    ASSUME NEW S, NEW q \in Seq(S), q # <<>>
    PROVE  /\ SubSeq(q, 1, Len(q) - 1) \in Seq(S)
           /\ Len(SubSeq(q, 1, Len(q) - 1)) = Len(q) - 1
           /\ \A k \in 1..Len(q) - 1 : SubSeq(q, 1, Len(q) - 1)[k] = q[k]
  <1>1. Len(q) \in Nat \ {0}
    BY EmptySeq
  <1>2. \A k \in 1..Len(q) : q[k] \in S
    BY ElementOfSeq
  <1> QED
    BY <1>1, <1>2

\* A sequence whose last element is replaced.
LEMMA LastOfSeq ==
    ASSUME NEW S, NEW q \in Seq(S), q # <<>>, NEW e \in S
    PROVE  /\ [q EXCEPT ![Len(q)] = e] \in Seq(S)
           /\ Len([q EXCEPT ![Len(q)] = e]) = Len(q)
           /\ \A j \in 1..Len(q) : [q EXCEPT ![Len(q)] = e][j] = IF j = Len(q) THEN e ELSE q[j]
  <1>1. Len(q) \in 1..Len(q)
    BY EmptySeq
  <1> QED
    BY <1>1, ExceptSeq

\* The frame at the top of a stack that is not empty.
LEMMA TopFrame ==
    ASSUME TypeOK, stack # <<>>
    PROVE  /\ Len(stack) \in Nat /\ Len(stack) >= 1
           /\ Top \in Frame /\ Top.proto \in Protos /\ Top.todo \subseteq Protos
  <1>1. stack \in Seq(Frame)
    BY DEF TypeOK
  <1>2. Len(stack) \in Nat /\ Len(stack) >= 1
    BY <1>1, EmptySeq
  <1>3. Top \in Frame
    BY <1>1, <1>2, ElementOfSeq DEF Top
  <1> QED
    BY <1>2, <1>3 DEF Frame

\* A pop leaves the frames below as they are.
LEMMA Popped ==
    ASSUME TypeOK, stack # <<>>, NEW s, s = SubSeq(stack, 1, Len(stack) - 1)
    PROVE  /\ s \in Seq(Frame) /\ Len(s) = Len(stack) - 1
           /\ \A k \in 1..Len(s) : s[k] = stack[k]
  <1>1. stack \in Seq(Frame)
    BY DEF TypeOK
  <1>2. /\ SubSeq(stack, 1, Len(stack) - 1) \in Seq(Frame)
        /\ Len(SubSeq(stack, 1, Len(stack) - 1)) = Len(stack) - 1
        /\ \A k \in 1..Len(stack) - 1 : SubSeq(stack, 1, Len(stack) - 1)[k] = stack[k]
    BY <1>1, FrontOfSeq, Zenon
  <1> QED
    BY <1>2, Zenon

\* Looking at a child changes the top frame's list of children and no other
\* frame.
LEMMA Looked ==
    ASSUME TypeOK, stack # <<>>, NEW child
    PROVE  /\ Rest(child) \in Seq(Frame) /\ Len(Rest(child)) = Len(stack)
           /\ \A k \in 1..Len(stack) : Rest(child)[k].proto = stack[k].proto
           /\ \A k \in 1..Len(stack) : k # Len(stack) => Rest(child)[k] = stack[k]
           /\ Rest(child)[Len(stack)].todo = Top.todo \ {child}
  <1> DEFINE f == [Top EXCEPT !.todo = @ \ {child}]
  <1>1. Top \in Frame /\ Len(stack) \in Nat /\ Len(stack) >= 1 /\ stack \in Seq(Frame)
    BY TopFrame DEF TypeOK
  <1>2. Rest(child) = [stack EXCEPT ![Len(stack)] = f]
    BY DEF Rest
  <1>3. f \in Frame /\ f.todo = Top.todo \ {child} /\ f.proto = Top.proto
    BY <1>1 DEF Frame
  <1> HIDE DEF f
  <1>4. ASSUME NEW e \in Frame
        PROVE  /\ [stack EXCEPT ![Len(stack)] = e] \in Seq(Frame)
               /\ Len([stack EXCEPT ![Len(stack)] = e]) = Len(stack)
               /\ \A k \in 1..Len(stack) :
                    [stack EXCEPT ![Len(stack)] = e][k] = IF k = Len(stack) THEN e ELSE stack[k]
    BY <1>1, LastOfSeq
  <1>5. /\ Rest(child) \in Seq(Frame) /\ Len(Rest(child)) = Len(stack)
        /\ \A k \in 1..Len(stack) : Rest(child)[k] = IF k = Len(stack) THEN f ELSE stack[k]
    BY <1>2, <1>3, <1>4
  <1> QED
    BY <1>1, <1>3, <1>5 DEF Top

\* A push puts its frame on top.
LEMMA Pushed ==
    ASSUME NEW s \in Seq(Frame), NEW f \in Frame, NEW t, t = Append(s, f)
    PROVE  /\ t \in Seq(Frame) /\ Len(t) = Len(s) + 1 /\ t[Len(t)] = f
           /\ \A k \in 1..Len(s) : t[k] = s[k]
  BY AppendProperties, LenProperties

LEMMA InitHolds == Init => IInv
  <1> SUFFICES ASSUME Init PROVE IInv
    OBVIOUS
  <1> USE CountAssumption
  <1>1. TypeOK
    BY DEF Init, TypeOK, Protos, Unseen, Open, Finished
  <1>2. OpenIsStack /\ StackIsPath /\ TodoIsChildren /\ FramesComplete
    BY DEF Init, OpenIsStack, StackIsPath, TodoIsChildren, FramesComplete, Unseen, Open
  <1>3. FinishedIsClosed /\ PassedIsSeen /\ ReadFirst
    BY DEF Init, FinishedIsClosed, PassedIsSeen, ReadFirst, Unseen, Finished
  <1>4. FinishedIsAcyclic
    <2>1. {p \in Protos : state[p] = Finished} = {}
      BY DEF Init, Unseen, Finished
    <2> QED BY <2>1 DEF FinishedIsAcyclic, Cyclic
  <1> QED BY <1>1, <1>2, <1>3, <1>4 DEF IInv, SearchInvariant

\* Reading a prototype, or refusing to: the search has not begun.
LEMMA ReadKeeps ==
    ASSUME IInv,
           (\E table, dups \in SUBSET (Protos \cup {Outside}) : Read(table, dups)) \/ ReadBad \/ ReadAll
    PROVE  IInv'
  <1> USE CountAssumption
  <1>1. TypeOK /\ SearchInvariant /\ phase = "read"
    BY DEF IInv, Read, ReadBad, ReadAll
  <1>2. stack = <<>> /\ stack' = stack /\ state' = state /\ \A p \in Protos : state[p] = Unseen
    BY <1>1 DEF SearchInvariant, ReadFirst, Read, ReadBad, ReadAll
  <1>3. TypeOK'
    <2>1. CASE \E table, dups \in SUBSET (Protos \cup {Outside}) : Read(table, dups)
      <3>1. PICK table, dups \in SUBSET (Protos \cup {Outside}) : Read(table, dups)
        BY <2>1
      <3>2. Children(table, dups) \in SUBSET (Protos \cup {Outside})
        BY DEF Children
      <3>3. adjacency' \in [Protos -> SUBSET (Protos \cup {Outside})]
        BY <3>1, <3>2, <1>1 DEF TypeOK, Read
      <3>4. phase' \in {"read", "refused"} /\ start' \in 0..N /\ stack' = stack /\ state' = state
        BY <3>1, <1>1 DEF TypeOK, Read
      <3> QED BY <3>3, <3>4, <1>1 DEF TypeOK
    <2>2. CASE ReadBad \/ ReadAll
      BY <2>2, <1>1 DEF TypeOK, ReadBad, ReadAll
    <2> QED BY <2>1, <2>2
  <1>4. (OpenIsStack /\ StackIsPath /\ TodoIsChildren /\ FramesComplete)'
    BY <1>2 DEF OpenIsStack, StackIsPath, TodoIsChildren, FramesComplete, Unseen, Open
  <1>5. FinishedIsClosed'
    BY <1>2 DEF FinishedIsClosed, Unseen, Finished
  <1>6. FinishedIsAcyclic'
    <2>1. {p \in Protos : state'[p] = Finished} = {}
      BY <1>2 DEF Unseen, Finished
    <2> QED BY <2>1 DEF FinishedIsAcyclic, Cyclic
  <1>7. PassedIsSeen'
    BY <1>1 DEF PassedIsSeen, Read, ReadBad, ReadAll, Protos
  <1>8. ReadFirst'
    <2>1. CASE \E table, dups \in SUBSET (Protos \cup {Outside}) : Read(table, dups)
      <3>1. PICK table, dups \in SUBSET (Protos \cup {Outside}) : Read(table, dups)
        BY <2>1
      <3>2. phase' \in {"read", "refused"}
        BY <3>1 DEF Read
      <3>3. ASSUME phase' = "read", NEW p \in Protos PROVE adjacency'[p] \subseteq Protos
        <4>1. Outside \notin Children(table, dups) /\ Children(table, dups) \subseteq Protos \cup {Outside}
          BY <3>1, <3>3 DEF Read, Children
        <4>2. adjacency[p] \subseteq Protos
          BY <1>1 DEF SearchInvariant, ReadFirst
        <4> QED BY <4>1, <4>2, <3>1, <1>1 DEF Read, TypeOK
      <3> QED BY <1>2, <3>2, <3>3 DEF ReadFirst
    <2>2. CASE ReadBad \/ ReadAll
      BY <2>2, <1>1, <1>2 DEF ReadBad, ReadAll, SearchInvariant, ReadFirst
    <2> QED BY <2>1, <2>2
  <1> QED BY <1>3, <1>4, <1>5, <1>6, <1>7, <1>8 DEF IInv, SearchInvariant

\* The outer loop opens the next prototype, or passes one already seen.
LEMMA BeginKeeps ==
    ASSUME IInv, Begin
    PROVE  IInv'
  <1> USE CountAssumption
  <1>1. /\ TypeOK /\ SearchInvariant /\ phase = "search" /\ stack = <<>> /\ start \in Protos
        /\ start' = start + 1 /\ adjacency' = adjacency /\ phase' = phase
        /\ start' \in 0..N
    BY DEF IInv, Begin, TypeOK, Protos
  <1>2. adjacency[start] \subseteq Protos /\ \A p \in Protos : adjacency[p] \subseteq Protos
    BY <1>1 DEF SearchInvariant, ReadFirst
  <1>3. \A p \in Protos : state[p] # Open
    BY <1>1 DEF SearchInvariant, OpenIsStack
  <1>4. CASE state[start] = Unseen
    <2>1. state' = [state EXCEPT ![start] = Open] /\ stack' = <<[proto |-> start, todo |-> adjacency[start]]>>
      BY <1>4 DEF Begin
    <2>2. /\ [proto |-> start, todo |-> adjacency[start]] \in Frame
          /\ stack' \in Seq(Frame) /\ Len(stack') = 1
          /\ stack'[1].proto = start /\ stack'[1].todo = adjacency[start]
      <3>1. [proto |-> start, todo |-> adjacency[start]] \in Frame
        BY <1>1, <1>2 DEF Frame
      <3> QED BY <3>1, <2>1
    <2>3. TypeOK'
      BY <1>1, <2>1, <2>2 DEF TypeOK, Open, Unseen, Finished
    <2>4. \A p \in Protos : state'[p] = IF p = start THEN Open ELSE state[p]
      BY <1>1, <2>1 DEF TypeOK
    <2>5. OpenIsStack'
      BY <2>2, <2>4, <1>3, <1>1 DEF OpenIsStack
    <2>6. StackIsPath' /\ TodoIsChildren' /\ FramesComplete'
      BY <2>2, <1>1 DEF StackIsPath, TodoIsChildren, FramesComplete
    <2>7. {p \in Protos : state'[p] = Finished} = {p \in Protos : state[p] = Finished}
      BY <2>4, <1>4 DEF Open, Unseen, Finished
    <2>8. FinishedIsClosed'
      BY <2>7, <1>1 DEF FinishedIsClosed, SearchInvariant
    <2>9. FinishedIsAcyclic'
      BY <2>7, <1>1, Zenon DEF FinishedIsAcyclic, SearchInvariant, Cyclic
    <2>10. PassedIsSeen'
      BY <2>4, <1>1 DEF PassedIsSeen, SearchInvariant, Open, Unseen, Protos
    <2>11. ReadFirst'
      BY <1>1, <1>2 DEF ReadFirst
    <2> QED BY <2>3, <2>5, <2>6, <2>8, <2>9, <2>10, <2>11 DEF IInv, SearchInvariant
  <1>5. CASE state[start] # Unseen
    <2>1. state' = state /\ stack' = stack
      BY <1>5 DEF Begin
    <2>2. TypeOK'
      BY <1>1, <2>1 DEF TypeOK
    <2>3. (OpenIsStack /\ StackIsPath /\ TodoIsChildren /\ FinishedIsClosed /\ FramesComplete /\ FinishedIsAcyclic)'
      <3>1. OpenIsStack' /\ StackIsPath' /\ TodoIsChildren' /\ FramesComplete'
        BY <1>1, <2>1 DEF SearchInvariant, OpenIsStack, StackIsPath, TodoIsChildren, FramesComplete
      <3>2. FinishedIsClosed'
        BY <1>1, <2>1 DEF SearchInvariant, FinishedIsClosed
      <3>3. FinishedIsAcyclic'
        BY <1>1, <2>1 DEF SearchInvariant, FinishedIsAcyclic, Cyclic
      <3> QED BY <3>1, <3>2, <3>3
    <2>4. PassedIsSeen'
      BY <2>1, <1>5, <1>1 DEF PassedIsSeen, SearchInvariant, Protos
    <2>5. ReadFirst'
      BY <1>1, <1>2 DEF ReadFirst
    <2> QED BY <2>2, <2>3, <2>4, <2>5 DEF IInv, SearchInvariant
  <1> QED BY <1>4, <1>5

\* Finishing a prototype: its children are all finished, so no cycle of
\* finished prototypes can pass through it.
LEMMA FinishKeeps ==
    ASSUME IInv, Finish
    PROVE  IInv'
  <1> USE CountAssumption
  <1> DEFINE q == Top.proto
  <1>1. /\ TypeOK /\ SearchInvariant /\ phase = "search" /\ stack # <<>> /\ Top.todo = {}
        /\ start' = start /\ adjacency' = adjacency /\ phase' = phase
        /\ state' = [state EXCEPT ![q] = Finished]
    BY DEF IInv, Finish
  <1>2. Len(stack) \in Nat /\ Len(stack) >= 1 /\ q \in Protos /\ q = stack[Len(stack)].proto
    BY <1>1, TopFrame DEF Top
  <1>3. /\ stack' \in Seq(Frame) /\ Len(stack') = Len(stack) - 1
        /\ \A k \in 1..Len(stack') : stack'[k] = stack[k]
    BY <1>1, Popped DEF Finish
  <1>4. \A p \in Protos : state'[p] = IF p = q THEN Finished ELSE state[p]
    BY <1>1, <1>2 DEF TypeOK
  <1>5. state[q] = Open
    BY <1>1, <1>2 DEF SearchInvariant, OpenIsStack
  <1>6. \A p \in Protos : adjacency[p] \subseteq Protos
    BY <1>1 DEF SearchInvariant, ReadFirst
  <1>7. \A c \in adjacency[q] : state[c] = Finished
    <2>1. \A c \in adjacency[stack[Len(stack)].proto] \ stack[Len(stack)].todo : state[c] = Finished
      BY <1>1, <1>2 DEF SearchInvariant, FramesComplete
    <2> QED BY <2>1, <1>1, <1>2 DEF Top
  <1> HIDE DEF q
  <1>8. TypeOK'
    BY <1>1, <1>2, <1>3 DEF TypeOK, Finished
  <1>9. OpenIsStack'
    <2>1. \A j, k \in 1..Len(stack') : stack'[j].proto = stack'[k].proto => j = k
      BY <1>1, <1>2, <1>3 DEF SearchInvariant, OpenIsStack
    <2>2. ASSUME NEW p \in Protos, p # q
          PROVE  state'[p] = Open <=> \E k \in 1..Len(stack') : stack'[k].proto = p
      <3>1. state'[p] = Open <=> \E k \in 1..Len(stack) : stack[k].proto = p
        BY <1>1, <1>4, <2>2 DEF SearchInvariant, OpenIsStack
      <3>2. (\E k \in 1..Len(stack) : stack[k].proto = p) <=> \E k \in 1..Len(stack) - 1 : stack[k].proto = p
        BY <2>2, <1>2
      <3> QED BY <3>1, <3>2, <1>3
    <2>3. state'[q] # Open /\ \A k \in 1..Len(stack') : stack'[k].proto # q
      <3>1. state'[q] # Open
        BY <1>2, <1>4 DEF Open, Finished
      <3>2. \A k \in 1..Len(stack) - 1 : stack[k].proto # q
        BY <1>1, <1>2 DEF SearchInvariant, OpenIsStack
      <3> QED BY <3>1, <3>2, <1>3
    <2> QED BY <2>1, <2>2, <2>3 DEF OpenIsStack
  <1>10. StackIsPath' /\ TodoIsChildren'
    BY <1>1, <1>2, <1>3 DEF SearchInvariant, StackIsPath, TodoIsChildren
  <1>11. FinishedIsClosed'
    BY <1>1, <1>4, <1>7, <1>6 DEF SearchInvariant, FinishedIsClosed
  <1>12. FramesComplete'
    <2> SUFFICES ASSUME NEW k \in 1..Len(stack'), NEW c \in adjacency[stack'[k].proto] \ stack'[k].todo
                 PROVE  state'[c] = Finished \/ (k < Len(stack') /\ stack'[k + 1].proto = c)
      BY <1>1 DEF FramesComplete
    <2>1. k \in 1..Len(stack) /\ stack'[k] = stack[k] /\ k < Len(stack)
      BY <1>2, <1>3
    <2>2. c \in Protos
      <3>1. stack[k] \in Frame
        BY <2>1, <1>1, ElementOfSeq DEF TypeOK
      <3> QED BY <3>1, <2>1, <1>6 DEF Frame
    <2>3. state[c] = Finished \/ stack[k + 1].proto = c
      BY <2>1, <1>1 DEF SearchInvariant, FramesComplete
    <2>4. CASE state[c] = Finished
      BY <2>4, <2>2, <1>4
    <2>5. CASE stack[k + 1].proto = c /\ k = Len(stack) - 1
      <3>1. c = q
        BY <2>5, <1>2
      <3> QED BY <3>1, <1>4, <2>2
    <2>6. CASE stack[k + 1].proto = c /\ k # Len(stack) - 1
      BY <2>6, <2>1, <1>2, <1>3
    <2> QED BY <2>3, <2>4, <2>5, <2>6
  <1>13. FinishedIsAcyclic'
    <2> SUFFICES ASSUME NEW S \in SUBSET {p \in Protos : state'[p] = Finished}, S # {},
                        \A p \in S : adjacency[p] \cap S # {}
                 PROVE  FALSE
      BY <1>1, Zenon DEF FinishedIsAcyclic, Cyclic
    <2> DEFINE R == S \ {q}
    <2>1. R \in SUBSET {p \in Protos : state[p] = Finished}
      BY <1>4
    <2>2. \A p \in R : q \notin adjacency[p]
      BY <2>1, <1>1, <1>5 DEF SearchInvariant, FinishedIsClosed, Open, Finished
    <2>3. \A p \in R : adjacency[p] \cap R # {}
      BY <2>2
    <2>4. R # {}
      <3>1. q \notin adjacency[q]
        BY <1>7, <1>5 DEF Open, Finished
      <3> QED BY <3>1
    <2> QED BY <2>1, <2>3, <2>4, <1>1, Zenon DEF SearchInvariant, FinishedIsAcyclic, Cyclic
  <1>14. PassedIsSeen'
    BY <1>1, <1>4 DEF PassedIsSeen, SearchInvariant, Finished, Unseen
  <1>15. ReadFirst'
    BY <1>1, <1>6 DEF ReadFirst
  <1> QED BY <1>8, <1>9, <1>10, <1>11, <1>12, <1>13, <1>14, <1>15 DEF IInv, SearchInvariant

\* What a visit leaves in place when it changes neither the phase nor what is
\* finished.
LEMMA VisitFrame ==
    ASSUME IInv, NEW child \in Protos, Visit(child)
    PROVE  /\ TypeOK /\ SearchInvariant /\ phase = "search" /\ stack # <<>>
           /\ child \in Top.todo /\ adjacency' = adjacency /\ start' = start
           /\ \A p \in Protos : adjacency[p] \subseteq Protos
           /\ Len(stack) \in Nat /\ Len(stack) >= 1
  <1>1. /\ TypeOK /\ SearchInvariant /\ phase = "search" /\ stack # <<>>
        /\ child \in Top.todo /\ adjacency' = adjacency /\ start' = start
    BY DEF IInv, Visit
  <1> QED BY <1>1, TopFrame DEF SearchInvariant, ReadFirst

\* A child not seen before is opened and pushed.
LEMMA VisitOpens ==
    ASSUME IInv, NEW child \in Protos, Visit(child), state[child] = Unseen
    PROVE  IInv'
  <1> DEFINE n == Len(stack)
             rest == Rest(child)
             f == [proto |-> child, todo |-> adjacency[child]]
  <1>1. /\ TypeOK /\ SearchInvariant /\ phase = "search" /\ stack # <<>>
        /\ child \in Top.todo /\ adjacency' = adjacency /\ start' = start
        /\ \A p \in Protos : adjacency[p] \subseteq Protos
        /\ n \in Nat /\ n >= 1
    BY VisitFrame
  <1>2. state' = [state EXCEPT ![child] = Open] /\ stack' = Append(rest, f) /\ phase' = phase
    BY DEF Visit, Unseen, Open, Finished
  <1>3. /\ rest \in Seq(Frame) /\ Len(rest) = n
        /\ \A k \in 1..n : rest[k].proto = stack[k].proto
        /\ \A k \in 1..n : k # n => rest[k] = stack[k]
        /\ rest[n].todo = Top.todo \ {child}
    BY <1>1, Looked
  <1>4. f \in Frame /\ f.proto = child /\ f.todo = adjacency[child]
    BY <1>1 DEF Frame
  <1> HIDE DEF rest, f
  <1>5. /\ stack' \in Seq(Frame) /\ Len(stack') = n + 1 /\ stack'[n + 1] = f
        /\ \A k \in 1..n : stack'[k] = rest[k]
    BY <1>2, <1>3, <1>4, Pushed
  <1> HIDE DEF n
  <1>6. \A p \in Protos : state'[p] = IF p = child THEN Open ELSE state[p]
    BY <1>1, <1>2 DEF TypeOK
  <1>7. /\ stack'[n + 1].proto = child
        /\ \A k \in 1..n : stack'[k].proto = stack[k].proto
    BY <1>3, <1>4, <1>5
  <1>8. TypeOK'
    BY <1>1, <1>2, <1>5 DEF TypeOK, Open
  <1>9. \A k \in 1..n : stack[k].proto # child
    BY <1>1 DEF SearchInvariant, OpenIsStack, Open, Unseen, n
  <1>10. OpenIsStack'
    <2>1. \A k \in 1..n + 1 : k = n + 1 \/ k \in 1..n
      BY <1>1
    <2>2. \A j, k \in 1..n : stack[j].proto = stack[k].proto => j = k
      BY <1>1 DEF SearchInvariant, OpenIsStack, n
    <2>3. \A j, k \in 1..Len(stack') : stack'[j].proto = stack'[k].proto => j = k
      BY <2>1, <2>2, <1>5, <1>7, <1>9
    <2>4. \A p \in Protos : state[p] = Open <=> \E k \in 1..n : stack[k].proto = p
      BY <1>1 DEF SearchInvariant, OpenIsStack, n
    <2>5. ASSUME NEW p \in Protos
          PROVE  state'[p] = Open <=> \E k \in 1..Len(stack') : stack'[k].proto = p
      <3>1. CASE p = child
        BY <3>1, <1>1, <1>5, <1>6, <1>7
      <3>2. CASE p # child
        BY <3>2, <2>1, <2>4, <1>1, <1>5, <1>6, <1>7
      <3> QED BY <3>1, <3>2
    <2> QED BY <2>3, <2>5 DEF OpenIsStack
  <1>11. StackIsPath'
    <2> SUFFICES ASSUME NEW k \in 1..n PROVE stack'[k + 1].proto \in adjacency[stack'[k].proto]
      BY <1>1, <1>5 DEF StackIsPath
    <2>1. CASE k = n
      <3>1. child \in adjacency[stack[n].proto]
        BY <1>1 DEF SearchInvariant, TodoIsChildren, Top, n
      <3> QED BY <2>1, <3>1, <1>7, <1>1
    <2>2. CASE k # n
      BY <2>2, <1>1, <1>7 DEF SearchInvariant, StackIsPath, n
    <2> QED BY <2>1, <2>2
  <1>12. {p \in Protos : state'[p] = Finished} = {p \in Protos : state[p] = Finished}
    BY <1>6 DEF Open, Unseen, Finished
  <1>13. FinishedIsClosed'
    BY <1>12, <1>1 DEF FinishedIsClosed, SearchInvariant
  <1>14. FinishedIsAcyclic'
    BY <1>12, <1>1, Zenon DEF FinishedIsAcyclic, SearchInvariant, Cyclic
  <1>15. FramesComplete'
    <2> SUFFICES ASSUME NEW k \in 1..n + 1, NEW c \in adjacency[stack'[k].proto] \ stack'[k].todo
                 PROVE  state'[c] = Finished \/ (k < n + 1 /\ stack'[k + 1].proto = c)
      BY <1>1, <1>5 DEF FramesComplete
    <2>1. k # n + 1
      BY <1>4, <1>5
    <2>2. k \in 1..n
      BY <2>1, <1>1
    <2>3. c \in adjacency[stack[k].proto] /\ c \in Protos
      <3>1. stack[k].proto \in Protos
        <4>1. stack[k] \in Frame
          BY <2>2, <1>1, ElementOfSeq DEF TypeOK, n
        <4> QED BY <4>1 DEF Frame
      <3> QED BY <3>1, <2>2, <1>7, <1>1
    <2>4. CASE k = n /\ c = child
      BY <2>4, <1>7, <1>1
    <2>5. CASE ~(k = n /\ c = child)
      <3>1. c \notin stack[k].todo
        <4>1. CASE k = n
          BY <4>1, <2>5, <1>3, <1>5, <1>1 DEF Top, n
        <4>2. CASE k # n
          BY <4>2, <2>2, <1>3, <1>5
        <4> QED BY <4>1, <4>2
      <3>2. state[c] = Finished \/ (k < n /\ stack[k + 1].proto = c)
        BY <3>1, <2>2, <2>3, <1>1 DEF SearchInvariant, FramesComplete, n
      <3>3. CASE state[c] = Finished
        BY <3>3, <2>3, <1>12
      <3>4. CASE k < n /\ stack[k + 1].proto = c
        BY <3>4, <2>2, <1>7, <1>1
      <3> QED BY <3>2, <3>3, <3>4
    <2> QED BY <2>4, <2>5
  <1>16. PassedIsSeen'
    BY <1>1, <1>2, <1>6 DEF PassedIsSeen, SearchInvariant, Open, Unseen
  <1>17. ReadFirst'
    BY <1>1, <1>2 DEF ReadFirst
  <1>18. TodoIsChildren'
    <2> SUFFICES ASSUME NEW k \in 1..n + 1 PROVE stack'[k].todo \subseteq adjacency[stack'[k].proto]
      BY <1>1, <1>5 DEF TodoIsChildren
    <2>1. CASE k = n + 1
      BY <2>1, <1>4, <1>5
    <2>2. CASE k # n + 1
      <3>1. k \in 1..n /\ stack[k].todo \subseteq adjacency[stack[k].proto]
        BY <2>2, <1>1 DEF SearchInvariant, TodoIsChildren, n
      <3>2. CASE k = n
        BY <3>1, <3>2, <1>3, <1>5, <1>7 DEF Top, n
      <3>3. CASE k # n
        BY <3>1, <3>3, <1>3, <1>5
      <3> QED BY <3>2, <3>3
    <2> QED BY <2>1, <2>2
  <1> QED BY <1>8, <1>10, <1>11, <1>18, <1>13, <1>14, <1>15, <1>16, <1>17 DEF IInv, SearchInvariant

\* A finished child is crossed off.
LEMMA VisitSkips ==
    ASSUME IInv, NEW child \in Protos, Visit(child), state[child] = Finished
    PROVE  IInv'
  <1> DEFINE n == Len(stack)
             rest == Rest(child)
  <1>1. /\ TypeOK /\ SearchInvariant /\ phase = "search" /\ stack # <<>>
        /\ child \in Top.todo /\ adjacency' = adjacency /\ start' = start
        /\ \A p \in Protos : adjacency[p] \subseteq Protos
        /\ n \in Nat /\ n >= 1
    BY VisitFrame
  <1>2. state' = state /\ stack' = rest /\ phase' = phase
    BY DEF Visit, Unseen, Open, Finished
  <1>3. /\ stack' \in Seq(Frame) /\ Len(stack') = n
        /\ \A k \in 1..n : stack'[k].proto = stack[k].proto
        /\ \A k \in 1..n : k # n => stack'[k] = stack[k]
        /\ stack'[n].todo = Top.todo \ {child}
    BY <1>1, <1>2, Looked
  <1>4. Top = stack[n]
    BY DEF Top
  <1>5. Len(stack) = n
    OBVIOUS
  <1> HIDE DEF n, rest
  <1>6. TypeOK'
    <2>1. stack' \in Seq(Frame)
      BY <1>3
    <2>2. /\ adjacency' \in [Protos -> SUBSET (Protos \cup {Outside})]
          /\ state' \in [Protos -> {Unseen, Open, Finished}]
          /\ phase' \in {"read", "search", "accepted", "refused"}
          /\ start' \in 0..N
      BY <1>1, <1>2 DEF TypeOK
    <2> QED BY <2>1, <2>2 DEF TypeOK
  <1>7. OpenIsStack' /\ StackIsPath'
    <2>1. OpenIsStack'
      BY <1>1, <1>2, <1>3, <1>5 DEF SearchInvariant, OpenIsStack
    <2>2. StackIsPath'
      BY <1>1, <1>3, <1>5 DEF SearchInvariant, StackIsPath
    <2> QED BY <2>1, <2>2
  <1>8. TodoIsChildren'
    BY <1>1, <1>2, <1>3, <1>4, <1>5 DEF SearchInvariant, TodoIsChildren
  <1>9. FramesComplete'
    <2> SUFFICES ASSUME NEW k \in 1..n, NEW c \in adjacency[stack'[k].proto] \ stack'[k].todo
                 PROVE  state[c] = Finished \/ (k < n /\ stack'[k + 1].proto = c)
      BY <1>1, <1>2, <1>3 DEF FramesComplete
    <2>1. CASE c = child
      BY <2>1
    <2>2. CASE c # child
      <3>1. c \in adjacency[stack[k].proto] \ stack[k].todo
        BY <2>2, <1>3, <1>4
      <3>2. state[c] = Finished \/ (k < n /\ stack[k + 1].proto = c)
        BY <3>1, <1>1, <1>5 DEF SearchInvariant, FramesComplete
      <3> QED BY <3>2, <1>3, <1>1
    <2> QED BY <2>1, <2>2
  <1>10. FinishedIsClosed' /\ FinishedIsAcyclic'
    BY <1>1, <1>2 DEF SearchInvariant, FinishedIsClosed, FinishedIsAcyclic, Cyclic
  <1>11. PassedIsSeen' /\ ReadFirst'
    BY <1>1, <1>2 DEF SearchInvariant, PassedIsSeen, ReadFirst
  <1> QED BY <1>6, <1>7, <1>8, <1>9, <1>10, <1>11 DEF IInv, SearchInvariant

\* An open child is an ancestor: the chunk is refused and the search stays as
\* it is.
LEMMA VisitRefuses ==
    ASSUME IInv, NEW child \in Protos, Visit(child), state[child] = Open
    PROVE  IInv' /\ phase' = "refused"
  <1>1. TypeOK /\ SearchInvariant /\ adjacency' = adjacency /\ start' = start
    BY VisitFrame
  <1>2. state' = state /\ stack' = stack /\ phase' = "refused"
    BY DEF Visit, Unseen, Open, Finished
  <1>3. TypeOK'
    BY <1>1, <1>2 DEF TypeOK
  <1>4. OpenIsStack' /\ StackIsPath' /\ TodoIsChildren' /\ FramesComplete'
    BY <1>1, <1>2 DEF SearchInvariant, OpenIsStack, StackIsPath, TodoIsChildren, FramesComplete
  <1>5. FinishedIsClosed' /\ FinishedIsAcyclic'
    BY <1>1, <1>2 DEF SearchInvariant, FinishedIsClosed, FinishedIsAcyclic, Cyclic
  <1>6. PassedIsSeen' /\ ReadFirst'
    BY <1>2 DEF PassedIsSeen, ReadFirst
  <1> QED BY <1>2, <1>3, <1>4, <1>5, <1>6 DEF IInv, SearchInvariant

\* Accepting changes the phase only.
LEMMA AcceptKeeps ==
    ASSUME IInv, Accept
    PROVE  IInv'
  <1>1. /\ TypeOK /\ SearchInvariant /\ phase = "search" /\ stack = <<>> /\ start = N /\ phase' = "accepted"
        /\ state' = state /\ stack' = stack /\ adjacency' = adjacency /\ start' = start
    BY DEF IInv, Accept
  <1>2. TypeOK'
    BY <1>1 DEF TypeOK
  <1>3. OpenIsStack' /\ StackIsPath' /\ TodoIsChildren' /\ FramesComplete'
    BY <1>1 DEF SearchInvariant, OpenIsStack, StackIsPath, TodoIsChildren, FramesComplete
  <1>4. FinishedIsClosed' /\ FinishedIsAcyclic'
    BY <1>1 DEF SearchInvariant, FinishedIsClosed, FinishedIsAcyclic, Cyclic
  <1>5. PassedIsSeen' /\ ReadFirst'
    BY <1>1 DEF SearchInvariant, PassedIsSeen, ReadFirst
  <1> QED BY <1>2, <1>3, <1>4, <1>5 DEF IInv, SearchInvariant

\* Every step keeps the invariant.
LEMMA NextKeeps == IInv /\ [Next]_vars => IInv'
  <1> SUFFICES ASSUME IInv, [Next]_vars PROVE IInv'
    OBVIOUS
  <1>1. CASE (\E table, dups \in SUBSET (Protos \cup {Outside}) : Read(table, dups)) \/ ReadBad \/ ReadAll
    BY <1>1, ReadKeeps
  <1>2. CASE Begin
    BY <1>2, BeginKeeps
  <1>3. CASE Finish
    BY <1>3, FinishKeeps
  <1>4. CASE Accept
    BY <1>4, AcceptKeeps
  <1>5. CASE \E child \in Protos : Visit(child)
    <2>1. PICK child \in Protos : Visit(child)
      BY <1>5
    <2>2. state[child] \in {Unseen, Open, Finished}
      BY DEF IInv, TypeOK
    <2> QED BY <2>1, <2>2, VisitOpens, VisitSkips, VisitRefuses
  <1>6. CASE UNCHANGED vars
    <2>1. TypeOK'
      BY <1>6 DEF vars, IInv, TypeOK
    <2>2. OpenIsStack' /\ StackIsPath' /\ TodoIsChildren' /\ FramesComplete'
      BY <1>6 DEF vars, IInv, SearchInvariant, OpenIsStack, StackIsPath, TodoIsChildren, FramesComplete
    <2>3. FinishedIsClosed' /\ FinishedIsAcyclic'
      BY <1>6 DEF vars, IInv, SearchInvariant, FinishedIsClosed, FinishedIsAcyclic, Cyclic
    <2>4. PassedIsSeen' /\ ReadFirst'
      BY <1>6 DEF vars, IInv, SearchInvariant, PassedIsSeen, ReadFirst
    <2> QED BY <2>1, <2>2, <2>3, <2>4 DEF IInv, SearchInvariant
  <1> QED BY <1>1, <1>2, <1>3, <1>4, <1>5, <1>6 DEF Next, Search

\* Once the stack is empty and every prototype was passed, all are finished.
LEMMA AllFinished ==
    ASSUME IInv
    PROVE  AcceptedIsAcyclic
  <1> USE CountAssumption
  <1> SUFFICES ASSUME phase = "accepted"
               PROVE  /\ \A p \in Protos : adjacency[p] \subseteq Protos
                      /\ \A S \in SUBSET Protos : ~Cyclic(S)
    BY DEF AcceptedIsAcyclic
  <1>1. /\ stack = <<>> /\ start = N /\ \A p \in Protos : adjacency[p] \subseteq Protos
    BY DEF IInv, SearchInvariant, ReadFirst
  <1>2. \A p \in Protos : state[p] # Open
    BY <1>1 DEF IInv, SearchInvariant, OpenIsStack
  <1>3. \A p \in Protos : state[p] # Unseen
    BY <1>1 DEF IInv, SearchInvariant, PassedIsSeen, Protos
  <1>4. {p \in Protos : state[p] = Finished} = Protos
    BY <1>2, <1>3 DEF IInv, TypeOK
  <1> QED BY <1>1, <1>4 DEF IInv, SearchInvariant, FinishedIsAcyclic

\* From an open child up to the top of the stack every frame has the next as a
\* child, and the top has the open child: a cycle.
LEMMA RefusalIsCyclic ==
    ASSUME IInv, [Next]_vars, phase = "search", phase' = "refused"
    PROVE  \E S \in SUBSET Protos : Cyclic(S)
  <1>1. PICK child \in Protos : Visit(child)
    BY DEF vars, Next, Search, Read, ReadBad, ReadAll, Begin, Finish, Accept
  <1>2. state[child] = Open
    BY <1>1 DEF Visit, IInv, TypeOK
  <1>3. /\ TypeOK /\ SearchInvariant /\ stack # <<>> /\ child \in Top.todo
        /\ Len(stack) \in Nat /\ Len(stack) >= 1
    BY <1>1, VisitFrame
  <1>4. PICK j \in 1..Len(stack) : stack[j].proto = child
    BY <1>2, <1>3 DEF SearchInvariant, OpenIsStack
  <1> DEFINE S == {stack[k].proto : k \in j..Len(stack)}
  <1>5. \A k \in j..Len(stack) : k \in 1..Len(stack) /\ stack[k].proto \in Protos
    <2> SUFFICES ASSUME NEW k \in j..Len(stack) PROVE k \in 1..Len(stack) /\ stack[k].proto \in Protos
      OBVIOUS
    <2>1. k \in 1..Len(stack)
      BY <1>3
    <2>2. stack[k] \in Frame
      BY <2>1, <1>3, ElementOfSeq DEF TypeOK
    <2> QED BY <2>1, <2>2 DEF Frame
  <1>6. S \in SUBSET Protos
    BY <1>5
  <1>7. child \in S
    BY <1>4, <1>3
  <1>8. ASSUME NEW p \in S PROVE adjacency[p] \cap S # {}
    <2>1. PICK k \in j..Len(stack) : p = stack[k].proto
      BY <1>8
    <2>2. CASE k = Len(stack)
      <3>1. child \in adjacency[p]
        BY <2>1, <2>2, <1>3 DEF SearchInvariant, TodoIsChildren, Top
      <3> QED BY <3>1, <1>7
    <2>3. CASE k # Len(stack)
      <3>1. k \in 1..Len(stack) - 1 /\ k + 1 \in j..Len(stack)
        BY <2>3, <1>3, <1>4
      <3>2. stack[k + 1].proto \in adjacency[p]
        BY <3>1, <2>1, <1>3 DEF SearchInvariant, StackIsPath
      <3> QED BY <3>1, <3>2
    <2> QED BY <2>2, <2>3
  <1>9. Cyclic(S)
    BY <1>7, <1>8 DEF Cyclic
  <1> QED BY <1>6, <1>9

LEMMA InvariantHolds == Spec => []IInv
  BY InitHolds, NextKeeps, PTL DEF Spec

\* The variables keep their types: no child outside the chunk is followed.
THEOREM TypeCorrect == Spec => []TypeOK
  <1>1. IInv => TypeOK
    BY DEF IInv
  <1> QED BY InvariantHolds, <1>1, PTL

\* The search keeps its invariant in every chunk of every size.
THEOREM SearchCorrect == Spec => []SearchInvariant
  <1>1. IInv => SearchInvariant
    BY DEF IInv
  <1> QED BY InvariantHolds, <1>1, PTL

\* A chunk that validate_prototype_graph accepts has no cycle of prototypes.
THEOREM Accepted == Spec => []AcceptedIsAcyclic
  BY InvariantHolds, AllFinished, PTL

\* A chunk that the search refuses has one.
THEOREM Refused == Spec => RefusedIsCyclic
  <1>1. IInv /\ [Next]_vars =>
            [phase = "search" /\ phase' = "refused" => \E S \in SUBSET Protos : Cyclic(S)]_vars
    BY RefusalIsCyclic
  <1> QED BY InvariantHolds, <1>1, PTL DEF Spec, RefusedIsCyclic

(***************************************************************************)
(* The liveness of the dispatcher.  That nothing is missed when the queue  *)
(* is empty is not inductive.  What every visit keeps is that a state      *)
(* outside the queue already satisfies its own equations; a visit can      *)
(* break those of predecessors only, and they join the queue with it.      *)
(***************************************************************************)
\* A state that is not queued has what its successors need and it does not
\* define.
Settled == \A s \in DispatcherStates \ work : \A t \in succ[s] : liveIn[t] \ defs[s] \subseteq liveIn[s]

LivenessIInv ==
    /\ LivenessTypeOK
    /\ \A s \in DispatcherStates : uses[s] \subseteq liveIn[s]
    /\ Settled

\* What a visit does to the sets: one state gains what its successors need.
LEMMA VisitGains ==
    ASSUME NEW s \in DispatcherStates, LivenessTypeOK, VisitState(s)
    PROVE  /\ liveIn' \in Facts
           /\ \A t \in DispatcherStates : t # s => liveIn'[t] = liveIn[t]
           /\ liveIn'[s] = liveIn[s] \cup (LiveOut(s) \ defs[s])
           /\ work' \subseteq DispatcherStates
           /\ UNCHANGED facts
  <1>1. LiveOut(s) \subseteq DispatcherLocals
    BY DEF LiveOut, LivenessTypeOK, Facts
  <1>2. liveIn' = [liveIn EXCEPT ![s] = liveIn[s] \cup ((LiveOut(s) \ defs[s]) \ liveIn[s])]
    BY DEF VisitState
  <1>3. liveIn \in [DispatcherStates -> SUBSET DispatcherLocals]
    BY DEF LivenessTypeOK, Facts
  <1>4. work' \subseteq DispatcherStates
    BY DEF VisitState, LivenessTypeOK, Predecessors
  <1>5. UNCHANGED facts
    BY DEF VisitState
  <1> QED BY <1>1, <1>2, <1>3, <1>4, <1>5 DEF Facts

LEMMA LivenessInitIInv == LivenessInit => LivenessIInv
  BY DEF LivenessInit, LivenessIInv, LivenessTypeOK, Settled, Facts

LEMMA VisitLivenessIInv ==
    ASSUME NEW s \in DispatcherStates, LivenessIInv, VisitState(s)
    PROVE  LivenessIInv'
  <1>1. LivenessTypeOK
    BY DEF LivenessIInv
  <1>2. /\ liveIn' \in Facts
        /\ \A t \in DispatcherStates : t # s => liveIn'[t] = liveIn[t]
        /\ liveIn'[s] = liveIn[s] \cup (LiveOut(s) \ defs[s])
        /\ work' \subseteq DispatcherStates
        /\ UNCHANGED facts
    BY <1>1, VisitGains
  <1>3. LivenessTypeOK'
    BY <1>1, <1>2 DEF LivenessTypeOK, facts
  <1>4. \A t \in DispatcherStates : uses'[t] \subseteq liveIn'[t]
    BY <1>2 DEF LivenessIInv, facts
  <1>5. Settled'
    <2> SUFFICES ASSUME NEW p \in DispatcherStates, p \notin work', NEW t \in succ[p]
                 PROVE  liveIn'[t] \ defs[p] \subseteq liveIn'[p]
      BY <1>2 DEF Settled, facts
    <2>1. t \in DispatcherStates /\ succ[p] \subseteq DispatcherStates
      BY <1>1 DEF LivenessTypeOK
    <2>2. liveIn[t] \subseteq liveIn'[t] /\ liveIn[p] \subseteq liveIn'[p]
      BY <1>2, <2>1
    <2>3. CASE t = s
      \* The visited state did not gain anything, or p would be queued.
      <3>1. p \in Predecessors(s)
        BY <2>3 DEF Predecessors
      <3>2. (LiveOut(s) \ defs[s]) \ liveIn[s] = {}
        BY <3>1 DEF VisitState
      <3>3. liveIn'[t] = liveIn[t]
        BY <1>2, <2>3, <3>2
      <3>4. CASE p = s
        <4>1. liveIn[t] \subseteq LiveOut(s)
          BY <2>3, <3>4 DEF LiveOut
        <4> QED BY <1>2, <3>3, <3>4, <4>1
      <3>5. CASE p # s
        <4>1. p \notin work
          BY <3>5 DEF VisitState
        <4>2. liveIn[t] \ defs[p] \subseteq liveIn[p]
          BY <4>1 DEF LivenessIInv, Settled
        <4> QED BY <2>2, <3>3, <4>2
      <3> QED BY <3>4, <3>5
    <2>4. CASE t # s
      <3>1. liveIn'[t] = liveIn[t]
        BY <1>2, <2>1, <2>4
      <3>2. CASE p = s
        <4>1. liveIn[t] \subseteq LiveOut(s)
          BY <3>2 DEF LiveOut
        <4> QED BY <1>2, <3>1, <3>2, <4>1
      <3>3. CASE p # s
        <4>1. p \notin work
          BY <3>3 DEF VisitState
        <4>2. liveIn[t] \ defs[p] \subseteq liveIn[p]
          BY <4>1 DEF LivenessIInv, Settled
        <4> QED BY <2>2, <3>1, <4>2
      <3> QED BY <3>2, <3>3
    <2> QED BY <2>3, <2>4
  <1> QED BY <1>3, <1>4, <1>5 DEF LivenessIInv

LEMMA LivenessNextIInv == LivenessIInv /\ [LivenessNext]_livenessVars => LivenessIInv'
  <1>1. ASSUME LivenessIInv, UNCHANGED livenessVars PROVE LivenessIInv'
    BY <1>1 DEF LivenessIInv, LivenessTypeOK, Settled, livenessVars, facts
  <1> QED BY <1>1, VisitLivenessIInv DEF LivenessNext, ReadOff

\* The invariant holds in every reachable state.
THEOREM LivenessInvariant == LivenessSpec => []LivenessIInv
  BY LivenessInitIInv, LivenessNextIInv, PTL DEF LivenessSpec

\* When the queue of persistent_locals is empty no local that is live between
\* two states is missing, for any graph and any order of the queue.
THEOREM NothingMissed == LivenessSpec => []NoLiveLocalMissed
  <1>1. LivenessIInv => NoLiveLocalMissed
    BY DEF LivenessIInv, Settled, NoLiveLocalMissed, IsSolution
  <1> QED BY <1>1, LivenessInvariant, PTL

\* At no time is a local in a set that some solution of the equations leaves
\* out: the result is the least one.
THEOREM NothingInVain == LivenessSpec => []NothingHoistedInVain
  <1>1. LivenessInit => NothingHoistedInVain
    BY DEF LivenessInit, NothingHoistedInVain, IsSolution
  <1>2. ASSUME LivenessIInv, NothingHoistedInVain, [LivenessNext]_livenessVars
        PROVE  NothingHoistedInVain'
    <2>1. CASE UNCHANGED livenessVars
      BY <1>2, <2>1 DEF NothingHoistedInVain, IsSolution, livenessVars, facts
    <2>2. ASSUME NEW s \in DispatcherStates, VisitState(s)
          PROVE  NothingHoistedInVain'
      <3>1. /\ \A t \in DispatcherStates : t # s => liveIn'[t] = liveIn[t]
            /\ liveIn'[s] = liveIn[s] \cup (LiveOut(s) \ defs[s])
            /\ UNCHANGED facts
        BY <1>2, <2>2, VisitGains DEF LivenessIInv
      <3> SUFFICES ASSUME NEW x \in Facts, IsSolution(x)
                   PROVE  \A t \in DispatcherStates : liveIn'[t] \subseteq x[t]
        BY <3>1 DEF NothingHoistedInVain, IsSolution, facts
      <3>2. \A t \in DispatcherStates : liveIn[t] \subseteq x[t]
        BY <1>2 DEF NothingHoistedInVain
      <3>3. LiveOut(s) \ defs[s] \subseteq x[s]
        <4>1. succ[s] \subseteq DispatcherStates
          BY <1>2 DEF LivenessIInv, LivenessTypeOK
        <4>2. \A t \in succ[s] : liveIn[t] \ defs[s] \subseteq x[s]
          BY <3>2, <4>1 DEF IsSolution
        <4> QED BY <4>2 DEF LiveOut
      <3> QED BY <3>1, <3>2, <3>3
    <2> QED BY <1>2, <2>1, <2>2 DEF LivenessNext, ReadOff
  <1> QED BY <1>1, <1>2, LivenessInvariant, PTL DEF LivenessSpec

(***************************************************************************)
(* The dispatcher.  Both machines take the same edges as long as what a    *)
(* block reads has the same values in both: it is live, so declared in     *)
(* front of the loop, or written earlier in the block.  A captured local   *)
(* is touched in one block that is entered once, so the first cell of it   *)
(* is the only one that closures hold.                                     *)
(***************************************************************************)

\* The parts of a block have the types a graph gives them.
LEMMA BlockTypes ==
    ASSUME NEW g \in Functions, NEW n \in Nodes(g)
    PROVE  /\ g.blocks[n].body \in Seq(AllStatements)
           /\ g.blocks[n].test \in CfgLocals \union {"none"}
           /\ \A i \in DOMAIN g.blocks[n].edges :
                /\ g.blocks[n].edges[i].to \in Nodes(g)
                /\ g.blocks[n].edges[i].arguments \in Seq(Assignments)
           /\ g.blocks[n].edges # <<>> => DOMAIN g.blocks[n].edges # {}
           /\ g.ignored \subseteq CfgLocals /\ g.entry \in Nodes(g)
<1> DEFINE Edge == [kind : {"then", "else", "unconditional"}, to : DOMAIN g.blocks,
                    arguments : Seq(Assignments)]
           Block == [body : Seq(AllStatements), test : CfgLocals \union {"none"}, edges : Seq(Edge)]
<1>1. g.blocks \in Seq(Block) /\ g.ignored \subseteq CfgLocals /\ g.entry \in DOMAIN g.blocks
  BY DispatcherAssumption DEF IsGraph
<1>2. g.blocks[n] \in Block
  <2> HIDE DEF Block
  <2> QED BY <1>1, ElementOfSeq DEF Nodes
<1>3. g.blocks[n].body \in Seq(AllStatements) /\ g.blocks[n].test \in CfgLocals \union {"none"}
      /\ g.blocks[n].edges \in Seq(Edge)
  BY <1>2
<1>4. ASSUME NEW i \in DOMAIN g.blocks[n].edges PROVE g.blocks[n].edges[i] \in Edge
  <2> HIDE DEF Edge
  <2> QED BY <1>3, <1>4, ElementOfSeq
<1>5. ASSUME g.blocks[n].edges # <<>> PROVE DOMAIN g.blocks[n].edges # {}
  <2> HIDE DEF Edge
  <2>1. Len(g.blocks[n].edges) \in Nat /\ Len(g.blocks[n].edges) # 0
    BY <1>3, <1>5, EmptySeq, LenProperties
  <2>2. 1 \in 1..Len(g.blocks[n].edges)
    BY <2>1
  <2>3. DOMAIN g.blocks[n].edges = 1..Len(g.blocks[n].edges)
    BY <1>3, LenProperties
  <2> QED BY <2>2, <2>3
<1> QED BY <1>1, <1>3, <1>4, <1>5 DEF Nodes

LEMMA StatementTypes ==
    ASSUME NEW g \in Functions, NEW n \in Nodes(g), NEW i \in DOMAIN g.blocks[n].body
    PROVE  g.blocks[n].body[i] \in AllStatements
BY BlockTypes, ElementOfSeq

\* Edges of a block assign.
LEMMA ArgumentTypes ==
    ASSUME NEW g \in Functions, NEW n \in Nodes(g)
    PROVE  Arguments(g, n) \subseteq Assignments
<1> SUFFICES ASSUME NEW i \in DOMAIN g.blocks[n].edges,
                    NEW j \in DOMAIN g.blocks[n].edges[i].arguments
             PROVE  g.blocks[n].edges[i].arguments[j] \in Assignments
  BY DEF Arguments
<1> QED BY BlockTypes, ElementOfSeq

\* Statements and arguments name locals.
LEMMA LocalsOf ==
    ASSUME NEW s \in AllStatements
    PROVE  Reads(s) \subseteq CfgLocals /\ Writes(s) \subseteq CfgLocals /\ Captures(s) \subseteq Reads(s)
BY DEF AllStatements, Assignments, Expressions, Reads, Writes, Captures, ReadsOf, CapturesOf

LEMMA UsesAreLocals ==
    ASSUME NEW g \in Functions, NEW n \in Nodes(g)
    PROVE  UseBeforeDef(g, n) \subseteq CfgLocals
<1>1. \A i \in DOMAIN g.blocks[n].body : Reads(g.blocks[n].body[i]) \subseteq CfgLocals
  BY StatementTypes, LocalsOf
<1>2. \A a \in Arguments(g, n) : Reads(a) \subseteq CfgLocals
  BY ArgumentTypes, LocalsOf DEF AllStatements
<1> QED BY <1>1, <1>2, BlockTypes DEF UseBeforeDef

LEMMA TargetsAreNodes ==
    ASSUME NEW g \in Functions, NEW n \in Nodes(g)
    PROVE  Targets(g, n) \subseteq Nodes(g)
BY BlockTypes DEF Targets

\* The reachable nodes are closed under edges.
LEMMA ReachableLeads ==
    ASSUME NEW g \in Functions
    PROVE  g.entry \in Reachable(g) /\ Reachable(g) \subseteq Nodes(g) /\ Leads(g, Reachable(g))
<1>1. g.entry \in Nodes(g)
  BY DispatcherAssumption DEF IsGraph, Nodes
<1>2. ASSUME NEW n \in Reachable(g), NEW t \in Targets(g, n) PROVE t \in Reachable(g)
  BY <1>2, TargetsAreNodes DEF Reachable, Leads
<1> QED BY <1>1, <1>2 DEF Reachable, Leads

\* What is ahead of a node: its targets, and what is ahead of them.
LEMMA AheadLeads ==
    ASSUME NEW g \in Functions, NEW n \in Nodes(g)
    PROVE  /\ Targets(g, n) \subseteq Ahead(g, n)
           /\ \A t \in Targets(g, n) : Ahead(g, t) \subseteq Ahead(g, n)
           /\ n \in Reachable(g) => Ahead(g, n) \subseteq Reachable(g)
<1>1. Targets(g, n) \subseteq Ahead(g, n)
  BY TargetsAreNodes DEF Ahead
<1>2. ASSUME NEW t \in Targets(g, n) PROVE Ahead(g, t) \subseteq Ahead(g, n)
  BY <1>2 DEF Ahead, Leads
<1>3. ASSUME n \in Reachable(g) PROVE Ahead(g, n) \subseteq Reachable(g)
  <2>1. Targets(g, n) \subseteq Reachable(g) /\ Reachable(g) \in SUBSET Nodes(g) /\ Leads(g, Reachable(g))
    BY <1>3, ReachableLeads DEF Leads
  <2> QED BY <2>1 DEF Ahead
<1> QED BY <1>1, <1>2, <1>3

\* What a block reads before it writes it is live there, so the dispatcher
\* keeps it.
LEMMA UsesAreKept ==
    ASSUME NEW g \in Functions, NEW n \in Reachable(g)
    PROVE  UseBeforeDef(g, n) \subseteq Persistent(g) \union g.ignored
<1>1. n \in Nodes(g)
  BY ReachableLeads
<1>2. UseBeforeDef(g, n) \subseteq LiveIn(g, n)
  BY <1>1, UsesAreLocals DEF LiveIn, NeededAt
<1> QED BY <1>2 DEF Persistent

LEMMA LiveIsKept ==
    ASSUME NEW g, NEW n \in Reachable(g)
    PROVE  LiveIn(g, n) \subseteq Persistent(g) \union g.ignored /\ LiveIn(g, n) \subseteq CfgLocals
BY DEF Persistent, LiveIn

\* Locals that have the graph's values in the dispatcher before statement k.
Agreed(g, n, k) == Persistent(g) \union g.ignored \union DefsBefore(g, n, k)

LEMMA AgreedAreLocals ==
    ASSUME NEW g \in Functions, NEW n \in Reachable(g), NEW k \in Nat,
           k <= Len(g.blocks[n].body) + 1
    PROVE  Agreed(g, n, k) \subseteq CfgLocals
<1>1. n \in Nodes(g) /\ g.ignored \subseteq CfgLocals
  BY ReachableLeads, BlockTypes
<1>2. DefsBefore(g, n, k) \subseteq CfgLocals
  <2> SUFFICES ASSUME NEW j \in 1..k - 1 PROVE Writes(g.blocks[n].body[j]) \subseteq CfgLocals
    BY DEF DefsBefore
  <2>1. j \in DOMAIN g.blocks[n].body
    BY <1>1, BlockTypes, LenProperties
  <2> QED BY <2>1, <1>1, StatementTypes, LocalsOf
<1>3. Persistent(g) \subseteq CfgLocals
  BY DEF Persistent, LiveIn
<1> QED BY <1>1, <1>2, <1>3 DEF Agreed

LEMMA DefsGrow ==
    ASSUME NEW g \in Functions, NEW n \in Nodes(g), NEW k \in 1..Len(g.blocks[n].body)
    PROVE  /\ DefsBefore(g, n, 1) = {}
           /\ DefsBefore(g, n, k + 1) = DefsBefore(g, n, k) \union Writes(g.blocks[n].body[k])
           /\ DefsBefore(g, n, k) \subseteq Defs(g, n) /\ Writes(g.blocks[n].body[k]) \subseteq Defs(g, n)
<1>0. Len(g.blocks[n].body) \in Nat
  BY BlockTypes, LenProperties
<1>1. 1..(k + 1) - 1 = (1..k - 1) \union {k} /\ 1..1 - 1 = {}
  BY <1>0
<1>2. 1..k \subseteq 1..(Len(g.blocks[n].body) + 1) - 1 /\ 1..k - 1 \subseteq 1..k
  BY <1>0
<1> QED BY <1>1, <1>2, <1>0 DEF DefsBefore, Defs

\* A statement reads what the dispatcher keeps, or what was written before it.
LEMMA ReadsAgreed ==
    ASSUME NEW g \in Functions, NEW n \in Reachable(g), NEW k \in 1..Len(g.blocks[n].body)
    PROVE  Reads(g.blocks[n].body[k]) \subseteq Agreed(g, n, k)
<1>1. k \in DOMAIN g.blocks[n].body
  BY ReachableLeads, BlockTypes, LenProperties
<1>2. Reads(g.blocks[n].body[k]) \subseteq UseBeforeDef(g, n) \union DefsBefore(g, n, k)
  BY <1>1 DEF UseBeforeDef
<1> QED BY <1>2, UsesAreKept DEF Agreed

\* So do the test and the arguments, at the end.
LEMMA ExitAgreed ==
    ASSUME NEW g \in Functions, NEW n \in Reachable(g)
    PROVE  /\ g.blocks[n].test # "none" => g.blocks[n].test \in Agreed(g, n, Len(g.blocks[n].body) + 1)
           /\ \A a \in Arguments(g, n) : Reads(a) \subseteq Agreed(g, n, Len(g.blocks[n].body) + 1)
<1>1. /\ g.blocks[n].test # "none" => g.blocks[n].test \in UseBeforeDef(g, n) \union Defs(g, n)
      /\ \A a \in Arguments(g, n) : Reads(a) \subseteq UseBeforeDef(g, n) \union Defs(g, n)
  BY DEF UseBeforeDef
<1> QED BY <1>1, UsesAreKept DEF Agreed, Defs

\* In a function that is lowered, a captured local is not kept in front of the
\* loop, no edge carries it, and nothing ahead touches it.
LEMMA CapturesEndHere ==
    ASSUME NEW g \in Functions, Lifts(g), NEW n \in Reachable(g), NEW x \in CapturedRef(g, n)
    PROVE  /\ x \notin Persistent(g)
           /\ x \notin g.ignored => x \notin EdgeValues(g, n) /\ \A m \in Ahead(g, n) : x \notin Touches(g, m)
<1>1. CASE x \in g.ignored
  BY <1>1 DEF Persistent
<1>2. CASE x \notin g.ignored
  <2>1. x \notin Persistent(g) /\ n \notin CyclicNodes(g) /\ x \notin EdgeValues(g, n)
        /\ \A m \in Reachable(g) \ {n} : x \notin Touches(g, m)
    BY <1>2 DEF Lifts, ContainsRefCapture
  <2>2. n \notin Ahead(g, n) /\ Ahead(g, n) \subseteq Reachable(g)
    BY <2>1, ReachableLeads, AheadLeads DEF CyclicNodes
  <2> QED BY <2>1, <2>2
<1> QED BY <1>1, <1>2

-----------------------------------------------------------------------------
(* Cells. *)

CellsOfLocal == Seq(Values) \ {<<>>}

Machines == [cells : [CfgLocals -> CellsOfLocal], out : Seq(Values)]

\* A write reaches the cell a local has now, and no other.
LEMMA WrittenCells ==
    ASSUME NEW cells \in CellsOfLocal, NEW v \in Values
    PROVE  /\ Written(cells, v) \in CellsOfLocal
           /\ Len(Written(cells, v)) = Len(cells)
           /\ Len(cells) = 1 => Written(cells, v)[1] = v
           /\ Len(cells) # 1 => Written(cells, v)[1] = cells[1]
<1>1. cells \in Seq(Values) /\ Len(cells) \in Nat /\ Len(cells) >= 1
  BY EmptySeq, LenProperties DEF CellsOfLocal
<1>2. cells \in [1..Len(cells) -> Values]
  BY <1>1
<1>3. Written(cells, v) \in [1..Len(cells) -> Values]
  BY <1>1, <1>2 DEF Written
<1>4. Written(cells, v) \in Seq(Values) /\ Len(Written(cells, v)) = Len(cells)
  BY <1>1, <1>3
<1>5. Written(cells, v) # <<>>
  BY <1>1, <1>4
<1> QED BY <1>1, <1>2, <1>4, <1>5 DEF Written, CellsOfLocal

\* A new cell leaves the others alone.
LEMMA AppendedCells ==
    ASSUME NEW cells \in CellsOfLocal, NEW v \in Values
    PROVE  Append(cells, v) \in CellsOfLocal /\ Append(cells, v)[1] = cells[1]
<1>1. cells \in Seq(Values) /\ Len(cells) \in Nat /\ Len(cells) >= 1
  BY EmptySeq, LenProperties DEF CellsOfLocal
<1>2. Append(cells, v) \in Seq(Values) /\ Len(Append(cells, v)) = Len(cells) + 1
      /\ Append(cells, v)[1] = cells[1]
  BY <1>1, AppendProperties
<1>3. Append(cells, v) # <<>>
  BY <1>1, <1>2
<1> QED BY <1>2, <1>3 DEF CellsOfLocal

\* The value of a local is one.
LEMMA HeldIsValue ==
    ASSUME NEW m \in Machines, NEW x \in CfgLocals
    PROVE  /\ m.cells[x] \in CellsOfLocal /\ Held(m, x) \in Values
           /\ m.cells[x][1] \in Values /\ Len(m.cells[x]) \in Nat /\ Len(m.cells[x]) >= 1
           /\ Len(m.cells[x]) = 1 => Held(m, x) = m.cells[x][1]
<1>1. m.cells[x] \in CellsOfLocal
  BY DEF Machines
<1>2. m.cells[x] \in Seq(Values) /\ Len(m.cells[x]) \in Nat /\ Len(m.cells[x]) >= 1
  BY <1>1, EmptySeq, LenProperties DEF CellsOfLocal
<1>3. m.cells[x][1] \in Values /\ m.cells[x][Len(m.cells[x])] \in Values
  BY <1>2, ElementOfSeq
<1> QED BY <1>1, <1>2, <1>3 DEF Held

LEMMA EvalIsValue ==
    ASSUME NEW m \in Machines, NEW e \in Expressions
    PROVE  Eval(m, e) \in Values
BY HeldIsValue, DispatcherAssumption DEF Eval, Expressions

-----------------------------------------------------------------------------
(* What the two machines have in common, before statement k of block n. *)

One(o, d, x)  == Len(o.cells[x]) = 1 /\ Len(d.cells[x]) = 1
Same(o, d, x) == o.cells[x][1] = d.cells[x][1]

HeldLocals(held) == {c[1] : c \in held}

\* A closure holds the first cell of a local that is not kept in front of the
\* loop, and both cells have the same value.
ClosuresAgree(g, o, d, held) ==
    \A c \in held : \E x \in CfgLocals : c = <<x, 1, 1>> /\ x \notin Persistent(g) /\ Same(o, d, x)

\* Only locals that are captured, and not touched here, have had other cells.
OneCell(g, o, d, held, n) ==
    \A x \in CfgLocals : x \in g.ignored \/ x \in Touches(g, n) \/ x \notin HeldLocals(held) => One(o, d, x)

ValuesAgree(g, o, d, n, k) == \A x \in Agreed(g, n, k) : Same(o, d, x)

\* Captured locals are not touched later.
EndsHere(g, held, n) ==
    \A x \in HeldLocals(held) \ g.ignored : \A m \in Ahead(g, n) : x \notin Touches(g, m)

Runs(g, o, d, held, n, k) ==
    /\ g \in Functions /\ Lifts(g) /\ n \in Reachable(g) /\ k \in 1..Len(g.blocks[n].body) + 1
    /\ o \in Machines /\ d \in Machines /\ o.out = d.out
    /\ ClosuresAgree(g, o, d, held)
    /\ OneCell(g, o, d, held, n)
    /\ ValuesAgree(g, o, d, n, k)
    /\ EndsHere(g, held, n)

\* Locals that agree have one cell.
LEMMA AgreedHaveOne ==
    ASSUME NEW g, NEW o, NEW d, NEW held, NEW n, NEW k, Runs(g, o, d, held, n, k), NEW x \in Agreed(g, n, k)
    PROVE  x \in CfgLocals /\ One(o, d, x) /\ Same(o, d, x)
<1>1. k \in Nat /\ k <= Len(g.blocks[n].body) + 1 /\ n \in Nodes(g)
  BY ReachableLeads, BlockTypes, LenProperties DEF Runs
<1>2. x \in CfgLocals
  BY <1>1, AgreedAreLocals DEF Runs
<1>3. CASE x \in Persistent(g)
  <2>1. x \notin HeldLocals(held)
    BY <1>3 DEF Runs, ClosuresAgree, HeldLocals
  <2> QED BY <1>2, <2>1 DEF Runs, OneCell, ValuesAgree
<1>4. CASE x \in g.ignored
  BY <1>2, <1>4 DEF Runs, OneCell, ValuesAgree
<1>5. CASE x \in DefsBefore(g, n, k)
  <2>1. 1..k - 1 \subseteq 1..(Len(g.blocks[n].body) + 1) - 1
    BY <1>1, BlockTypes, LenProperties DEF Runs
  <2>2. x \in Touches(g, n)
    BY <1>5, <2>1 DEF Touches, Defs, DefsBefore
  <2> QED BY <1>2, <2>2 DEF Runs, OneCell, ValuesAgree
<1> QED BY <1>3, <1>4, <1>5 DEF Agreed

\* So they have the same value, and so has what is computed from them.
LEMMA AgreedAreEqual ==
    ASSUME NEW g, NEW o, NEW d, NEW held, NEW n, NEW k, Runs(g, o, d, held, n, k)
    PROVE  /\ \A x \in Agreed(g, n, k) : Held(o, x) = Held(d, x)
           /\ \A e \in Expressions : ReadsOf(e) \subseteq Agreed(g, n, k) => Eval(o, e) = Eval(d, e)
<1>1. ASSUME NEW x \in Agreed(g, n, k) PROVE Held(o, x) = Held(d, x)
  <2>1. x \in CfgLocals /\ One(o, d, x) /\ Same(o, d, x)
    BY AgreedHaveOne
  <2> QED BY <2>1, HeldIsValue DEF Runs, One, Same
<1>2. ASSUME NEW e \in Expressions, ReadsOf(e) \subseteq Agreed(g, n, k) PROVE Eval(o, e) = Eval(d, e)
  BY <1>1, <1>2 DEF Eval, ReadsOf, Expressions
<1> QED BY <1>1, <1>2

NewClosures(o, d, xs) == {<<x, Len(o.cells[x]), Len(d.cells[x])>> : x \in xs}

\* An assignment writes one local.
LEMMA ExecuteSet ==
    ASSUME NEW m \in Machines, NEW s \in Assignments
    PROVE  /\ s[1] = "set" /\ s[2] \in CfgLocals /\ s[3] \in Expressions
           /\ Execute(m, s) \in Machines /\ Execute(m, s).out = <<>>
           /\ \A y \in CfgLocals : Execute(m, s).cells[y] =
                IF y = s[2] THEN Written(m.cells[y], Eval(m, s[3])) ELSE m.cells[y]
<1>1. s[1] = "set" /\ s[2] \in CfgLocals /\ s[3] \in Expressions
  BY DEF Assignments
<1> DEFINE c == [m.cells EXCEPT ![s[2]] = Written(@, Eval(m, s[3]))]
<1>2. m.cells \in [CfgLocals -> CellsOfLocal]
  BY DEF Machines
<1>3. Written(m.cells[s[2]], Eval(m, s[3])) \in CellsOfLocal
  BY <1>1, <1>2, EvalIsValue, WrittenCells
<1>4. c \in [CfgLocals -> CellsOfLocal]
      /\ \A y \in CfgLocals : c[y] = IF y = s[2] THEN Written(m.cells[y], Eval(m, s[3])) ELSE m.cells[y]
  BY <1>1, <1>2, <1>3
<1>5. Execute(m, s) = [cells |-> c, out |-> <<>>]
  BY <1>1 DEF Execute
<1>6. <<>> \in Seq(Values)
  BY EmptySeq
<1> QED BY <1>1, <1>4, <1>5, <1>6 DEF Machines

\* A use shows the same value, and changes nothing else.
LEMMA UseRuns ==
    ASSUME NEW g, NEW o, NEW d, NEW held, NEW n, NEW k, Runs(g, o, d, held, n, k),
           k <= Len(g.blocks[n].body), g.blocks[n].body[k][1] = "use"
    PROVE  Runs(g, Execute(o, g.blocks[n].body[k]), Execute(d, g.blocks[n].body[k]),
                held \union NewClosures(o, d, Captures(g.blocks[n].body[k])), n, k + 1)
<1> DEFINE s == g.blocks[n].body[k]
           p == Execute(o, s)
           q == Execute(d, s)
<1>1. g \in Functions /\ n \in Reachable(g) /\ n \in Nodes(g) /\ k \in 1..Len(g.blocks[n].body)
      /\ Len(g.blocks[n].body) \in Nat /\ k \in DOMAIN g.blocks[n].body
  BY ReachableLeads, BlockTypes, LenProperties DEF Runs
<1>2. s \in AllStatements /\ s[1] = "use"
  BY <1>1, StatementTypes
<1>3. s[2] \in CfgLocals /\ Reads(s) = {s[2]} /\ Captures(s) = {} /\ Writes(s) = {}
  BY <1>2 DEF AllStatements, Assignments, Reads, Captures, Writes
<1>4. p = [cells |-> o.cells, out |-> <<Held(o, s[2])>>] /\ q = [cells |-> d.cells, out |-> <<Held(d, s[2])>>]
  BY <1>2 DEF Execute
<1>5. Held(o, s[2]) = Held(d, s[2]) /\ Held(o, s[2]) \in Values
  <2>1. s[2] \in Agreed(g, n, k)
    BY <1>1, <1>3, ReadsAgreed
  <2>2. Held(o, s[2]) = Held(d, s[2])
    BY <2>1, AgreedAreEqual
  <2>3. Held(o, s[2]) \in Values
    BY <1>3, HeldIsValue DEF Runs
  <2> QED BY <2>2, <2>3
<1>6. p \in Machines /\ q \in Machines /\ p.out = q.out /\ p.cells = o.cells /\ q.cells = d.cells
  BY <1>4, <1>5 DEF Runs, Machines
<1>7. held \union NewClosures(o, d, Captures(s)) = held
  BY <1>3 DEF NewClosures
<1>8. Agreed(g, n, k + 1) = Agreed(g, n, k) /\ k + 1 \in 1..Len(g.blocks[n].body) + 1
  BY <1>1, <1>3, DefsGrow DEF Agreed
<1>9. \A x : (One(p, q, x) <=> One(o, d, x)) /\ (Same(p, q, x) <=> Same(o, d, x))
  BY <1>6 DEF One, Same
<1> HIDE DEF p, q, s
<1>10. Runs(g, p, q, held, n, k + 1)
  BY <1>6, <1>8, <1>9 DEF Runs, ClosuresAgree, OneCell, ValuesAgree
<1> QED BY <1>7, <1>10 DEF p, q, s

\* What a statement captures is a local of this block only.
LEMMA CapturedHere ==
    ASSUME NEW g, NEW o, NEW d, NEW held, NEW n, NEW k, Runs(g, o, d, held, n, k),
           k <= Len(g.blocks[n].body), NEW y \in Captures(g.blocks[n].body[k])
    PROVE  /\ y \in CfgLocals /\ y \notin Persistent(g) /\ One(o, d, y) /\ Same(o, d, y)
           /\ y \notin g.ignored => \A m \in Ahead(g, n) : y \notin Touches(g, m)
<1>1. g \in Functions /\ n \in Reachable(g) /\ n \in Nodes(g) /\ k \in 1..Len(g.blocks[n].body)
      /\ k \in DOMAIN g.blocks[n].body
  BY ReachableLeads, BlockTypes, LenProperties DEF Runs
<1>2. y \in Reads(g.blocks[n].body[k])
  BY <1>1, StatementTypes, LocalsOf
<1>3. y \in Agreed(g, n, k)
  BY <1>1, <1>2, ReadsAgreed
<1>4. y \in CfgLocals /\ One(o, d, y) /\ Same(o, d, y)
  BY <1>3, AgreedHaveOne
<1>5. y \in CapturedRef(g, n)
  BY <1>1 DEF CapturedRef
<1>6. Lifts(g)
  BY DEF Runs
<1> QED BY <1>1, <1>4, <1>5, <1>6, CapturesEndHere

\* An assignment writes the same value, to a local with one cell.
LEMMA SetRuns ==
    ASSUME NEW g, NEW o, NEW d, NEW held, NEW n, NEW k, Runs(g, o, d, held, n, k),
           k <= Len(g.blocks[n].body), g.blocks[n].body[k][1] = "set"
    PROVE  Runs(g, Execute(o, g.blocks[n].body[k]), Execute(d, g.blocks[n].body[k]),
                held \union NewClosures(o, d, Captures(g.blocks[n].body[k])), n, k + 1)
<1> DEFINE s == g.blocks[n].body[k]
           p == Execute(o, s)
           q == Execute(d, s)
           new == held \union NewClosures(o, d, Captures(s))
<1>1. g \in Functions /\ Lifts(g) /\ n \in Reachable(g) /\ n \in Nodes(g) /\ k \in 1..Len(g.blocks[n].body)
      /\ Len(g.blocks[n].body) \in Nat /\ k \in DOMAIN g.blocks[n].body
  BY ReachableLeads, BlockTypes, LenProperties DEF Runs
<1>2. s \in Assignments
  BY <1>1, StatementTypes DEF AllStatements
<1>3. s[2] \in CfgLocals /\ s[3] \in Expressions /\ s[1] = "set"
  BY <1>2 DEF Assignments
<1>4. Reads(s) = ReadsOf(s[3]) /\ Writes(s) = {s[2]}
  BY <1>3 DEF Reads, Writes
<1>5. Eval(o, s[3]) = Eval(d, s[3])
  BY <1>1, <1>3, <1>4, ReadsAgreed, AgreedAreEqual
<1>6. p \in Machines /\ q \in Machines /\ p.out = q.out
  BY <1>2, ExecuteSet DEF Runs
<1>7. \A y \in CfgLocals : /\ p.cells[y] = IF y = s[2] THEN Written(o.cells[y], Eval(o, s[3])) ELSE o.cells[y]
                        /\ q.cells[y] = IF y = s[2] THEN Written(d.cells[y], Eval(d, s[3])) ELSE d.cells[y]
  BY <1>2, ExecuteSet DEF Runs
<1>8. One(o, d, s[2])
  <2>1. s[2] \in Touches(g, n)
    BY <1>1, <1>4, DefsGrow DEF Touches
  <2> QED BY <1>3, <2>1 DEF Runs, OneCell
<1>9. /\ \A y \in CfgLocals : One(o, d, y) => One(p, q, y)
      /\ \A y \in CfgLocals : Same(o, d, y) => Same(p, q, y)
      /\ Same(p, q, s[2])
  <2>1. /\ Len(p.cells[s[2]]) = 1 /\ Len(q.cells[s[2]]) = 1
        /\ p.cells[s[2]][1] = Eval(o, s[3]) /\ q.cells[s[2]][1] = Eval(d, s[3])
    <3>1. o.cells[s[2]] \in CellsOfLocal /\ d.cells[s[2]] \in CellsOfLocal
          /\ Eval(o, s[3]) \in Values /\ Eval(d, s[3]) \in Values
      BY <1>3, EvalIsValue, HeldIsValue DEF Runs
    <3>2. Len(o.cells[s[2]]) = 1 /\ Len(d.cells[s[2]]) = 1
      BY <1>8 DEF One
    <3>3. p.cells[s[2]] = Written(o.cells[s[2]], Eval(o, s[3])) /\ q.cells[s[2]] = Written(d.cells[s[2]], Eval(d, s[3]))
      BY <1>3, <1>7
    <3> HIDE DEF p, q, s
    <3> QED BY <3>1, <3>2, <3>3, WrittenCells
  <2> HIDE DEF p, q, s
  <2> QED BY <1>5, <1>7, <2>1 DEF One, Same
<1>10. \A y \in Captures(s) :
         /\ y \in CfgLocals /\ y \notin Persistent(g) /\ One(o, d, y) /\ Same(o, d, y)
         /\ y \notin g.ignored => \A m \in Ahead(g, n) : y \notin Touches(g, m)
  BY <1>1, CapturedHere
<1>11. NewClosures(o, d, Captures(s)) = {<<y, 1, 1>> : y \in Captures(s)}
  BY <1>10 DEF NewClosures, One
<1> HIDE DEF p, q, s
<1>12. ClosuresAgree(g, p, q, new)
  <2>1. ASSUME NEW c \in held PROVE \E x \in CfgLocals : c = <<x, 1, 1>> /\ x \notin Persistent(g) /\ Same(p, q, x)
    BY <2>1, <1>9 DEF Runs, ClosuresAgree
  <2>2. ASSUME NEW c \in NewClosures(o, d, Captures(s))
        PROVE  \E x \in CfgLocals : c = <<x, 1, 1>> /\ x \notin Persistent(g) /\ Same(p, q, x)
    BY <2>2, <1>9, <1>10, <1>11
  <2> QED BY <2>1, <2>2 DEF ClosuresAgree
<1>13. HeldLocals(new) = HeldLocals(held) \union Captures(s)
  <2>1. HeldLocals(NewClosures(o, d, Captures(s))) = {c[1] : c \in {<<y, 1, 1>> : y \in Captures(s)}}
    BY <1>11 DEF HeldLocals
  <2>2. {c[1] : c \in {<<y, 1, 1>> : y \in Captures(s)}} = Captures(s)
    <3>1. \A y \in Captures(s) : <<y, 1, 1>>[1] = y
      OBVIOUS
    <3> QED BY <3>1
  <2>3. HeldLocals(new) = HeldLocals(held) \union HeldLocals(NewClosures(o, d, Captures(s)))
    BY DEF HeldLocals
  <2> QED BY <2>1, <2>2, <2>3
<1>14. OneCell(g, p, q, new, n)
  BY <1>9, <1>13 DEF Runs, OneCell
<1>15. ValuesAgree(g, p, q, n, k + 1)
  <2>1. Agreed(g, n, k + 1) = Agreed(g, n, k) \union {s[2]}
    <3>1. DefsBefore(g, n, k + 1) = DefsBefore(g, n, k) \union Writes(s)
      BY <1>1, DefsGrow DEF s
    <3> QED BY <1>4, <3>1 DEF Agreed
  <2>2. Agreed(g, n, k) \subseteq CfgLocals
    BY AgreedHaveOne
  <2>3. \A x \in Agreed(g, n, k) : Same(o, d, x)
    BY DEF Runs, ValuesAgree
  <2> QED BY <1>9, <2>1, <2>2, <2>3 DEF ValuesAgree
<1>16. EndsHere(g, new, n)
  BY <1>10, <1>13 DEF Runs, EndsHere
<1>17. k + 1 \in 1..Len(g.blocks[n].body) + 1
  BY <1>1
<1>18. Runs(g, p, q, new, n, k + 1)
  BY <1>1, <1>6, <1>12, <1>14, <1>15, <1>16, <1>17 DEF Runs
<1> QED BY <1>18 DEF p, q, s

\* A closure that holds the first cell of x writes that cell.
LEMMA ThroughFirst ==
    ASSUME NEW m \in Machines, NEW x \in CfgLocals, NEW v \in Values
    PROVE  /\ Through(m, x, 1, v) \in Machines /\ Through(m, x, 1, v).out = <<m.cells[x][1]>>
           /\ \A y \in CfgLocals : /\ Len(Through(m, x, 1, v).cells[y]) = Len(m.cells[y])
                                /\ Through(m, x, 1, v).cells[y][1] = IF y = x THEN v ELSE m.cells[y][1]
<1> DEFINE w == [m.cells[x] EXCEPT ![1] = v]
           c == [m.cells EXCEPT ![x] = w]
<1>1. m.cells \in [CfgLocals -> CellsOfLocal]
  BY DEF Machines
<1>2. m.cells[x] \in Seq(Values) /\ Len(m.cells[x]) \in Nat /\ Len(m.cells[x]) >= 1 /\ m.cells[x][1] \in Values
  BY HeldIsValue DEF CellsOfLocal
<1>3. w \in [1..Len(m.cells[x]) -> Values] /\ w[1] = v
  BY <1>2
<1>4. w \in Seq(Values) /\ Len(w) = Len(m.cells[x])
  BY <1>2, <1>3
<1>5. w \in CellsOfLocal
  BY <1>2, <1>4 DEF CellsOfLocal
<1> HIDE DEF w
<1>6. c \in [CfgLocals -> CellsOfLocal] /\ \A y \in CfgLocals : c[y] = IF y = x THEN w ELSE m.cells[y]
  BY <1>1, <1>5
<1>7. Through(m, x, 1, v) = [cells |-> c, out |-> <<m.cells[x][1]>>]
  BY DEF Through, w
<1>8. <<m.cells[x][1]>> \in Seq(Values)
  BY <1>2
<1> HIDE DEF c
<1>9. Through(m, x, 1, v) \in Machines
  <2>1. \A cs \in [CfgLocals -> CellsOfLocal], z \in Seq(Values) : [cells |-> cs, out |-> z] \in Machines
    BY DEF Machines
  <2> QED BY <1>6, <1>7, <1>8, <2>1
<1> QED BY <1>3, <1>4, <1>6, <1>7, <1>9

\* After a call the values that agreed agree.
LEMMA CallAgreed ==
    ASSUME NEW g, NEW o, NEW d, NEW held, NEW n, NEW k, Runs(g, o, d, held, n, k),
           k <= Len(g.blocks[n].body), g.blocks[n].body[k][1] = "call"
    PROVE  /\ g.blocks[n].body[k][2] \in Values
           /\ k + 1 \in 1..Len(g.blocks[n].body) + 1
           /\ Agreed(g, n, k + 1) = Agreed(g, n, k)
<1>1. g \in Functions /\ n \in Nodes(g) /\ k \in 1..Len(g.blocks[n].body)
      /\ Len(g.blocks[n].body) \in Nat /\ k \in DOMAIN g.blocks[n].body
  BY ReachableLeads, BlockTypes, LenProperties DEF Runs
<1>2. g.blocks[n].body[k] \in AllStatements
  BY <1>1, StatementTypes
<1>3. g.blocks[n].body[k][2] \in Values /\ Writes(g.blocks[n].body[k]) = {}
  BY <1>2 DEF AllStatements, Assignments, Writes
<1>4. DefsBefore(g, n, k + 1) = DefsBefore(g, n, k)
  <2>1. DefsBefore(g, n, k + 1) = DefsBefore(g, n, k) \union Writes(g.blocks[n].body[k])
    BY <1>1, DefsGrow
  <2> QED BY <1>3, <2>1
<1> QED BY <1>1, <1>3, <1>4 DEF Agreed

LEMMA CallRuns ==
    ASSUME NEW g, NEW o, NEW d, NEW held, NEW n, NEW k, Runs(g, o, d, held, n, k),
           k <= Len(g.blocks[n].body), g.blocks[n].body[k][1] = "call", NEW c \in held
    PROVE  Runs(g, Through(o, c[1], c[2], g.blocks[n].body[k][2]),
                Through(d, c[1], c[3], g.blocks[n].body[k][2]), held, n, k + 1)
<1> DEFINE v == g.blocks[n].body[k][2]
           p == Through(o, c[1], c[2], v)
           q == Through(d, c[1], c[3], v)
<1>1. PICK x \in CfgLocals : c = <<x, 1, 1>> /\ Same(o, d, x)
  BY DEF Runs, ClosuresAgree
<1>2. v \in Values /\ k + 1 \in 1..Len(g.blocks[n].body) + 1 /\ Agreed(g, n, k + 1) = Agreed(g, n, k)
  BY CallAgreed
<1> HIDE DEF v
<1>3. p = Through(o, x, 1, v) /\ q = Through(d, x, 1, v)
  BY <1>1
<1>4. /\ p \in Machines /\ p.out = <<o.cells[x][1]>>
      /\ \A y \in CfgLocals : Len(p.cells[y]) = Len(o.cells[y]) /\ p.cells[y][1] = IF y = x THEN v ELSE o.cells[y][1]
  BY <1>2, <1>3, ThroughFirst DEF Runs
<1>5. /\ q \in Machines /\ q.out = <<d.cells[x][1]>>
      /\ \A y \in CfgLocals : Len(q.cells[y]) = Len(d.cells[y]) /\ q.cells[y][1] = IF y = x THEN v ELSE d.cells[y][1]
  BY <1>2, <1>3, ThroughFirst DEF Runs
<1> HIDE DEF p, q
<1>6. p.out = q.out
  BY <1>1, <1>4, <1>5 DEF Same
<1>7. \A y \in CfgLocals : (One(o, d, y) => One(p, q, y)) /\ (Same(o, d, y) => Same(p, q, y))
  <2>1. \A y \in CfgLocals : One(o, d, y) => One(p, q, y)
    BY <1>4, <1>5 DEF One
  <2>2. \A y \in CfgLocals : Same(o, d, y) => Same(p, q, y)
    BY <1>4, <1>5 DEF Same
  <2> QED BY <2>1, <2>2
<1>8. Agreed(g, n, k) \subseteq CfgLocals
  BY AgreedHaveOne
<1>9. ClosuresAgree(g, p, q, held)
  BY <1>7 DEF Runs, ClosuresAgree
<1>10. OneCell(g, p, q, held, n)
  BY <1>7 DEF Runs, OneCell
<1>11. ValuesAgree(g, p, q, n, k + 1)
  BY <1>2, <1>7, <1>8 DEF Runs, ValuesAgree
<1>12. Runs(g, p, q, held, n, k + 1)
  BY <1>2, <1>4, <1>5, <1>6, <1>9, <1>10, <1>11 DEF Runs
<1> QED BY <1>12 DEF p, q, v

LEMMA NoCallRuns ==
    ASSUME NEW g, NEW o, NEW d, NEW held, NEW n, NEW k, Runs(g, o, d, held, n, k),
           k <= Len(g.blocks[n].body), g.blocks[n].body[k][1] = "call"
    PROVE  Runs(g, [cells |-> o.cells, out |-> <<>>], [cells |-> d.cells, out |-> <<>>], held, n, k + 1)
<1> DEFINE p == [cells |-> o.cells, out |-> <<>>]
           q == [cells |-> d.cells, out |-> <<>>]
<1>1. p.cells = o.cells /\ q.cells = d.cells /\ p.out = q.out
  OBVIOUS
<1>2. p \in Machines /\ q \in Machines
  <2>1. <<>> \in Seq(Values)
    BY EmptySeq
  <2> QED BY <2>1 DEF Runs, Machines
<1>3. k + 1 \in 1..Len(g.blocks[n].body) + 1 /\ Agreed(g, n, k + 1) = Agreed(g, n, k)
  BY CallAgreed
<1> HIDE DEF p, q
<1>4. \A y : (One(o, d, y) <=> One(p, q, y)) /\ (Same(o, d, y) <=> Same(p, q, y))
  BY <1>1 DEF One, Same
<1>5. ClosuresAgree(g, p, q, held) /\ OneCell(g, p, q, held, n) /\ ValuesAgree(g, p, q, n, k + 1)
  BY <1>3, <1>4 DEF Runs, ClosuresAgree, OneCell, ValuesAgree
<1>6. Runs(g, p, q, held, n, k + 1)
  BY <1>1, <1>2, <1>3, <1>5 DEF Runs
<1> QED BY <1>6 DEF p, q

-----------------------------------------------------------------------------
(* Leaving a block. *)

SameEdge(o, d, b) ==
    Chosen(o, b) = Chosen(d, b) /\ \E i \in DOMAIN b.edges : Chosen(o, b) = b.edges[i]

\* Both machines take the same edge.
LEMMA ChosenSame ==
    ASSUME NEW g, NEW o, NEW d, NEW held, NEW n,
           Runs(g, o, d, held, n, Len(g.blocks[n].body) + 1), g.blocks[n].edges # <<>>
    PROVE  SameEdge(o, d, g.blocks[n])
<1> DEFINE b == g.blocks[n]
<1>1. g \in Functions /\ n \in Reachable(g) /\ n \in Nodes(g) /\ Lowers(g, n)
  BY ReachableLeads DEF Runs, Lifts
<1>2. Wanted(o, b) = Wanted(d, b)
  BY <1>1, ExitAgreed, AgreedAreEqual DEF Wanted
<1>3. \E i \in DOMAIN b.edges : b.edges[i].kind = Wanted(o, b)
  <2>1. CASE b.test = "none"
    <3>1. Kinds(g, n) \in {<<>>, <<"unconditional">>}
      BY <1>1, <2>1 DEF Lowers
    <3>2. DOMAIN b.edges # {}
      BY <1>1, BlockTypes
    <3>3. DOMAIN Kinds(g, n) = DOMAIN b.edges /\ \A i \in DOMAIN b.edges : Kinds(g, n)[i] = b.edges[i].kind
      BY DEF Kinds
    <3>4. 1 \in DOMAIN b.edges /\ Kinds(g, n)[1] = "unconditional"
      BY <3>1, <3>2, <3>3
    <3> QED BY <2>1, <3>3, <3>4 DEF Wanted
  <2>2. CASE b.test # "none"
    <3>1. Kinds(g, n) \in {<<"then", "else">>, <<"else", "then">>}
      BY <1>1, <2>2 DEF Lowers
    <3>2. DOMAIN Kinds(g, n) = DOMAIN b.edges /\ \A i \in DOMAIN b.edges : Kinds(g, n)[i] = b.edges[i].kind
      BY DEF Kinds
    <3>3. 1 \in DOMAIN b.edges /\ 2 \in DOMAIN b.edges /\ {b.edges[1].kind, b.edges[2].kind} = {"then", "else"}
      BY <3>1, <3>2
    <3>4. Wanted(o, b) \in {"then", "else"}
      BY <2>2 DEF Wanted
    <3> QED BY <3>3, <3>4
  <2> QED BY <2>1, <2>2
<1> QED BY <1>2, <1>3 DEF Chosen, SameEdge

\* Arguments are assigned to the cells locals have.
LEMMA AssignCells ==
    ASSUME NEW m \in Machines, NEW arguments \in Seq(Assignments)
    PROVE  /\ Assign(m, arguments) \in Machines /\ Assign(m, arguments).out = <<>>
           /\ \A x \in CfgLocals :
                /\ Assigns(arguments, x) = {} => Assign(m, arguments).cells[x] = m.cells[x]
                /\ Assigns(arguments, x) # {} =>
                     LET a == arguments[CHOOSE j \in Assigns(arguments, x) : TRUE]
                     IN Assign(m, arguments).cells[x] = Written(m.cells[x], Eval(m, a[3]))
<1> DEFINE a(x) == arguments[CHOOSE j \in Assigns(arguments, x) : TRUE]
           cell(x) == IF Assigns(arguments, x) = {} THEN m.cells[x] ELSE Written(m.cells[x], Eval(m, a(x)[3]))
<1>1. ASSUME NEW x \in CfgLocals PROVE cell(x) \in CellsOfLocal
  <2>1. m.cells[x] \in CellsOfLocal
    BY HeldIsValue
  <2>2. ASSUME Assigns(arguments, x) # {} PROVE Eval(m, a(x)[3]) \in Values
    <3>1. (CHOOSE j \in Assigns(arguments, x) : TRUE) \in DOMAIN arguments
      BY <2>2 DEF Assigns
    <3>2. a(x) \in Assignments
      BY <3>1, ElementOfSeq
    <3> QED BY <3>2, EvalIsValue DEF Assignments
  <2> QED BY <2>1, <2>2, WrittenCells
<1>2. Assign(m, arguments) = [cells |-> [x \in CfgLocals |-> cell(x)], out |-> <<>>]
  BY DEF Assign
<1>3. <<>> \in Seq(Values)
  BY EmptySeq
<1>4. Assign(m, arguments) \in Machines
  <2> HIDE DEF cell
  <2> QED BY <1>1, <1>2, <1>3 DEF Machines
<1> QED BY <1>2, <1>4

StillAgree(o, d, p, q) ==
    /\ p \in Machines /\ q \in Machines /\ p.out = <<>> /\ q.out = <<>>
    /\ \A x \in CfgLocals : (One(o, d, x) => One(p, q, x)) /\ (Same(o, d, x) => Same(p, q, x))

\* Arguments give locals that agree the same values, and no local another cell.
LEMMA AssignAgrees ==
    ASSUME NEW g, NEW o, NEW d, NEW held, NEW n,
           Runs(g, o, d, held, n, Len(g.blocks[n].body) + 1), NEW i \in DOMAIN g.blocks[n].edges
    PROVE  StillAgree(o, d, Assign(o, g.blocks[n].edges[i].arguments), Assign(d, g.blocks[n].edges[i].arguments))
<1> DEFINE arguments == g.blocks[n].edges[i].arguments
           p == Assign(o, arguments)
           q == Assign(d, arguments)
<1>1. g \in Functions /\ n \in Reachable(g) /\ n \in Nodes(g) /\ o \in Machines /\ d \in Machines
  BY ReachableLeads DEF Runs
<1>2. arguments \in Seq(Assignments)
  BY <1>1, BlockTypes
<1>3. p \in Machines /\ q \in Machines /\ p.out = <<>> /\ q.out = <<>>
  BY <1>1, <1>2, AssignCells
<1>4. ASSUME NEW x \in CfgLocals, Assigns(arguments, x) = {}
      PROVE  p.cells[x] = o.cells[x] /\ q.cells[x] = d.cells[x]
  BY <1>1, <1>2, <1>4, AssignCells
<1>5. ASSUME NEW x \in CfgLocals, Assigns(arguments, x) # {}
      PROVE  One(o, d, x) /\ One(p, q, x) /\ Same(p, q, x)
  <2> DEFINE j == CHOOSE j \in Assigns(arguments, x) : TRUE
             a == arguments[j]
  <2>1. j \in DOMAIN arguments /\ a[2] = x
    BY <1>5 DEF Assigns
  <2>2. a \in Assignments /\ a \in Arguments(g, n)
    <3> HIDE DEF j
    <3>1. a \in Arguments(g, n)
      BY <2>1 DEF Arguments
    <3> HIDE DEF arguments
    <3> QED BY <1>2, <2>1, <3>1, ElementOfSeq
  <2>3. p.cells[x] = Written(o.cells[x], Eval(o, a[3])) /\ q.cells[x] = Written(d.cells[x], Eval(d, a[3]))
    BY <1>1, <1>2, <1>5, AssignCells
  <2> HIDE DEF j, a, p, q
  <2>4. Writes(a) = {x} /\ Reads(a) = ReadsOf(a[3]) /\ a[3] \in Expressions
    BY <2>1, <2>2 DEF Assignments, Writes, Reads, a
  <2>5. x \in Touches(g, n)
    BY <2>2, <2>4 DEF Touches, EdgeValues
  <2>6. One(o, d, x)
    BY <2>5 DEF Runs, OneCell
  <2>7. Eval(o, a[3]) = Eval(d, a[3]) /\ Eval(o, a[3]) \in Values
    BY <1>1, <2>2, <2>4, ExitAgreed, AgreedAreEqual, EvalIsValue
  <2>8. o.cells[x] \in CellsOfLocal /\ d.cells[x] \in CellsOfLocal
    BY <1>1, HeldIsValue
  <2> QED BY <2>3, <2>6, <2>7, <2>8, WrittenCells DEF One, Same
<1> HIDE DEF p, q
<1>6. \A x \in CfgLocals : (One(o, d, x) => One(p, q, x)) /\ (Same(o, d, x) => Same(p, q, x))
  BY <1>4, <1>5 DEF One, Same
<1> QED BY <1>3, <1>6 DEF StillAgree, p, q

\* Closing cells leaves the first cell of every local as it is, and all cells
\* of a local that is not closed.
LEMMA CloseCells ==
    ASSUME NEW m \in Machines, NEW held, NEW xs
    PROVE  /\ Close(m, held, xs) \in Machines /\ Close(m, held, xs).out = m.out
           /\ \A x \in CfgLocals :
                /\ Close(m, held, xs).cells[x][1] = m.cells[x][1]
                /\ x \notin xs \/ (\A i : <<x, i>> \notin held) => Close(m, held, xs).cells[x] = m.cells[x]
<1> DEFINE cell(x) == IF x \in xs /\ <<x, Len(m.cells[x])>> \in held
                      THEN Append(m.cells[x], Held(m, x)) ELSE m.cells[x]
<1>1. \A x \in CfgLocals : cell(x) \in CellsOfLocal /\ cell(x)[1] = m.cells[x][1]
  BY HeldIsValue, AppendedCells
<1>2. Close(m, held, xs) = [cells |-> [x \in CfgLocals |-> cell(x)], out |-> m.out]
  BY DEF Close
<1>3. \A x \in CfgLocals : x \notin xs \/ (\A i : <<x, i>> \notin held) => cell(x) = m.cells[x]
  OBVIOUS
<1> HIDE DEF cell
<1>4. Close(m, held, xs) \in Machines
  <2>1. m.out \in Seq(Values)
    BY DEF Machines
  <2> QED BY <1>1, <1>2, <2>1 DEF Machines
<1> QED BY <1>1, <1>2, <1>3, <1>4

\* A new iteration leaves a first cell that a closure holds as it is, all
\* cells of a local that is not scoped, and the number of cells of a local
\* that no closure holds.
LEMMA IterateCells ==
    ASSUME NEW m \in Machines, NEW held
    PROVE  /\ Iterate(m, held) \in Machines /\ Iterate(m, held).out = m.out
           /\ \A x \in CfgLocals :
                /\ <<x, 1>> \in held => Iterate(m, held).cells[x][1] = m.cells[x][1]
                /\ x \notin Scoped => Iterate(m, held).cells[x] = m.cells[x]
                /\ (\A i : <<x, i>> \notin held) => Len(Iterate(m, held).cells[x]) = Len(m.cells[x])
<1> DEFINE cell(x) == IF x \notin Scoped THEN m.cells[x]
                      ELSE IF <<x, Len(m.cells[x])>> \in held THEN Append(m.cells[x], Nil)
                      ELSE Written(m.cells[x], Nil)
<1>1. ASSUME NEW x \in CfgLocals
      PROVE  /\ cell(x) \in CellsOfLocal
             /\ <<x, 1>> \in held => cell(x)[1] = m.cells[x][1]
             /\ x \notin Scoped => cell(x) = m.cells[x]
             /\ (\A i : <<x, i>> \notin held) => Len(cell(x)) = Len(m.cells[x])
  <2>1. m.cells[x] \in CellsOfLocal /\ Nil \in Values
    BY HeldIsValue, DispatcherAssumption
  <2>2. /\ Append(m.cells[x], Nil) \in CellsOfLocal /\ Append(m.cells[x], Nil)[1] = m.cells[x][1]
        /\ Written(m.cells[x], Nil) \in CellsOfLocal
        /\ Len(Written(m.cells[x], Nil)) = Len(m.cells[x])
        /\ Len(m.cells[x]) # 1 => Written(m.cells[x], Nil)[1] = m.cells[x][1]
    BY <2>1, AppendedCells, WrittenCells
  <2> QED BY <2>1, <2>2
<1>2. Iterate(m, held) = [cells |-> [x \in CfgLocals |-> cell(x)], out |-> m.out]
  BY DEF Iterate
<1> HIDE DEF cell
<1>3. Iterate(m, held) \in Machines
  <2>1. m.out \in Seq(Values)
    BY DEF Machines
  <2>2. [x \in CfgLocals |-> cell(x)] \in [CfgLocals -> CellsOfLocal]
    BY <1>1
  <2> QED BY <1>2, <2>1, <2>2 DEF Machines
<1> QED BY <1>1, <1>2, <1>3

-----------------------------------------------------------------------------
(* The invariant. *)

DispatcherIInv ==
    /\ graph \in Functions
    /\ status \in {"new", "lifted", "refused", "ended"}
    /\ status = "new" =>
         /\ node = graph.entry /\ position = 1 /\ captured = {} /\ dispatched = original
         /\ \E v \in Values : original = Fresh(v)
    /\ status \in {"lifted", "ended"} =>
         /\ persistent = Persistent(graph) /\ node = current
         /\ Runs(graph, original, dispatched, captured, node, position)

\* When the function starts every local has one cell, in both machines.
LEMMA FreshRuns ==
    ASSUME graph \in Functions, Lifts(graph), NEW v \in Values
    PROVE  Runs(graph, Fresh(v), Fresh(v), {}, graph.entry, 1)
<1> DEFINE m == Fresh(v)
<1>1. graph.entry \in Reachable(graph) /\ graph.entry \in Nodes(graph)
      /\ graph.blocks[graph.entry].body \in Seq(AllStatements)
  BY ReachableLeads, BlockTypes
<1>2. 1 \in 1..Len(graph.blocks[graph.entry].body) + 1
  <2>1. Len(graph.blocks[graph.entry].body) \in Nat
    BY <1>1, LenProperties
  <2> QED BY <2>1
<1>3. \A w \in Values : <<w>> \in CellsOfLocal /\ Len(<<w>>) = 1
  BY DEF CellsOfLocal
<1>4. [x \in CfgLocals |-> IF x \in graph.ignored THEN <<v>> ELSE <<Nil>>] \in [CfgLocals -> CellsOfLocal]
  BY <1>3, DispatcherAssumption
<1>5. m \in Machines /\ \A x \in CfgLocals : One(m, m, x)
  <2>1. <<>> \in Seq(Values)
    BY EmptySeq
  <2>2. m \in Machines
    BY <1>4, <2>1 DEF Fresh, Machines
  <2>3. \A x \in CfgLocals : Len(m.cells[x]) = 1
    BY <1>3, DispatcherAssumption DEF Fresh
  <2> QED BY <2>2, <2>3 DEF One
<1> HIDE DEF m
<1>6. ClosuresAgree(graph, m, m, {}) /\ EndsHere(graph, {}, graph.entry)
  BY DEF ClosuresAgree, EndsHere, HeldLocals
<1>7. OneCell(graph, m, m, {}, graph.entry) /\ ValuesAgree(graph, m, m, graph.entry, 1)
  BY <1>5 DEF OneCell, ValuesAgree, Same
<1> QED BY <1>1, <1>2, <1>5, <1>6, <1>7 DEF Runs, m

\* Both leave a block on the same edge, and what the next block and the
\* closures need is the same.
LEMMA LeaveRuns ==
    ASSUME DispatcherIInv, Leave
    PROVE  /\ node' = current'
           /\ Runs(graph, original', dispatched', captured', node', 1)
<1> DEFINE b == graph.blocks[node]
           e == Chosen(original, b)
           ys == UNION {Captures(e.arguments[j]) : j \in DOMAIN e.arguments}
           p == Assign(original, e.arguments)
           q == Assign(dispatched, e.arguments)
           new == captured \union NewClosures(original, dispatched, ys)
<1>1. /\ persistent = Persistent(graph) /\ node = current
      /\ Runs(graph, original, dispatched, captured, node, position)
      /\ position > Len(b.body) /\ b.edges # <<>>
  BY DEF DispatcherIInv, Leave, AtEnd
<1>2. /\ graph \in Functions /\ Lifts(graph) /\ node \in Reachable(graph) /\ node \in Nodes(graph)
      /\ graph.ignored \subseteq CfgLocals /\ Len(b.body) \in Nat
  BY <1>1, ReachableLeads, BlockTypes, LenProperties DEF Runs
<1>3. Runs(graph, original, dispatched, captured, node, Len(b.body) + 1)
  <2>1. position \in 1..Len(b.body) + 1
    BY <1>1 DEF Runs
  <2>2. position = Len(b.body) + 1
    BY <1>1, <1>2, <2>1
  <2> QED BY <1>1, <2>2
<1>4. Chosen(dispatched, b) = e /\ \E i \in DOMAIN b.edges : e = b.edges[i]
  <2>1. SameEdge(original, dispatched, b)
    BY <1>1, <1>3, ChosenSame
  <2> QED BY <2>1 DEF SameEdge
<1>5. PICK i \in DOMAIN b.edges : e = b.edges[i]
  BY <1>4
<1>6. /\ node' = e.to /\ current' = e.to /\ captured' = new
      /\ \E xs \in SUBSET (CfgLocals \ graph.ignored) : original' = Close(p, InOriginal(captured'), xs)
      /\ dispatched' = Iterate(q, InDispatched(captured'))
  BY <1>1, <1>4 DEF Leave, Transition, New, NewClosures
<1>7. e.to \in Targets(graph, node) /\ e.to \in Nodes(graph) /\ e.to \in Reachable(graph)
  BY <1>2, <1>5, ReachableLeads DEF Targets, Leads
<1>8. /\ p \in Machines /\ q \in Machines /\ p.out = <<>> /\ q.out = <<>>
      /\ \A x \in CfgLocals : One(original, dispatched, x) => One(p, q, x)
      /\ \A x \in CfgLocals : Same(original, dispatched, x) => Same(p, q, x)
  <2>1. StillAgree(original, dispatched, Assign(original, b.edges[i].arguments),
                   Assign(dispatched, b.edges[i].arguments))
    BY <1>3, AssignAgrees
  <2>2. StillAgree(original, dispatched, p, q)
    BY <1>5, <2>1
  <2> HIDE DEF p, q
  <2> QED BY <2>2 DEF StillAgree
<1>9. \A y \in ys : y \in graph.ignored
  <2> SUFFICES ASSUME NEW j \in DOMAIN e.arguments, NEW y \in Captures(e.arguments[j])
               PROVE  y \in graph.ignored
    OBVIOUS
  <2>1. e.arguments[j] \in Arguments(graph, node)
    BY <1>5 DEF Arguments
  <2>2. e.arguments[j] \in AllStatements
    BY <1>2, <2>1, ArgumentTypes DEF AllStatements
  <2> HIDE DEF e
  <2>3. y \in CapturedRef(graph, node) /\ y \in EdgeValues(graph, node)
    BY <2>1, <2>2, LocalsOf DEF CapturedRef, EdgeValues
  <2> QED BY <1>2, <2>3, CapturesEndHere
<1> HIDE DEF ys
<1>10. /\ NewClosures(original, dispatched, ys) = {<<y, 1, 1>> : y \in ys}
       /\ \A y \in ys : y \in CfgLocals /\ y \notin Persistent(graph) /\ Same(original, dispatched, y)
  <2>1. \A y \in ys : y \in CfgLocals /\ One(original, dispatched, y) /\ Same(original, dispatched, y)
                      /\ y \notin Persistent(graph)
    BY <1>2, <1>3, <1>9 DEF Runs, OneCell, ValuesAgree, Agreed, Persistent
  <2> QED BY <2>1 DEF NewClosures, One
<1> HIDE DEF e, p, q
<1>11. ASSUME NEW c \in new
       PROVE  \E x \in CfgLocals : c = <<x, 1, 1>> /\ x \notin Persistent(graph) /\ Same(p, q, x)
  <2>1. CASE c \in captured
    BY <1>3, <1>8, <2>1 DEF Runs, ClosuresAgree
  <2>2. CASE c \in NewClosures(original, dispatched, ys)
    BY <1>8, <1>10, <2>2
  <2> QED BY <2>1, <2>2
<1>12. /\ HeldLocals(captured) \subseteq HeldLocals(new)
       /\ HeldLocals(new) \subseteq HeldLocals(captured) \union graph.ignored
  <2>1. \A c \in NewClosures(original, dispatched, ys) : c[1] \in graph.ignored
    BY <1>9, <1>10
  <2> QED BY <2>1 DEF HeldLocals
<1> HIDE DEF new
<1>13. PICK xs \in SUBSET (CfgLocals \ graph.ignored) : original' = Close(p, InOriginal(new), xs)
  BY <1>6
<1>14. /\ original' \in Machines /\ original'.out = <<>>
       /\ \A x \in CfgLocals :
            /\ original'.cells[x][1] = p.cells[x][1]
            /\ x \notin xs \/ (\A i1 : <<x, i1>> \notin InOriginal(new)) => original'.cells[x] = p.cells[x]
  BY <1>8, <1>13, CloseCells
<1>15. dispatched' = Iterate(q, InDispatched(new))
  BY <1>6
<1>16. /\ dispatched' \in Machines /\ dispatched'.out = <<>>
       /\ \A x \in CfgLocals :
            /\ <<x, 1>> \in InDispatched(new) => dispatched'.cells[x][1] = q.cells[x][1]
            /\ x \notin Scoped => dispatched'.cells[x] = q.cells[x]
            /\ (\A i1 : <<x, i1>> \notin InDispatched(new)) => Len(dispatched'.cells[x]) = Len(q.cells[x])
  BY <1>8, <1>15, IterateCells
<1>17. ClosuresAgree(graph, original', dispatched', new)
  <2> SUFFICES ASSUME NEW c \in new
               PROVE  \E x \in CfgLocals :
                        c = <<x, 1, 1>> /\ x \notin Persistent(graph) /\ Same(original', dispatched', x)
    BY DEF ClosuresAgree
  <2>1. PICK x \in CfgLocals : c = <<x, 1, 1>> /\ x \notin Persistent(graph) /\ Same(p, q, x)
    BY <1>11
  <2>2. <<x, 1>> \in InDispatched(new)
    BY <2>1 DEF InDispatched
  <2>3. Same(original', dispatched', x)
    BY <1>14, <1>16, <2>1, <2>2 DEF Same
  <2> QED BY <2>1, <2>3
<1>18. OneCell(graph, original', dispatched', new, e.to)
  <2> SUFFICES ASSUME NEW x \in CfgLocals,
                      x \in graph.ignored \/ x \in Touches(graph, e.to) \/ x \notin HeldLocals(new)
               PROVE  One(original', dispatched', x)
    BY DEF OneCell
  <2>1. CASE x \in graph.ignored
    <3>1. One(p, q, x)
      BY <1>3, <1>8, <2>1 DEF Runs, OneCell
    <3>2. x \notin xs /\ x \notin Scoped
      BY <2>1 DEF Scoped
    <3>3. original'.cells[x] = p.cells[x] /\ dispatched'.cells[x] = q.cells[x]
      BY <1>14, <1>16, <3>2
    <3> QED BY <3>1, <3>3 DEF One
  <2>2. CASE x \notin HeldLocals(new)
    <3>1. One(p, q, x)
      BY <1>3, <1>8, <1>12, <2>2 DEF Runs, OneCell
    <3>2. (\A i1 : <<x, i1>> \notin InOriginal(new)) /\ (\A i1 : <<x, i1>> \notin InDispatched(new))
      BY <2>2 DEF InOriginal, InDispatched, HeldLocals
    <3>3. original'.cells[x] = p.cells[x] /\ Len(dispatched'.cells[x]) = Len(q.cells[x])
      BY <1>14, <1>16, <3>2
    <3> QED BY <3>1, <3>3 DEF One
  <2>3. CASE x \in Touches(graph, e.to) /\ x \notin graph.ignored /\ x \in HeldLocals(new)
    <3>1. x \in HeldLocals(captured) \ graph.ignored /\ e.to \in Ahead(graph, node)
      BY <1>2, <1>7, <1>12, <2>3, AheadLeads
    <3> QED BY <1>3, <2>3, <3>1 DEF Runs, EndsHere
  <2> QED BY <2>1, <2>2, <2>3
<1>19. ValuesAgree(graph, original', dispatched', e.to, 1)
  <2>1. Agreed(graph, e.to, 1) = Persistent(graph) \union graph.ignored
    <3>1. 1..1 - 1 = {}
      OBVIOUS
    <3>2. DefsBefore(graph, e.to, 1) = {}
      BY <3>1 DEF DefsBefore
    <3> QED BY <3>2 DEF Agreed
  <2> SUFFICES ASSUME NEW x \in Persistent(graph) \union graph.ignored
               PROVE  Same(original', dispatched', x)
    BY <2>1 DEF ValuesAgree
  <2>2. x \in Agreed(graph, node, Len(b.body) + 1)
    BY DEF Agreed
  <2>3. x \in CfgLocals /\ Same(p, q, x)
    BY <1>3, <1>8, <2>2, AgreedHaveOne
  <2>4. x \notin Scoped
    BY <1>1 DEF Scoped
  <2> QED BY <1>14, <1>16, <2>3, <2>4 DEF Same
<1>20. EndsHere(graph, new, e.to)
  <2>1. Ahead(graph, e.to) \subseteq Ahead(graph, node)
    BY <1>2, <1>7, AheadLeads
  <2> QED BY <1>3, <1>12, <2>1 DEF Runs, EndsHere
<1>21. 1 \in 1..Len(graph.blocks[e.to].body) + 1
  <2>1. Len(graph.blocks[e.to].body) \in Nat
    BY <1>2, <1>7, BlockTypes, LenProperties
  <2> QED BY <2>1
<1>22. Runs(graph, original', dispatched', new, e.to, 1)
  BY <1>2, <1>7, <1>14, <1>16, <1>17, <1>18, <1>19, <1>20, <1>21 DEF Runs
<1> QED BY <1>6, <1>22

LEMMA DispatcherInitIInv == DispatcherInit => DispatcherIInv
BY DEF DispatcherInit, DispatcherIInv

\* Every step keeps the invariant.
LEMMA DispatcherNextIInv ==
    ASSUME DispatcherIInv, [DispatcherNext]_dispatcherVars
    PROVE  DispatcherIInv'
<1>1. CASE Lift
  <2>1. /\ graph \in Functions /\ graph' = graph /\ node' = graph.entry /\ current' = graph.entry /\ position' = 1
        /\ captured' = {} /\ dispatched' = original' /\ persistent' = Persistent(graph)
        /\ status' = IF Lifts(graph) THEN "lifted" ELSE "refused"
    BY <1>1 DEF Lift, DispatcherIInv
  <2>2. PICK v \in Values : original' = Fresh(v)
    BY <1>1 DEF Lift, DispatcherIInv
  <2>3. Lifts(graph) => Runs(graph', original', dispatched', captured', node', position')
    BY <2>1, <2>2, FreshRuns
  <2> QED BY <2>1, <2>3 DEF DispatcherIInv
<1>2. CASE Statement
  <2> DEFINE s == graph.blocks[node].body[position]
  <2>1. /\ status = "lifted" /\ persistent = Persistent(graph) /\ node = current /\ graph \in Functions
        /\ Runs(graph, original, dispatched, captured, node, position)
        /\ position <= Len(graph.blocks[node].body) /\ s[1] \in {"set", "use"}
    BY <1>2 DEF DispatcherIInv, Statement, At
  <2>2. /\ original' = Execute(original, s) /\ dispatched' = Execute(dispatched, s)
        /\ captured' = captured \union NewClosures(original, dispatched, Captures(s))
        /\ position' = position + 1
        /\ UNCHANGED <<graph, status, persistent, node, current>>
    BY <1>2 DEF Statement, New, NewClosures
  <2>3. Runs(graph, Execute(original, s), Execute(dispatched, s),
             captured \union NewClosures(original, dispatched, Captures(s)), node, position + 1)
    BY <2>1, UseRuns, SetRuns
  <2>4. Runs(graph', original', dispatched', captured', node', position')
    BY <2>2, <2>3
  <2> QED BY <2>1, <2>2, <2>4 DEF DispatcherIInv
<1>3. CASE Call
  <2> DEFINE v == graph.blocks[node].body[position][2]
  <2>1. /\ status = "lifted" /\ persistent = Persistent(graph) /\ node = current /\ graph \in Functions
        /\ Runs(graph, original, dispatched, captured, node, position)
        /\ position <= Len(graph.blocks[node].body) /\ graph.blocks[node].body[position][1] = "call"
    BY <1>3 DEF DispatcherIInv, Call, At
  <2>2. PICK c \in captured :
          original' = Through(original, c[1], c[2], v) /\ dispatched' = Through(dispatched, c[1], c[3], v)
    BY <1>3 DEF Call
  <2>3. position' = position + 1 /\ UNCHANGED <<graph, status, persistent, node, current, captured>>
    BY <1>3 DEF Call
  <2>4. Runs(graph, Through(original, c[1], c[2], v), Through(dispatched, c[1], c[3], v),
             captured, node, position + 1)
    BY <2>1, CallRuns
  <2>5. Runs(graph', original', dispatched', captured', node', position')
    BY <2>2, <2>3, <2>4
  <2> QED BY <2>1, <2>3, <2>5 DEF DispatcherIInv
<1>4. CASE NoCall
  <2>1. /\ status = "lifted" /\ persistent = Persistent(graph) /\ node = current /\ graph \in Functions
        /\ Runs(graph, original, dispatched, captured, node, position)
        /\ position <= Len(graph.blocks[node].body) /\ graph.blocks[node].body[position][1] = "call"
    BY <1>4 DEF DispatcherIInv, NoCall, At
  <2>2. /\ original' = [cells |-> original.cells, out |-> <<>>]
        /\ dispatched' = [cells |-> dispatched.cells, out |-> <<>>]
        /\ position' = position + 1 /\ UNCHANGED <<graph, status, persistent, node, current, captured>>
    BY <1>4 DEF NoCall
  <2>3. Runs(graph, [cells |-> original.cells, out |-> <<>>], [cells |-> dispatched.cells, out |-> <<>>],
             captured, node, position + 1)
    BY <2>1, NoCallRuns
  <2>4. Runs(graph', original', dispatched', captured', node', position')
    BY <2>2, <2>3
  <2> QED BY <2>1, <2>2, <2>4 DEF DispatcherIInv
<1>5. CASE Leave
  <2>1. node' = current' /\ Runs(graph, original', dispatched', captured', node', 1)
    BY <1>5, LeaveRuns
  <2>2. /\ graph \in Functions /\ status = "lifted" /\ persistent = Persistent(graph)
        /\ position' = 1 /\ UNCHANGED <<graph, status, persistent>>
    BY <1>5 DEF Leave, AtEnd, DispatcherIInv
  <2> QED BY <2>1, <2>2 DEF DispatcherIInv
<1>6. CASE End
  BY <1>6 DEF End, AtEnd, DispatcherIInv
<1>7. CASE UNCHANGED dispatcherVars
  BY <1>7 DEF dispatcherVars, DispatcherIInv, Fresh
<1> QED BY <1>1, <1>2, <1>3, <1>4, <1>5, <1>6, <1>7 DEF DispatcherNext

\* What the invariant says of the values, the outputs and the cells is what
\* DispatcherBehaviour says.
LEMMA Behaves == DispatcherIInv => DispatcherBehaviour
<1> SUFFICES ASSUME DispatcherIInv PROVE DispatcherBehaviour
  OBVIOUS
<1>1. SameBehaviour
  BY DEF SameBehaviour, DispatcherIInv, Runs
<1>2. LiveValuesAgree
  <2> SUFFICES ASSUME status = "lifted", NEW x \in LiveIn(graph, node)
               PROVE  Held(original, x) = Held(dispatched, x)
    BY DEF LiveValuesAgree
  <2>1. Runs(graph, original, dispatched, captured, node, position)
    BY DEF DispatcherIInv
  <2>2. x \in Agreed(graph, node, position)
    BY <2>1, LiveIsKept DEF Runs, Agreed
  <2> QED BY <2>1, <2>2, AgreedAreEqual
<1>3. DroppedCellsAreDead
  <2> SUFFICES ASSUME status = "lifted", NEW c \in captured, c[3] < Len(dispatched.cells[c[1]])
               PROVE  \A n \in {node} \union Ahead(graph, node) : c[1] \notin Touches(graph, n)
    BY DEF DroppedCellsAreDead
  <2>1. Runs(graph, original, dispatched, captured, node, position)
    BY DEF DispatcherIInv
  <2>2. PICK x \in CfgLocals : c = <<x, 1, 1>>
    BY <2>1 DEF Runs, ClosuresAgree
  <2>3. ~One(original, dispatched, x)
    <3>1. c[3] = 1 /\ c[1] = x
      BY <2>2
    <3>2. 1 < Len(dispatched.cells[x])
      BY <3>1
    <3>3. ASSUME One(original, dispatched, x) PROVE FALSE
      <4>1. Len(dispatched.cells[x]) = 1
        BY <3>3 DEF One
      <4>2. 1 < 1
        BY <3>2, <4>1
      <4> QED BY <4>2
    <3> QED BY <3>3
  <2>4. x \notin graph.ignored /\ x \notin Touches(graph, node) /\ x \in HeldLocals(captured)
    BY <2>1, <2>2, <2>3 DEF Runs, OneCell, HeldLocals
  <2>5. \A n \in Ahead(graph, node) : x \notin Touches(graph, n)
    BY <2>1, <2>4 DEF Runs, EndsHere
  <2> QED BY <2>2, <2>4, <2>5
<1> QED BY <1>1, <1>2, <1>3 DEF DispatcherBehaviour

\* The dispatcher of any function that is lowered shows what the function
\* shows, however the function's cells are closed.
THEOREM DispatcherKeepsBehaviour == DispatcherSpec => []DispatcherBehaviour
<1>1. DispatcherInit => DispatcherIInv
  BY DispatcherInitIInv
<1>2. DispatcherIInv /\ [DispatcherNext]_dispatcherVars => DispatcherIInv'
  BY DispatcherNextIInv
<1>3. DispatcherIInv => DispatcherBehaviour
  BY Behaves
<1> QED BY <1>1, <1>2, <1>3, PTL DEF DispatcherSpec
=============================================================================
