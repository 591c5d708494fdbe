------------------------- MODULE CyclicStatesProofs -------------------------
(***************************************************************************)
(* cyclic_states marks exactly the states on cycles, for any number of     *)
(* states, any edges between them and any order of the pushed targets.     *)
(*                                                                         *)
(* The first pass keeps, for every state it has left, one of two facts:    *)
(* the state shares a cycle with one that is still open, or everything it  *)
(* leads to was left, each no later than some state of its own component   *)
(* (Settled).  At the end nothing is open, so the last state of a          *)
(* component to be left comes after all that the component leads to        *)
(* (Ranked).  The second pass takes the states in the opposite order and   *)
(* therefore meets, when it walks back from the first of a component, that *)
(* component and components that are complete.                             *)
(***************************************************************************)
EXTENDS CyclicStates, SequenceTheorems, FunctionTheorems, FiniteSetTheorems, TLAPS

-----------------------------------------------------------------------------
(* Reachability along edges E. *)

Edges == [States -> SUBSET States]
Reaches(E, s, t) == s = t \/ t \in Onward(E, s)
Same(E, s, t) == Reaches(E, s, t) /\ Reaches(E, t, s)

LEMMA OnwardType ==
    ASSUME NEW E, NEW s
    PROVE  Onward(E, s) \subseteq States
  BY DEF Onward

\* A target is reached.
LEMMA OneStep ==
    ASSUME NEW E \in Edges, NEW s \in States, NEW t \in E[s]
    PROVE  t \in Onward(E, s)
  BY DEF Onward, Edges

\* What a reached state leads to is reached.
LEMMA OnwardTransitive ==
    ASSUME NEW E \in Edges, NEW s \in States, NEW t \in Onward(E, s), NEW u \in Onward(E, t)
    PROVE  u \in Onward(E, s)
  <1> SUFFICES ASSUME NEW C \in SUBSET States, E[s] \subseteq C, Closed(E, C)
               PROVE  u \in C
    BY OnwardType DEF Onward
  <1>1. t \in C
    BY DEF Onward
  <1>2. E[t] \subseteq C
    BY <1>1 DEF Closed
  <1> QED BY <1>2 DEF Onward

\* A set that holds the targets of s and is closed holds all that s reaches.
LEMMA OnwardWithin ==
    ASSUME NEW E \in Edges, NEW s \in States, NEW C \in SUBSET States, E[s] \subseteq C, Closed(E, C)
    PROVE  Onward(E, s) \subseteq C
  BY DEF Onward

\* A path has a first step.
LEMMA FirstStep ==
    ASSUME NEW E \in Edges, NEW s \in States, NEW t \in Onward(E, s)
    PROVE  t \in E[s] \/ \E y \in E[s] : t \in Onward(E, y)
  <1> DEFINE C == E[s] \cup {u \in States : \E y \in E[s] : u \in Onward(E, y)}
  <1>1. C \in SUBSET States
    BY DEF Edges
  <1>2. Closed(E, C)
    <2> SUFFICES ASSUME NEW u \in C, NEW v \in E[u]
                 PROVE  v \in C
      BY DEF Closed
    <2>1. u \in States /\ v \in States
      BY <1>1 DEF Edges
    <2>2. CASE u \in E[s]
      BY <2>1, <2>2, OneStep
    <2>3. CASE \E y \in E[s] : u \in Onward(E, y)
      <3>1. PICK y \in E[s] : u \in Onward(E, y)
        BY <2>3
      <3>2. y \in States
        BY DEF Edges
      <3>3. v \in Onward(E, u)
        BY <2>1, OneStep
      <3>4. v \in Onward(E, y)
        BY <3>1, <3>2, <3>3, OnwardTransitive
      <3> QED BY <2>1, <3>4
    <2> QED BY <2>2, <2>3
  <1>3. t \in C
    BY <1>1, <1>2, OnwardWithin
  <1> QED BY <1>3

LEMMA ReachesTransitive ==
    ASSUME NEW E \in Edges, NEW s \in States, NEW t \in States, NEW u \in States,
           Reaches(E, s, t), Reaches(E, t, u)
    PROVE  Reaches(E, s, u)
  BY OnwardTransitive DEF Reaches

\* After one step the rest of the way leads on.
LEMMA OnwardThen ==
    ASSUME NEW E \in Edges, NEW s \in States, NEW t \in States, NEW u \in States,
           t \in Onward(E, s), Reaches(E, t, u)
    PROVE  u \in Onward(E, s)
  BY OnwardTransitive DEF Reaches

LEMMA SameTransitive ==
    ASSUME NEW E \in Edges, NEW s \in States, NEW t \in States, NEW u \in States,
           Same(E, s, t), Same(E, t, u)
    PROVE  Same(E, s, u)
  BY ReachesTransitive DEF Same

LEMMA SameSymmetric ==
    ASSUME NEW E, NEW s, NEW t, Same(E, s, t)
    PROVE  Same(E, t, s)
  BY DEF Same

-----------------------------------------------------------------------------
(* Stacks. *)

LEMMA Popped ==
    ASSUME NEW S, NEW q \in Seq(S), q # <<>>
    PROVE  /\ Len(q) \in Nat \ {0}
           /\ Last(q) = q[Len(q)] /\ Last(q) \in S
           /\ Front(q) \in Seq(S)
           /\ Len(Front(q)) = Len(q) - 1
           /\ \A i \in 1..Len(q) - 1 : Front(q)[i] = q[i]
  <1>1. Len(q) \in Nat /\ Len(q) # 0 /\ \A i \in 1..Len(q) : q[i] \in S
    BY LenProperties, EmptySeq
  <1>2. Last(q) = q[Len(q)] /\ Last(q) \in S
    BY <1>1 DEF Last
  <1>3. /\ SubSeq(q, 1, Len(q) - 1) \in Seq(S)
        /\ Len(SubSeq(q, 1, Len(q) - 1)) = Len(q) - 1
        /\ \A i \in 1..Len(q) - 1 : SubSeq(q, 1, Len(q) - 1)[i] = q[i]
    BY <1>1, SubSeqProperties
  <1> QED BY <1>1, <1>2, <1>3 DEF Front

\* All of a set is pushed, each member once.
LEMMA OnTop ==
    ASSUME NEW S, NEW q \in Seq(S), NEW T \in SUBSET S, IsFiniteSet(T), NEW r \in Pushed(q, T)
    PROVE  /\ r \in Seq(S)
           /\ Len(r) >= Len(q)
           /\ \A i \in 1..Len(q) : r[i] = q[i]
           /\ \A i \in Len(q) + 1..Len(r) : r[i] \in T
           /\ \A t \in T : \E i \in Len(q) + 1..Len(r) : r[i] = t
  <1> DEFINE c == Cardinality(T)
  <1>1. c \in Nat
    BY FS_CardinalityType
  <1>2. c = Cardinality(T)
    OBVIOUS
  <1> HIDE DEF c
  <1>3. PICK p : /\ p \in [1..c -> T]
                 /\ \A i, j \in 1..c : i # j => p[i] # p[j]
                 /\ r = q \o p
    BY <1>2 DEF Pushed, SetToSeqs
  <1>4. p \in Injection(1..c, T)
    BY <1>3, Fun_IsInj
  <1>5. Cardinality(1..c) = c
    BY <1>1, FS_Interval
  <1>6. p \in Surjection(1..c, T)
    BY <1>4, <1>5, <1>2, FS_Injection
  <1>7. \A t \in T : \E i \in 1..c : p[i] = t
    BY <1>6 DEF Surjection
  <1>8. p \in Seq(S) /\ Len(p) = c
    BY <1>1, <1>3, SeqDef
  <1>9. /\ r \in Seq(S) /\ Len(r) = Len(q) + c
        /\ \A i \in 1..Len(q) + c : r[i] = IF i <= Len(q) THEN q[i] ELSE p[i - Len(q)]
    BY <1>3, <1>8, ConcatProperties
  <1>10. Len(q) \in Nat
    BY LenProperties
  <1>11. \A i \in Len(q) + 1..Len(r) : r[i] \in T
    <2> SUFFICES ASSUME NEW i \in Len(q) + 1..Len(r)
                 PROVE  r[i] \in T
      OBVIOUS
    <2>1. i - Len(q) \in 1..c /\ r[i] = p[i - Len(q)]
      BY <1>1, <1>9, <1>10
    <2> QED BY <1>3, <2>1
  <1>12. \A t \in T : \E i \in Len(q) + 1..Len(r) : r[i] = t
    <2> SUFFICES ASSUME NEW t \in T
                 PROVE  \E i \in Len(q) + 1..Len(r) : r[i] = t
      OBVIOUS
    <2>1. PICK i \in 1..c : p[i] = t
      BY <1>7
    <2>2. i + Len(q) \in Len(q) + 1..Len(r) /\ r[i + Len(q)] = t
      BY <1>1, <1>9, <1>10, <2>1
    <2> QED BY <2>2
  <1> QED BY <1>1, <1>9, <1>10, <1>11, <1>12

LEMMA StatesFinite ==
    ASSUME StateCount \in Nat, NEW T \in SUBSET States
    PROVE  IsFiniteSet(T) /\ IsFiniteSet({<<t, FALSE>> : t \in T})
  <1>1. IsFiniteSet(1..StateCount)
    BY FS_Interval
  <1>2. IsFiniteSet(T)
    BY <1>1, FS_Subset DEF States
  <1> DEFINE f == [t \in T |-> <<t, FALSE>>]
  <1>3. f \in Surjection(T, {<<t, FALSE>> : t \in T})
    BY DEF Surjection
  <1> QED BY <1>2, <1>3, FS_Surjection

-----------------------------------------------------------------------------
(* The inductive invariant. *)

TypeOK ==
    /\ edges \in Edges
    /\ pass \in {"order", "collect", "done"}
    /\ next \in Seq(States)
    /\ walk \in Seq(States \X BOOLEAN)
    /\ visited \subseteq States
    /\ order \in Seq(States)
    /\ pending \in Seq(States)
    /\ component \subseteq States
    /\ cyclic \subseteq States

\* The states that were left, and the ones that are open.
Left == {order[i] : i \in DOMAIN order}
Open == {walk[i][1] : i \in {j \in DOMAIN walk : walk[j][2] = TRUE}}

Injective(q) == \A i, j \in DOMAIN q : q[i] = q[j] => i = j

\* In the order q, t comes no later than some state of the component of s.
NoLater(E, q, t, s) == \E i, j \in DOMAIN q : i <= j /\ q[i] = t /\ Same(E, s, q[j])

Apart ==
    /\ Injective(order)
    /\ visited = Left \cup Open
    /\ Left \cap Open = {}

\* An open state leads to everything above it, and is open once.
Chain ==
    \A i, j \in DOMAIN walk :
        /\ i < j /\ walk[i][2] = TRUE => walk[j][1] \in Onward(edges, walk[i][1])
        /\ walk[i][2] = TRUE /\ walk[j][2] = TRUE /\ walk[i][1] = walk[j][1] => i = j

\* A target of an open state was entered or waits above it.
Pending ==
    \A i \in DOMAIN walk : walk[i][2] = TRUE =>
        \A t \in edges[walk[i][1]] : t \in visited \/ \E j \in DOMAIN walk : i < j /\ walk[j][1] = t

Settled ==
    \A s \in Left :
        /\ edges[s] \subseteq visited
        /\ \/ \E g \in Open : Same(edges, s, g)
           \/ \A t \in Onward(edges, s) : NoLater(edges, order, t, s)

NoneForgotten ==
    \A s \in States : \/ s \in visited
                      \/ \E i \in DOMAIN next : next[i] = s
                      \/ \E i \in DOMAIN walk : walk[i][1] = s

FirstPass ==
    /\ Apart /\ Chain /\ Pending /\ Settled /\ NoneForgotten
    /\ pending = <<>> /\ component = {} /\ cyclic = {}

Ranked ==
    /\ Injective(order)
    /\ Left = States
    /\ \A s \in States : \A t \in Onward(edges, s) : NoLater(edges, order, t, s)

\* The states of complete components.
Complete == visited \ component

\* What is left of the outer loop are the states left first, latest first; the
\* others are in complete components.
Backwards ==
    /\ Len(next) <= Len(order)
    /\ \A i \in DOMAIN next : next[i] = order[Len(next) + 1 - i]
    /\ \A j \in DOMAIN order : j > Len(next) => order[j] \in Complete

WholeComponents ==
    /\ component \subseteq visited
    /\ \A s \in Complete : \A t \in States : Same(edges, s, t) => t \in Complete

\* The component of the root r is being collected.
Collecting(r) ==
    /\ r \notin Complete
    /\ r \in component \/ \E i \in DOMAIN pending : pending[i] = r
    /\ \A u \in component : Same(edges, r, u)
    /\ \A i \in DOMAIN pending : Reaches(edges, pending[i], r)
    /\ \A u \in component : \A p \in Sources(u) : p \in visited \/ \E i \in DOMAIN pending : pending[i] = p

Marked == cyclic = {s \in Complete : s \in Onward(edges, s)}

SecondPass ==
    /\ Ranked /\ Backwards /\ WholeComponents /\ Marked
    /\ component # {} \/ pending # <<>> => next # <<>> /\ Collecting(Head(next))
    /\ pass = "done" => next = <<>> /\ pending = <<>> /\ component = {}

IInv ==
    /\ TypeOK
    /\ pass = "order" => FirstPass
    /\ pass # "order" => SecondPass

-----------------------------------------------------------------------------
(* The first pass. *)

\* The stack pointwise.
LEMMA WalkShape ==
    ASSUME TypeOK
    PROVE  /\ Len(walk) \in Nat
           /\ DOMAIN walk = 1..Len(walk)
           /\ \A i \in DOMAIN walk : walk[i][1] \in States /\ walk[i][2] \in BOOLEAN
           /\ Open \subseteq States
           /\ Left \subseteq States
           /\ Len(order) \in Nat
           /\ DOMAIN order = 1..Len(order)
  <1>1. walk \in [1..Len(walk) -> States \X BOOLEAN] /\ Len(walk) \in Nat /\ DOMAIN walk = 1..Len(walk)
    BY LenProperties DEF TypeOK
  <1>2. order \in [1..Len(order) -> States] /\ Len(order) \in Nat /\ DOMAIN order = 1..Len(order)
    BY LenProperties DEF TypeOK
  <1>3. \A i \in DOMAIN walk : walk[i][1] \in States /\ walk[i][2] \in BOOLEAN
    BY <1>1
  <1> QED BY <1>1, <1>2, <1>3 DEF Open, Left

LEMMA InitIInv ==
    ASSUME StateCount \in Nat, CyclesInit
    PROVE  IInv
  <1>1. next \in Seq(States)
    <2>1. next \in [1..StateCount -> States]
      BY DEF CyclesInit, States
    <2> QED BY <2>1, SeqDef
  <1>2. TypeOK
    BY <1>1, EmptySeq DEF CyclesInit, TypeOK, Edges
  <1>3. Left = {} /\ Open = {}
    BY DEF CyclesInit, Left, Open
  <1>4. Apart /\ Chain /\ Pending /\ Settled
    BY <1>3 DEF CyclesInit, Apart, Chain, Pending, Settled, Injective
  <1>5. NoneForgotten
    BY DEF CyclesInit, NoneForgotten, States
  <1>6. FirstPass /\ pass = "order"
    BY <1>4, <1>5 DEF CyclesInit, FirstPass
  <1> QED BY <1>2, <1>6 DEF IInv

LEMMA StartStep ==
    ASSUME StateCount \in Nat, TypeOK, FirstPass, Start
    PROVE  TypeOK' /\ FirstPass'
  <1> DEFINE h == Head(next)
  <1>1. /\ h \in States /\ Tail(next) \in Seq(States)
        /\ Len(next) \in Nat
        /\ h = next[1] /\ Len(Tail(next)) = Len(next) - 1
        /\ DOMAIN next = 1..Len(next) /\ DOMAIN Tail(next) = 1..Len(Tail(next))
        /\ \A i \in 1..Len(Tail(next)) : Tail(next)[i] = next[i + 1]
    <2>1. next \in Seq(States) /\ next # <<>>
      BY DEF Start, TypeOK
    <2> QED BY <2>1, HeadTailProperties, LenProperties
  <1>2. walk' = <<<<h, FALSE>>>> /\ next' = Tail(next) /\ walk = <<>>
    BY DEF Start
  <1>3. TypeOK'
    <2>1. <<h, FALSE>> \in States \X BOOLEAN
      BY <1>1
    <2>2. walk' \in Seq(States \X BOOLEAN)
      BY <1>2, <2>1
    <2> QED BY <1>1, <1>2, <2>2 DEF Start, TypeOK
  <1>4. DOMAIN walk' = {1} /\ walk'[1][1] = h /\ walk'[1][2] = FALSE
    BY <1>2
  <1>5. Open = {} /\ Open' = {}
    <2>1. DOMAIN walk = {}
      BY <1>2
    <2> QED BY <1>4, <2>1 DEF Open
  <1>6. UNCHANGED <<edges, visited, order, pending, component, cyclic>> /\ Left' = Left
    BY DEF Start, Left
  <1>7. Apart'
    BY <1>5, <1>6 DEF FirstPass, Apart
  <1>8. Chain' /\ Pending'
    BY <1>4 DEF Chain, Pending
  <1>9. Settled'
    BY <1>5, <1>6 DEF FirstPass, Settled
  <1>10. NoneForgotten'
    <2> SUFFICES ASSUME NEW s \in States, s \notin visited
                 PROVE  \/ \E i \in DOMAIN next' : next'[i] = s
                        \/ \E i \in DOMAIN walk' : walk'[i][1] = s
      BY <1>6 DEF NoneForgotten
    <2>1. PICK i \in DOMAIN next : next[i] = s
      BY <1>2 DEF FirstPass, NoneForgotten
    <2>2. CASE i = 1
      BY <1>1, <1>4, <2>1, <2>2
    <2>3. CASE i # 1
      <3>1. i - 1 \in DOMAIN Tail(next) /\ Tail(next)[i - 1] = s
        BY <1>1, <2>1, <2>3
      <3> QED BY <1>2, <3>1
    <2> QED BY <2>2, <2>3
  <1> QED BY <1>3, <1>6, <1>7, <1>8, <1>9, <1>10 DEF FirstPass

\* The walk without its top entry, which is the n-th.
LEMMA PoppedWalk ==
    ASSUME TypeOK, walk # <<>>, walk' = Front(walk)
    PROVE  /\ walk' \in Seq(States \X BOOLEAN)
           /\ \E n \in DOMAIN walk :
                /\ Last(walk) = walk[n]
                /\ \A i \in DOMAIN walk : i \in Int /\ i <= n
                /\ DOMAIN walk' = DOMAIN walk \ {n}
                /\ \A i \in DOMAIN walk' : walk'[i] = walk[i]
  <1>1. walk \in Seq(States \X BOOLEAN)
    BY DEF TypeOK
  <1>2. PICK n : n = Len(walk)
    OBVIOUS
  <1>3. /\ n \in Nat \ {0} /\ Last(walk) = walk[n]
        /\ walk' \in Seq(States \X BOOLEAN) /\ Len(walk') = n - 1
        /\ \A i \in 1..n - 1 : walk'[i] = walk[i]
    BY <1>1, <1>2, Popped
  <1>4. DOMAIN walk = 1..n /\ DOMAIN walk' = 1..n - 1
    BY <1>1, <1>2, <1>3, LenProperties
  <1>5. n \in DOMAIN walk /\ DOMAIN walk' = DOMAIN walk \ {n}
    BY <1>3, <1>4
  <1> QED BY <1>3, <1>4, <1>5

\* The top of the stack was entered meanwhile.
LEMMA EnterAgain ==
    ASSUME StateCount \in Nat, TypeOK, FirstPass, Enter, Last(walk)[1] \in visited
    PROVE  TypeOK' /\ FirstPass'
  <1>1. /\ walk # <<>> /\ ~Last(walk)[2] /\ walk' = Front(walk)
        /\ UNCHANGED <<edges, pass, next, visited, order, pending, component, cyclic>>
    BY DEF Enter
  <1>2. walk' \in Seq(States \X BOOLEAN)
    BY <1>1, PoppedWalk
  <1>3. PICK n \in DOMAIN walk :
                /\ Last(walk) = walk[n]
                /\ \A i \in DOMAIN walk : i \in Int /\ i <= n
                /\ DOMAIN walk' = DOMAIN walk \ {n}
                /\ \A i \in DOMAIN walk' : walk'[i] = walk[i]
    BY <1>1, PoppedWalk
  <1>4. TypeOK'
    BY <1>1, <1>2 DEF TypeOK
  <1>5. walk[n][2] = FALSE
    BY <1>1, <1>3, WalkShape
  <1>6. Open' = Open /\ Left' = Left
    BY <1>1, <1>3, <1>5 DEF Open, Left
  <1>7. Apart'
    BY <1>1, <1>6 DEF FirstPass, Apart
  <1>8. Chain'
    <2> SUFFICES ASSUME NEW i \in DOMAIN walk', NEW j \in DOMAIN walk'
                 PROVE  /\ i < j /\ walk'[i][2] = TRUE => walk'[j][1] \in Onward(edges, walk'[i][1])
                        /\ walk'[i][2] = TRUE /\ walk'[j][2] = TRUE /\ walk'[i][1] = walk'[j][1] => i = j
      BY <1>1 DEF Chain
    <2>1. i \in DOMAIN walk /\ j \in DOMAIN walk /\ walk'[i] = walk[i] /\ walk'[j] = walk[j]
      BY <1>3
    <2> QED BY <2>1 DEF FirstPass, Chain
  <1>9. Pending'
    <2> SUFFICES ASSUME NEW i \in DOMAIN walk', walk'[i][2] = TRUE,
                        NEW t \in edges[walk'[i][1]], t \notin visited
                 PROVE  \E j \in DOMAIN walk' : i < j /\ walk'[j][1] = t
      BY <1>1 DEF Pending
    <2>1. i \in DOMAIN walk /\ walk'[i] = walk[i]
      BY <1>3
    <2>2. PICK j \in DOMAIN walk : i < j /\ walk[j][1] = t
      BY <2>1 DEF FirstPass, Pending
    <2>3. j # n
      BY <1>3, <2>2
    <2> QED BY <1>3, <2>2, <2>3
  <1>10. Settled'
    BY <1>1, <1>6 DEF FirstPass, Settled
  <1>11. NoneForgotten'
    <2> SUFFICES ASSUME NEW s \in States, s \notin visited, ~\E i \in DOMAIN next : next[i] = s
                 PROVE  \E i \in DOMAIN walk' : walk'[i][1] = s
      BY <1>1 DEF NoneForgotten
    <2>1. PICK i \in DOMAIN walk : walk[i][1] = s
      BY DEF FirstPass, NoneForgotten
    <2>2. i # n
      BY <1>3, <2>1
    <2> QED BY <1>3, <2>1, <2>2
  <1> QED BY <1>1, <1>4, <1>7, <1>8, <1>9, <1>10, <1>11 DEF FirstPass

\* The stack r once x took the place of the top of q and T was pushed above it,
\* pointwise; n is the height of x.
LEMMA Entered ==
    ASSUME NEW S, NEW q \in Seq(S), q # <<>>, NEW x \in S, NEW T \in SUBSET S, IsFiniteSet(T),
           NEW r \in Pushed(Append(Front(q), x), T)
    PROVE  /\ r \in Seq(S)
           /\ \E n \in DOMAIN q :
                /\ Last(q) = q[n] /\ n \in DOMAIN r /\ r[n] = x
                /\ \A i \in DOMAIN q : i \in DOMAIN r /\ i \in Int /\ i <= n /\ (i # n => r[i] = q[i])
                /\ \A i \in DOMAIN r : i \in Int /\ (i <= n => i \in DOMAIN q)
                /\ \A i \in DOMAIN r : i > n => r[i] \in T
                /\ \A t \in T : \E i \in DOMAIN r : n < i /\ r[i] = t
  <1>1. PICK n : n = Len(q)
    OBVIOUS
  <1>2. PICK base : base = Append(Front(q), x)
    OBVIOUS
  <1>3. /\ n \in Nat \ {0} /\ Last(q) = q[n]
        /\ Front(q) \in Seq(S) /\ Len(Front(q)) = n - 1
        /\ \A i \in 1..n - 1 : Front(q)[i] = q[i]
    BY <1>1, Popped
  <1>4. /\ base \in Seq(S) /\ Len(base) = n - 1 + 1
        /\ \A i \in 1..n - 1 : base[i] = Front(q)[i]
        /\ base[n - 1 + 1] = x
    BY <1>2, <1>3, AppendProperties
  <1>5. Len(base) = n /\ base[n] = x /\ \A i \in 1..n - 1 : base[i] = q[i]
    BY <1>3, <1>4
  <1>6. /\ r \in Seq(S) /\ Len(r) >= n
        /\ \A i \in 1..n : r[i] = base[i]
        /\ \A i \in n + 1..Len(r) : r[i] \in T
        /\ \A t \in T : \E i \in n + 1..Len(r) : r[i] = t
    <2>1. r \in Pushed(base, T)
      BY <1>2
    <2> QED BY <1>4, <1>5, <2>1, OnTop
  <1>7. DOMAIN r = 1..Len(r) /\ Len(r) \in Nat /\ DOMAIN q = 1..n
    BY <1>1, <1>6, LenProperties
  <1>8. n \in DOMAIN q /\ n \in DOMAIN r /\ r[n] = x
    BY <1>3, <1>5, <1>6, <1>7
  <1>9. \A i \in DOMAIN q : i \in DOMAIN r /\ i \in Int /\ i <= n /\ (i # n => r[i] = q[i])
    BY <1>3, <1>5, <1>6, <1>7
  <1>10. \A i \in DOMAIN r : i \in Int /\ (i <= n => i \in DOMAIN q) /\ (i > n => r[i] \in T)
    BY <1>3, <1>6, <1>7
  <1>11. \A t \in T : \E i \in DOMAIN r : n < i /\ r[i] = t
    BY <1>3, <1>6, <1>7
  <1> QED BY <1>3, <1>6, <1>8, <1>9, <1>10, <1>11

\* The top of the stack is entered, and its targets wait above it.
LEMMA EnterNew ==
    ASSUME StateCount \in Nat, TypeOK, FirstPass, Enter, Last(walk)[1] \notin visited
    PROVE  TypeOK' /\ FirstPass'
  <1>1. PICK s : s = Last(walk)[1]
    OBVIOUS
  <1>2. PICK T : T = {<<t, FALSE>> : t \in edges[s] \ visited'}
    OBVIOUS
  <1>3. /\ walk # <<>> /\ ~Last(walk)[2] /\ visited' = visited \cup {s}
        /\ walk' \in Pushed(Append(Front(walk), <<s, TRUE>>), T)
        /\ UNCHANGED <<edges, pass, next, order, pending, component, cyclic>>
    BY <1>1, <1>2 DEF Enter
  <1>4. walk \in Seq(States \X BOOLEAN) /\ edges \in Edges
    BY DEF TypeOK
  <1>5. s \in States /\ <<s, TRUE>> \in States \X BOOLEAN
    <2>1. Last(walk) \in States \X BOOLEAN
      BY <1>3, <1>4, Popped
    <2> QED BY <1>1, <2>1
  <1>6. edges[s] \ visited' \in SUBSET States
    BY <1>4, <1>5 DEF Edges
  <1>7. T \in SUBSET (States \X BOOLEAN) /\ IsFiniteSet(T)
    <2>1. \A t \in edges[s] \ visited' : <<t, FALSE>> \in States \X BOOLEAN
      BY <1>6
    <2> QED BY <1>2, <1>6, <2>1, StatesFinite
  <1>8. PICK S : S = States \X BOOLEAN
    OBVIOUS
  <1>9. PICK x : x = <<s, TRUE>>
    OBVIOUS
  <1>10. /\ walk \in Seq(S) /\ x \in S /\ T \in SUBSET S
         /\ walk' \in Pushed(Append(Front(walk), x), T)
    BY <1>3, <1>4, <1>5, <1>7, <1>8, <1>9
  <1>11. walk' \in Seq(S)
    BY <1>3, <1>7, <1>10, Entered
  <1>12. PICK n \in DOMAIN walk :
                /\ Last(walk) = walk[n] /\ n \in DOMAIN walk' /\ walk'[n] = x
                /\ \A i \in DOMAIN walk : i \in DOMAIN walk' /\ i \in Int /\ i <= n /\ (i # n => walk'[i] = walk[i])
                /\ \A i \in DOMAIN walk' : i \in Int /\ (i <= n => i \in DOMAIN walk)
                /\ \A i \in DOMAIN walk' : i > n => walk'[i] \in T
                /\ \A u \in T : \E i \in DOMAIN walk' : n < i /\ walk'[i] = u
    BY <1>3, <1>7, <1>10, Entered
  <1>13. /\ n \in DOMAIN walk /\ n \in DOMAIN walk' /\ n \in Int
         /\ walk[n][1] = s /\ walk'[n][1] = s /\ walk'[n][2] = TRUE
         /\ \A i \in DOMAIN walk : i \in DOMAIN walk' /\ i \in Int /\ i <= n /\ (i # n => walk'[i] = walk[i])
         /\ \A i \in DOMAIN walk' : i \in Int /\ (i <= n => i \in DOMAIN walk)
    BY <1>1, <1>12, <1>9
  <1>14. \A i \in DOMAIN walk' : i > n => walk'[i][1] \in edges[s] \ visited' /\ walk'[i][2] = FALSE
    <2> SUFFICES ASSUME NEW i \in DOMAIN walk', i > n
                 PROVE  walk'[i][1] \in edges[s] \ visited' /\ walk'[i][2] = FALSE
      OBVIOUS
    <2>1. walk'[i] \in T
      BY <1>12
    <2>2. PICK t \in edges[s] \ visited' : walk'[i] = <<t, FALSE>>
      BY <1>2, <2>1
    <2> QED BY <2>2
  <1>15. \A t \in edges[s] \ visited' : \E i \in DOMAIN walk' : n < i /\ walk'[i][1] = t
    <2> SUFFICES ASSUME NEW t \in edges[s] \ visited'
                 PROVE  \E i \in DOMAIN walk' : n < i /\ walk'[i][1] = t
      OBVIOUS
    <2>1. <<t, FALSE>> \in T
      BY <1>2
    <2>2. PICK i \in DOMAIN walk' : n < i /\ walk'[i] = <<t, FALSE>>
      BY <1>12, <2>1
    <2> QED BY <2>2
  <1>16. walk[n][2] = FALSE
    BY <1>3, <1>12, WalkShape
  <1>17. Left' = Left /\ Open' = Open \cup {s}
    <2>1. Left' = Left
      BY <1>3 DEF Left
    <2>2. \A i \in DOMAIN walk' : walk'[i][2] = TRUE => i = n \/ (i \in DOMAIN walk /\ walk'[i] = walk[i])
      BY <1>13, <1>14
    <2>3. Open' \subseteq Open \cup {s}
      BY <1>13, <2>2 DEF Open
    <2>4. Open \cup {s} \subseteq Open'
      BY <1>13, <1>16 DEF Open
    <2> QED BY <2>1, <2>3, <2>4
  <1>18. TypeOK'
    BY <1>3, <1>4, <1>5, <1>11, <1>8 DEF TypeOK
  <1>19. s \notin visited
    BY <1>1
  <1>20. Apart'
    <2>1. Injective(order)'
      BY <1>3 DEF FirstPass, Apart
    <2> QED BY <1>3, <1>17, <1>19, <2>1 DEF FirstPass, Apart
  \* An open state below the top leads to the state entered and its targets.
  <1>21. \A i \in DOMAIN walk : i # n /\ walk[i][2] = TRUE => s \in Onward(edges, walk[i][1]) /\ walk[i][1] # s
    <2> SUFFICES ASSUME NEW i \in DOMAIN walk, i # n, walk[i][2] = TRUE
                 PROVE  s \in Onward(edges, walk[i][1]) /\ walk[i][1] # s
      OBVIOUS
    <2>1. i < n
      BY <1>13
    <2>2. s \in Onward(edges, walk[i][1])
      BY <1>13, <2>1 DEF FirstPass, Chain
    <2>3. walk[i][1] \in Open
      BY DEF Open
    <2> QED BY <1>19, <2>2, <2>3 DEF FirstPass, Apart
  <1>22. Chain'
    <2> SUFFICES ASSUME NEW i \in DOMAIN walk', NEW j \in DOMAIN walk', walk'[i][2] = TRUE
                 PROVE  /\ i < j => walk'[j][1] \in Onward(edges, walk'[i][1])
                        /\ walk'[j][2] = TRUE /\ walk'[i][1] = walk'[j][1] => i = j
      BY <1>3 DEF Chain
    <2>1. i \in Int /\ j \in Int /\ i <= n
      BY <1>13, <1>14
    <2>2. CASE i = n
      <3>1. i < j => walk'[j][1] \in Onward(edges, s)
        BY <1>4, <1>5, <1>14, <2>1, <2>2, OneStep
      <3>2. walk'[j][2] = TRUE /\ j # n => walk[j][1] = walk'[j][1] /\ walk[j][2] = TRUE /\ j \in DOMAIN walk
        BY <1>13, <1>14, <2>1
      <3> QED BY <1>13, <1>21, <2>2, <3>1, <3>2
    <2>3. CASE i # n
      <3>1. i \in DOMAIN walk /\ walk'[i] = walk[i]
        BY <1>13, <2>1, <2>3
      <3>2. CASE j > n
        <4>1. walk'[j][1] \in edges[s] /\ walk'[j][2] = FALSE
          BY <1>14, <3>2
        <4>2. walk'[j][1] \in Onward(edges, s)
          BY <1>4, <1>5, <4>1, OneStep
        <4>3. walk'[j][1] \in Onward(edges, walk[i][1])
          BY <1>4, <1>5, <1>21, <2>3, <3>1, <4>2, OnwardTransitive, WalkShape
        <4> QED BY <3>1, <4>1, <4>3
      <3>3. CASE j <= n
        <4>1. j \in DOMAIN walk
          BY <1>13, <3>3
        <4>2. CASE j = n
          BY <1>13, <1>21, <2>3, <3>1, <4>2
        <4>3. CASE j # n
          BY <1>13, <3>1, <4>1, <4>3 DEF FirstPass, Chain
        <4> QED BY <4>2, <4>3
      <3>4. j <= n \/ j > n
        BY <1>13, <2>1
      <3> QED BY <3>2, <3>3, <3>4
    <2> QED BY <2>2, <2>3
  <1>23. Pending'
    <2> SUFFICES ASSUME NEW i \in DOMAIN walk', walk'[i][2] = TRUE,
                        NEW t \in edges[walk'[i][1]], t \notin visited'
                 PROVE  \E j \in DOMAIN walk' : i < j /\ walk'[j][1] = t
      BY <1>3 DEF Pending
    <2>1. i \in DOMAIN walk
      BY <1>13, <1>14
    <2>2. CASE i = n
      BY <1>13, <1>15, <2>2
    <2>3. CASE i # n
      <3>1. walk'[i] = walk[i]
        BY <1>13, <2>1, <2>3
      <3>2. t \notin visited
        BY <1>3
      <3>3. PICK j \in DOMAIN walk : i < j /\ walk[j][1] = t
        BY <2>1, <3>1, <3>2 DEF FirstPass, Pending
      <3>4. walk'[j][1] = t /\ j \in DOMAIN walk'
        BY <1>13, <3>3
      <3> QED BY <3>3, <3>4
    <2> QED BY <2>2, <2>3
  <1>24. Settled'
    <2>1. /\ visited \subseteq visited' /\ Open \subseteq Open'
          /\ edges' = edges /\ order' = order /\ Left' = Left
      BY <1>3, <1>17
    <2> QED BY <2>1 DEF FirstPass, Settled
  <1>25. NoneForgotten'
    <2> SUFFICES ASSUME NEW u \in States, u \notin visited', ~\E i \in DOMAIN next : next[i] = u
                 PROVE  \E i \in DOMAIN walk' : walk'[i][1] = u
      BY <1>3 DEF NoneForgotten
    <2>1. PICK i \in DOMAIN walk : walk[i][1] = u
      BY <1>3 DEF FirstPass, NoneForgotten
    <2>2. walk'[i][1] = u /\ i \in DOMAIN walk'
      BY <1>13, <2>1
    <2> QED BY <2>2
  <1> QED BY <1>3, <1>18, <1>20, <1>22, <1>23, <1>24, <1>25 DEF FirstPass

\* The state on top is left: it is the latest, and unless an open state shares
\* its component everything it leads to was left before.
LEMMA ExitStep ==
    ASSUME StateCount \in Nat, TypeOK, FirstPass, Exit
    PROVE  TypeOK' /\ FirstPass'
  <1>1. PICK w : w = Last(walk)[1]
    OBVIOUS
  <1>2. /\ walk # <<>> /\ Last(walk)[2] /\ walk' = Front(walk) /\ order' = Append(order, w)
        /\ UNCHANGED <<edges, pass, next, visited, pending, component, cyclic>>
    BY <1>1 DEF Exit
  <1>3. walk' \in Seq(States \X BOOLEAN)
    BY <1>2, PoppedWalk
  <1>4. PICK n \in DOMAIN walk :
                /\ Last(walk) = walk[n]
                /\ \A i \in DOMAIN walk : i \in Int /\ i <= n
                /\ DOMAIN walk' = DOMAIN walk \ {n}
                /\ \A i \in DOMAIN walk' : walk'[i] = walk[i]
    BY <1>2, PoppedWalk
  <1>5. walk[n][1] = w /\ walk[n][2] = TRUE /\ w \in States
    BY <1>1, <1>2, <1>4, WalkShape
  <1>6. PICK m : m = Len(order) + 1
    OBVIOUS
  <1>7. /\ order' \in Seq(States) /\ DOMAIN order' = DOMAIN order \cup {m}
        /\ m \notin DOMAIN order /\ order'[m] = w
        /\ \A i \in DOMAIN order : order'[i] = order[i] /\ i \in Int /\ i < m
        /\ m \in Int
    <2>1. order \in Seq(States) /\ Len(order) \in Nat /\ DOMAIN order = 1..Len(order)
      BY WalkShape DEF TypeOK
    <2>2. /\ order' \in Seq(States) /\ Len(order') = Len(order) + 1
          /\ \A i \in 1..Len(order) : order'[i] = order[i]
          /\ order'[Len(order) + 1] = w
      BY <1>2, <1>5, <2>1, AppendProperties
    <2>3. DOMAIN order' = 1..Len(order) + 1
      BY <2>2, LenProperties
    <2> QED BY <1>6, <2>1, <2>2, <2>3
  <1>8. TypeOK'
    BY <1>2, <1>3, <1>7 DEF TypeOK
  <1>9. w \in Open /\ Open' = Open \ {w}
    <2>1. w \in Open
      BY <1>4, <1>5 DEF Open
    <2>2. \A i \in DOMAIN walk : walk[i][2] = TRUE /\ walk[i][1] = w => i = n
      BY <1>4, <1>5 DEF FirstPass, Chain
    <2>3. Open' \subseteq Open \ {w}
      BY <1>4, <2>2 DEF Open
    <2>4. Open \ {w} \subseteq Open'
      BY <1>4, <1>5 DEF Open
    <2> QED BY <2>1, <2>3, <2>4
  <1>10. Left' = Left \cup {w}
    BY <1>7 DEF Left
  <1>11. w \notin Left
    BY <1>9 DEF FirstPass, Apart
  <1>12. Apart'
    <2>1. Injective(order)'
      <3> SUFFICES ASSUME NEW i \in DOMAIN order', NEW j \in DOMAIN order', order'[i] = order'[j]
                   PROVE  i = j
        BY DEF Injective
      <3>1. \A k \in DOMAIN order : order'[k] \in Left
        BY <1>7 DEF Left
      <3> QED BY <1>7, <1>11, <3>1 DEF FirstPass, Apart, Injective
    <2> QED BY <1>2, <1>9, <1>10, <1>11, <2>1 DEF FirstPass, Apart
  <1>13. Chain'
    <2> SUFFICES ASSUME NEW i \in DOMAIN walk', NEW j \in DOMAIN walk'
                 PROVE  /\ i < j /\ walk'[i][2] = TRUE => walk'[j][1] \in Onward(edges, walk'[i][1])
                        /\ walk'[i][2] = TRUE /\ walk'[j][2] = TRUE /\ walk'[i][1] = walk'[j][1] => i = j
      BY <1>2 DEF Chain
    <2>1. i \in DOMAIN walk /\ j \in DOMAIN walk /\ walk'[i] = walk[i] /\ walk'[j] = walk[j]
      BY <1>4
    <2> QED BY <2>1 DEF FirstPass, Chain
  <1>14. Pending'
    <2> SUFFICES ASSUME NEW i \in DOMAIN walk', walk'[i][2] = TRUE,
                        NEW t \in edges[walk'[i][1]], t \notin visited
                 PROVE  \E j \in DOMAIN walk' : i < j /\ walk'[j][1] = t
      BY <1>2 DEF Pending
    <2>1. i \in DOMAIN walk /\ walk'[i] = walk[i]
      BY <1>4
    <2>2. PICK j \in DOMAIN walk : i < j /\ walk[j][1] = t
      BY <2>1 DEF FirstPass, Pending
    <2>3. w \in visited
      BY <1>9 DEF FirstPass, Apart
    <2>4. j # n
      BY <1>5, <2>2, <2>3
    <2> QED BY <1>4, <2>2, <2>4
  <1>15. NoneForgotten'
    <2> SUFFICES ASSUME NEW s \in States, s \notin visited, ~\E i \in DOMAIN next : next[i] = s
                 PROVE  \E i \in DOMAIN walk' : walk'[i][1] = s
      BY <1>2 DEF NoneForgotten
    <2>1. PICK i \in DOMAIN walk : walk[i][1] = s
      BY DEF FirstPass, NoneForgotten
    <2>2. w \in visited
      BY <1>9 DEF FirstPass, Apart
    <2> QED BY <1>4, <1>5, <2>1, <2>2
  \* All targets of the state were entered.
  <1>16. edges[w] \subseteq visited
    <2> SUFFICES ASSUME NEW t \in edges[w], t \notin visited
                 PROVE  FALSE
      OBVIOUS
    <2>1. PICK j \in DOMAIN walk : n < j /\ walk[j][1] = t
      BY <1>4, <1>5 DEF FirstPass, Pending
    <2> QED BY <1>4, <2>1
  <1>17. edges \in Edges /\ Open \subseteq States /\ Left \subseteq States
    BY WalkShape DEF TypeOK
  \* An open state leads to the one that is left.
  <1>18. \A g \in Open' : w \in Onward(edges, g)
    <2> SUFFICES ASSUME NEW g \in Open'
                 PROVE  w \in Onward(edges, g)
      OBVIOUS
    <2>1. PICK i \in DOMAIN walk : walk[i][2] = TRUE /\ walk[i][1] = g
      BY <1>9 DEF Open
    <2>2. i < n
      BY <1>4, <1>5, <1>9, <2>1
    <2> QED BY <1>4, <1>5, <2>1, <2>2 DEF FirstPass, Chain
  \* What comes no later than something keeps doing so, and everything left
  \* comes no later than the state that is left now.
  <1>19. \A t, s : NoLater(edges, order, t, s) => NoLater(edges, order, t, s)'
    BY <1>2, <1>7 DEF NoLater
  <1>20. \A t \in Left', s \in States : Same(edges, s, w) => NoLater(edges, order, t, s)'
    <2> SUFFICES ASSUME NEW t \in Left', NEW s \in States, Same(edges, s, w)
                 PROVE  NoLater(edges, order, t, s)'
      OBVIOUS
    <2>1. PICK i \in DOMAIN order' : order'[i] = t
      BY DEF Left
    <2>2. i <= m /\ m \in DOMAIN order' /\ Same(edges, s, order'[m])
      BY <1>7, <2>1
    <2> QED BY <1>2, <2>1, <2>2 DEF NoLater
  <1>21. \/ \E g \in Open' : Same(edges, w, g)
         \/ Onward(edges, w) \subseteq Left'
    <2>1. CASE \E g \in Open' : g \in Onward(edges, w)
      BY <1>18, <2>1 DEF Same, Reaches
    <2>2. CASE ~\E g \in Open' : g \in Onward(edges, w)
      <3> DEFINE C == Onward(edges, w) \cap Left'
      <3>1. C \in SUBSET States
        BY OnwardType
      <3>2. edges[w] \subseteq C
        <4> SUFFICES ASSUME NEW t \in edges[w]
                     PROVE  t \in C
          OBVIOUS
        <4>1. t \in Onward(edges, w)
          BY <1>5, <1>17, OneStep
        <4>2. t \in Left \cup Open
          BY <1>16 DEF FirstPass, Apart
        <4> QED BY <1>9, <1>10, <2>2, <4>1, <4>2
      <3>3. Closed(edges, C)
        <4> SUFFICES ASSUME NEW u \in C, NEW v \in edges[u]
                     PROVE  v \in C
          BY DEF Closed
        <4>1. u \in States /\ v \in Onward(edges, w)
          BY <1>5, <1>17, <3>1, OneStep, OnwardTransitive
        <4>2. edges[u] \subseteq visited
          BY <1>10, <1>16 DEF FirstPass, Settled
        <4>3. v \in Left \cup Open
          BY <4>2 DEF FirstPass, Apart
        <4> QED BY <1>9, <1>10, <2>2, <4>1, <4>3
      <3> HIDE DEF C
      <3>4. Onward(edges, w) \subseteq C
        BY <1>5, <1>17, <3>1, <3>2, <3>3, OnwardWithin
      <3> QED BY <3>4 DEF C
    <2> QED BY <2>1, <2>2
  <1>22. Same(edges, w, w)
    BY DEF Same, Reaches
  <1>23. Settled'
    <2> SUFFICES ASSUME NEW s \in Left'
                 PROVE  /\ edges[s] \subseteq visited
                        /\ \/ \E g \in Open' : Same(edges, s, g)
                           \/ \A t \in Onward(edges, s) : NoLater(edges, order, t, s)'
      BY <1>2 DEF Settled
    <2>1. edges[s] \subseteq visited
      BY <1>10, <1>16 DEF FirstPass, Settled
    <2>2. s \in States
      BY <1>5, <1>10, <1>17
    \* A state of the component of the one that is left.
    <2>3. ASSUME Same(edges, s, w)
          PROVE  \/ \E g \in Open' : Same(edges, s, g)
                 \/ \A t \in Onward(edges, s) : NoLater(edges, order, t, s)'
      <3>1. CASE \E g \in Open' : Same(edges, w, g)
        BY <1>5, <1>9, <1>17, <2>2, <2>3, <3>1, SameTransitive
      <3>2. CASE Onward(edges, w) \subseteq Left'
        <4>1. \A t \in Onward(edges, s) : t \in Left'
          <5> SUFFICES ASSUME NEW t \in Onward(edges, s)
                       PROVE  t \in Left'
            OBVIOUS
          <5>1. CASE w = s
            BY <3>2, <5>1
          <5>2. CASE w # s
            <6>1. s \in Onward(edges, w)
              BY <2>3, <5>2 DEF Same, Reaches
            <6>2. t \in Onward(edges, w)
              BY <1>5, <1>17, <6>1, OnwardTransitive
            <6> QED BY <3>2, <6>2
          <5> QED BY <5>1, <5>2
        <4> QED BY <1>20, <2>2, <2>3, <4>1
      <3> QED BY <1>21, <3>1, <3>2
    <2>4. CASE s = w
      BY <1>22, <2>1, <2>3, <2>4
    <2>5. CASE s \in Left
      <3>1. CASE \E g \in Open : Same(edges, s, g)
        <4>1. PICK g \in Open : Same(edges, s, g)
          BY <3>1
        <4> QED BY <1>9, <2>1, <2>3, <4>1
      <3>2. CASE \A t \in Onward(edges, s) : NoLater(edges, order, t, s)
        BY <1>19, <2>1, <3>2
      <3> QED BY <2>5, <3>1, <3>2 DEF FirstPass, Settled
    <2> QED BY <1>10, <2>4, <2>5
  <1> QED BY <1>2, <1>8, <1>12, <1>13, <1>14, <1>15, <1>23 DEF FirstPass

\* Nothing is open any more, so the states are ranked.
LEMMA TurnStep ==
    ASSUME StateCount \in Nat, TypeOK, FirstPass, Turn
    PROVE  TypeOK' /\ SecondPass' /\ pass' # "order"
  <1>1. /\ walk = <<>> /\ next = <<>> /\ pass' = "collect" /\ next' = Reverse(order) /\ visited' = {}
        /\ UNCHANGED <<edges, walk, order, pending, component, cyclic>>
    BY DEF Turn
  <1>2. order \in Seq(States) /\ Len(order) \in Nat /\ DOMAIN order = 1..Len(order)
    BY WalkShape DEF TypeOK
  <1>3. /\ next' \in Seq(States) /\ Len(next') = Len(order) /\ DOMAIN next' = 1..Len(order)
        /\ \A i \in 1..Len(order) : next'[i] = order[Len(order) - i + 1]
    <2>1. next' = [i \in 1..Len(order) |-> order[Len(order) - i + 1]]
      BY <1>1 DEF Reverse
    <2>2. \A i \in 1..Len(order) : order[Len(order) - i + 1] \in States
      BY <1>2
    <2>3. next' \in [1..Len(order) -> States]
      BY <2>1, <2>2
    <2> QED BY <1>2, <2>1, <2>3, SeqDef
  <1>4. TypeOK'
    BY <1>1, <1>3 DEF TypeOK
  <1>5. Open = {} /\ Left' = Left
    BY <1>1 DEF Open, Left
  <1>6. Left = States
    <2>1. DOMAIN walk = {} /\ DOMAIN next = {}
      BY <1>1
    <2> QED BY <1>5, <2>1, WalkShape DEF FirstPass, NoneForgotten, Apart
  <1>7. Ranked'
    <2>1. \A s \in States : \A t \in Onward(edges, s) : NoLater(edges, order, t, s)
      BY <1>5, <1>6 DEF FirstPass, Settled
    <2> QED BY <1>1, <1>5, <1>6, <2>1 DEF Ranked, FirstPass, Apart
  <1>8. Backwards'
    <2>1. \A i \in DOMAIN next' : next'[i] = order[Len(next') + 1 - i]
      BY <1>2, <1>3
    <2> QED BY <1>1, <1>2, <1>3, <2>1 DEF Backwards
  <1>9. component' = {} /\ pending' = <<>> /\ cyclic' = {} /\ Complete' = {}
    BY <1>1 DEF FirstPass, Complete
  <1>10. WholeComponents' /\ Marked'
    BY <1>1, <1>9 DEF WholeComponents, Marked
  <1> QED BY <1>1, <1>4, <1>7, <1>8, <1>9, <1>10 DEF SecondPass

-----------------------------------------------------------------------------
(* The second pass. *)

LEMMA NextShape ==
    ASSUME TypeOK, next # <<>>
    PROVE  /\ Len(next) \in Nat \ {0} /\ DOMAIN next = 1..Len(next)
           /\ Head(next) = next[1] /\ Head(next) \in States
           /\ Tail(next) \in Seq(States) /\ Len(Tail(next)) = Len(next) - 1
           /\ DOMAIN Tail(next) = 1..Len(next) - 1
           /\ \A i \in 1..Len(next) - 1 : Tail(next)[i] = next[i + 1]
  <1>1. next \in Seq(States)
    BY DEF TypeOK
  <1>2. Len(next) \in Nat /\ Len(next) # 0 /\ DOMAIN next = 1..Len(next)
    BY <1>1, LenProperties, EmptySeq
  <1>3. /\ Head(next) \in States /\ Tail(next) \in Seq(States) /\ Len(Tail(next)) = Len(next) - 1
        /\ \A i \in 1..Len(Tail(next)) : Tail(next)[i] = next[i + 1]
    BY <1>1, HeadTailProperties
  <1>4. Head(next) = next[1]
    BY <1>1, <1>2
  <1>5. DOMAIN Tail(next) = 1..Len(Tail(next))
    BY <1>3, LenProperties
  <1> QED BY <1>2, <1>3, <1>4, <1>5

\* The root of the component is the latest state that is not in a complete one.
LEMMA RootIsLatest ==
    ASSUME TypeOK, SecondPass, next # <<>>
    PROVE  /\ Len(next) \in DOMAIN order
           /\ order[Len(next)] = Head(next)
           /\ \A j \in DOMAIN order : j > Len(next) => order[j] \in Complete
  <1>1. Len(order) \in Nat /\ DOMAIN order = 1..Len(order)
    BY WalkShape
  <1>2. 1 \in DOMAIN next /\ Len(next) \in Nat \ {0} /\ Head(next) = next[1]
    BY NextShape
  <1>3. Len(next) <= Len(order) /\ next[1] = order[Len(next) + 1 - 1]
    BY <1>2 DEF SecondPass, Backwards
  <1>4. \A j \in DOMAIN order : j > Len(next) => order[j] \in Complete
    BY DEF SecondPass, Backwards
  <1> QED BY <1>1, <1>2, <1>3, <1>4

\* A state that leads to the root and is in no complete component is in the
\* component of the root: some state of its component is left no earlier than
\* the root, and all that were left later are in complete components.
LEMMA InRootComponent ==
    ASSUME TypeOK, SecondPass, next # <<>>, Head(next) \notin Complete,
           NEW s \in States, Reaches(edges, s, Head(next)), s \notin Complete
    PROVE  Same(edges, s, Head(next))
  <1>1. CASE s = Head(next)
    BY <1>1 DEF Same, Reaches
  <1>2. CASE s # Head(next)
    <2>1. Head(next) \in Onward(edges, s)
      BY <1>2 DEF Reaches
    <2>2. NoLater(edges, order, Head(next), s)
      BY <2>1 DEF SecondPass, Ranked
    <2>3. PICK i \in DOMAIN order, j \in DOMAIN order :
               i <= j /\ order[i] = Head(next) /\ Same(edges, s, order[j])
      BY <2>2 DEF NoLater
    <2>4. i = Len(next)
      BY <2>3, RootIsLatest DEF SecondPass, Ranked, Injective
    <2>5. order[j] \notin Complete
      <3> SUFFICES ASSUME order[j] \in Complete
                   PROVE  FALSE
        OBVIOUS
      <3>1. Same(edges, order[j], s)
        BY <2>3, SameSymmetric
      <3> QED BY <3>1 DEF SecondPass, WholeComponents
    <2>6. ~(j > Len(next))
      BY <2>3, <2>5, RootIsLatest
    <2>7. j = i
      <3>1. Len(order) \in Nat /\ DOMAIN order = 1..Len(order)
        BY WalkShape
      <3> QED BY <2>3, <2>4, <2>6, <3>1
    <2> QED BY <2>3, <2>7
  <1> QED BY <1>1, <1>2

LEMMA BeginStep ==
    ASSUME StateCount \in Nat, TypeOK, SecondPass, NextRoot
    PROVE  TypeOK' /\ SecondPass' /\ pass' # "order"
  <1>1. /\ pass = "collect" /\ pending = <<>> /\ component = {} /\ next # <<>>
        /\ UNCHANGED <<edges, pass, walk, visited, order, component, cyclic>>
    BY DEF NextRoot
  <1>2. Complete = visited /\ Complete' = Complete
    BY <1>1 DEF Complete
  <1>3. Ranked' /\ WholeComponents' /\ Marked'
    BY <1>1, <1>2 DEF SecondPass, Ranked, WholeComponents, Marked, Left
  <1>4. CASE Head(next) \in visited
    <2>1. next' = Tail(next) /\ pending' = <<>>
      BY <1>1, <1>4 DEF NextRoot
    <2>2. TypeOK'
      BY <1>1, <2>1, NextShape DEF TypeOK
    <2>3. Backwards'
      <3>1. Len(order) \in Nat /\ DOMAIN order = 1..Len(order)
        BY WalkShape
      <3>2. Len(next') = Len(next) - 1 /\ Len(next') <= Len(order') /\ Len(next) \in Nat
        BY <1>1, <2>1, <3>1, NextShape DEF SecondPass, Backwards
      <3>3. \A i \in DOMAIN next' : next'[i] = order[Len(next') + 1 - i]
        <4> SUFFICES ASSUME NEW i \in DOMAIN next'
                     PROVE  next'[i] = order[Len(next') + 1 - i]
          OBVIOUS
        <4>1. i \in 1..Len(next) - 1 /\ next'[i] = next[i + 1] /\ i + 1 \in DOMAIN next
          BY <1>1, <2>1, NextShape
        <4>2. next[i + 1] = order[Len(next) + 1 - (i + 1)]
          BY <4>1 DEF SecondPass, Backwards
        <4>3. Len(next) + 1 - (i + 1) = Len(next') + 1 - i
          BY <3>2, <4>1
        <4> QED BY <4>1, <4>2, <4>3
      <3>4. \A j \in DOMAIN order : j > Len(next') => order[j] \in Complete
        BY <1>1, <1>2, <1>4, <3>1, <3>2, RootIsLatest
      <3> QED BY <1>1, <1>2, <3>2, <3>3, <3>4 DEF Backwards
    <2> QED BY <1>1, <1>3, <2>1, <2>2, <2>3 DEF SecondPass
  <1>5. CASE Head(next) \notin visited
    <2>1. PICK r : r = Head(next)
      OBVIOUS
    <2>2. next' = next /\ pending' = <<r>> /\ r \in States
      BY <1>1, <1>5, <2>1, NextShape DEF NextRoot
    <2>3. TypeOK'
      BY <1>1, <2>2 DEF TypeOK
    <2>4. Backwards'
      BY <1>1, <1>2, <2>2 DEF SecondPass, Backwards
    <2>5. DOMAIN pending' = {1} /\ pending'[1] = r
      BY <2>2
    <2>6. Reaches(edges, r, r)
      BY DEF Reaches
    <2>7. /\ r \notin Complete'
          /\ \E i \in DOMAIN pending' : pending'[i] = r
          /\ component' = {}
          /\ \A i \in DOMAIN pending' : Reaches(edges, pending'[i], r)
      BY <1>1, <1>2, <1>5, <2>1, <2>5, <2>6
    <2>8. Collecting(Head(next))'
      BY <1>1, <2>1, <2>2, <2>7 DEF Collecting
    <2> QED BY <1>1, <1>3, <2>2, <2>3, <2>4, <2>8 DEF SecondPass
  <1> QED BY <1>4, <1>5

LEMMA PredecessorsFinite ==
    ASSUME StateCount \in Nat, NEW s
    PROVE  Sources(s) \in SUBSET States /\ IsFiniteSet(Sources(s))
  <1>1. Sources(s) \in SUBSET States
    BY DEF Sources
  <1> QED BY <1>1, StatesFinite

LEMMA CollectStep ==
    ASSUME StateCount \in Nat, TypeOK, SecondPass, Collect
    PROVE  TypeOK' /\ SecondPass' /\ pass' # "order"
  <1>1. PICK s : s = Last(pending)
    OBVIOUS
  <1>2. /\ pass = "collect" /\ pending # <<>>
        /\ UNCHANGED <<edges, pass, next, walk, order, cyclic>>
    BY DEF Collect
  <1>3. PICK r : r = Head(next)
    OBVIOUS
  <1>4. next # <<>> /\ Collecting(r)
    BY <1>2, <1>3 DEF SecondPass
  <1>5. pending \in Seq(States) /\ edges \in Edges /\ component \subseteq visited /\ visited \subseteq States
    BY DEF TypeOK, SecondPass, WholeComponents
  <1>6. /\ Len(pending) \in Nat \ {0} /\ DOMAIN pending = 1..Len(pending)
        /\ s = pending[Len(pending)] /\ s \in States
        /\ Front(pending) \in Seq(States) /\ Len(Front(pending)) = Len(pending) - 1
        /\ \A i \in 1..Len(pending) - 1 : Front(pending)[i] = pending[i]
    BY <1>1, <1>2, <1>5, Popped, LenProperties
  <1>7. DOMAIN Front(pending) = 1..Len(pending) - 1
    BY <1>6, LenProperties
  <1>8. r \in States
    BY <1>3, <1>4, NextShape
  <1>9. CASE s \in visited
    <2>1. pending' = Front(pending) /\ UNCHANGED <<visited, component>>
      BY <1>1, <1>9 DEF Collect
    <2>2. TypeOK'
      BY <1>2, <1>6, <2>1 DEF TypeOK
    <2>3. Complete' = Complete
      BY <2>1 DEF Complete
    <2>4. Ranked' /\ Backwards' /\ WholeComponents' /\ Marked'
      BY <1>2, <2>1, <2>3 DEF SecondPass, Ranked, Backwards, WholeComponents, Marked, Left
    <2>5. \A i \in DOMAIN pending : pending[i] \in visited \/ \E j \in DOMAIN pending' : pending'[j] = pending[i]
      BY <1>6, <1>7, <1>9, <2>1
    <2>6. \A i \in DOMAIN pending' : i \in DOMAIN pending /\ pending'[i] = pending[i]
      BY <1>6, <1>7, <2>1
    <2>7. r \in component \/ \E i \in DOMAIN pending' : pending'[i] = r
      <3>1. r \in visited => r \in component
        BY <1>4 DEF Collecting, Complete
      <3> QED BY <1>4, <2>5, <3>1 DEF Collecting
    <2>8. \A u \in component : \A p \in Sources(u) : p \in visited \/ \E i \in DOMAIN pending' : pending'[i] = p
      BY <1>4, <2>5 DEF Collecting
    <2>9. \A i \in DOMAIN pending' : Reaches(edges, pending'[i], r)
      BY <1>4, <2>6 DEF Collecting
    <2>10. \A u : Sources(u)' = Sources(u)
      BY <1>2 DEF Sources
    <2>11. r \notin Complete /\ \A u \in component : Same(edges, r, u)
      BY <1>4 DEF Collecting
    <2>12. Collecting(r)'
      BY <1>2, <2>1, <2>3, <2>7, <2>8, <2>9, <2>10, <2>11 DEF Collecting
    <2> QED BY <1>2, <1>3, <1>4, <2>2, <2>4, <2>12 DEF SecondPass
  <1>10. CASE s \notin visited
    <2>1. /\ visited' = visited \cup {s} /\ component' = component \cup {s}
          /\ pending' \in Pushed(Front(pending), Sources(s))
      BY <1>1, <1>10 DEF Collect
    <2>2. /\ pending' \in Seq(States)
          /\ Len(pending') >= Len(pending) - 1
          /\ \A i \in 1..Len(pending) - 1 : pending'[i] = pending[i]
          /\ \A i \in Len(pending) - 1 + 1..Len(pending') : pending'[i] \in Sources(s)
          /\ \A p \in Sources(s) : \E i \in Len(pending) - 1 + 1..Len(pending') : pending'[i] = p
      BY <1>6, <2>1, OnTop, PredecessorsFinite
    <2>3. DOMAIN pending' = 1..Len(pending') /\ Len(pending') \in Nat
      BY <2>2, LenProperties
    <2>4. \A i \in DOMAIN pending' : (i \in DOMAIN pending /\ pending'[i] = pending[i]) \/ pending'[i] \in Sources(s)
      BY <1>6, <2>2, <2>3
    <2>5. \A i \in DOMAIN pending : pending[i] = s \/ \E j \in DOMAIN pending' : pending'[j] = pending[i]
      BY <1>6, <2>2, <2>3
    <2>6. \A p \in Sources(s) : \E i \in DOMAIN pending' : pending'[i] = p
      <3> SUFFICES ASSUME NEW p \in Sources(s)
                   PROVE  \E i \in DOMAIN pending' : pending'[i] = p
        OBVIOUS
      <3>1. PICK i \in Len(pending) - 1 + 1..Len(pending') : pending'[i] = p
        BY <2>2
      <3>2. i \in DOMAIN pending'
        BY <1>6, <2>3, <3>1
      <3> QED BY <3>1, <3>2
    <2>7. TypeOK'
      BY <1>2, <1>6, <2>1, <2>2 DEF TypeOK
    <2>8. Complete' = Complete
      BY <1>5, <1>10, <2>1 DEF Complete
    <2>9. Ranked' /\ Backwards' /\ WholeComponents' /\ Marked'
      BY <1>2, <2>1, <2>8 DEF SecondPass, Ranked, Backwards, WholeComponents, Marked, Left
    <2>10. Reaches(edges, s, r)
      BY <1>4, <1>6 DEF Collecting
    <2>11. r \notin Complete /\ s \notin Complete
      BY <1>4, <1>10 DEF Collecting, Complete
    <2>12. Same(edges, r, s)
      BY <1>3, <1>4, <1>6, <2>10, <2>11, InRootComponent, SameSymmetric
    <2>13. r \in component' \/ \E i \in DOMAIN pending' : pending'[i] = r
      BY <1>4, <2>1, <2>5 DEF Collecting
    <2>14. \A u \in component' : Same(edges, r, u)
      BY <1>4, <2>1, <2>12 DEF Collecting
    <2>15. \A i \in DOMAIN pending' : Reaches(edges, pending'[i], r)
      <3>1. \A p \in Sources(s) : Reaches(edges, p, r)
        <4> SUFFICES ASSUME NEW p \in Sources(s)
                     PROVE  Reaches(edges, p, r)
          OBVIOUS
        <4>1. p \in States /\ s \in Onward(edges, p)
          BY <1>5, OneStep DEF Sources
        <4>2. r \in Onward(edges, p)
          BY <1>5, <1>6, <1>8, <2>10, <4>1, OnwardThen
        <4> QED BY <4>2 DEF Reaches
      <3> QED BY <1>4, <2>4, <3>1 DEF Collecting
    <2>16. \A u \in component' : \A p \in Sources(u) : p \in visited' \/ \E i \in DOMAIN pending' : pending'[i] = p
      <3> SUFFICES ASSUME NEW u \in component', NEW p \in Sources(u), p \notin visited'
                   PROVE  \E i \in DOMAIN pending' : pending'[i] = p
        OBVIOUS
      <3>1. CASE u = s
        BY <2>6, <3>1
      <3>2. CASE u \in component
        <4>1. PICK i \in DOMAIN pending : pending[i] = p
          BY <1>4, <2>1, <3>2 DEF Collecting
        <4> QED BY <2>1, <2>5, <4>1
      <3> QED BY <2>1, <3>1, <3>2
    <2>17. \A u : Sources(u)' = Sources(u)
      BY <1>2 DEF Sources
    <2>18. Collecting(r)'
      BY <1>2, <2>8, <2>11, <2>13, <2>14, <2>15, <2>16, <2>17 DEF Collecting
    <2> QED BY <1>2, <1>3, <1>4, <2>7, <2>9, <2>18 DEF SecondPass
  <1> QED BY <1>9, <1>10

\* Once nothing waits, what was collected is the whole component of the root.
LEMMA ComponentCollected ==
    ASSUME TypeOK, SecondPass, pending = <<>>, next # <<>>, Collecting(Head(next))
    PROVE  \A u \in States : u \in component <=> Same(edges, Head(next), u)
  <1>1. PICK r : r = Head(next)
    OBVIOUS
  <1>2. r \in States /\ edges \in Edges /\ component \subseteq States /\ Collecting(r)
    BY <1>1, NextShape DEF TypeOK
  <1>3. DOMAIN pending = {}
    OBVIOUS
  <1>4. /\ r \in component /\ r \notin Complete
        /\ \A u \in component : Sources(u) \subseteq visited
    BY <1>2, <1>3 DEF Collecting
  <1>5. \A u \in component : Same(edges, r, u)
    BY <1>2 DEF Collecting
  \* A state with an edge into the collected ones that was not collected.
  <1>6. \A u \in States \ component, y \in component : y \in edges[u] => u \in Complete
    BY <1>4 DEF Sources, Complete
  <1>7. \A u \in Complete : ~Same(edges, u, r)
    BY <1>2, <1>4 DEF SecondPass, WholeComponents
  <1>8. ASSUME NEW u \in States, Same(edges, r, u), u \notin component
        PROVE  FALSE
    <2>1. r # u /\ r \in Onward(edges, u) /\ u \in Onward(edges, r)
      BY <1>4, <1>8 DEF Same, Reaches
    <2> DEFINE C == Onward(edges, u) \ component
    <2>2. C \in SUBSET States
      BY OnwardType
    <2>3. \A v \in States \ component : Reaches(edges, u, v) => edges[v] \subseteq C
      <3> SUFFICES ASSUME NEW v \in States \ component, Reaches(edges, u, v), NEW y \in edges[v]
                   PROVE  y \in C
        OBVIOUS
      <3>1. y \in States /\ y \in Onward(edges, v)
        BY <1>2, OneStep DEF Edges
      <3>2. y \in Onward(edges, u)
        BY <1>2, <3>1, OnwardTransitive DEF Reaches
      <3>3. y \notin component
        <4> SUFFICES ASSUME y \in component
                     PROVE  FALSE
          OBVIOUS
        <4>1. v \in Complete
          BY <1>6
        <4>2. Reaches(edges, v, r)
          <5>1. Reaches(edges, y, r) /\ Reaches(edges, v, y)
            BY <1>5, <3>1 DEF Same, Reaches
          <5> QED BY <1>2, <3>1, <5>1, ReachesTransitive
        <4>3. Reaches(edges, r, v)
          <5>1. Reaches(edges, r, u)
            BY <1>8 DEF Same
          <5> QED BY <1>2, <5>1, ReachesTransitive
        <4> QED BY <1>7, <4>1, <4>2, <4>3 DEF Same
      <3> QED BY <3>2, <3>3
    <2>4. edges[u] \subseteq C
      BY <1>8, <2>3 DEF Reaches
    <2>5. Closed(edges, C)
      <3>1. \A v \in C : v \in States \ component /\ Reaches(edges, u, v)
        BY <2>2 DEF Reaches
      <3> QED BY <2>3, <3>1 DEF Closed
    <2> HIDE DEF C
    <2>6. Onward(edges, u) \subseteq C
      BY <1>2, <2>2, <2>4, <2>5, OnwardWithin
    <2> QED BY <1>4, <2>1, <2>6 DEF C
  <1> QED BY <1>1, <1>5, <1>8

\* A component is on a cycle if it has two states or an edge to itself.
LEMMA ComponentOnCycle ==
    ASSUME NEW E \in Edges, NEW r \in States, NEW D \in SUBSET States,
           \A u \in States : u \in D <=> Same(E, r, u)
    PROVE  \A v \in D : v \in Onward(E, v) <=> (D # {r} \/ r \in E[r])
  <1>1. r \in D
    BY DEF Same, Reaches
  <1> SUFFICES ASSUME NEW v \in D
               PROVE  v \in Onward(E, v) <=> (D # {r} \/ r \in E[r])
    OBVIOUS
  <1>2. CASE v # r
    <2>1. v \in Onward(E, r) /\ r \in Onward(E, v)
      BY <1>2 DEF Same, Reaches
    <2> QED BY <1>1, <1>2, <2>1, OnwardTransitive
  <1>3. CASE v = r
    <2>1. CASE D # {r}
      <3>1. PICK u \in D : u # r
        BY <1>1, <2>1
      <3>2. u \in Onward(E, r) /\ r \in Onward(E, u)
        BY <3>1 DEF Same, Reaches
      <3> QED BY <1>3, <2>1, <3>2, OnwardTransitive
    <2>2. CASE r \in E[r]
      BY <1>3, <2>2, OneStep
    <2>3. CASE D = {r} /\ r \notin E[r]
      <3> SUFFICES ASSUME r \in Onward(E, r)
                   PROVE  FALSE
        BY <1>3, <2>3
      <3>1. PICK y \in E[r] : r \in Onward(E, y)
        BY <2>3, FirstStep
      <3>2. y \in States /\ y \in Onward(E, r)
        BY OneStep DEF Edges
      <3>3. Same(E, r, y)
        BY <3>1, <3>2 DEF Same, Reaches
      <3> QED BY <2>3, <3>2, <3>3
    <2> QED BY <2>1, <2>2, <2>3
  <1> QED BY <1>2, <1>3

LEMMA MarkStep ==
    ASSUME StateCount \in Nat, TypeOK, SecondPass, Mark
    PROVE  TypeOK' /\ SecondPass' /\ pass' # "order"
  <1>1. PICK r : r = Head(next)
    OBVIOUS
  <1>2. /\ pass = "collect" /\ pending = <<>> /\ component # {}
        /\ cyclic' = IF component # {r} \/ r \in edges[r] THEN cyclic \cup component ELSE cyclic
        /\ component' = {} /\ next' = Tail(next)
        /\ UNCHANGED <<edges, pass, walk, visited, order, pending>>
    BY <1>1 DEF Mark
  <1>3. next # <<>> /\ Collecting(r)
    BY <1>1, <1>2 DEF SecondPass
  <1>4. edges \in Edges /\ component \in SUBSET States /\ r \in States
    BY <1>1, <1>3, NextShape DEF TypeOK
  <1>5. \A u \in States : u \in component <=> Same(edges, r, u)
    BY <1>1, <1>2, <1>3, ComponentCollected
  <1>6. \A v \in component : v \in Onward(edges, v) <=> (component # {r} \/ r \in edges[r])
    BY <1>4, <1>5, ComponentOnCycle
  <1>7. Complete' = Complete \cup component /\ component \cap Complete = {}
    BY <1>2 DEF SecondPass, WholeComponents, Complete
  <1>8. TypeOK'
    BY <1>2, <1>3, <1>4, NextShape DEF TypeOK
  <1>9. Ranked'
    BY <1>2 DEF SecondPass, Ranked, Left
  <1>10. Backwards'
    <2>1. Len(order) \in Nat /\ DOMAIN order = 1..Len(order)
      BY WalkShape
    <2>2. Len(next') = Len(next) - 1 /\ Len(next') <= Len(order') /\ Len(next) \in Nat
      BY <1>2, <1>3, <2>1, NextShape DEF SecondPass, Backwards
    <2>3. \A i \in DOMAIN next' : next'[i] = order[Len(next') + 1 - i]
      <3> SUFFICES ASSUME NEW i \in DOMAIN next'
                   PROVE  next'[i] = order[Len(next') + 1 - i]
        OBVIOUS
      <3>1. i \in 1..Len(next) - 1 /\ next'[i] = next[i + 1] /\ i + 1 \in DOMAIN next
        BY <1>2, <1>3, NextShape
      <3>2. next[i + 1] = order[Len(next) + 1 - (i + 1)]
        BY <3>1 DEF SecondPass, Backwards
      <3>3. Len(next) + 1 - (i + 1) = Len(next') + 1 - i
        BY <2>2, <3>1
      <3> QED BY <3>1, <3>2, <3>3
    <2>4. \A j \in DOMAIN order : j > Len(next') => order[j] \in Complete'
      <3> SUFFICES ASSUME NEW j \in DOMAIN order, j > Len(next')
                   PROVE  order[j] \in Complete'
        OBVIOUS
      <3>1. CASE j > Len(next)
        BY <1>3, <1>7, <3>1, RootIsLatest
      <3>2. CASE j = Len(next)
        <4>1. order[j] = r
          BY <1>1, <1>3, <3>2, RootIsLatest
        <4>2. r \in component
          BY <1>4, <1>5 DEF Same, Reaches
        <4> QED BY <1>7, <4>1, <4>2
      <3> QED BY <2>1, <2>2, <3>1, <3>2
    <2> QED BY <1>2, <2>2, <2>3, <2>4 DEF Backwards
  <1>11. WholeComponents'
    <2> SUFFICES ASSUME NEW s \in Complete', NEW t \in States, Same(edges, s, t)
                 PROVE  t \in Complete'
      BY <1>2 DEF WholeComponents
    <2>1. CASE s \in Complete
      BY <1>7, <2>1 DEF SecondPass, WholeComponents
    <2>2. CASE s \in component
      BY <1>4, <1>5, <1>7, <2>2, SameTransitive
    <2> QED BY <1>7, <2>1, <2>2
  <1>12. Marked'
    BY <1>2, <1>6, <1>7 DEF SecondPass, Marked
  <1> QED BY <1>2, <1>8, <1>9, <1>10, <1>11, <1>12 DEF SecondPass

LEMMA FinishStep ==
    ASSUME StateCount \in Nat, TypeOK, SecondPass, AllCollected
    PROVE  TypeOK' /\ SecondPass' /\ pass' # "order"
  <1>1. /\ pending = <<>> /\ component = {} /\ next = <<>> /\ pass' = "done"
        /\ UNCHANGED <<edges, next, walk, visited, order, pending, component, cyclic>>
    BY DEF AllCollected
  <1>2. TypeOK'
    BY <1>1 DEF TypeOK
  <1>3. Complete' = Complete /\ Left' = Left
    BY <1>1 DEF Complete, Left
  <1>4. Ranked' /\ Backwards' /\ WholeComponents' /\ Marked'
    BY <1>1, <1>3 DEF SecondPass, Ranked, Backwards, WholeComponents, Marked
  <1> QED BY <1>1, <1>2, <1>4 DEF SecondPass

-----------------------------------------------------------------------------
(* The theorems. *)

LEMMA StepIInv ==
    ASSUME StateCount \in Nat, IInv, [CyclesNext]_cyclesVars
    PROVE  IInv'
  <1>1. TypeOK
    BY DEF IInv
  <1>2. CASE Start
    BY <1>1, <1>2, StartStep DEF IInv, Start
  <1>3. CASE Exit
    BY <1>1, <1>3, ExitStep DEF IInv, Exit
  <1>4. CASE Enter
    BY <1>1, <1>4, EnterAgain, EnterNew DEF IInv, Enter
  <1>5. CASE Turn
    BY <1>1, <1>5, TurnStep DEF IInv, Turn
  <1>6. CASE NextRoot
    BY <1>1, <1>6, BeginStep DEF IInv, NextRoot
  <1>7. CASE Collect
    BY <1>1, <1>7, CollectStep DEF IInv, Collect
  <1>8. CASE Mark
    BY <1>1, <1>8, MarkStep DEF IInv, Mark
  <1>9. CASE AllCollected
    BY <1>1, <1>9, FinishStep DEF IInv, AllCollected
  <1>10. CASE UNCHANGED cyclesVars
    <2>1. UNCHANGED <<edges, pass, next, walk, visited, order, pending, component, cyclic>>
      BY <1>10 DEF cyclesVars
    <2>2. TypeOK' = TypeOK /\ Left' = Left /\ Open' = Open /\ Complete' = Complete
      BY <2>1 DEF TypeOK, Left, Open, Complete
    <2>3. FirstPass => FirstPass'
      BY <2>1, <2>2 DEF FirstPass, Apart, Chain, Pending, Settled, NoneForgotten
    <2>4. \A u : Sources(u)' = Sources(u)
      BY <2>1 DEF Sources
    <2>5. Collecting(Head(next)) => Collecting(Head(next))'
      BY <2>1, <2>2, <2>4 DEF Collecting
    <2>6. SecondPass => SecondPass'
      BY <2>1, <2>2, <2>5 DEF SecondPass, Ranked, Backwards, WholeComponents, Marked
    <2> QED BY <2>1, <2>2, <2>3, <2>6 DEF IInv
  <1> QED BY <1>2, <1>3, <1>4, <1>5, <1>6, <1>7, <1>8, <1>9, <1>10 DEF CyclesNext

LEMMA IInvCycles ==
    ASSUME IInv
    PROVE  ExactlyTheCycles
  <1>1. ASSUME pass # "order"
        PROVE  cyclic = {s \in visited \ component : s \in Onward(edges, s)}
    BY <1>1 DEF IInv, SecondPass, Marked, Complete
  <1>2. ASSUME pass = "done"
        PROVE  cyclic = {s \in States : s \in Onward(edges, s)}
    <2>1. SecondPass /\ TypeOK /\ next = <<>> /\ pending = <<>> /\ component = {}
      BY <1>2 DEF IInv, SecondPass
    <2>2. Complete = visited /\ visited \subseteq States
      BY <2>1 DEF Complete, TypeOK
    <2>3. Len(next) = 0 /\ DOMAIN order = 1..Len(order) /\ Len(order) \in Nat
      BY <2>1, WalkShape
    <2>4. \A j \in DOMAIN order : order[j] \in visited
      BY <2>1, <2>2, <2>3 DEF SecondPass, Backwards
    <2>5. States \subseteq visited
      BY <2>1, <2>4 DEF SecondPass, Ranked, Left
    <2> QED BY <1>1, <1>2, <2>1, <2>2, <2>5
  <1> QED BY <1>1, <1>2 DEF ExactlyTheCycles

\* Both passes keep what they know of the states left, open and complete.
THEOREM PassesCorrect == CyclesSpec => []IInv
  <1>1. CyclesInit => IInv
    BY InitIInv, StateCountAssumption
  <1>2. IInv /\ [CyclesNext]_cyclesVars => IInv'
    BY StepIInv, StateCountAssumption
  <1> QED BY <1>1, <1>2, PTL DEF CyclesSpec

\* cyclic_states: the states marked are those that lie on a cycle, in a graph of
\* any size whatever the order in which targets and predecessors are pushed.
THEOREM CyclesFound == CyclesSpec => []ExactlyTheCycles
  <1>1. IInv => ExactlyTheCycles
    BY IInvCycles
  <1> QED BY <1>1, PassesCorrect, PTL
=============================================================================
