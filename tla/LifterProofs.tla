---------------------------- MODULE LifterProofs ----------------------------
(***************************************************************************)
(* What the validator accepts, for any code of any length: the machine     *)
(* stays on instructions and in blocks, finds the lists it takes, goes     *)
(* where the edges of the lifted blocks lead, and does in each block what  *)
(* its statements do.                                                      *)
(***************************************************************************)
EXTENDS Lifter, SequenceTheorems, NaturalsInduction, WellFoundedInduction, TLAPS

-----------------------------------------------------------------------------
(* Scans over code. *)

LEMMA LeastSlot ==
    ASSUME NEW S \in SUBSET Nat, S # {}
    PROVE  \E x \in S : \A y \in S : x <= y
  <1>1. PICK x \in S : \A y \in S : <<y, x>> \notin OpToRel(<, Nat)
    BY NatLessThanWellFounded, WFMin
  <1>2. \A y \in S : ~(y < x)
    BY <1>1 DEF OpToRel
  <1> QED BY <1>2

LEMMA SlotInduction ==
    ASSUME NEW lo \in Nat, NEW hi \in Nat, NEW S, lo \in S,
           \A k \in Nat : lo <= k /\ k < hi /\ k \in S => k + 1 \in S
    PROVE  \A k \in lo..hi : k \in S
  <1> DEFINE Missing == {k \in lo..hi : k \notin S}
  <1>1. SUFFICES ASSUME Missing # {} PROVE FALSE
    OBVIOUS
  <1>2. PICK m \in Missing : \A k \in Missing : m <= k
    <2>1. Missing \in SUBSET Nat
      OBVIOUS
    <2> HIDE DEF Missing
    <2> QED BY <1>1, <2>1, LeastSlot
  <1>3. m # lo
    BY <1>2
  <1>4. m - 1 \in Nat /\ lo <= m - 1 /\ m - 1 < hi /\ (m - 1) + 1 = m /\ m - 1 \in lo..hi /\ ~(m <= m - 1)
    BY <1>2, <1>3
  <1>5. m - 1 \in S
    BY <1>2, <1>4
  <1>6. m \in S
    BY <1>4, <1>5
  <1> QED BY <1>2, <1>6

\* A scan carries a value over n slots.
Scanned(f, n, S, a, g) == f \in [0..n -> S] /\ f[0] = a /\ \A k \in 1..n : f[k] = g[k][f[k - 1]]

LEMMA Scans ==
    ASSUME NEW S, NEW n \in Nat, NEW a \in S, NEW g \in [1..n -> [S -> S]]
    PROVE  \E f : Scanned(f, n, S, a, g)
  <1> USE DEF Scanned
  <1> DEFINE Carries(m, f) == Scanned(f, m, S, a, g)
             Short == {m \in 0..n : ~\E f : Carries(m, f)}
  <1>1. SUFFICES ASSUME Short # {} PROVE FALSE
    <2>1. n \in 0..n
      OBVIOUS
    <2> QED BY <2>1
  <1>2. PICK m \in Short : \A i \in Short : m <= i
    <2>1. Short \in SUBSET Nat
      OBVIOUS
    <2> HIDE DEF Short
    <2> QED BY <1>1, <2>1, LeastSlot
  <1>3. m # 0
    <2> SUFFICES ASSUME m = 0 PROVE FALSE
      OBVIOUS
    <2>1. Carries(0, [k \in 0..0 |-> a])
      OBVIOUS
    <2> QED BY <2>1
  <1>4. m - 1 \in 0..n /\ m - 1 \notin Short /\ m \in 1..n
    BY <1>2, <1>3
  <1>5. PICK f : Carries(m - 1, f)
    BY <1>4
  <1>6. g[m][f[m - 1]] \in S
    <2>1. f[m - 1] \in S
      BY <1>4, <1>5
    <2>2. g[m] \in [S -> S]
      BY <1>4
    <2> QED BY <2>1, <2>2
  <1>7. PICK b \in S : b = g[m][f[m - 1]]
    BY <1>6
  <1> DEFINE h == [k \in 0..m |-> IF k = m THEN b ELSE f[k]]
  <1>8. h \in [0..m -> S]
    BY <1>4, <1>5, <1>7
  <1>9. h[0] = a
    BY <1>3, <1>4, <1>5
  <1>10. ASSUME NEW k \in 1..m PROVE h[k] = g[k][h[k - 1]]
    <2>1. CASE k = m
      BY <2>1, <1>4, <1>7
    <2>2. CASE k # m
      <3>1. k \in 1..m - 1 /\ k - 1 \in 0..m /\ k - 1 # m
        BY <2>2, <1>4
      <3> QED BY <3>1, <1>5
    <2> QED BY <2>1, <2>2
  <1>11. Carries(m, h)
    BY <1>8, <1>9, <1>10
  <1> QED BY <1>11, <1>2

-----------------------------------------------------------------------------
(* Instructions and their slots. *)

\* S are the slots of c that hold an instruction.
Heads(c, S) ==
    /\ S \subseteq 1..Len(c)
    /\ \A p \in 1..Len(c) : p \in S <=> (p = 1 \/ ~(p - 1 \in S /\ HasAux(c[p - 1])))

\* Instructions with an AUX word have it in the next slot.
WithWords(c, S) == \A p \in S : HasAux(c[p]) => p + 1 \in 1..Len(c) /\ c[p + 1] = Nop

Whole == code \in Seq(Instructions) /\ \E S : Heads(code, S) /\ WithWords(code, S)

LEMMA NopIsInstruction == Nop \in Instructions /\ ~HasAux(Nop) /\ ~Jumps(Nop)
  BY DEF Nop, Ins, Instructions, Opcodes, HasAux, Jumps

LEMMA OneHeads ==
    ASSUME NEW c, Len(c) \in Nat, NEW S, NEW T, Heads(c, S), Heads(c, T)
    PROVE  S = T
  <1> DEFINE Differ == {p \in 1..Len(c) : (p \in S) # (p \in T)}
  <1>1. SUFFICES ASSUME Differ # {} PROVE FALSE
    BY DEF Heads
  <1>2. PICK m \in Differ : \A p \in Differ : m <= p
    <2>1. Differ \in SUBSET Nat
      OBVIOUS
    <2> HIDE DEF Differ
    <2> QED BY <1>1, <2>1, LeastSlot
  <1>3. m # 1
    BY <1>2 DEF Heads
  <1>4. m - 1 \in 1..Len(c) /\ m - 1 \notin Differ
    BY <1>2, <1>3
  <1> QED BY <1>2, <1>3, <1>4 DEF Heads

LEMMA StartsAreHeads ==
    ASSUME Len(code) \in Nat, NEW S, Heads(code, S)
    PROVE  Starts = S
  <1> DEFINE start[p \in Pcs] == p = 1 \/ ~(start[p - 1] /\ HasAux(code[p - 1]))
             Reads(h) == h = [p \in Pcs |-> p = 1 \/ ~(h[p - 1] /\ HasAux(code[p - 1]))]
             marks == [p \in Pcs |-> p \in S]
  <1>1. Starts = {p \in Pcs : start[p]}
    BY DEF Starts
  <1>2. Reads(marks)
    <2>1. ASSUME NEW p \in Pcs PROVE marks[p] = (p = 1 \/ ~(marks[p - 1] /\ HasAux(code[p - 1])))
      <3>1. CASE p = 1
        BY <3>1 DEF Heads, Pcs
      <3>2. CASE p # 1
        <4>1. p - 1 \in Pcs
          BY <3>2 DEF Pcs
        <4>2. (p \in S) = (p = 1 \/ ~(p - 1 \in S /\ HasAux(code[p - 1])))
          BY DEF Heads, Pcs
        <4>3. marks[p - 1] = (p - 1 \in S) /\ marks[p] = (p \in S)
          BY <4>1
        <4> HIDE DEF marks
        <4> QED BY <4>2, <4>3
      <3> QED BY <3>1, <3>2
    <2> QED BY <2>1
  <1>3. Reads(start)
    <2>1. start = CHOOSE h : Reads(h)
      OBVIOUS
    <2> HIDE DEF start, Reads
    <2> QED BY <1>2, <2>1
  <1> HIDE DEF start
  <1>4. ASSUME NEW p \in Pcs PROVE p \in Starts <=> (p = 1 \/ ~(p - 1 \in Starts /\ HasAux(code[p - 1])))
    <2>1. p \in Starts <=> start[p]
      BY <1>1
    <2>2. start[p] = (p = 1 \/ ~(start[p - 1] /\ HasAux(code[p - 1])))
      BY <1>3
    <2>3. p # 1 => p - 1 \in Pcs
      BY DEF Pcs
    <2>4. p # 1 => (p - 1 \in Starts <=> start[p - 1])
      BY <2>3, <1>1
    <2> QED BY <2>1, <2>2, <2>4
  <1>5. Heads(code, Starts)
    BY <1>1, <1>4 DEF Heads, Pcs
  <1> QED BY <1>5, OneHeads

\* The shape of code.
CodeShape ==
    /\ code \in Seq(Instructions)
    /\ Starts \subseteq Pcs
    /\ \A p \in Pcs : p \in Starts <=> (p = 1 \/ ~(p - 1 \in Starts /\ HasAux(code[p - 1])))
    /\ \A p \in Starts : HasAux(code[p]) => p + 1 \in Pcs /\ code[p + 1] = Nop

LEMMA ShapeOfWhole == Whole => CodeShape
  <1> SUFFICES ASSUME Whole PROVE CodeShape
    OBVIOUS
  <1>1. PICK S : Heads(code, S) /\ WithWords(code, S)
    BY DEF Whole
  <1>2. Starts = S
    BY <1>1, StartsAreHeads, LenProperties DEF Whole
  <1> QED BY <1>1, <1>2 DEF CodeShape, Whole, Heads, WithWords, Pcs

\* One more instruction is read.
LEMMA WholeGrows ==
    ASSUME Whole, NEW i \in Instructions, code' = code \o Slots(i)
    PROVE  Whole'
  <1>1. PICK S : Heads(code, S) /\ WithWords(code, S)
    BY DEF Whole
  <1>2. /\ code \in Seq(Instructions) /\ Len(code) \in Nat /\ DOMAIN code = 1..Len(code)
    BY LenProperties DEF Whole
  <1>3. Slots(i) \in Seq(Instructions) /\ Slots(i)[1] = i /\ Len(Slots(i)) \in {1, 2}
        /\ (HasAux(i) => Len(Slots(i)) = 2 /\ Slots(i)[2] = Nop) /\ (~HasAux(i) => Len(Slots(i)) = 1)
    BY NopIsInstruction DEF Slots
  <1>4. /\ code' \in Seq(Instructions) /\ Len(code') = Len(code) + Len(Slots(i))
        /\ \A p \in 1..Len(code) : code'[p] = code[p]
        /\ \A p \in 1..Len(Slots(i)) : code'[Len(code) + p] = Slots(i)[p]
    <2> HIDE DEF Slots
    <2>1. code' \in Seq(Instructions)
      BY <1>2, <1>3, ConcatProperties
    <2>2. \A p \in 1..Len(code) : code'[p] = code[p]
      BY <1>2, <1>3, ConcatProperties
    <2>3. \A p \in 1..Len(Slots(i)) : code'[Len(code) + p] = Slots(i)[p]
      BY <1>2, <1>3, ConcatProperties
    <2> QED BY <2>1, <2>2, <2>3, <1>2, <1>3, ConcatProperties
  <1>0. Len(code') \in {Len(code) + 1, Len(code) + 2}
    <2> HIDE DEF Slots
    <2> QED BY <1>3, <1>4
  <1>n. PICK n \in Nat : n = Len(code)
    BY <1>2
  <1> DEFINE T == S \cup {Len(code) + 1}
  <1>5. Len(code) \notin S \/ ~HasAux(code[Len(code)])
    BY <1>1, <1>2 DEF WithWords
  <1>6. Heads(code', T)
    <2>1. T \subseteq 1..Len(code')
      <3>1. S \subseteq 1..n
        BY <1>1, <1>n DEF Heads
      <3>2. Len(code') \in {n + 1, n + 2}
        BY <1>0, <1>n
      <3>3. 1..n \subseteq 1..Len(code') /\ n + 1 \in 1..Len(code')
        BY <3>2
      <3> QED BY <3>1, <3>3, <1>n
    <2>2. ASSUME NEW p \in 1..Len(code')
          PROVE  p \in T <=> (p = 1 \/ ~(p - 1 \in T /\ HasAux(code'[p - 1])))
      <3>1. CASE p \in 1..Len(code)
        <4>1. p \in T <=> p \in S
          BY <3>1, <1>2
        <4>2. p # 1 => (p - 1 \in 1..Len(code) /\ (p - 1 \in T <=> p - 1 \in S) /\ code'[p - 1] = code[p - 1])
          BY <3>1, <1>2, <1>4
        <4> QED BY <3>1, <4>1, <4>2, <1>1 DEF Heads
      <3>2. CASE p = Len(code) + 1
        <4>0. p # 1 => (p - 1 = Len(code) /\ p - 1 \in 1..Len(code) /\ p - 1 # Len(code) + 1)
          BY <3>2, <1>n
        <4>1. p # 1 => ((p - 1 \in T <=> p - 1 \in S) /\ code'[p - 1] = code[p - 1])
          BY <4>0, <1>4
        <4> QED BY <3>2, <4>0, <4>1, <1>5
      <3>3. CASE p = Len(code) + 2
        <4>1. Len(Slots(i)) = 2 /\ HasAux(i)
          BY <3>3, <1>2, <1>3, <1>4
        <4>2. code'[Len(code) + 1] = i
          BY <1>3, <1>4
        <4>3. p \notin T /\ p - 1 \in T /\ p # 1 /\ p - 1 = Len(code) + 1
          BY <3>3, <1>1, <1>2 DEF Heads
        <4> QED BY <4>1, <4>2, <4>3
      <3> HIDE DEF T
      <3> QED BY <3>1, <3>2, <3>3, <1>0, <1>n
    <2> QED BY <2>1, <2>2 DEF Heads
  <1>7. WithWords(code', T)
    <2> SUFFICES ASSUME NEW p \in T, HasAux(code'[p])
                 PROVE  p + 1 \in 1..Len(code') /\ code'[p + 1] = Nop
      BY DEF WithWords
    <2>1. CASE p \in S
      <3>1. p \in 1..Len(code) /\ code'[p] = code[p]
        BY <2>1, <1>1, <1>4 DEF Heads
      <3>2. p + 1 \in 1..Len(code) /\ code[p + 1] = Nop
        BY <2>1, <3>1, <1>1 DEF WithWords
      <3> QED BY <3>2, <1>2, <1>3, <1>4
    <2>2. CASE p = Len(code) + 1
      <3>1. code'[p] = i
        BY <2>2, <1>3, <1>4
      <3>2. Len(Slots(i)) = 2 /\ Slots(i)[2] = Nop
        BY <3>1, <1>3
      <3>3. code'[Len(code) + 2] = Nop /\ p + 1 = Len(code) + 2
        BY <2>2, <3>2, <1>2, <1>4
      <3> QED BY <3>2, <3>3, <1>2, <1>4
    <2> QED BY <2>1, <2>2
  <1> QED BY <1>4, <1>6, <1>7 DEF Whole

-----------------------------------------------------------------------------
(* The scan for open lists. *)

\* The list before a slot.
Before(p) == IF p \in Targets THEN Closed ELSE Open[p - 1]

LEMMA TopType ==
    ASSUME NEW i \in Instructions, NEW top \in Int
    PROVE  TopAfter(i, top) \in Int
  BY DEF TopAfter, Instructions, Closed, Lost

\* What takes a list needs one that starts high enough.
LEMMA ListsRefused ==
    ASSUME NEW i, NEW top
    PROVE  /\ i.op = "CALL" /\ i.b = 0 /\ top <= i.a => TopAfter(i, top) = Lost
           /\ i.op = "RETURN" /\ i.b = 0 /\ top < i.a => TopAfter(i, top) = Lost
           /\ i.op = "SETLIST" /\ i.c = 0 /\ top < i.b => TopAfter(i, top) = Lost
  BY DEF TopAfter, Jumps

LEMMA OpenScans ==
    ASSUME CodeShape
    PROVE  /\ Open \in [0..Len(code) -> Int] /\ Open[0] = Closed
           /\ \A p \in Pcs : Open[p] = IF Open[p - 1] = Lost THEN Lost
                                       ELSE IF p \notin Starts THEN Before(p)
                                       ELSE TopAfter(code[p], Before(p))
  <1>0. Len(code) \in Nat /\ \A p \in Pcs : code[p] \in Instructions
    BY LenProperties, ElementOfSeq DEF CodeShape, Pcs
  <1> DEFINE step(p, x) == LET before == IF p \in Targets THEN Closed ELSE x
                           IN  IF x = Lost THEN Lost
                               ELSE IF p \notin Starts THEN before ELSE TopAfter(code[p], before)
             g == [p \in 1..Len(code) |-> [x \in Int |-> step(p, x)]]
  <1>1. ASSUME NEW p \in Pcs, NEW x \in Int
        PROVE  /\ step(p, x) \in Int
               /\ step(p, x) = IF x = Lost THEN Lost
                               ELSE IF p \notin Starts THEN (IF p \in Targets THEN Closed ELSE x)
                               ELSE TopAfter(code[p], IF p \in Targets THEN Closed ELSE x)
    <2>1. (IF p \in Targets THEN Closed ELSE x) \in Int
      BY DEF Closed
    <2>2. TopAfter(code[p], IF p \in Targets THEN Closed ELSE x) \in Int
      BY <1>0, <2>1, TopType
    <2> QED BY <2>1, <2>2 DEF Lost
  <1> HIDE DEF step
  <1>2. g \in [1..Len(code) -> [Int -> Int]]
    BY <1>1 DEF Pcs
  <1>3. \E f : Scanned(f, Len(code), Int, Closed, g)
    <2>1. Closed \in Int
      BY DEF Closed
    <2> HIDE DEF g
    <2> QED BY <1>0, <1>2, <2>1, Scans
  <1>4. PICK f \in [0..Len(code) -> Int] :
             f[0] = Closed /\ \A p \in 1..Len(code) : f[p] = g[p][f[p - 1]]
    BY <1>3 DEF Scanned
  <1>5. \A p \in 1..Len(code) : p - 1 \in 0..Len(code) /\ f[p - 1] \in Int /\ f[p] = step(p, f[p - 1])
    <2> SUFFICES ASSUME NEW p \in 1..Len(code)
                 PROVE  p - 1 \in 0..Len(code) /\ f[p - 1] \in Int /\ f[p] = step(p, f[p - 1])
      OBVIOUS
    <2>1. p - 1 \in 0..Len(code) /\ f[p - 1] \in Int
      BY <1>0
    <2> QED BY <2>1, <1>4
  <1> DEFINE Reads(h) == h = [p \in 0..Len(code) |-> IF p = 0 THEN Closed ELSE step(p, h[p - 1])]
  <1>6. Reads(f)
    BY <1>0, <1>4, <1>5
  <1>7. Open = CHOOSE h : Reads(h)
    BY DEF Open, step
  <1>8. Reads(Open)
    <2> HIDE DEF Reads
    <2> QED BY <1>6, <1>7
  <1>9. Open[0] = Closed /\ \A p \in 1..Len(code) : Open[p] = step(p, Open[p - 1])
    BY <1>8, <1>0
  <1>10. Open = f
    <2> DEFINE Differ == {p \in 0..Len(code) : Open[p] # f[p]}
    <2>1. SUFFICES ASSUME Differ # {} PROVE FALSE
      BY <1>6, <1>8
    <2>2. PICK m \in Differ : \A p \in Differ : m <= p
      <3>1. Differ \in SUBSET Nat
        BY <1>0
      <3> HIDE DEF Differ
      <3> QED BY <2>1, <3>1, LeastSlot
    <2>3. m # 0
      BY <1>4, <1>9
    <2>4. m \in 1..Len(code) /\ m - 1 \in 0..Len(code) /\ m - 1 \notin Differ
      BY <2>2, <2>3, <1>0
    <2> QED BY <2>2, <2>4, <1>5, <1>9
  <1>11. \A p \in Pcs : Open[p - 1] \in Int
    BY <1>5, <1>10 DEF Pcs
  <1> QED BY <1>1, <1>4, <1>9, <1>10, <1>11 DEF Before, Pcs

\* A scan that loses a list never finds it again.
LEMMA NeverLost ==
    ASSUME CodeShape, OpenOK, NEW p \in 0..Len(code)
    PROVE  Open[p] # Lost
  <1>0. Len(code) \in Nat
    BY LenProperties DEF CodeShape
  <1> DEFINE Losing == {k \in 0..Len(code) : Open[Len(code) - k] = Lost}
  <1>1. SUFFICES ASSUME Open[p] = Lost PROVE FALSE
    OBVIOUS
  <1>2. Len(code) - p \in Losing
    BY <1>0, <1>1
  <1>3. PICK k \in Losing : \A j \in Losing : k <= j
    <2>1. Losing \in SUBSET Nat
      BY <1>0
    <2> HIDE DEF Losing
    <2> QED BY <1>2, <2>1, LeastSlot
  <1>4. k # 0
    BY <1>0, <1>3 DEF OpenOK
  <1>5. k - 1 \in 0..Len(code) /\ Len(code) - (k - 1) \in Pcs
        /\ (Len(code) - (k - 1)) - 1 = Len(code) - k
    BY <1>0, <1>3, <1>4 DEF Pcs
  <1>6. Open[Len(code) - (k - 1)] = Lost
    BY <1>3, <1>5, OpenScans
  <1>7. k - 1 \in Losing
    BY <1>5, <1>6
  <1> QED BY <1>3, <1>7, <1>0

-----------------------------------------------------------------------------
(* Slots and blocks. *)

LEMMA StartRule ==
    ASSUME CodeShape, NEW p \in Pcs
    PROVE  p \in Starts <=> (p = 1 \/ ~(p - 1 \in Starts /\ HasAux(code[p - 1])))
  BY DEF CodeShape

\* Only an AUX word is no instruction.
LEMMA OffStarts ==
    ASSUME CodeShape, NEW p \in Pcs \ Starts
    PROVE  p - 1 \in Starts /\ HasAux(code[p - 1]) /\ code[p] = Nop
  <1>1. p # 1 /\ p - 1 \in Starts /\ HasAux(code[p - 1])
    BY DEF CodeShape
  <1>2. p - 1 + 1 = p
    BY LenProperties DEF CodeShape, Pcs
  <1> QED BY <1>1, <1>2 DEF CodeShape

LEMMA JumpsAreStarts ==
    ASSUME CodeShape, NEW p \in Pcs, Jumps(code[p])
    PROVE  p \in Starts
  BY OffStarts, NopIsInstruction

LEMMA SlotFacts ==
    ASSUME CodeShape, NEW p \in Starts
    PROVE  /\ p \in Nat /\ p >= 1 /\ p <= Len(code) /\ Len(code) \in Nat
           /\ code[p] \in Instructions
           /\ HasAux(code[p]) => Len(Slots(code[p])) = 2
           /\ ~HasAux(code[p]) => Len(Slots(code[p])) = 1
  <1>1. p \in 1..Len(code) /\ Len(code) \in Nat
    BY LenProperties DEF CodeShape, Pcs
  <1>2. code[p] \in Instructions
    BY <1>1, ElementOfSeq DEF CodeShape
  <1>3. Len(<<code[p], Nop>>) = 2 /\ Len(<<code[p]>>) = 1
    OBVIOUS
  <1> QED BY <1>1, <1>2, <1>3 DEF Slots

\* After an instruction and its AUX word comes an instruction, or nothing.
LEMMA NextIsStart ==
    ASSUME CodeShape, NEW p \in Starts
    PROVE  p + Len(Slots(code[p])) \in Starts \cup {Off}
  <1>0. /\ p \in Nat /\ p >= 1 /\ p <= Len(code) /\ Len(code) \in Nat
        /\ HasAux(code[p]) => Len(Slots(code[p])) = 2
        /\ ~HasAux(code[p]) => Len(Slots(code[p])) = 1
    BY SlotFacts
  <1>1. CASE HasAux(code[p])
    <2>1. p + 1 \in Pcs /\ p + 1 \notin Starts
      <3>1. p + 1 \in Pcs /\ (p + 1) - 1 = p /\ p + 1 # 1
        BY <1>1, <1>0 DEF CodeShape
      <3> QED BY <1>1, <3>1, StartRule
    <2>2. p + 2 = Off \/ p + 2 \in Pcs
      BY <2>1, <1>0 DEF Pcs, Off
    <2>3. p + 2 \in Pcs => p + 2 \in Starts
      <3>1. (p + 2) - 1 = p + 1 /\ p + 2 # 1
        BY <1>0
      <3> QED BY <2>1, <3>1, StartRule
    <2> QED BY <1>1, <2>2, <2>3, <1>0
  <1>2. CASE ~HasAux(code[p])
    <2>1. p + 1 = Off \/ p + 1 \in Pcs
      BY <1>0 DEF Pcs, Off
    <2>2. p + 1 \in Pcs => p + 1 \in Starts
      <3>1. (p + 1) - 1 = p /\ p + 1 # 1
        BY <1>0
      <3> QED BY <1>2, <3>1, StartRule
    <2> QED BY <1>2, <2>1, <2>2, <1>0
  <1> QED BY <1>1, <1>2

LEMMA AuxIsNoStart ==
    ASSUME CodeShape, NEW p \in Starts, HasAux(code[p])
    PROVE  p + 1 \in Pcs /\ p + 1 \notin Starts /\ code[p + 1] = Nop
  <1>0. /\ p \in Nat /\ p >= 1 /\ p <= Len(code) /\ Len(code) \in Nat
        /\ HasAux(code[p]) => Len(Slots(code[p])) = 2
        /\ ~HasAux(code[p]) => Len(Slots(code[p])) = 1
    BY SlotFacts
  <1>1. p + 1 \in Pcs /\ (p + 1) - 1 = p /\ p + 1 # 1 /\ code[p + 1] = Nop
    BY <1>0 DEF CodeShape
  <1> QED BY <1>1, StartRule

\* What the scan holds after a whole instruction.
LEMMA OpenAcross ==
    ASSUME CodeShape, TargetsOK, OpenOK, NEW p \in Starts
    PROVE  Open[(p + Len(Slots(code[p]))) - 1] = TopAfter(code[p], Before(p))
  <1>0. /\ p \in Nat /\ p >= 1 /\ p <= Len(code) /\ Len(code) \in Nat
        /\ HasAux(code[p]) => Len(Slots(code[p])) = 2
        /\ ~HasAux(code[p]) => Len(Slots(code[p])) = 1
    BY SlotFacts
  <1>1. p \in Pcs /\ p - 1 \in 0..Len(code)
    BY <1>0 DEF Pcs
  <1>2. Open[p] = TopAfter(code[p], Before(p))
    BY <1>1, OpenScans, NeverLost
  <1>3. CASE HasAux(code[p])
    <2>1. p + 1 \in Pcs /\ p + 1 \notin Starts /\ p + 1 \notin Targets
      BY <1>3, AuxIsNoStart DEF TargetsOK
    <2>2. Open[p] # Lost
      BY <1>0, NeverLost
    <2>3. (p + 1) - 1 = p
      BY <1>0
    <2>4. Open[p + 1] = Open[p]
      BY <2>1, <2>2, <2>3, OpenScans DEF Before
    <2>5. (p + Len(Slots(code[p]))) - 1 = p + 1
      <3>1. Len(Slots(code[p])) = 2
        BY <1>3, <1>0
      <3>2. (p + 2) - 1 = p + 1
        BY <1>0
      <3> QED BY <3>1, <3>2
    <2> QED BY <1>2, <2>4, <2>5
  <1>4. CASE ~HasAux(code[p])
    <2>1. (p + Len(Slots(code[p]))) - 1 = p
      <3>1. Len(Slots(code[p])) = 1
        BY <1>4, <1>0
      <3>2. (p + 1) - 1 = p
        BY <1>0
      <3> QED BY <3>1, <3>2
    <2> QED BY <1>2, <2>1
  <1> QED BY <1>3, <1>4

-----------------------------------------------------------------------------
(* Blocks. *)

\* The slots after a jump that start a block, and a numeric step itself.
StartedBy(p) ==
    IF code[p].op \in {"JUMPIFEQ", "JUMPIFNOTEQ"} THEN {p + 2}
    ELSE IF code[p].op = "FORNLOOP" THEN {p, p + 1} ELSE {p + 1}

LEMMA LeadersAre ==
    ASSUME CodeShape, NEW l
    PROVE  l \in Leaders <=>
               \/ l = 1 \/ l \in Targets
               \/ \E p \in Starts : Jumps(code[p]) /\ l \in StartedBy(p)
  <1> DEFINE led(p) == LET i == code[p]
                       IN  CASE i.op = "LOADB" /\ i.c = 0 -> {}
                             [] i.op \in {"JUMPIFEQ", "JUMPIFNOTEQ"} -> {p + 2, To(p)}
                             [] i.op = "FORNLOOP" -> {p, p + 1, To(p)}
                             [] OTHER -> {p + 1, To(p)}
  <1>1. l \in Leaders <=> l = 1 \/ \E p \in {q \in Pcs : Jumps(code[q])} : l \in led(p)
    BY DEF Leaders
  <1>2. ASSUME NEW p \in Pcs, Jumps(code[p])
        PROVE  led(p) = StartedBy(p) \cup {To(p)} /\ p \in Starts
    <2>1. ~(code[p].op = "LOADB" /\ code[p].c = 0)
      BY <1>2 DEF Jumps
    <2> QED BY <1>2, <2>1, JumpsAreStarts DEF StartedBy
  <1> HIDE DEF led
  <1>3. l \in Targets <=> \E p \in Starts : Jumps(code[p]) /\ l = To(p)
    BY DEF Targets
  <1>4. Starts \subseteq Pcs
    BY DEF CodeShape
  <1> QED BY <1>1, <1>2, <1>3, <1>4

\* A block starts at an instruction, past the end, or at the AUX word of a
\* generic step.
LEMMA LeadersAreSlots ==
    ASSUME CodeShape, TargetsOK, NEW l \in Leaders
    PROVE  \/ l \in Starts \cup {Off}
           \/ l \in Pcs \ Starts /\ l - 1 \in Starts /\ code[l - 1].op = "FORGLOOP"
  <1>1. CASE l = 1
    <2>1. Len(code) \in Nat
      BY LenProperties DEF CodeShape
    <2>2. 1 \in Pcs \/ 1 = Off
      BY <2>1 DEF Pcs, Off
    <2>3. 1 \in Pcs => 1 \in Starts
      BY StartRule
    <2> QED BY <1>1, <2>2, <2>3
  <1>2. CASE l \in Targets
    BY <1>2 DEF TargetsOK
  <1>3. CASE \E p \in Starts : Jumps(code[p]) /\ l \in StartedBy(p)
    <2>1. PICK p \in Starts : Jumps(code[p]) /\ l \in StartedBy(p)
      BY <1>3
    <2>2. HasAux(code[p]) <=> code[p].op \in {"JUMPIFEQ", "JUMPIFNOTEQ", "FORGLOOP"}
      BY <2>1 DEF Jumps, HasAux
    <2>0. p \in Nat
      BY SlotFacts
    <2>3. /\ (p + 1) - 1 = p
          /\ HasAux(code[p]) => p + Len(Slots(code[p])) = p + 2
          /\ ~HasAux(code[p]) => p + Len(Slots(code[p])) = p + 1
      <3>1. (p + 1) - 1 = p
        BY <2>0
      <3> QED BY <3>1, SlotFacts
    <2>4. CASE l = p /\ code[p].op = "FORNLOOP"
      BY <2>4
    <2>5. CASE code[p].op \in {"JUMPIFEQ", "JUMPIFNOTEQ"} /\ l = p + 2
      BY <2>5, <2>2, <2>3, NextIsStart
    <2>6. CASE l = p + 1 /\ ~HasAux(code[p])
      BY <2>6, <2>3, NextIsStart
    <2>7. CASE l = p + 1 /\ code[p].op = "FORGLOOP"
      BY <2>7, <2>2, <2>3, AuxIsNoStart
    <2> QED BY <2>1, <2>2, <2>4, <2>5, <2>6, <2>7 DEF StartedBy
  <1> QED BY <1>1, <1>2, <1>3, LeadersAre

\* No list is open where a block starts, but before a numeric step.
LEMMA BlocksStartClosed ==
    ASSUME CodeShape, TargetsOK, OpenOK, NEW l \in Leaders \cap Starts, code[l].op # "FORNLOOP"
    PROVE  Before(l) = Closed
  <1>1. CASE l = 1
    BY <1>1, OpenScans DEF Before
  <1>2. CASE l \in Targets
    BY <1>2 DEF Before
  <1>3. CASE \E p \in Starts : Jumps(code[p]) /\ l \in StartedBy(p)
    <2>1. PICK p \in Starts : Jumps(code[p]) /\ l \in StartedBy(p)
      BY <1>3
    <2>2. HasAux(code[p]) <=> code[p].op \in {"JUMPIFEQ", "JUMPIFNOTEQ", "FORGLOOP"}
      BY <2>1 DEF Jumps, HasAux
    <2>3. /\ HasAux(code[p]) => p + Len(Slots(code[p])) = p + 2
          /\ ~HasAux(code[p]) => p + Len(Slots(code[p])) = p + 1
      BY SlotFacts
    <2>4. ~(code[p].op = "FORGLOOP")
      BY <2>1, <2>2, AuxIsNoStart DEF StartedBy
    <2>5. l = p + Len(Slots(code[p]))
      BY <2>1, <2>2, <2>3, <2>4 DEF StartedBy
    <2>6. Open[l - 1] = TopAfter(code[p], Before(p))
      BY <2>5, OpenAcross
    <2>7. TopAfter(code[p], Before(p)) = Closed
      BY <2>1 DEF TopAfter, Jumps
    <2> QED BY <2>6, <2>7 DEF Before
  <1> QED BY <1>1, <1>2, <1>3, LeadersAre

\* No block starts in or right after an instruction that does not jump, but
\* where one jumps to or counts.
LEMMA BlocksStartAfterJumps ==
    ASSUME CodeShape, TargetsOK, NEW p \in Starts, NEW l \in Leaders,
           l > p, l < p + Len(Slots(code[p])), code[p].op # "FORGLOOP"
    PROVE  FALSE
  <1>1. /\ p \in Nat /\ (p + 1) - 1 = p
        /\ HasAux(code[p]) => Len(Slots(code[p])) = 2
        /\ ~HasAux(code[p]) => Len(Slots(code[p])) = 1
        /\ Len(code) \in Nat
    BY SlotFacts
  <1>2. l \in Nat
    <2>1. l \in Pcs \cup {Off}
      BY LeadersAreSlots DEF CodeShape
    <2> QED BY <2>1, <1>1 DEF Pcs, Off
  <1>3. CASE HasAux(code[p])
    <2>1. l < p + 2
      BY <1>1, <1>3
    <2>2. l = p + 1
      BY <1>1, <1>2, <2>1
    <2>3. l \in Pcs /\ l \notin Starts
      BY <1>3, <2>2, AuxIsNoStart
    <2>4. l # Off
      BY <2>3, <1>1 DEF Pcs, Off
    <2> QED BY <1>1, <2>2, <2>3, <2>4, LeadersAreSlots
  <1>4. CASE ~HasAux(code[p])
    <2>1. l < p + 1
      BY <1>1, <1>4
    <2> QED BY <1>1, <1>2, <2>1
  <1> QED BY <1>3, <1>4

-----------------------------------------------------------------------------
(* The invariant: the machine is at an instruction of its block, and has the *)
(* list the scan says is open there.                                         *)

Accepted == Valid /\ Admitted /\ NumericPaired

\* An instruction, or the AUX word that a generic step leaves through.
AtInstruction(p) == p \in Starts \/ (p \in Pcs \ Starts /\ p - 1 \in Starts /\ code[p - 1].op = "FORGLOOP")

InBlock(p, b) == b \in Leaders /\ b <= p /\ \A q \in Leaders : ~(b < q /\ q <= p)

HoldsList(p, b, l) ==
    p \in Starts /\ code[p].op # "FORNLOOP" /\ Before(p) # Closed => l.base = Before(p) /\ l.from >= b

At(p, b, l) == AtInstruction(p) /\ InBlock(p, b) /\ HoldsList(p, b, l)

RunInv == phase = "run" => Accepted /\ blocks = Leaders /\ At(pc, block, list)

ListType == list \in [from : Nat, base : Int]

LiftIInv ==
    /\ Whole /\ kit \in Kits /\ ListType
    /\ phase = "read" => pc = 1 /\ block = 1
    /\ RunInv

LEMMA AcceptedFacts ==
    ASSUME Whole, Accepted
    PROVE  CodeShape /\ TargetsOK /\ OpenOK /\ Len(code) \in Nat /\ Len(code) > 0
  <1>1. CodeShape /\ TargetsOK /\ OpenOK /\ code # <<>>
    BY ShapeOfWhole DEF Accepted, Valid
  <1> QED BY <1>1, LenProperties, EmptySeq DEF CodeShape

LEMMA PcIsNumber ==
    ASSUME CodeShape, NEW p, AtInstruction(p)
    PROVE  p \in Pcs /\ p \in Nat /\ p >= 1
  <1>1. p \in Pcs
    BY DEF AtInstruction, CodeShape
  <1> QED BY <1>1, LenProperties DEF Pcs, CodeShape

LEMMA LeaderIsNumber ==
    ASSUME CodeShape, TargetsOK, NEW l \in Leaders
    PROVE  l \in Nat /\ l >= 1 /\ (l = Off \/ AtInstruction(l))
  <1>1. l = Off \/ AtInstruction(l)
    BY LeadersAreSlots DEF AtInstruction
  <1>2. Off \in Nat /\ Off >= 1
    BY LenProperties DEF Off, CodeShape
  <1> QED BY <1>1, <1>2, PcIsNumber

LEMMA AtBlock ==
    ASSUME CodeShape, TargetsOK, OpenOK, NEW to \in Leaders, to # Off, NEW l
    PROVE  At(to, to, l)
  <1>1. AtInstruction(to) /\ to \in Nat
    BY LeaderIsNumber
  <1>2. InBlock(to, to)
    <2>1. \A q \in Leaders : q \in Nat
      BY LeaderIsNumber
    <2> QED BY <1>1, <2>1 DEF InBlock
  <1>3. HoldsList(to, to, l)
    BY BlocksStartClosed DEF HoldsList
  <1> QED BY <1>1, <1>2, <1>3 DEF At

LEMMA AtNext ==
    ASSUME CodeShape, TargetsOK, OpenOK, NEW p \in Starts, NEW b, NEW k, At(p, b, k),
           NEW n, n = p + Len(Slots(code[p])), n \notin Leaders, n # Off,
           code[p].op # "FORGLOOP", NEW l,
           LET top == TopAfter(code[p], Before(p)) IN top # Closed => l.base = top /\ l.from >= b
    PROVE  At(n, b, l)
  <1>1. n \in Starts
    BY NextIsStart
  <1>2. /\ p \in Nat /\ n \in Nat /\ p < n /\ b \in Nat
        /\ \A q \in Leaders : q \in Nat
    <2>1. p \in Nat
      BY SlotFacts
    <2>2. n \in {p + 1, p + 2}
      BY <2>1, SlotFacts
    <2>3. \A q \in Leaders : q \in Nat
      BY LeaderIsNumber
    <2> QED BY <2>1, <2>2, <2>3 DEF At, InBlock
  <1>3. InBlock(n, b)
    <2>1. SUFFICES ASSUME NEW q \in Leaders, b < q, q <= n PROVE FALSE
      BY <1>2 DEF InBlock, At
    <2>2. ~(q <= p)
      BY <2>1 DEF At, InBlock
    <2>3. q # n
      BY <2>1
    <2>4. q > p /\ q < n
      BY <1>2, <2>1, <2>2, <2>3
    <2> QED BY <2>1, <2>4, BlocksStartAfterJumps
  <1>4. HoldsList(n, b, l)
    <2>1. Open[n - 1] = TopAfter(code[p], Before(p))
      BY OpenAcross
    <2> QED BY <2>1 DEF HoldsList, Before
  <1> QED BY <1>1, <1>3, <1>4 DEF At, AtInstruction

\* After the AUX word of a generic step.
LEMMA AtNextOfWord ==
    ASSUME CodeShape, TargetsOK, OpenOK, NEW p \in Pcs \ Starts, NEW b, NEW k, At(p, b, k),
           p + 1 \notin Leaders, p + 1 # Off, NEW l
    PROVE  At(p + 1, b, l)
  <1>1. /\ p - 1 \in Starts /\ code[p - 1].op = "FORGLOOP" /\ code[p] = Nop
    BY OffStarts DEF At, AtInstruction
  <1>2. p \in Nat /\ p \in 1..Len(code) /\ Len(code) \in Nat
    BY LenProperties DEF CodeShape, Pcs
  <1>3. p + 1 \in Starts
    <2>1. p + 1 \in Pcs /\ (p + 1) - 1 = p
      BY <1>2 DEF Pcs, Off
    <2> QED BY <2>1, StartRule
  <1>4. InBlock(p + 1, b)
    <2>1. \A q \in Leaders : q \in Nat
      BY LeaderIsNumber
    <2> QED BY <1>2, <2>1 DEF At, InBlock
  <1>5. Before(p + 1) = Closed
    <2>1. HasAux(code[p - 1]) /\ Len(Slots(code[p - 1])) = 2
      BY <1>1, SlotFacts DEF HasAux
    <2>2. ((p - 1) + Len(Slots(code[p - 1]))) - 1 = p
      BY <2>1, <1>2
    <2>3. Open[p] = TopAfter(code[p - 1], Before(p - 1))
      BY <1>1, <2>2, OpenAcross
    <2>4. Open[p] = Closed
      BY <1>1, <2>3 DEF TopAfter, Jumps
    <2>5. (p + 1) - 1 = p
      BY <1>2
    <2> QED BY <2>4, <2>5 DEF Before
  <1> QED BY <1>3, <1>4, <1>5 DEF At, AtInstruction, HoldsList

-----------------------------------------------------------------------------
(* Steps of the machine leave the code alone. *)

LEMMA CodeKept ==
    ASSUME UNCHANGED code
    PROVE  /\ Starts' = Starts /\ Pcs' = Pcs /\ Targets' = Targets /\ Leaders' = Leaders /\ Open' = Open
           /\ Whole' = Whole /\ Accepted' = Accepted
  <1>1. Starts' = Starts /\ Pcs' = Pcs
    BY DEF Starts, Pcs
  <1>2. Targets' = Targets
    BY <1>1 DEF Targets, To
  <1>3. Leaders' = Leaders
    BY <1>1 DEF Leaders, To
  <1>4. Open' = Open
    BY <1>1, <1>2 DEF Open
  <1>5. Whole' = Whole
    BY DEF Whole
  <1>6. PairsOK' = PairsOK
    BY <1>1 DEF PairsOK, Preps, Steps, LoopTarget, To
  <1>7. GroupsOK' = GroupsOK
    BY <1>1, <1>2 DEF GroupsOK, CapturesOf
  <1>8. RegistersOK' = RegistersOK
    BY <1>1 DEF RegistersOK
  <1>9. Valid' = Valid
    BY <1>1, <1>2, <1>4, <1>6, <1>7, <1>8 DEF Valid, TargetsOK, OpenOK
  <1>10. Admitted' = Admitted
    BY <1>1 DEF Admitted, Admission, FallbackConsumer, Consumes, LoadsCallee
  <1>11. NumericPaired' = NumericPaired
    BY <1>1 DEF NumericPaired, NumericSteps, LoopTarget, To
  <1> QED BY <1>1, <1>2, <1>3, <1>4, <1>5, <1>9, <1>10, <1>11 DEF Accepted

LEMMA AtKept ==
    ASSUME UNCHANGED code
    PROVE  At(pc, block, list)' <=> At(pc', block', list')
  BY CodeKept DEF At, AtInstruction, InBlock, HoldsList, Before

LEMMA Going ==
    ASSUME LiftIInv, phase = "run", UNCHANGED <<code, blocks>>, NEW to, NEW holds, NEW made, Go(to, holds, made),
           \/ to \in Leaders \cup {Gone, Off}
           \/ to = Following /\ (to \notin Leaders /\ to # Off => At(to, block, list'))
    PROVE  RunInv'
  <1>1. CodeShape /\ TargetsOK /\ OpenOK /\ blocks = Leaders /\ Accepted /\ At(pc, block, list)
    BY AcceptedFacts DEF LiftIInv, RunInv
  <1>2. SUFFICES ASSUME phase' = "run" PROVE At(pc', block', list')
    BY <1>1, CodeKept, AtKept DEF RunInv
  <1>3. CASE to \in Leaders \cup {Gone, Off} \/ to # Following
    <2>1. pc' = to /\ block' = to /\ to \notin {Gone, Off}
      BY <1>1, <1>2, <1>3 DEF Go, Following
    <2>2. to \in Leaders
      BY <2>1, <1>3
    <2> QED BY <1>1, <2>1, <2>2, AtBlock
  <1>4. CASE ~(to \in Leaders \cup {Gone, Off} \/ to # Following)
    <2>1. pc' = to /\ block' = block
      BY <1>1, <1>4 DEF Go, Following
    <2> QED BY <1>4, <2>1
  <1> QED BY <1>3, <1>4

LEMMA RunningAt ==
    ASSUME LiftIInv, phase = "run"
    PROVE  /\ CodeShape /\ TargetsOK /\ OpenOK /\ At(pc, block, list) /\ blocks = Leaders
           /\ pc \in Pcs /\ pc \in Nat /\ block \in Nat /\ block >= 1
           /\ pc \notin Starts => code[pc] = Nop
  <1>1. CodeShape /\ TargetsOK /\ OpenOK /\ At(pc, block, list) /\ blocks = Leaders
    BY AcceptedFacts DEF LiftIInv, RunInv
  <1>2. pc \in Pcs /\ pc \in Nat
    BY <1>1, PcIsNumber DEF At
  <1>3. block \in Nat /\ block >= 1
    BY <1>1, LeaderIsNumber DEF At, InBlock
  <1> QED BY <1>1, <1>2, <1>3, OffStarts

\* An instruction that does not jump.
LEMMA PlainStep ==
    ASSUME LiftIInv, phase = "run", pc \in Starts, ~Jumps(code[pc]), UNCHANGED <<code, blocks>>,
           NEW made, Go(Following, FALSE, made),
           LET top == TopAfter(code[pc], Before(pc))
           IN  top # Closed /\ top # Lost => list'.base = top /\ list'.from >= block
    PROVE  RunInv'
  <1>1. /\ CodeShape /\ TargetsOK /\ OpenOK /\ At(pc, block, list)
    BY RunningAt
  <1>2. TopAfter(code[pc], Before(pc)) # Lost
    <2>1. Open[(pc + Len(Slots(code[pc]))) - 1] = TopAfter(code[pc], Before(pc))
      BY <1>1, OpenAcross
    <2>2. (pc + Len(Slots(code[pc]))) - 1 \in 0..Len(code)
      <3>1. /\ pc \in Nat /\ pc >= 1 /\ pc <= Len(code) /\ Len(code) \in Nat
            /\ HasAux(code[pc]) => Len(Slots(code[pc])) = 2 /\ pc + 1 \in 1..Len(code)
            /\ ~HasAux(code[pc]) => Len(Slots(code[pc])) = 1
        BY <1>1, SlotFacts, AuxIsNoStart DEF Pcs
      <3>2. CASE HasAux(code[pc])
        <4>1. (pc + 2) - 1 \in 0..Len(code)
          BY <3>1, <3>2
        <4> QED BY <3>1, <3>2, <4>1
      <3>3. CASE ~HasAux(code[pc])
        <4>1. (pc + 1) - 1 \in 0..Len(code)
          BY <3>1
        <4> QED BY <3>1, <3>3, <4>1
      <3> QED BY <3>2, <3>3
    <2> QED BY <1>1, <2>1, <2>2, NeverLost
  <1>3. code[pc].op # "FORGLOOP"
    BY DEF Jumps
  <1>4. Following \notin Leaders /\ Following # Off => At(Following, block, list')
    BY <1>1, <1>2, <1>3, AtNext DEF Following
  <1> QED BY <1>4, Going

LEMMA JumpStep ==
    ASSUME LiftIInv, phase = "run", UNCHANGED <<code, blocks>>, Jumps(code[pc]), NEW to, NEW holds, NEW made,
           Go(to, holds, made), to \in {To(pc)} \cup StartedBy(pc)
    PROVE  RunInv'
  <1>1. CodeShape /\ pc \in Starts
    BY RunningAt, JumpsAreStarts
  <1>2. to \in Leaders
    BY <1>1, LeadersAre DEF Targets
  <1> QED BY <1>2, Going

LEMMA RunKeeps ==
    ASSUME LiftIInv, Run
    PROVE  RunInv' /\ UNCHANGED <<code, blocks>> /\ phase' # "read" /\ ListType'
  <1>1. phase = "run"
    BY DEF Run, RunPlain, RunLoadB, RunClosure, RunCall, RunVarargs, RunReturn, RunSetList, RunJump, RunTest,
           RunLoop, Running
  <1>2. UNCHANGED <<code, blocks>>
    BY DEF Run, RunPlain, RunLoadB, RunClosure, RunCall, RunVarargs, RunReturn, RunSetList, RunJump, RunTest,
           RunLoop
  <1>3. phase' # "read"
    BY <1>1 DEF Run, RunPlain, RunLoadB, RunClosure, RunCall, RunVarargs, RunReturn, RunSetList, RunJump,
                RunTest, RunLoop, Go
  <1>4. /\ CodeShape /\ TargetsOK /\ OpenOK /\ At(pc, block, list)
        /\ pc \in Pcs /\ pc \in Nat /\ block \in Nat /\ pc >= block
        /\ code[pc] \in Instructions
        /\ pc \notin Starts => code[pc].op = "NOP"
    <2>1. Nop.op = "NOP"
      BY DEF Nop, Ins
    <2>2. code[pc] \in Instructions
      BY <1>1, RunningAt, ElementOfSeq DEF CodeShape, Pcs
    <2> QED BY <1>1, <2>1, <2>2, RunningAt DEF At, InBlock
  <1>5. ListType'
    <2>1. code[pc].a \in Int /\ NoList \in [from : Nat, base : Int] /\ list \in [from : Nat, base : Int]
      BY <1>4 DEF Instructions, NoList, Closed, LiftIInv, ListType
    <2>2. list' \in {list, NoList, [from |-> pc, base |-> code[pc].a]}
      BY DEF Run, RunPlain, RunLoadB, RunClosure, RunCall, RunVarargs, RunReturn, RunSetList, RunJump, RunTest,
             RunLoop
    <2> QED BY <1>4, <2>1, <2>2 DEF ListType
  <1>6. pc \in Starts /\ code[pc].op # "FORNLOOP" /\ Before(pc) # Closed =>
            list.base = Before(pc) /\ list.from >= block
    BY <1>4 DEF At, HoldsList
  <1>7. CASE RunPlain
    <2>1. CASE pc \notin Starts
      <3>1. code[pc] = Nop /\ Following = pc + 1
        <4>1. code[pc] = Nop
          BY <1>1, <2>1, RunningAt
        <4>2. Len(Slots(Nop)) = 1
          BY NopIsInstruction DEF Slots
        <4> QED BY <4>1, <4>2 DEF Following
      <3>2. Following \notin Leaders /\ Following # Off => At(Following, block, list')
        BY <1>4, <2>1, <3>1, AtNextOfWord
      <3>3. PICK made : Go(Following, FALSE, made)
        BY <1>7 DEF RunPlain
      <3> QED BY <1>1, <1>2, <1>3, <1>5, <3>2, <3>3, Going
    <2>2. CASE pc \in Starts
      <3>1. PICK made : Go(Following, FALSE, made)
        BY <1>7 DEF RunPlain
      <3>2. ~Jumps(code[pc]) /\ TopAfter(code[pc], Before(pc)) = Before(pc) /\ code[pc].op # "FORNLOOP"
            /\ list' = list
        BY <1>7 DEF RunPlain, Jumps, TopAfter
      <3> QED BY <1>1, <1>2, <1>3, <1>5, <1>6, <2>2, <3>1, <3>2, PlainStep
    <2> QED BY <2>1, <2>2
  <1>8. CASE RunLoadB
    <2>1. pc \in Starts /\ code[pc].op = "LOADB"
      BY <1>4, <1>8 DEF RunLoadB
    <2>2. PICK made : Go(To(pc), FALSE, made)
      BY <1>8 DEF RunLoadB
    <2>3. CASE code[pc].c = 0
      <3>1. To(pc) = Following
        <4>1. Len(Slots(code[pc])) = 1
          BY <1>4, <2>1, SlotFacts DEF HasAux
        <4>2. pc + 1 + 0 = pc + 1
          BY <1>4
        <4> QED BY <2>1, <2>3, <4>1, <4>2 DEF To, Following
      <3>2. ~Jumps(code[pc]) /\ TopAfter(code[pc], Before(pc)) = Before(pc) /\ list' = list
        BY <1>8, <2>1, <2>3 DEF RunLoadB, Jumps, TopAfter
      <3> QED BY <1>1, <1>2, <1>3, <1>5, <1>6, <2>1, <2>2, <3>1, <3>2, PlainStep
    <2>4. CASE code[pc].c # 0
      <3>1. Jumps(code[pc])
        BY <2>1, <2>4 DEF Jumps
      <3> QED BY <1>1, <1>2, <1>3, <1>5, <2>2, <3>1, JumpStep
    <2> QED BY <2>3, <2>4
  <1>9. CASE RunClosure
    <2>1. pc \in Starts /\ code[pc].op = "NEWCLOSURE" /\ list' = list
      BY <1>4, <1>9 DEF RunClosure
    <2>2. PICK made : Go(Following, FALSE, made)
      BY <1>9 DEF RunClosure
    <2>3. ~Jumps(code[pc]) /\ TopAfter(code[pc], Before(pc)) = Before(pc)
      BY <2>1 DEF Jumps, TopAfter
    <2> QED BY <1>1, <1>2, <1>3, <1>5, <1>6, <2>1, <2>2, <2>3, PlainStep
  <1>10. CASE RunCall
    <2>1. pc \in Starts /\ code[pc].op = "CALL"
      BY <1>4, <1>10 DEF RunCall
    <2>2. PICK made : Go(Following, FALSE, made)
      BY <1>10 DEF RunCall
    <2>3. ~Jumps(code[pc])
      BY <2>1 DEF Jumps
    <2>4. list' = IF code[pc].c = 0 THEN [from |-> pc, base |-> code[pc].a]
                  ELSE IF code[pc].b = 0 THEN NoList ELSE list
      BY <1>10 DEF RunCall
    <2>5. LET top == TopAfter(code[pc], Before(pc))
          IN  top # Closed /\ top # Lost => list'.base = top /\ list'.from >= block
      BY <1>4, <1>6, <2>1, <2>4 DEF TopAfter
    <2> QED BY <1>1, <1>2, <1>3, <1>5, <2>1, <2>2, <2>3, <2>5, PlainStep
  <1>11. CASE RunVarargs
    <2>1. pc \in Starts /\ code[pc].op = "GETVARARGS"
      BY <1>4, <1>11 DEF RunVarargs
    <2>2. PICK made : Go(Following, FALSE, made)
      BY <1>11 DEF RunVarargs
    <2>3. ~Jumps(code[pc])
      BY <2>1 DEF Jumps
    <2>4. list' = IF code[pc].b = 0 THEN [from |-> pc, base |-> code[pc].a] ELSE list
      BY <1>11 DEF RunVarargs
    <2>5. LET top == TopAfter(code[pc], Before(pc))
          IN  top # Closed /\ top # Lost => list'.base = top /\ list'.from >= block
      BY <1>4, <1>6, <2>1, <2>4 DEF TopAfter
    <2> QED BY <1>1, <1>2, <1>3, <1>5, <2>1, <2>2, <2>3, <2>5, PlainStep
  <1>12. CASE RunReturn
    <2>1. PICK made : Go(Gone, FALSE, made)
      BY <1>12 DEF RunReturn
    <2> QED BY <1>1, <1>2, <1>3, <1>5, <2>1, Going
  <1>13. CASE RunSetList
    <2>1. pc \in Starts /\ code[pc].op = "SETLIST"
      BY <1>4, <1>13 DEF RunSetList
    <2>2. PICK made : Go(Following, FALSE, made)
      BY <1>13 DEF RunSetList
    <2>3. ~Jumps(code[pc])
      BY <2>1 DEF Jumps
    <2>4. list' = IF code[pc].c = 0 THEN NoList ELSE list
      BY <1>13 DEF RunSetList
    <2>5. LET top == TopAfter(code[pc], Before(pc))
          IN  top # Closed /\ top # Lost => list'.base = top /\ list'.from >= block
      BY <1>4, <1>6, <2>1, <2>3, <2>4 DEF TopAfter
    <2> QED BY <1>1, <1>2, <1>3, <1>5, <2>1, <2>2, <2>3, <2>5, PlainStep
  <1>14. CASE RunJump
    <2>1. PICK made : Go(To(pc), FALSE, made)
      BY <1>14 DEF RunJump
    <2>2. Jumps(code[pc])
      BY <1>14 DEF RunJump, Jumps
    <2> QED BY <1>1, <1>2, <1>3, <1>5, <2>1, <2>2, JumpStep
  <1>15. ASSUME NEW holds \in BOOLEAN, RunTest(holds)
         PROVE  RunInv'
    <2>1. code[pc].op \in RegisterTests /\ Jumps(code[pc]) /\ pc \in Starts
      BY <1>4, <1>15 DEF RunTest, RegisterTests, Jumps
    <2>2. PICK to, made : Go(to, holds, made) /\ to \in {To(pc), Following}
      BY <1>15 DEF RunTest
    <2>3. Following \in StartedBy(pc)
      <3>1. HasAux(code[pc]) <=> code[pc].op \in {"JUMPIFEQ", "JUMPIFNOTEQ"}
        BY <2>1 DEF RegisterTests, HasAux
      <3>2. /\ HasAux(code[pc]) => pc + Len(Slots(code[pc])) = pc + 2
            /\ ~HasAux(code[pc]) => pc + Len(Slots(code[pc])) = pc + 1
        BY <1>4, <2>1, SlotFacts
      <3>3. code[pc].op # "FORNLOOP"
        BY <2>1 DEF RegisterTests
      <3> QED BY <3>1, <3>2, <3>3 DEF Following, StartedBy
    <2> QED BY <1>1, <1>2, <2>1, <2>2, <2>3, JumpStep
  <1>16. ASSUME NEW holds \in BOOLEAN, RunLoop(holds)
         PROVE  RunInv'
    <2>1. code[pc].op \in LoopMarkers /\ Jumps(code[pc])
      BY <1>16 DEF RunLoop, LoopMarkers, Jumps
    <2>2. PICK to, made : Go(to, holds, made) /\ to \in {To(pc), pc + 1}
      BY <1>16, <2>1 DEF RunLoop, LoopMarkers
    <2>3. pc + 1 \in StartedBy(pc)
      BY <2>1 DEF StartedBy, LoopMarkers
    <2> QED BY <1>1, <1>2, <2>1, <2>2, <2>3, JumpStep
  <1> QED BY <1>2, <1>3, <1>5, <1>7, <1>8, <1>9, <1>10, <1>11, <1>12, <1>13, <1>14, <1>15, <1>16 DEF Run

-----------------------------------------------------------------------------
(* The invariant holds. *)

LEMMA LiftStarts == Init => LiftIInv
  <1> SUFFICES ASSUME Init PROVE LiftIInv
    OBVIOUS
  <1>1. Heads(code, {}) /\ WithWords(code, {}) /\ code \in Seq(Instructions)
    BY DEF Init, Heads, WithWords
  <1>2. Whole
    BY <1>1 DEF Whole
  <1> QED BY <1>2 DEF LiftIInv, Init, ListType, NoList, Closed, RunInv

LEMMA LiftStep == LiftIInv /\ [Next]_vars => LiftIInv'
  <1> SUFFICES ASSUME LiftIInv, [Next]_vars PROVE LiftIInv'
    OBVIOUS
  <1>1. CASE Run /\ UNCHANGED kit
    <2>1. RunInv' /\ UNCHANGED <<code, blocks>> /\ phase' # "read" /\ ListType'
      BY <1>1, RunKeeps
    <2> QED BY <1>1, <2>1, CodeKept DEF LiftIInv
  <1>2. CASE Accept /\ UNCHANGED kit
    <2>1. UNCHANGED <<code, pc, block, list>> /\ phase = "read" /\ phase' # "read"
      BY <1>2 DEF Accept
    <2>2. Whole' /\ Starts' = Starts /\ Leaders' = Leaders
      BY <2>1, CodeKept DEF LiftIInv
    <2>3. ASSUME phase' = "run" PROVE Accepted /\ blocks' = Leaders
      BY <2>3, <1>2 DEF Accept, Accepted
    <2>4. ASSUME phase' = "run" PROVE At(pc, block, list)
      <3>1. CodeShape /\ TargetsOK /\ OpenOK /\ Len(code) > 0 /\ Len(code) \in Nat
        BY <2>3, <2>4, AcceptedFacts DEF LiftIInv
      <3>2. 1 \in Leaders /\ 1 # Off
        BY <3>1, LeadersAre DEF Off
      <3> QED BY <2>1, <3>1, <3>2, AtBlock DEF LiftIInv
    <2>5. RunInv'
      BY <2>1, <2>2, <2>3, <2>4, CodeKept, AtKept DEF RunInv
    <2> QED BY <1>2, <2>1, <2>2, <2>5 DEF LiftIInv, ListType
  <1>3. ASSUME NEW i \in kit.instructions, Read(i), UNCHANGED kit PROVE LiftIInv'
    <2>1. i \in Instructions
      BY KitAssumption DEF LiftIInv
    <2>2. code' = code \o Slots(i) /\ UNCHANGED <<phase, pc, block, list>> /\ phase = "read"
      BY <1>3 DEF Read
    <2>3. Whole'
      BY <2>1, <2>2, WholeGrows DEF LiftIInv
    <2> QED BY <1>3, <2>2, <2>3 DEF LiftIInv, RunInv, ListType
  <1>4. CASE UNCHANGED vars
    <2>1. UNCHANGED <<code, phase, blocks, pc, block, list, kit>>
      BY <1>4 DEF vars
    <2>2. RunInv'
      BY <2>1, CodeKept, AtKept DEF LiftIInv, RunInv
    <2> QED BY <2>1, <2>2, CodeKept DEF LiftIInv, ListType
  <1> QED BY <1>1, <1>2, <1>3, <1>4 DEF Next

\* At every step of the machine the code is what was read, was accepted, and
\* the machine is at an instruction of its block with the list that the scan
\* says is open there.
THEOREM LifterInvariant == Spec => []LiftIInv
  BY LiftStarts, LiftStep, PTL DEF Spec

LEMMA InsideBlock ==
    ASSUME CodeShape, TargetsOK, blocks = Leaders, NEW p \in Pcs, NEW b, InBlock(p, b)
    PROVE  b \in blocks /\ p \in b..BlockEnd(b)
  <1>1. b \in Nat /\ p \in Nat /\ Len(code) \in Nat /\ p <= Len(code) /\ b <= p /\ b \in blocks
    BY LeaderIsNumber, LenProperties DEF InBlock, CodeShape, Pcs
  <1> DEFINE after == {q \in blocks : q > b}
             first == CHOOSE q \in after : \A r \in after : q <= r
  <1>2. BlockEnd(b) = (IF after = {} THEN Off ELSE first) - 1
    BY DEF BlockEnd
  <1>3. CASE after = {}
    <2>1. BlockEnd(b) = Off - 1
      BY <1>2, <1>3
    <2>2. BlockEnd(b) = Len(code)
      BY <2>1, <1>1 DEF Off
    <2> QED BY <1>1, <2>2
  <1>4. CASE after # {}
    <2>1. after \in SUBSET Nat
      BY LeaderIsNumber
    <2>2. first \in after
      <3> HIDE DEF after
      <3> QED BY <1>4, <2>1, LeastSlot
    <2>3. first \in Nat /\ first > p
      BY <1>1, <2>1, <2>2 DEF InBlock
    <2>4. BlockEnd(b) = first - 1
      BY <1>2, <1>4
    <2> HIDE DEF first
    <2> QED BY <1>1, <2>3, <2>4
  <1> QED BY <1>3, <1>4

\* RunsAsValidated, for any code: no AUX word is run as an instruction, a block
\* is left only for the start of another, and what takes a list finds one made
\* in its block, above the registers it takes with it.
THEOREM AcceptedRuns == Spec => []RunsAsValidated
  <1>1. LiftIInv => RunsAsValidated
    <2> SUFFICES ASSUME LiftIInv, phase = "run" PROVE RunsAsValidated
      BY DEF RunsAsValidated
    <2>1. /\ CodeShape /\ TargetsOK /\ OpenOK /\ At(pc, block, list) /\ blocks = Leaders
          /\ pc \in Pcs /\ pc \in Nat /\ block \in Nat
      BY RunningAt
    <2>2. pc \notin Starts => code[pc - 1].op = "FORGLOOP"
      BY <2>1 DEF At, AtInstruction
    <2>3. block \in blocks /\ pc \in block..BlockEnd(block)
      BY <2>1, InsideBlock DEF At
    <2>4. LET i == code[pc]
              least == IF i.op = "CALL" THEN i.a + 1 ELSE IF i.op = "SETLIST" THEN i.b ELSE i.a
          IN  (IF i.op = "SETLIST" THEN i.c = 0 ELSE i.op \in {"CALL", "RETURN"} /\ i.b = 0) =>
                  list.from >= block /\ list.base >= least
      <3> SUFFICES ASSUME IF code[pc].op = "SETLIST" THEN code[pc].c = 0
                          ELSE code[pc].op \in {"CALL", "RETURN"} /\ code[pc].b = 0
                   PROVE  /\ list.from >= block
                          /\ list.base >= IF code[pc].op = "CALL" THEN code[pc].a + 1
                                          ELSE IF code[pc].op = "SETLIST" THEN code[pc].b ELSE code[pc].a
        OBVIOUS
      <3>1. code[pc].op \in {"CALL", "RETURN", "SETLIST"}
        OBVIOUS
      <3>2. pc \in Starts /\ code[pc].a \in Nat /\ code[pc].b \in Nat
        <4>1. Nop.op = "NOP"
          BY DEF Nop, Ins
        <4>2. pc \in Starts
          BY <2>1, <3>1, <4>1, RunningAt
        <4> QED BY <2>1, <4>2, SlotFacts DEF Instructions
      <3>3. Before(pc) \in Int /\ TopAfter(code[pc], Before(pc)) # Lost
        <4>1. pc - 1 \in 0..Len(code) /\ pc \in 0..Len(code)
          BY <2>1, LenProperties DEF Pcs, CodeShape
        <4>2. Before(pc) \in Int
          BY <2>1, <4>1, OpenScans DEF Before, Closed
        <4> QED BY <2>1, <3>2, <4>1, <4>2, OpenScans, NeverLost
      <3>4. Before(pc) >= IF code[pc].op = "CALL" THEN code[pc].a + 1
                          ELSE IF code[pc].op = "SETLIST" THEN code[pc].b ELSE code[pc].a
        <4>1. CASE code[pc].op = "CALL"
          <5>1. code[pc].b = 0
            BY <4>1
          <5>2. ~(Before(pc) <= code[pc].a)
            BY <3>3, <4>1, <5>1, ListsRefused
          <5> QED BY <3>2, <3>3, <4>1, <5>2
        <4>2. CASE code[pc].op = "RETURN"
          <5>1. code[pc].b = 0
            BY <4>2
          <5>2. ~(Before(pc) < code[pc].a)
            BY <3>3, <4>2, <5>1, ListsRefused
          <5> QED BY <3>2, <3>3, <4>2, <5>2
        <4>3. CASE code[pc].op = "SETLIST"
          <5>1. code[pc].c = 0
            BY <4>3
          <5>2. ~(Before(pc) < code[pc].b)
            BY <3>3, <4>3, <5>1, ListsRefused
          <5> QED BY <3>2, <3>3, <4>3, <5>2
        <4> QED BY <3>1, <4>1, <4>2, <4>3
      <3>5. Before(pc) # Closed
        BY <3>2, <3>3, <3>4 DEF Closed
      <3> QED BY <2>1, <3>1, <3>2, <3>4, <3>5 DEF At, HoldsList
    <2> QED BY <2>1, <2>2, <2>3, <2>4 DEF RunsAsValidated
  <1> QED BY <1>1, LifterInvariant, PTL

-----------------------------------------------------------------------------
(* The walk over a block. *)

Events == [ev : {"panic", "call", "op", "return", "list", "test", "loop", "closure"}, pc : Nat,
           regs : SUBSET Int, tail : Nat]
Tops == [from : Nat, base : Int, calls : Seq(Events)]
Walks == [made : Seq(Events), top : Tops, next : Nat]

LEMMA EventType ==
    ASSUME NEW ev \in {"panic", "call", "op", "return", "list", "test", "loop", "closure"},
           NEW at \in Nat, NEW regs \in SUBSET Int, NEW tail \in Nat
    PROVE  Event(ev, at, regs, tail) \in Events
  BY DEF Event, Events

LEMMA RegistersType ==
    ASSUME NEW i \in Instructions
    PROVE  Registers(i) \in SUBSET Int
  BY DEF Registers, Instructions, Opcodes

LEMMA LiftTypes ==
    ASSUME NEW at \in Nat, code[at] \in Instructions, NEW top \in Tops
    PROVE  /\ \A first \in Nat : LET l == LiftCall(at, first, top) IN l.made \in Seq(Events) /\ l.top \in Tops
           /\ LET l == LiftVarargs(at, top) IN l.made \in Seq(Events) /\ l.top \in Tops
           /\ \A first \in Nat, count \in Nat : \A ev \in {"return", "list"} :
                LET l == LiftList(ev, at, first, count, top) IN l.made \in Seq(Events) /\ l.top \in Tops
  <1>1. /\ code[at].a \in Nat /\ code[at].b \in Nat /\ code[at].c \in Nat
        /\ top.from \in Nat /\ top.base \in Int /\ top.calls \in Seq(Events)
    BY DEF Instructions, Tops
  <1>2. NoTop \in Tops
    BY DEF NoTop, Tops, Closed
  <1>3. Panic(at) \in Seq(Events)
    BY EventType DEF Panic
  <1>4. ASSUME NEW first \in Nat
        PROVE  LET l == LiftCall(at, first, top) IN l.made \in Seq(Events) /\ l.top \in Tops
    <2>1. Arguments(at, first, top) \in SUBSET Int /\ After(at, top) \in Nat
      BY <1>1 DEF Arguments, After
    <2>2. Event("call", at, Arguments(at, first, top), After(at, top)) \in Events
      BY <2>1, EventType
    <2> DEFINE made == (IF code[at].b = 0 THEN top.calls ELSE <<>>)
                       \o <<Event("call", at, Arguments(at, first, top), After(at, top))>>
    <2>3. made \in Seq(Events)
      BY <1>1, <2>2
    <2> HIDE DEF made
    <2>4. [from |-> at, base |-> code[at].a, calls |-> made] \in Tops
      BY <1>1, <2>3 DEF Tops
    <2>5. <<>> \in Seq(Events)
      OBVIOUS
    <2>6. LiftCall(at, first, top) =
            IF code[at].b = 0 /\ top = NoTop THEN [made |-> Panic(at), top |-> top]
            ELSE IF code[at].c = 0
                 THEN [made |-> <<>>, top |-> [from |-> at, base |-> code[at].a, calls |-> made]]
                 ELSE [made |-> made, top |-> IF code[at].b = 0 THEN NoTop ELSE top]
      BY DEF LiftCall, made
    <2> QED BY <1>2, <1>3, <2>3, <2>4, <2>5, <2>6
  <1>5. LET l == LiftVarargs(at, top) IN l.made \in Seq(Events) /\ l.top \in Tops
    <2>1. Event("op", at, {}, 0) \in Events
      BY EventType
    <2>2. [from |-> at, base |-> code[at].a, calls |-> <<>>] \in Tops
      BY <1>1 DEF Tops
    <2>3. <<Event("op", at, {}, 0)>> \in Seq(Events) /\ <<>> \in Seq(Events)
      BY <2>1
    <2> QED BY <2>2, <2>3 DEF LiftVarargs
  <1>6. ASSUME NEW first \in Nat, NEW count \in Nat, NEW ev \in {"return", "list"}
        PROVE  LET l == LiftList(ev, at, first, count, top) IN l.made \in Seq(Events) /\ l.top \in Tops
    <2>1. /\ Event(ev, at, first..first + count - 2, 0) \in Events
          /\ Event(ev, at, first..top.base - 1, top.from) \in Events
      BY <1>1, EventType
    <2>2. /\ <<Event(ev, at, first..first + count - 2, 0)>> \in Seq(Events)
          /\ top.calls \o <<Event(ev, at, first..top.base - 1, top.from)>> \in Seq(Events)
      BY <1>1, <2>1
    <2> QED BY <1>2, <1>3, <2>2 DEF LiftList
  <1> QED BY <1>4, <1>5, <1>6

\* Every instruction is lifted, or the AUX word of one.
LEMMA LiftType ==
    ASSUME CodeShape, GroupsOK, NEW at \in Pcs, NEW top \in Tops
    PROVE  /\ Lift(at, top).made \in Seq(Events) /\ Lift(at, top).top \in Tops
           /\ Lift(at, top).next \in Nat /\ Lift(at, top).next > at
  <1>0. at \in Nat /\ code[at] \in Instructions /\ Len(code) \in Nat
    BY LenProperties, ElementOfSeq DEF CodeShape, Pcs
  <1>1. /\ at \in Nat /\ code[at] \in Instructions /\ Len(code) \in Nat
        /\ code[at].op \in Opcodes /\ code[at].a \in Nat /\ code[at].b \in Nat /\ code[at].c \in Nat
        /\ code[at].a + 1 \in Nat /\ code[at].a + 2 \in Nat
    BY <1>0 DEF Instructions
  <1>2. /\ Event("op", at, Registers(code[at]), 0) \in Events
        /\ Event("test", at, Registers(code[at]), 0) \in Events
        /\ Event("loop", at, {code[at].a, code[at].a + 1, code[at].a + 2}, 0) \in Events
        /\ Event("closure", at, CapturesOf(at), 0) \in Events
    <2>1. /\ Registers(code[at]) \in SUBSET Int
          /\ {code[at].a, code[at].a + 1, code[at].a + 2} \in SUBSET Int
          /\ CapturesOf(at) \in SUBSET Int
      BY <1>1, RegistersType DEF CapturesOf
    <2> QED BY <1>1, <2>1, EventType
  <1>3. /\ <<Event("op", at, Registers(code[at]), 0)>> \in Seq(Events)
        /\ <<Event("test", at, Registers(code[at]), 0)>> \in Seq(Events)
        /\ <<Event("loop", at, {code[at].a, code[at].a + 1, code[at].a + 2}, 0)>> \in Seq(Events)
        /\ <<Event("closure", at, CapturesOf(at), 0)>> \in Seq(Events)
        /\ <<>> \in Seq(Events)
    BY <1>2
  <1>4. at + 1 \in Nat /\ at + 1 > at /\ at + 3 \in Nat /\ at + 3 > at
        /\ at + 1 + code[at].b \in Nat /\ at + 1 + code[at].b > at
    <2>1. code[at].b \in Nat
      BY <1>1
    <2> QED BY <1>0, <2>1
  <1> USE DEF Lift, Silent, Operations, Loads, Accesses, Arithmetic, Imports, Closes, RegisterTests, LoopMarkers
  <1>5. CASE code[at].op \in Silent
    BY <1>3, <1>4, <1>5
  <1>6. CASE code[at].op \in Operations
    BY <1>3, <1>4, <1>6
  <1>7. CASE code[at].op \in RegisterTests
    BY <1>3, <1>4, <1>7
  <1>8. CASE code[at].op \in LoopMarkers
    BY <1>3, <1>4, <1>8
  <1>9. CASE code[at].op = "CALL"
    <2>1. LET l == LiftCall(at, code[at].a + 1, top) IN l.made \in Seq(Events) /\ l.top \in Tops
      BY <1>1, LiftTypes
    <2> QED BY <1>4, <1>9, <2>1
  <1>10. CASE code[at].op = "NAMECALL"
    <2>1. at \in Starts
      <3>1. Nop.op = "NOP"
        BY DEF Nop, Ins
      <3> QED BY <1>10, <3>1, OffStarts
    <2>2. at + 2 \in Pcs
      BY <1>10, <2>1 DEF GroupsOK
    <2>3. code[at + 2] \in Instructions /\ at + 2 \in Nat
      BY <2>2, ElementOfSeq, <1>1 DEF CodeShape, Pcs
    <2>4. LET l == LiftCall(at + 2, code[at].a + 2, top) IN l.made \in Seq(Events) /\ l.top \in Tops
      BY <1>1, <2>3, LiftTypes
    <2>5. /\ Lift(at, top).made = LiftCall(at + 2, code[at].a + 2, top).made
          /\ Lift(at, top).top = LiftCall(at + 2, code[at].a + 2, top).top
          /\ Lift(at, top).next = at + 3
      BY <1>10 DEF LiftMethod
    <2> QED BY <1>4, <2>4, <2>5
  <1>11. CASE code[at].op = "GETVARARGS"
    <2>1. LET l == LiftVarargs(at, top) IN l.made \in Seq(Events) /\ l.top \in Tops
      BY <1>1, LiftTypes
    <2> QED BY <1>4, <1>11, <2>1
  <1>12. CASE code[at].op = "RETURN"
    <2>1. LET l == LiftList("return", at, code[at].a, code[at].b, top)
          IN  l.made \in Seq(Events) /\ l.top \in Tops
      BY <1>1, LiftTypes
    <2> QED BY <1>4, <1>12, <2>1
  <1>13. CASE code[at].op = "SETLIST"
    <2>1. LET l == LiftList("list", at, code[at].b, code[at].c, top)
          IN  l.made \in Seq(Events) /\ l.top \in Tops
      BY <1>1, LiftTypes
    <2> QED BY <1>4, <1>13, <2>1
  <1>14. CASE code[at].op = "NEWCLOSURE"
    BY <1>3, <1>4, <1>14 DEF LiftClosure
  <1> QED BY <1>1, <1>5, <1>6, <1>7, <1>8, <1>9, <1>10, <1>11, <1>12, <1>13, <1>14 DEF Opcodes

\* The walk over one slot.
WalkOn(p, so) ==
    LET unit == Lift(p, so.top)
    IN  IF p # so.next THEN so
        ELSE [made |-> so.made \o unit.made, top |-> unit.top,
              next |-> IF Stops(code[p]) THEN Gone ELSE unit.next]

LEMMA WalkOnType ==
    ASSUME CodeShape, GroupsOK, NEW p \in Pcs, NEW so \in Walks
    PROVE  WalkOn(p, so) \in Walks
  <1>1. so.made \in Seq(Events) /\ so.top \in Tops /\ so.next \in Nat
    BY DEF Walks
  <1> DEFINE unit == Lift(p, so.top)
  <1>2. unit.made \in Seq(Events) /\ unit.top \in Tops /\ unit.next \in Nat
    BY <1>1, LiftType
  <1> HIDE DEF unit
  <1>3. so.made \o unit.made \in Seq(Events)
    BY <1>1, <1>2
  <1>4. (IF Stops(code[p]) THEN Gone ELSE unit.next) \in Nat
    BY <1>2 DEF Gone
  <1>5. WalkOn(p, so) = IF p # so.next THEN so
                        ELSE [made |-> so.made \o unit.made, top |-> unit.top,
                              next |-> IF Stops(code[p]) THEN Gone ELSE unit.next]
    BY DEF WalkOn, unit
  <1> QED BY <1>2, <1>3, <1>4, <1>5 DEF Walks

\* A block of the code.
BlockOf(b) == CodeShape /\ TargetsOK /\ GroupsOK /\ blocks = Leaders /\ b \in Leaders /\ b # Off

LEMMA BlockBounds ==
    ASSUME NEW b, BlockOf(b)
    PROVE  /\ b \in Nat /\ b \in Pcs /\ b >= 1 /\ Len(code) \in Nat
           /\ BlockEnd(b) \in Nat /\ b <= BlockEnd(b) /\ BlockEnd(b) <= Len(code)
           /\ \A q \in b..BlockEnd(b) : q \in Pcs /\ q \in Nat
           /\ \A q \in Leaders : q <= b \/ q > BlockEnd(b)
           /\ BlockEnd(b) + 1 \in Leaders \cup {Off}
  <1>1. b \in Nat /\ b >= 1 /\ AtInstruction(b) /\ b \in Pcs /\ Len(code) \in Nat
    BY LeaderIsNumber, PcIsNumber, LenProperties DEF BlockOf, CodeShape
  <1> DEFINE after == {q \in blocks : q > b}
             first == CHOOSE q \in after : \A r \in after : q <= r
  <1>2. BlockEnd(b) = (IF after = {} THEN Off ELSE first) - 1
    BY DEF BlockEnd
  <1>3. \A q \in Leaders : q \in Nat /\ q <= Off
    <2> SUFFICES ASSUME NEW q \in Leaders PROVE q \in Nat /\ q <= Off
      OBVIOUS
    <2>1. q \in Nat /\ (q = Off \/ AtInstruction(q))
      BY LeaderIsNumber DEF BlockOf
    <2>2. q = Off \/ q \in Pcs
      BY <2>1, PcIsNumber DEF BlockOf
    <2> QED BY <1>1, <2>1, <2>2 DEF Pcs, Off
  <1>4. blocks = Leaders
    BY DEF BlockOf
  <1>5. BlockEnd(b) \in Nat /\ b <= BlockEnd(b) /\ BlockEnd(b) <= Len(code)
        /\ (\A q \in Leaders : q <= b \/ q > BlockEnd(b)) /\ BlockEnd(b) + 1 \in Leaders \cup {Off}
    <2>1. CASE after = {}
      <3>1. BlockEnd(b) = Len(code) /\ BlockEnd(b) + 1 = Off
        BY <1>1, <1>2, <2>1 DEF Off
      <3> QED BY <1>1, <1>3, <1>4, <2>1, <3>1 DEF Pcs
    <2>2. CASE after # {}
      <3>1. after \in SUBSET Nat
        BY <1>3, <1>4
      <3>2. first \in after /\ \A r \in after : first <= r
        <4> HIDE DEF after
        <4> QED BY <2>2, <3>1, LeastSlot
      <3>3. first \in Nat /\ first > b /\ first \in Leaders /\ first <= Off
        BY <3>1, <3>2, <1>3, <1>4
      <3>4. BlockEnd(b) = first - 1
        BY <1>2, <2>2
      <3>5. \A q \in Leaders : q <= b \/ q >= first
        BY <3>2, <1>3, <1>4, <1>1
      <3> HIDE DEF first
      <3> QED BY <1>1, <1>3, <3>3, <3>4, <3>5 DEF Off
    <2> QED BY <2>1, <2>2
  <1>6. \A q \in b..BlockEnd(b) : q \in Pcs /\ q \in Nat
    BY <1>1, <1>5 DEF Pcs
  <1> QED BY <1>1, <1>5, <1>6

LEMMA WalkSteps ==
    ASSUME NEW b, BlockOf(b)
    PROVE  /\ Walk(b)[b - 1] = [made |-> <<>>, top |-> NoTop, next |-> b]
           /\ \A p \in b..BlockEnd(b) : Walk(b)[p] = WalkOn(p, Walk(b)[p - 1])
           /\ \A p \in b - 1..BlockEnd(b) : Walk(b)[p] \in Walks
  <1>0. /\ b \in Nat /\ b >= 1 /\ BlockEnd(b) \in Nat /\ b <= BlockEnd(b)
        /\ \A q \in b..BlockEnd(b) : q \in Pcs /\ q \in Nat
    BY BlockBounds
  <1>1. CodeShape /\ GroupsOK
    BY DEF BlockOf
  <1> DEFINE n == BlockEnd(b) - (b - 1)
             start == [made |-> <<>>, top |-> NoTop, next |-> b]
             g == [k \in 1..n |-> [so \in Walks |-> WalkOn(k + (b - 1), so)]]
  <1>2. n \in Nat /\ \A k \in 1..n : k + (b - 1) \in b..BlockEnd(b)
    BY <1>0
  <1>3. start \in Walks
    <2>1. NoTop \in Tops /\ <<>> \in Seq(Events)
      BY DEF NoTop, Tops, Closed
    <2> QED BY <1>0, <2>1 DEF Walks
  <1>4. g \in [1..n -> [Walks -> Walks]]
    <2>1. ASSUME NEW k \in 1..n PROVE [so \in Walks |-> WalkOn(k + (b - 1), so)] \in [Walks -> Walks]
      BY <1>0, <1>1, <1>2, WalkOnType
    <2> HIDE DEF n
    <2> QED BY <2>1
  <1>5. PICK f : Scanned(f, n, Walks, start, g)
    <2> HIDE DEF n, start, g
    <2> QED BY <1>2, <1>3, <1>4, Scans
  <1>6. f \in [0..n -> Walks] /\ f[0] = start /\ \A k \in 1..n : f[k] = WalkOn(k + (b - 1), f[k - 1])
    <2>1. f \in [0..n -> Walks] /\ f[0] = start /\ \A k \in 1..n : f[k] = g[k][f[k - 1]]
      BY <1>5 DEF Scanned
    <2>2. ASSUME NEW k \in 1..n PROVE g[k][f[k - 1]] = WalkOn(k + (b - 1), f[k - 1])
      <3>1. k - 1 \in 0..n
        BY <1>2
      <3>2. f[k - 1] \in Walks
        BY <2>1, <3>1
      <3> HIDE DEF n
      <3> QED BY <3>2
    <2> QED BY <2>1, <2>2
  <1> HIDE DEF start
  <1> DEFINE Reads(h) == h = [p \in b - 1..BlockEnd(b) |-> IF p < b THEN start ELSE WalkOn(p, h[p - 1])]
             walk == [p \in b - 1..BlockEnd(b) |-> f[p - (b - 1)]]
  <1>7. Reads(walk)
    <2>1. ASSUME NEW p \in b - 1..BlockEnd(b)
          PROVE  f[p - (b - 1)] = IF p < b THEN start ELSE WalkOn(p, walk[p - 1])
      <3>1. CASE p < b
        <4>1. p - (b - 1) = 0
          BY <1>0, <3>1
        <4> QED BY <1>6, <3>1, <4>1
      <3>2. CASE ~(p < b)
        <4>1. p - (b - 1) \in 1..n /\ (p - (b - 1)) + (b - 1) = p /\ p - 1 \in b - 1..BlockEnd(b)
              /\ (p - 1) - (b - 1) = (p - (b - 1)) - 1
          BY <1>0, <3>2
        <4>2. walk[p - 1] = f[(p - 1) - (b - 1)]
          BY <4>1
        <4> HIDE DEF walk, n
        <4> QED BY <1>6, <3>2, <4>1, <4>2
      <3> QED BY <3>1, <3>2
    <2> QED BY <2>1
  <1>8. Walk(b) = CHOOSE h : Reads(h)
    BY DEF Walk, WalkOn, start
  <1>9. Reads(Walk(b))
    <2> HIDE DEF Reads
    <2> QED BY <1>7, <1>8
  <1>10. /\ Walk(b)[b - 1] = start
         /\ \A p \in b..BlockEnd(b) : Walk(b)[p] = WalkOn(p, Walk(b)[p - 1])
    <2>1. b - 1 \in b - 1..BlockEnd(b) /\ b - 1 < b
      BY <1>0
    <2>2. \A p \in b..BlockEnd(b) : p \in b - 1..BlockEnd(b) /\ ~(p < b)
      BY <1>0
    <2> HIDE DEF walk
    <2> QED BY <1>9, <2>1, <2>2
  <1>11. \A p \in b - 1..BlockEnd(b) : Walk(b)[p] \in Walks
    <2> DEFINE S == {p \in Nat : Walk(b)[p] \in Walks}
    <2>1. b - 1 \in S
      BY <1>0, <1>3, <1>10
    <2>2. \A k \in Nat : b - 1 <= k /\ k < BlockEnd(b) /\ k \in S => k + 1 \in S
      <3> SUFFICES ASSUME NEW k \in Nat, b - 1 <= k, k < BlockEnd(b), Walk(b)[k] \in Walks
                   PROVE  Walk(b)[k + 1] \in Walks
        OBVIOUS
      <3>1. k + 1 \in b..BlockEnd(b) /\ (k + 1) - 1 = k /\ k + 1 \in Pcs
        BY <1>0
      <3>2. Walk(b)[k + 1] = WalkOn(k + 1, Walk(b)[k])
        BY <1>10, <3>1
      <3> QED BY <1>1, <3>1, <3>2, WalkOnType
    <2>3. b - 1 \in Nat
      BY <1>0
    <2>4. \A k \in b - 1..BlockEnd(b) : k \in S
      <3> HIDE DEF S
      <3> QED BY <1>0, <2>1, <2>2, <2>3, SlotInduction
    <2> QED BY <2>4
  <1> QED BY <1>10, <1>11 DEF start

-----------------------------------------------------------------------------
(* Where a block goes. *)

\* No RETURN was passed since the block was entered.
Unreturned(p, b) == \A q \in Starts : b <= q /\ q < p => code[q].op # "RETURN"

\* A pc of a block, as the machine is at.
Inside(p, b) == BlockOf(b) /\ InBlock(p, b) /\ AtInstruction(p) /\ Unreturned(p, b)

Decides(p) == p \in Starts /\ (Stops(code[p]) \/ Jumps(code[p]))

LEMMA InsideBounds ==
    ASSUME NEW b, NEW p, Inside(p, b)
    PROVE  p \in Nat /\ p \in Pcs /\ b \in Nat /\ b <= p /\ p <= BlockEnd(b) /\ BlockEnd(b) \in Nat
           /\ BlockEnd(b) <= Len(code) /\ Len(code) \in Nat
  <1>1. /\ p \in Nat /\ p \in Pcs /\ b \in Nat /\ b <= p /\ BlockEnd(b) \in Nat
        /\ BlockEnd(b) <= Len(code) /\ b <= BlockEnd(b) /\ Len(code) \in Nat
        /\ BlockEnd(b) + 1 \in Leaders \cup {Off}
    BY BlockBounds, PcIsNumber DEF Inside, InBlock, BlockOf
  <1>2. SUFFICES ASSUME ~(p <= BlockEnd(b)) PROVE FALSE
    BY <1>1
  <1>3. BlockEnd(b) + 1 <= p /\ b < BlockEnd(b) + 1
    BY <1>1, <1>2
  <1>4. BlockEnd(b) + 1 \notin Leaders
    BY <1>3 DEF Inside, InBlock
  <1>5. BlockEnd(b) = Len(code)
    BY <1>1, <1>4 DEF Off
  <1> QED BY <1>1, <1>2, <1>5 DEF Pcs

\* Nothing the machine passed in its block decides where the block goes.
LEMMA NothingDecided ==
    ASSUME NEW b, NEW p, Inside(p, b), NEW q \in Starts, b <= q, q < p
    PROVE  ~Decides(q)
  <1>0. CodeShape /\ TargetsOK /\ b \in Nat /\ p \in Nat /\ q \in Nat /\ code[q].op # "RETURN"
    BY InsideBounds, SlotFacts DEF Inside, BlockOf, Unreturned
  <1>1. SUFFICES ASSUME Jumps(code[q]) PROVE FALSE
    BY <1>0 DEF Decides, Stops, Jumps
  <1>2. \A l \in StartedBy(q) : l \in Leaders
    BY <1>0, <1>1, LeadersAre
  <1>3. \A l \in Leaders : ~(b < l /\ l <= p)
    BY DEF Inside, InBlock
  <1>4. CASE code[q].op \in {"JUMPIFEQ", "JUMPIFNOTEQ"}
    <2>1. p # q + 1
      <3>1. q + 1 \notin Starts /\ (q + 1) - 1 = q
        BY <1>0, <1>4, AuxIsNoStart DEF HasAux
      <3> QED BY <1>4, <3>1 DEF Inside, AtInstruction
    <2>2. q + 2 <= p /\ b < q + 2
      BY <1>0, <2>1
    <2> QED BY <1>2, <1>3, <1>4, <2>2 DEF StartedBy
  <1>5. CASE code[q].op \notin {"JUMPIFEQ", "JUMPIFNOTEQ"}
    <2>1. q + 1 \in StartedBy(q)
      BY <1>5 DEF StartedBy
    <2>2. q + 1 <= p /\ b < q + 1
      BY <1>0
    <2> QED BY <1>2, <1>3, <2>1, <2>2
  <1> QED BY <1>4, <1>5

\* Where the block goes is decided by the first instruction that decides.
LEMMA DecidesFirst ==
    ASSUME NEW b, NEW p, Inside(p, b), Decides(p)
    PROVE  Terminator(b) = p
  <1> DEFINE deciding == {q \in b..BlockEnd(b) : q \in Starts /\ (Stops(code[q]) \/ Jumps(code[q]))}
  <1>1. b \in Nat /\ p \in Nat /\ BlockEnd(b) \in Nat /\ b <= p /\ p <= BlockEnd(b)
    BY InsideBounds
  <1>2. p \in deciding
    BY <1>1 DEF Decides
  <1>3. \A q \in deciding : q \in Nat /\ p <= q
    <2> SUFFICES ASSUME NEW q \in deciding PROVE q \in Nat /\ p <= q
      OBVIOUS
    <2>1. q \in Nat /\ b <= q /\ q \in Starts /\ Decides(q)
      BY <1>1 DEF Decides
    <2>2. ~(q < p)
      BY <2>1, NothingDecided
    <2> QED BY <1>1, <2>1, <2>2
  <1>4. Terminator(b) = IF deciding = {} THEN BlockEnd(b)
                        ELSE CHOOSE q \in deciding : \A r \in deciding : q <= r
    BY DEF Terminator
  <1> HIDE DEF deciding
  <1>5. \A q \in deciding : (\A r \in deciding : q <= r) => q = p
    BY <1>1, <1>2, <1>3
  <1> QED BY <1>2, <1>3, <1>4, <1>5

\* The slot after an instruction, or after a spare word.
Onward(p) == IF p \in Starts THEN p + Len(Slots(code[p])) ELSE p + 1

\* A block that the machine leaves without a decision goes on to the next.
LEMMA FallsThrough ==
    ASSUME NEW b, NEW p, Inside(p, b), ~Decides(p), NEW n, n = Onward(p), n \in Leaders \cup {Off}
    PROVE  /\ Terminator(b) = n - 1 /\ \A holds \in BOOLEAN : EdgeTo(b, holds) = n
           /\ code[n - 1].op # "FORNPREP"
  <1>0. /\ b \in Nat /\ p \in Nat /\ p \in Pcs /\ BlockEnd(b) \in Nat /\ Len(code) \in Nat
        /\ b <= p /\ p <= BlockEnd(b) /\ BlockEnd(b) <= Len(code)
    BY InsideBounds
  <1>1. CodeShape /\ TargetsOK /\ BlockOf(b) /\ Leaders \subseteq Nat
    BY LeaderIsNumber DEF Inside, BlockOf
  <1>2. n \in Nat /\ n > p
    <2>1. CASE p \in Starts
      <3>1. n \in {p + 1, p + 2}
        BY <1>1, <2>1, SlotFacts DEF Onward
      <3> QED BY <1>0, <3>1
    <2>2. CASE p \notin Starts
      BY <1>0, <2>2 DEF Onward
    <2> QED BY <2>1, <2>2
  <1>3. \A l \in Leaders : ~(p < l /\ l < n)
    <2> SUFFICES ASSUME NEW l \in Leaders, p < l, l < n PROVE FALSE
      OBVIOUS
    <2>1. CASE p \in Starts
      <3>1. code[p].op # "FORGLOOP"
        BY <2>1 DEF Decides, Jumps
      <3> QED BY <1>1, <2>1, <3>1, BlocksStartAfterJumps DEF Onward
    <2>2. CASE p \notin Starts
      BY <1>0, <1>1, <2>2 DEF Onward
    <2> QED BY <2>1, <2>2
  <1>4. BlockEnd(b) = n - 1
    <2>1. BlockEnd(b) + 1 \in Leaders \cup {Off}
      BY <1>1, BlockBounds
    <2>2. \A q \in Leaders : q <= b \/ q > BlockEnd(b)
      BY <1>1, BlockBounds
    <2>3. BlockEnd(b) < n
      <3>1. CASE n \in Leaders
        BY <1>0, <1>2, <2>2, <3>1
      <3>2. CASE n = Off
        BY <1>0, <3>2 DEF Off
      <3> QED BY <3>1, <3>2
    <2>4. ~(BlockEnd(b) + 1 < n)
      <3>1. CASE BlockEnd(b) + 1 \in Leaders
        BY <1>0, <1>3, <3>1
      <3>2. CASE BlockEnd(b) + 1 = Off
        <4>1. n <= Off
          <5>1. \A l \in Leaders : l <= Off
            <6> SUFFICES ASSUME NEW l \in Leaders PROVE l <= Off
              OBVIOUS
            <6>1. l = Off \/ l \in Pcs
              BY <1>1, LeaderIsNumber, PcIsNumber
            <6> QED BY <1>0, <6>1 DEF Pcs, Off
          <5>2. Off \in Nat
            BY <1>0 DEF Off
          <5> QED BY <5>1, <5>2
        <4>2. Off \in Nat
          BY <1>0 DEF Off
        <4> QED BY <1>2, <3>2, <4>1, <4>2
      <3> QED BY <2>1, <3>1, <3>2
    <2> QED BY <1>0, <1>2, <2>3, <2>4
  <1>5. ~Decides(n - 1) /\ code[n - 1].op \notin {"RETURN", "JUMP", "JUMPX", "JUMPIF", "JUMPIFNOT", "JUMPIFEQ",
              "JUMPIFNOTEQ", "FORGPREP", "FORGLOOP", "FORNPREP", "FORNLOOP"}
        /\ ~(code[n - 1].op = "LOADB" /\ code[n - 1].c # 0)
        /\ \A q \in Starts : b <= q /\ q <= n - 1 => ~Decides(q)
    <2>1. CASE p \in Starts /\ ~HasAux(code[p])
      <3>0. n = p + 1
        BY <1>1, <2>1, SlotFacts DEF Onward
      <3>1. n = p + 1 /\ n - 1 = p
        BY <1>0, <3>0
      <3>2. \A q \in Starts : q \in Nat
        BY <1>1, SlotFacts
      <3>3. \A q \in Starts : b <= q /\ q <= p => q < p \/ q = p
        BY <1>0, <3>2
      <3> QED BY <2>1, <3>1, <3>3, NothingDecided DEF Decides, Stops, Jumps
    <2>2. CASE p \in Starts /\ HasAux(code[p])
      <3>0. n = p + 2
        BY <1>1, <2>2, SlotFacts DEF Onward
      <3>1. n = p + 2 /\ n - 1 = p + 1
        BY <1>0, <3>0
      <3>2. p + 1 \notin Starts /\ code[p + 1].op = "NOP"
        BY <1>1, <2>2, AuxIsNoStart DEF Nop, Ins
      <3>3. \A q \in Starts : q \in Nat
        BY <1>1, SlotFacts
      <3>4. \A q \in Starts : b <= q /\ q <= p + 1 => q < p \/ q = p
        BY <1>0, <3>2, <3>3
      <3> QED BY <3>1, <3>2, <3>4, NothingDecided DEF Decides
    <2>3. CASE p \notin Starts
      <3>1. n = p + 1 /\ n - 1 = p
        BY <1>0, <2>3 DEF Onward
      <3>2. code[p].op = "NOP"
        BY <1>0, <1>1, <2>3, OffStarts DEF Nop, Ins
      <3>3. \A q \in Starts : q \in Nat
        BY <1>1, SlotFacts
      <3>4. \A q \in Starts : b <= q /\ q <= p => q < p
        BY <1>0, <2>3, <3>3
      <3> QED BY <2>3, <3>1, <3>2, <3>4, NothingDecided DEF Decides
    <2> QED BY <2>1, <2>2, <2>3
  <1>6. Terminator(b) = n - 1
    <2>1. {q \in b..BlockEnd(b) : q \in Starts /\ (Stops(code[q]) \/ Jumps(code[q]))} = {}
      BY <1>0, <1>2, <1>4, <1>5 DEF Decides
    <2> QED BY <1>4, <2>1 DEF Terminator
  <1>7. FallThrough(b) = n
    <2>1. CASE BlockEnd(b) < Len(code)
      BY <1>2, <1>4, <2>1 DEF FallThrough
    <2>2. CASE ~(BlockEnd(b) < Len(code))
      <3>1. BlockEnd(b) = Len(code) /\ Off = n
        BY <1>0, <1>2, <1>4, <2>2 DEF Off
      <3> QED BY <2>2, <3>1 DEF FallThrough
    <2> QED BY <2>1, <2>2
  <1>8. ~(b > Len(code))
    BY <1>0
  <1>9. \A holds \in BOOLEAN : EdgeTo(b, holds) = n
    BY <1>5, <1>6, <1>7, <1>8 DEF EdgeTo
  <1> QED BY <1>5, <1>6, <1>9

\* A block of one slot.
LEMMA OneSlot ==
    ASSUME NEW b, BlockOf(b), b + 1 \in Leaders \cup {Off}
    PROVE  BlockEnd(b) = b /\ Terminator(b) = b /\ Statements(b) = Lift(b, NoTop).made
  <1>1. /\ b \in Nat /\ b \in Pcs /\ BlockEnd(b) \in Nat /\ b <= BlockEnd(b) /\ BlockEnd(b) <= Len(code)
        /\ Len(code) \in Nat /\ \A q \in Leaders : q <= b \/ q > BlockEnd(b)
    BY BlockBounds
  <1>2. BlockEnd(b) = b
    <2>1. CASE b + 1 \in Leaders
      <3>1. b + 1 > BlockEnd(b)
        BY <1>1, <2>1
      <3> QED BY <1>1, <3>1
    <2>2. CASE b + 1 = Off
      BY <1>1, <2>2 DEF Off
    <2> QED BY <2>1, <2>2
  <1>3. Terminator(b) = b
    <2> DEFINE deciding == {q \in b..BlockEnd(b) : q \in Starts /\ (Stops(code[q]) \/ Jumps(code[q]))}
    <2>1. Terminator(b) = IF deciding = {} THEN BlockEnd(b)
                          ELSE CHOOSE q \in deciding : \A r \in deciding : q <= r
      BY DEF Terminator
    <2>2. deciding \subseteq {b}
      BY <1>1, <1>2
    <2>3. deciding # {} => deciding = {b}
      BY <2>2
    <2>4. deciding = {b} => (CHOOSE q \in deciding : \A r \in deciding : q <= r) = b
      BY <1>1
    <2> HIDE DEF deciding
    <2> QED BY <1>2, <2>1, <2>3, <2>4
  <1>4. Statements(b) = Lift(b, NoTop).made
    <2>1. b \in b..BlockEnd(b)
      BY <1>1
    <2>2. Walk(b)[b] = WalkOn(b, [made |-> <<>>, top |-> NoTop, next |-> b])
      BY <2>1, WalkSteps
    <2>3. WalkOn(b, [made |-> <<>>, top |-> NoTop, next |-> b]).made = <<>> \o Lift(b, NoTop).made
      BY DEF WalkOn
    <2>4. Lift(b, NoTop).made \in Seq(Events)
      <3>1. NoTop \in Tops
        BY DEF NoTop, Tops, Closed
      <3> QED BY <1>1, <3>1, LiftType DEF BlockOf
    <2>5. <<>> \o Lift(b, NoTop).made = Lift(b, NoTop).made
      BY <2>4
    <2> QED BY <1>2, <2>2, <2>3, <2>5 DEF Statements
  <1> QED BY <1>2, <1>3, <1>4

\* One comes from a block to itself, from a block that does nothing to where it
\* goes, and on from there.
LEMMA ExitItself == \A b : b \in Exits(b)
  BY DEF Exits

LEMMA ExitOn ==
    ASSUME NEW b \in Idle
    PROVE  EdgeTo(b, TRUE) \in Exits(b) /\ \A x \in Exits(EdgeTo(b, TRUE)) : x \in Exits(b)
  <1> DEFINE on == EdgeTo(b, TRUE)
  <1>1. b \in Through(b)
    BY DEF Through
  <1>2. on \in Exits(b)
    BY <1>1 DEF Exits
  <1>3. ASSUME NEW c \in Through(on) PROVE c \in Through(b)
    BY <1>3 DEF Through
  <1>4. ASSUME NEW x \in Exits(on) PROVE x \in Exits(b)
    <2>1. CASE x = on
      BY <1>2, <2>1
    <2>2. CASE \E c \in Through(on) : x = EdgeTo(c, TRUE)
      BY <1>3, <2>2 DEF Exits
    <2> QED BY <1>4, <2>1, <2>2 DEF Exits
  <1> QED BY <1>2, <1>4

\* A block of one jump leads where it jumps.
LEMMA OneJump ==
    ASSUME NEW b, BlockOf(b), code[b].op \in {"JUMP", "JUMPX"}, b \in Starts
    PROVE  /\ Statements(b) = <<>> /\ SilentExit(b) = To(b) /\ To(b) \in Exits(b)
  <1>0. CodeShape /\ b \in Nat /\ b <= Len(code) /\ Len(code) \in Nat /\ blocks = Leaders
    <2>1. b \in Nat /\ b \in Pcs /\ Len(code) \in Nat
      BY BlockBounds
    <2> QED BY <2>1 DEF BlockOf, Pcs
  <1>1. b + 1 \in Leaders
    <2>1. Jumps(code[b]) /\ b + 1 \in StartedBy(b)
      BY DEF Jumps, StartedBy
    <2> QED BY <1>0, <2>1, LeadersAre
  <1>2. Terminator(b) = b /\ Statements(b) = Lift(b, NoTop).made
    BY <1>1, OneSlot
  <1>3. Statements(b) = <<>>
    BY <1>2 DEF Lift, Silent, Operations, Loads, Accesses, Arithmetic, Imports, Closes, RegisterTests, LoopMarkers
  <1>4. SilentExit(b) = To(b)
    BY <1>2 DEF SilentExit
  <1>5. EdgeTo(b, TRUE) = To(b) /\ EdgeTo(b, FALSE) = To(b)
    <2>1. ~(b > Len(code))
      BY <1>0
    <2> QED BY <1>2, <2>1 DEF EdgeTo
  <1>6. b \in Idle
    BY <1>3, <1>5 DEF BlockOf, Idle
  <1> QED BY <1>3, <1>4, <1>5, <1>6, ExitOn

\* The code of a block, and of the run.
BlockCode == CodeShape /\ TargetsOK /\ GroupsOK /\ blocks = Leaders

LEMMA TargetIsBlock ==
    ASSUME BlockCode, NEW p \in Starts, Jumps(code[p])
    PROVE  BlockOf(To(p)) /\ To(p) \in Starts
  <1>1. To(p) \in Targets
    BY DEF Targets
  <1>2. To(p) \in Starts /\ To(p) \in Leaders
    BY <1>1, LeadersAre DEF BlockCode, TargetsOK
  <1>3. To(p) # Off
    BY <1>2, SlotFacts DEF BlockCode, Off
  <1> QED BY <1>2, <1>3 DEF BlockOf, BlockCode

\* A trampoline leads on to where the loop jumps.
LEMMA Threads ==
    ASSUME BlockCode, NEW p \in Starts, Jumps(code[p])
    PROVE  LoopTarget(p) \in Exits(To(p))
  <1>1. CASE LoopTarget(p) = To(p)
    BY <1>1, ExitItself
  <1>2. CASE LoopTarget(p) # To(p)
    <2>1. LoopTarget(p) = To(To(p)) /\ code[To(p)].op = "JUMPX"
      BY <1>2 DEF LoopTarget
    <2> QED BY <2>1, TargetIsBlock, OneJump
  <1> QED BY <1>1, <1>2

\* Where a loop jumps there is an instruction.
LEMMA LoopTargetStarts ==
    ASSUME BlockCode, NEW p \in Starts, Jumps(code[p])
    PROVE  LoopTarget(p) \in Starts /\ LoopTarget(p) \in Leaders
  <1>1. BlockOf(To(p)) /\ To(p) \in Starts
    BY TargetIsBlock
  <1>2. CASE LoopTarget(p) = To(p)
    BY <1>1, <1>2 DEF BlockOf
  <1>3. CASE LoopTarget(p) # To(p)
    <2>1. LoopTarget(p) = To(To(p)) /\ code[To(p)].op = "JUMPX"
      BY <1>3 DEF LoopTarget
    <2>2. Jumps(code[To(p)])
      BY <2>1 DEF Jumps
    <2> QED BY <1>1, <2>1, <2>2, TargetIsBlock DEF BlockOf
  <1> QED BY <1>2, <1>3

LEMMA EmptyConcat ==
    ASSUME NEW S, NEW s \in Seq(S), NEW t \in Seq(S), s \o t = <<>>
    PROVE  s = <<>> /\ t = <<>>
  BY EmptySeq, ConcatProperties, LenProperties

\* What decides with a statement, makes one.
LEMMA DecisionMakes ==
    ASSUME NEW at, NEW top \in Tops, Decides(at), code[at] \in Instructions, at \in Nat,
           code[at].op \notin {"JUMP", "JUMPX"}
    PROVE  Lift(at, top).made # <<>>
  <1>1. code[at].op \in Loads \cup RegisterTests \cup LoopMarkers \cup {"RETURN"}
    BY DEF Decides, Stops, Jumps, Loads, RegisterTests, LoopMarkers
  <1>2. CASE code[at].op = "RETURN"
    <2> DEFINE i == code[at]
    <2>1. Lift(at, top).made = LiftList("return", at, i.a, i.b, top).made
      BY <1>2 DEF Lift, Silent, Operations, Loads, Accesses, Arithmetic, Imports, Closes, RegisterTests, LoopMarkers
    <2>2. i.a \in Nat /\ i.b \in Nat /\ top.calls \in Seq(Events) /\ top.from \in Nat /\ top.base \in Int
      BY DEF Instructions, Tops
    <2>3. Event("return", at, i.a..top.base - 1, top.from) \in Events
      BY <2>2, EventType
    <2>4. <<Event("return", at, i.a..top.base - 1, top.from)>> \in Seq(Events)
      BY <2>3
    <2>5. top.calls \o <<Event("return", at, i.a..top.base - 1, top.from)>> # <<>>
      BY <2>2, <2>4, EmptyConcat
    <2> QED BY <2>1, <2>5 DEF LiftList, Panic
  <1>3. CASE code[at].op \in Loads \cup RegisterTests \cup LoopMarkers
    BY <1>3 DEF Lift, Silent, Operations, Loads, Accesses, Arithmetic, Imports, Closes, RegisterTests, LoopMarkers
  <1> QED BY <1>1, <1>2, <1>3

\* What a unit is made of beyond its first slot decides nothing.
LEMMA UnitsDecideFirst ==
    ASSUME CodeShape, GroupsOK, NEW p \in Pcs, NEW top \in Tops
    PROVE  \A q \in p + 1..Lift(p, top).next - 1 : ~Decides(q)
  <1>0. p \in Nat /\ code[p] \in Instructions /\ Len(code) \in Nat
    BY LenProperties, ElementOfSeq DEF CodeShape, Pcs
  <1>1. code[p].op \in Opcodes /\ code[p].b \in Nat
    BY <1>0 DEF Instructions
  <1>2. code[p].op \in {"NAMECALL", "NEWCLOSURE"} => p \in Starts
    BY OffStarts DEF Nop, Ins
  <1>3. Lift(p, top).next = IF code[p].op = "NAMECALL" THEN p + 3
                            ELSE IF code[p].op = "NEWCLOSURE" THEN p + 1 + code[p].b ELSE p + 1
    BY <1>1 DEF Lift, Opcodes, Silent, Operations, Loads, Accesses, Arithmetic, Imports, Closes, RegisterTests,
                LoopMarkers, LiftMethod, LiftClosure
  <1>4. CASE code[p].op = "NAMECALL"
    <2>1. p + 1 \notin Starts
      BY <1>2, <1>4, AuxIsNoStart DEF HasAux
    <2>2. code[p + 2].op = "CALL"
      BY <1>2, <1>4 DEF GroupsOK
    <2>3. ~Decides(p + 1) /\ ~Decides(p + 2)
      BY <2>1, <2>2 DEF Decides, Stops, Jumps
    <2>4. \A q \in p + 1..(p + 3) - 1 : q = p + 1 \/ q = p + 2
      BY <1>0
    <2> QED BY <1>3, <1>4, <2>3, <2>4
  <1>5. CASE code[p].op = "NEWCLOSURE"
    <2>1. \A q \in CapturesOf(p) : code[q].op = "CAPTURE"
      BY <1>2, <1>5 DEF GroupsOK
    <2>2. \A q \in p + 1..(p + 1 + code[p].b) - 1 : q \in CapturesOf(p)
      BY <1>0, <1>1 DEF CapturesOf
    <2>3. \A q \in CapturesOf(p) : ~Decides(q)
      BY <2>1 DEF Decides, Stops, Jumps
    <2>4. Lift(p, top).next = p + 1 + code[p].b
      BY <1>3, <1>5
    <2> QED BY <2>2, <2>3, <2>4
  <1>6. CASE code[p].op \notin {"NAMECALL", "NEWCLOSURE"}
    <2>1. Lift(p, top).next = p + 1
      BY <1>3, <1>6
    <2>2. \A q \in p + 1..(p + 1) - 1 : FALSE
      BY <1>0
    <2> QED BY <2>1, <2>2
  <1> QED BY <1>4, <1>5, <1>6

\* The walk over a block comes to the instruction that decides.
LEMMA WalkReaches ==
    ASSUME NEW b, BlockOf(b), NEW t \in b..BlockEnd(b), Decides(t),
           \A q \in b..BlockEnd(b) : Decides(q) => t <= q
    PROVE  Walk(b)[t - 1].next = t
  <1>0. /\ b \in Nat /\ t \in Nat /\ BlockEnd(b) \in Nat /\ b <= t /\ t <= BlockEnd(b)
        /\ \A q \in b..BlockEnd(b) : q \in Pcs /\ q \in Nat
    BY BlockBounds
  <1>1. CodeShape /\ GroupsOK
    BY DEF BlockOf
  <1> DEFINE Reaches(p) == Walk(b)[p - 1].next >= p /\ \A q \in p..Walk(b)[p - 1].next - 1 : ~Decides(q)
             S == {p \in Nat : Reaches(p)}
  <1>2. b \in S
    <2>0. Walk(b)[b - 1] = [made |-> <<>>, top |-> NoTop, next |-> b]
      BY WalkSteps
    <2>1. Walk(b)[b - 1].next = b
      BY <2>0
    <2>2. b >= b /\ \A q \in b..b - 1 : FALSE
      BY <1>0
    <2> QED BY <1>0, <2>1, <2>2
  <1>3. ASSUME NEW p \in Nat, b <= p, p < t, Reaches(p)
        PROVE  Reaches(p + 1)
    <2>1. p \in b..BlockEnd(b) /\ p - 1 \in b - 1..BlockEnd(b) /\ p \in Pcs /\ (p + 1) - 1 = p /\ ~(t <= p)
      BY <1>0, <1>3
    <2> DEFINE w == Walk(b)[p - 1]
               unit == Lift(p, w.top)
    <2>2. w \in Walks /\ Walk(b)[p] = WalkOn(p, w) /\ ~Decides(p)
      BY <2>1, WalkSteps
    <2>3. w.next \in Nat /\ w.next >= p /\ w.top \in Tops
      BY <2>2, <1>3 DEF Walks
    <2>4. CASE p # w.next
      <3>1. Walk(b)[p] = w
        BY <2>2, <2>4 DEF WalkOn
      <3>2. w.next >= p + 1 /\ \A q \in p + 1..w.next - 1 : q \in p..w.next - 1
        BY <2>3, <2>4
      <3>3. \A q \in p..w.next - 1 : ~Decides(q)
        BY <1>3
      <3> HIDE DEF w
      <3> QED BY <2>1, <3>1, <3>2, <3>3
    <2>5. CASE p = w.next
      <3>1. ~Stops(code[p])
        <4>1. CASE p \in Starts
          BY <2>2, <4>1 DEF Decides
        <4>2. CASE p \notin Starts
          BY <1>1, <2>1, <4>2, OffStarts DEF Stops, Nop, Ins
        <4> QED BY <4>1, <4>2
      <3>2. Walk(b)[p].next = unit.next
        BY <2>2, <2>5, <3>1 DEF WalkOn
      <3>3. unit.next \in Nat /\ unit.next > p
        BY <1>1, <2>1, <2>3, LiftType
      <3>4. \A q \in p + 1..unit.next - 1 : ~Decides(q)
        BY <1>1, <2>1, <2>3, UnitsDecideFirst
      <3>5. unit.next >= p + 1
        BY <2>1, <3>3
      <3> HIDE DEF unit
      <3> QED BY <2>1, <3>2, <3>4, <3>5
    <2> QED BY <2>4, <2>5
  <1>4. t \in S
    <2>1. \A k \in b..t : k \in S
      <3>1. \A k \in Nat : b <= k /\ k < t /\ k \in S => k + 1 \in S
        BY <1>3
      <3> HIDE DEF S
      <3> QED BY <1>0, <1>2, <3>1, SlotInduction
    <2> QED BY <1>0, <2>1
  <1>5. Walk(b)[t - 1].next \in Nat
    <2>1. t - 1 \in b - 1..BlockEnd(b)
      BY <1>0
    <2> QED BY <2>1, WalkSteps DEF Walks
  <1>6. ~(t \in t..Walk(b)[t - 1].next - 1)
    BY <1>4
  <1> QED BY <1>0, <1>4, <1>5, <1>6

\* What a walk has made it keeps.
LEMMA WalkKeeps ==
    ASSUME NEW b, BlockOf(b), NEW t \in b..BlockEnd(b), Walk(b)[t].made # <<>>
    PROVE  Statements(b) # <<>>
  <1>0. /\ b \in Nat /\ t \in Nat /\ BlockEnd(b) \in Nat /\ b <= t /\ t <= BlockEnd(b)
        /\ \A q \in b..BlockEnd(b) : q \in Pcs /\ q \in Nat
    BY BlockBounds
  <1> DEFINE S == {p \in Nat : Walk(b)[p].made # <<>>}
  <1>1. ASSUME NEW p \in Nat, t <= p, p < BlockEnd(b), Walk(b)[p].made # <<>>
        PROVE  Walk(b)[p + 1].made # <<>>
    <2> DEFINE w == Walk(b)[p]
               unit == Lift(p + 1, w.top)
    <2>1. p + 1 \in b..BlockEnd(b) /\ (p + 1) - 1 = p /\ p + 1 \in Pcs /\ p \in b - 1..BlockEnd(b)
      BY <1>0, <1>1
    <2>0. w \in Walks /\ Walk(b)[p + 1] = WalkOn(p + 1, Walk(b)[(p + 1) - 1])
      BY <2>1, WalkSteps
    <2>2. w \in Walks /\ Walk(b)[p + 1] = WalkOn(p + 1, w)
      BY <2>0, <2>1
    <2>3. w.made \in Seq(Events) /\ unit.made \in Seq(Events)
      BY <2>1, <2>2, LiftType DEF BlockOf, Walks
    <2>4. w.made \o unit.made # <<>>
      BY <1>1, <2>3, EmptyConcat
    <2>5. WalkOn(p + 1, w).made = IF p + 1 # w.next THEN w.made ELSE w.made \o unit.made
      BY DEF WalkOn
    <2> QED BY <1>1, <2>2, <2>4, <2>5
  <1>2. \A k \in t..BlockEnd(b) : k \in S
    <2>1. \A k \in Nat : t <= k /\ k < BlockEnd(b) /\ k \in S => k + 1 \in S
      BY <1>1
    <2>2. t \in S
      BY <1>0
    <2> HIDE DEF S
    <2> QED BY <1>0, <2>1, <2>2, SlotInduction
  <1> QED BY <1>0, <1>2 DEF Statements

\* A block without statements goes where it goes whatever its last test.
LEMMA SilentEdges ==
    ASSUME NEW b, BlockOf(b), Statements(b) = <<>>, NEW holds \in BOOLEAN
    PROVE  EdgeTo(b, holds) = SilentExit(b)
  <1>0. /\ b \in Nat /\ BlockEnd(b) \in Nat /\ b <= BlockEnd(b) /\ BlockEnd(b) <= Len(code) /\ Len(code) \in Nat
        /\ \A q \in b..BlockEnd(b) : q \in Pcs /\ q \in Nat
    BY BlockBounds
  <1>1. CodeShape /\ GroupsOK
    BY DEF BlockOf
  <1> DEFINE deciding == {q \in b..BlockEnd(b) : q \in Starts /\ (Stops(code[q]) \/ Jumps(code[q]))}
  <1>2. Terminator(b) = IF deciding = {} THEN BlockEnd(b)
                        ELSE CHOOSE q \in deciding : \A r \in deciding : q <= r
    BY DEF Terminator
  <1>3. \A q \in b..BlockEnd(b) : Decides(q) <=> q \in deciding
    BY DEF Decides
  <1>4. ~(b > Len(code))
    BY <1>0
  <1>5. CASE deciding = {}
    <2>1. BlockEnd(b) \in b..BlockEnd(b)
      BY <1>0
    <2>2. ~Decides(BlockEnd(b))
      BY <1>3, <1>5, <2>1
    <2>3. code[BlockEnd(b)].op \notin {"RETURN", "JUMP", "JUMPX", "JUMPIF", "JUMPIFNOT", "JUMPIFEQ",
              "JUMPIFNOTEQ", "FORGPREP", "FORGLOOP", "FORNPREP", "FORNLOOP"}
          /\ ~(code[BlockEnd(b)].op = "LOADB" /\ code[BlockEnd(b)].c # 0)
      <3>1. CASE BlockEnd(b) \in Starts
        BY <2>2, <3>1 DEF Decides, Stops, Jumps
      <3>2. CASE BlockEnd(b) \notin Starts
        BY <1>0, <1>1, <2>1, <3>2, OffStarts DEF Nop, Ins
      <3> QED BY <3>1, <3>2
    <2>4. Terminator(b) = BlockEnd(b)
      BY <1>2, <1>5
    <2> QED BY <1>4, <2>3, <2>4 DEF EdgeTo, SilentExit
  <1>6. CASE deciding # {}
    <2> DEFINE t == Terminator(b)
    <2>1. t \in deciding /\ \A r \in deciding : t <= r
      <3>1. deciding \in SUBSET Nat
        BY <1>0
      <3> HIDE DEF deciding
      <3> QED BY <1>2, <1>6, <3>1, LeastSlot
    <2>2. t \in b..BlockEnd(b) /\ Decides(t) /\ t \in Pcs /\ t \in Nat /\ t - 1 \in b - 1..BlockEnd(b)
          /\ code[t] \in Instructions
      <3>1. t \in b..BlockEnd(b) /\ Decides(t) /\ t \in Pcs /\ t \in Nat
        BY <1>0, <1>3, <2>1
      <3>2. t - 1 \in b - 1..BlockEnd(b)
        BY <1>0, <3>1
      <3>3. code[t] \in Instructions
        BY <1>1, <3>1, ElementOfSeq DEF CodeShape, Pcs
      <3> QED BY <3>1, <3>2, <3>3
    <2>3. Walk(b)[t - 1].next = t
      BY <1>3, <2>1, <2>2, WalkReaches
    <2> DEFINE w == Walk(b)[t - 1]
               unit == Lift(t, w.top)
    <2>4. w \in Walks /\ Walk(b)[t] = WalkOn(t, w)
      BY <2>2, WalkSteps
    <2>5. w.made \in Seq(Events) /\ unit.made \in Seq(Events) /\ w.top \in Tops
      BY <1>1, <2>2, <2>4, LiftType DEF Walks
    <2>6. Walk(b)[t].made = w.made \o unit.made
      <3>1. t = w.next => WalkOn(t, w).made = w.made \o unit.made
        BY DEF WalkOn
      <3> QED BY <2>3, <2>4, <3>1
    <2>7. unit.made = <<>>
      BY <2>2, <2>5, <2>6, WalkKeeps, EmptyConcat
    <2>8. code[t].op \in {"JUMP", "JUMPX"}
      BY <2>2, <2>5, <2>7, DecisionMakes
    <2> HIDE DEF t
    <2>9. t = Terminator(b)
      BY DEF t
    <2> QED BY <1>4, <2>8, <2>9 DEF EdgeTo, SilentExit
  <1> QED BY <1>5, <1>6

-----------------------------------------------------------------------------
(* Where the machine goes. *)

\* What SameControl says of a block, the way its condition fell and where the
\* machine went.
Led(b, holds, to) ==
    LET t == Terminator(b)
        edge == EdgeTo(IF b <= Len(code) /\ code[t].op = "FORNPREP" THEN NumericStep(t) ELSE b, holds)
    IN  IF b <= Len(code) /\ code[t].op = "FORNPREP"
        THEN Conforming(t) => IF holds THEN edge = to
                              ELSE Meet(edge, to) \/ \E x \in Exits(to) : Twins(edge, x)
        ELSE Meet(edge, to)

LEMMA LedByDecision ==
    ASSUME NEW b, NEW p, Inside(p, b), Decides(p), code[p].op # "FORNPREP", NEW holds, NEW to,
           Meet(EdgeTo(b, holds), to)
    PROVE  Led(b, holds, to)
  BY DecidesFirst DEF Led

LEMMA MeetItself == \A b : Meet(b, b)
  BY DEF Meet

\* A numeric step is a block.
LEMMA StepIsBlock ==
    ASSUME BlockCode, NEW q \in Starts, code[q].op = "FORNLOOP"
    PROVE  BlockOf(q) /\ Terminator(q) = q /\ \A holds : EdgeTo(q, holds) = NumericEdge(q, holds)
  <1>1. Jumps(code[q]) /\ q \in StartedBy(q) /\ q + 1 \in StartedBy(q)
    BY DEF Jumps, StartedBy
  <1>2. q \in Leaders /\ q + 1 \in Leaders
    BY <1>1, LeadersAre DEF BlockCode
  <1>3. q \in Nat /\ q <= Len(code) /\ Len(code) \in Nat
    BY SlotFacts DEF BlockCode
  <1>4. q # Off /\ ~(q > Len(code))
    BY <1>3 DEF Off
  <1>5. BlockOf(q)
    BY <1>2, <1>4 DEF BlockOf, BlockCode
  <1>6. Terminator(q) = q
    BY <1>2, <1>5, OneSlot
  <1> QED BY <1>4, <1>5, <1>6 DEF EdgeTo

\* The step of a numeric prep.
LEMMA StepOfPrep ==
    ASSUME CodeShape, NumericPaired, NEW p \in Starts, code[p].op = "FORNPREP"
    PROVE  NumericStep(p) \in Starts /\ code[NumericStep(p)].op = "FORNLOOP" /\ NumericStep(p) > p
           /\ NumericStep(p) \in Nat /\ p \in Nat
  <1>1. NumericSteps(p) # {}
    BY DEF NumericPaired
  <1>2. NumericSteps(p) \in SUBSET Nat
    <2>1. NumericSteps(p) \in SUBSET Pcs
      BY DEF NumericSteps
    <2> QED BY <2>1, LenProperties DEF Pcs, CodeShape
  <1>3. NumericStep(p) \in NumericSteps(p)
    BY <1>1, <1>2, LeastSlot DEF NumericStep
  <1> DEFINE q == NumericStep(p)
  <1>4. q \in p + 1..LoopTarget(p) - 1 /\ q \in Pcs /\ code[q].op = "FORNLOOP"
    BY <1>3 DEF NumericSteps
  <1>5. q \in Starts
    BY <1>4, JumpsAreStarts DEF Jumps
  <1>6. p \in Nat /\ q \in Nat
    BY <1>2, <1>3, SlotFacts
  <1>7. q > p
    BY <1>4, <1>6
  <1> QED BY <1>4, <1>5, <1>6, <1>7

LEMMA GreatestSlot ==
    ASSUME NEW n \in Nat, NEW S \in SUBSET (0..n), S # {}
    PROVE  \E x \in S : \A y \in S : y <= x
  <1> DEFINE T == {k \in 0..n : n - k \in S}
  <1>1. T \in SUBSET Nat
    OBVIOUS
  <1>2. T # {}
    <2>1. PICK x \in S : TRUE
      OBVIOUS
    <2>2. n - x \in 0..n /\ n - (n - x) = x
      OBVIOUS
    <2> QED BY <2>1, <2>2
  <1>3. PICK k \in T : \A j \in T : k <= j
    <2> HIDE DEF T
    <2> QED BY <1>1, <1>2, LeastSlot
  <1>4. ASSUME NEW y \in S PROVE y <= n - k
    <2>1. n - y \in T /\ y \in Nat
      <3>1. n - y \in 0..n /\ n - (n - y) = y
        OBVIOUS
      <3> QED BY <3>1
    <2>2. k <= n - y /\ k \in Nat
      BY <1>3, <2>1
    <2> QED BY <2>1, <2>2
  <1> QED BY <1>3, <1>4

\* The step of a numeric prep is followed by another instruction.
LEMMA StepIsInside ==
    ASSUME BlockCode, NumericPaired, NEW p \in Starts, code[p].op = "FORNPREP"
    PROVE  NumericStep(p) + 1 \in Pcs
  <1>1. CodeShape /\ Jumps(code[p])
    BY DEF BlockCode, Jumps
  <1>2. NumericSteps(p) # {} /\ NumericSteps(p) \in SUBSET Nat
    <2>1. NumericSteps(p) \in SUBSET Pcs
      BY DEF NumericSteps
    <2> QED BY <1>1, <2>1, LenProperties DEF Pcs, CodeShape, NumericPaired
  <1>3. NumericStep(p) \in NumericSteps(p)
    BY <1>2, LeastSlot DEF NumericStep
  <1>4. LoopTarget(p) \in Nat /\ LoopTarget(p) <= Len(code) /\ Len(code) \in Nat
    BY <1>1, LoopTargetStarts, SlotFacts
  <1> QED BY <1>2, <1>3, <1>4 DEF NumericSteps, Pcs

\* Where the back jump of a loop goes after one more slot.
JumpOn(q, n, to) ==
    LET body == Len(code) + 1 - n
    IN  IF body \in EmptyBodies(q) /\ SilentExit(body) = to /\ to # body THEN body ELSE to

\* The back jump of a loop is scanned from the last slot down.
LEMMA BackJumpScans ==
    ASSUME NEW q, Len(code) \in Nat
    PROVE  \E f : /\ f[0] = LoopTarget(q) /\ BackJump(q) = f[Len(code)]
                  /\ \A n \in 1..Len(code) : f[n] = JumpOn(q, n, f[n - 1])
  <1> DEFINE n == Len(code)
             S == {LoopTarget(q)} \cup 1..n
             g == [k \in 1..n |-> [to \in S |-> JumpOn(q, k, to)]]
  <1>1. g \in [1..n -> [S -> S]]
    <2>1. ASSUME NEW k \in 1..n, NEW to \in S PROVE JumpOn(q, k, to) \in S
      <3>1. Len(code) + 1 - k \in 1..n
        OBVIOUS
      <3> QED BY <3>1 DEF JumpOn
    <2> HIDE DEF S
    <2> QED BY <2>1
  <1>2. PICK f : Scanned(f, n, S, LoopTarget(q), g)
    <2>1. LoopTarget(q) \in S /\ n \in Nat
      OBVIOUS
    <2> HIDE DEF n, S, g
    <2> QED BY <1>1, <2>1, Scans
  <1>3. f \in [0..n -> S] /\ f[0] = LoopTarget(q) /\ \A k \in 1..n : f[k] = JumpOn(q, k, f[k - 1])
    <2>1. f \in [0..n -> S] /\ f[0] = LoopTarget(q) /\ \A k \in 1..n : f[k] = g[k][f[k - 1]]
      BY <1>2 DEF Scanned
    <2>2. ASSUME NEW k \in 1..n PROVE g[k][f[k - 1]] = JumpOn(q, k, f[k - 1])
      <3>1. k - 1 \in 0..n
        OBVIOUS
      <3>2. f[k - 1] \in S
        BY <2>1, <3>1
      <3> HIDE DEF n, S
      <3> QED BY <3>2
    <2> QED BY <2>1, <2>2
  <1> DEFINE Reads(h) == h = [k \in 0..Len(code) |-> IF k = 0 THEN LoopTarget(q) ELSE JumpOn(q, k, h[k - 1])]
  <1>4. Reads(f)
    <2>1. ASSUME NEW k \in 0..n PROVE f[k] = IF k = 0 THEN LoopTarget(q) ELSE JumpOn(q, k, f[k - 1])
      BY <1>3
    <2>2. f = [k \in 0..n |-> f[k]]
      BY <1>3
    <2> QED BY <2>1, <2>2
  <1>5. BackJump(q) = (CHOOSE h : Reads(h))[Len(code)]
    BY DEF BackJump, JumpOn
  <1> DEFINE jump == CHOOSE h : Reads(h)
  <1>6. Reads(jump)
    <2> HIDE DEF Reads
    <2> QED BY <1>4
  <1> HIDE DEF jump
  <1>7. jump[0] = LoopTarget(q)
    <2>1. 0 \in 0..Len(code)
      OBVIOUS
    <2> QED BY <1>6, <2>1
  <1>8. ASSUME NEW k \in 1..Len(code) PROVE jump[k] = JumpOn(q, k, jump[k - 1])
    <2>1. k \in 0..Len(code) /\ k # 0
      OBVIOUS
    <2> QED BY <1>6, <2>1
  <1>9. BackJump(q) = jump[Len(code)]
    BY <1>5 DEF jump
  <1> QED BY <1>7, <1>8, <1>9

\* An empty body does nothing, and goes to one place.
LEMMA EmptyBodyIdle ==
    ASSUME BlockCode, NumericPaired, NEW q \in Starts, NEW body \in EmptyBodies(q)
    PROVE  body \in Idle /\ EdgeTo(body, TRUE) = SilentExit(body)
  <1>0. CodeShape /\ Len(code) \in Nat /\ q \in Nat /\ q <= Len(code)
    BY SlotFacts DEF BlockCode
  <1>1. PICK p \in Starts : /\ code[p].op = "FORNPREP" /\ NumericStep(p) = q /\ body = p + 1
                            /\ Statements(body) = <<>>
    BY DEF EmptyBodies
  <1>2. q > p /\ p \in Nat
    BY <1>0, <1>1, StepOfPrep
  <1>3. body \in Leaders
    <2>1. Jumps(code[p]) /\ body \in StartedBy(p)
      BY <1>1 DEF Jumps, StartedBy
    <2> QED BY <1>0, <2>1, LeadersAre
  <1>4. body # Off
    BY <1>0, <1>1, <1>2 DEF Off
  <1>5. BlockOf(body)
    BY <1>3, <1>4 DEF BlockOf, BlockCode
  <1>6. EdgeTo(body, TRUE) = SilentExit(body) /\ EdgeTo(body, FALSE) = SilentExit(body)
    BY <1>1, <1>5, SilentEdges
  <1> QED BY <1>1, <1>5, <1>6 DEF BlockOf, Idle

\* The back jump of a loop with one prep, whose body does nothing but jump
\* where the loop does, or is where the loop jumps, goes to that body.
LEMMA BackJumpKeeps ==
    ASSUME NEW q, NEW p \in Nat, Len(code) \in Nat, p < Len(code), EmptyBodies(q) \subseteq {p + 1},
           LoopTarget(q) = p + 1 \/ (p + 1 \in EmptyBodies(q) /\ SilentExit(p + 1) = LoopTarget(q))
    PROVE  BackJump(q) = p + 1
  <1>1. PICK f : /\ f[0] = LoopTarget(q) /\ BackJump(q) = f[Len(code)]
                 /\ \A n \in 1..Len(code) : f[n] = JumpOn(q, n, f[n - 1])
    BY BackJumpScans
  <1> DEFINE S == {n \in Nat : f[n] = IF n >= Len(code) - p THEN p + 1 ELSE LoopTarget(q)}
  <1>2. 0 \in S
    BY <1>1
  <1>3. ASSUME NEW k \in Nat, 0 <= k, k < Len(code), k \in S PROVE k + 1 \in S
    <2> DEFINE body == Len(code) + 1 - (k + 1)
    <2>1. k + 1 \in 1..Len(code) /\ (k + 1) - 1 = k /\ k + 1 \in Nat /\ body = Len(code) - k
      BY <1>3
    <2>2. f[k + 1] = JumpOn(q, k + 1, f[k])
      BY <1>1, <2>1
    <2>3. f[k] = IF k >= Len(code) - p THEN p + 1 ELSE LoopTarget(q)
      BY <1>3
    <2>4. CASE k + 1 = Len(code) - p
      <3>1. body = p + 1 /\ ~(k >= Len(code) - p)
        BY <2>1, <2>4
      <3>2. f[k + 1] = p + 1
        BY <2>2, <2>3, <3>1 DEF JumpOn
      <3> QED BY <2>1, <2>4, <3>2
    <2>5. CASE k + 1 # Len(code) - p
      <3>1. body # p + 1 /\ (k + 1 >= Len(code) - p <=> k >= Len(code) - p)
        BY <2>1, <2>5
      <3>2. f[k + 1] = f[k]
        BY <2>2, <3>1 DEF JumpOn
      <3> QED BY <2>1, <2>3, <3>1, <3>2
    <2> QED BY <2>4, <2>5
  <1>4. \A k \in 0..Len(code) : k \in S
    <2> HIDE DEF S
    <2> QED BY <1>2, <1>3, SlotInduction
  <1>5. Len(code) \in S /\ Len(code) >= Len(code) - p
    <2>1. Len(code) \in 0..Len(code)
      OBVIOUS
    <2> HIDE DEF S
    <2> QED BY <1>4, <2>1
  <1> QED BY <1>1, <1>5

\* A numeric prep that conforms enters its body and leaves its loop.
LEMMA PrepLeads ==
    ASSUME NEW b, NEW p, Inside(p, b), BlockCode, NumericPaired, p \in Starts, code[p].op = "FORNPREP",
           NEW holds \in BOOLEAN, NEW to, to = IF holds THEN p + 1 ELSE To(p)
    PROVE  Led(b, holds, to)
  <1> DEFINE q == NumericStep(p)
  <1>0. /\ q \in Starts /\ code[q].op = "FORNLOOP" /\ q > p /\ q \in Nat /\ p \in Nat
        /\ CodeShape /\ q <= Len(code) /\ Len(code) \in Nat
    BY StepOfPrep, SlotFacts DEF BlockCode
  <1>1. Decides(p) /\ Jumps(code[p])
    BY DEF Decides, Jumps
  <1>2. Terminator(b) = p /\ b \in Nat /\ b <= Len(code)
    <2>1. b \in Nat /\ b <= p /\ p \in Pcs
      BY InsideBounds
    <2> QED BY <1>0, <1>1, <2>1, DecidesFirst DEF Pcs
  <1>3. EdgeTo(q, holds) = NumericEdge(q, holds)
    BY <1>0, StepIsBlock
  <1>4. SUFFICES ASSUME Conforming(p)
                 PROVE  IF holds THEN NumericEdge(q, holds) = to
                        ELSE Meet(NumericEdge(q, holds), to) \/ \E x \in Exits(to) : Twins(NumericEdge(q, holds), x)
    BY <1>2, <1>3 DEF Led
  <1>5. CASE ~holds
    <2>1. NumericEdge(q, holds) = q + 1 /\ to = To(p) /\ LoopTarget(p) \in Exits(to)
      BY <1>1, <1>5, Threads DEF NumericEdge
    <2>2. CASE LoopTarget(p) = q + 1
      BY <1>5, <2>1, <2>2, ExitItself DEF Meet
    <2>3. CASE code[q + 1].op = "JUMP" /\ To(q + 1) = LoopTarget(p)
      <3>1. q + 1 \in Pcs /\ q + 1 # Off
        BY <1>0, <1>1, StepIsInside DEF Pcs, Off
      <3>2. q + 1 \in Starts
        BY <1>0, <2>3, <3>1, JumpsAreStarts DEF Jumps
      <3>3. q + 1 \in Leaders
        <4>1. Jumps(code[q]) /\ q + 1 \in StartedBy(q)
          BY <1>0 DEF Jumps, StartedBy
        <4> QED BY <1>0, <4>1, LeadersAre
      <3>4. BlockOf(q + 1)
        BY <3>1, <3>3 DEF BlockOf, BlockCode
      <3>5. LoopTarget(p) \in Exits(q + 1)
        BY <2>3, <3>2, <3>4, OneJump
      <3> QED BY <1>5, <2>1, <3>5 DEF Meet
    <2>4. CASE Twins(q + 1, LoopTarget(p))
      BY <1>5, <2>1, <2>4
    <2> QED BY <1>4, <2>2, <2>3, <2>4 DEF Conforming
  <1>6. CASE holds
    <2>1. EmptyBodies(q) \subseteq {p + 1}
      BY <1>4 DEF EmptyBodies, Conforming
    <2>2. CASE LoopTarget(q) = p + 1
      <3>1. BackJump(q) = p + 1
        BY <1>0, <2>1, <2>2, BackJumpKeeps
      <3> QED BY <1>6, <3>1 DEF NumericEdge
    <2>3. CASE LoopTarget(q) # p + 1
      <3>1. code[p + 1].op = "JUMP" /\ To(p + 1) = LoopTarget(q)
        BY <1>4, <2>3 DEF Conforming
      <3>2. p + 1 \in Pcs /\ p + 1 # Off
        BY <1>0 DEF Pcs, Off
      <3>3. p + 1 \in Starts
        BY <1>0, <3>1, <3>2, JumpsAreStarts DEF Jumps
      <3>4. p + 1 \in Leaders
        <4>1. p + 1 \in StartedBy(p)
          BY DEF StartedBy
        <4> QED BY <1>0, <1>1, <4>1, LeadersAre
      <3>5. BlockOf(p + 1)
        BY <3>2, <3>4 DEF BlockOf, BlockCode
      <3>6. Statements(p + 1) = <<>> /\ SilentExit(p + 1) = To(p + 1)
        BY <3>1, <3>3, <3>5, OneJump
      <3>7. p + 1 \in EmptyBodies(q)
        <4>1. p + 1 # q
          BY <1>0, <3>1
        <4> QED BY <3>6, <4>1 DEF EmptyBodies
      <3>8. BackJump(q) = p + 1
        BY <1>0, <2>1, <3>1, <3>6, <3>7, BackJumpKeeps
      <3> QED BY <1>6, <3>8 DEF NumericEdge
    <2> QED BY <2>2, <2>3
  <1> QED BY <1>5, <1>6

\* A numeric step goes to its body, straight or through empty ones.
LEMMA StepLeads ==
    ASSUME BlockCode, NumericPaired, NEW q \in Starts, code[q].op = "FORNLOOP"
    PROVE  Meet(NumericEdge(q, TRUE), To(q))
  <1>0. Len(code) \in Nat
    BY SlotFacts DEF BlockCode
  <1>1. LoopTarget(q) \in Exits(To(q))
    BY Threads DEF Jumps
  <1>2. PICK f : /\ f[0] = LoopTarget(q) /\ BackJump(q) = f[Len(code)]
                 /\ \A n \in 1..Len(code) : f[n] = JumpOn(q, n, f[n - 1])
    BY <1>0, BackJumpScans
  <1> DEFINE S == {n \in Nat : LoopTarget(q) \in Exits(f[n])}
  <1>3. 0 \in S
    BY <1>2, ExitItself
  <1>4. ASSUME NEW k \in Nat, 0 <= k, k < Len(code), k \in S PROVE k + 1 \in S
    <2> DEFINE body == Len(code) + 1 - (k + 1)
    <2>1. k + 1 \in 1..Len(code) /\ (k + 1) - 1 = k /\ k + 1 \in Nat
      BY <1>0, <1>4
    <2>2. f[k + 1] = JumpOn(q, k + 1, f[k])
      BY <1>2, <2>1
    <2>3. LoopTarget(q) \in Exits(f[k])
      BY <1>4
    <2>4. CASE f[k + 1] = f[k]
      BY <2>1, <2>3, <2>4
    <2>5. CASE f[k + 1] # f[k]
      <3>1. f[k + 1] = body /\ body \in EmptyBodies(q) /\ SilentExit(body) = f[k]
        BY <2>2, <2>5 DEF JumpOn
      <3>2. body \in Idle /\ EdgeTo(body, TRUE) = f[k]
        BY <3>1, EmptyBodyIdle
      <3>3. LoopTarget(q) \in Exits(body)
        BY <2>3, <3>2, ExitOn
      <3> QED BY <2>1, <3>1, <3>3
    <2> QED BY <2>4, <2>5
  <1>5. Len(code) \in S
    <2>1. Len(code) \in 0..Len(code)
      BY <1>0
    <2> HIDE DEF S
    <2> QED BY <1>0, <1>3, <1>4, <2>1, SlotInduction
  <1> QED BY <1>1, <1>2, <1>5 DEF Meet, NumericEdge

\* A generic step goes to its body: where it jumps, or through the spare word
\* behind it when that is next.
LEMMA GenericLeads ==
    ASSUME BlockCode, NEW p \in Starts, code[p].op = "FORGLOOP"
    PROVE  Meet(GenericEdge(p, TRUE), To(p))
  <1>0. CodeShape /\ Len(code) \in Nat /\ p \in Nat /\ p <= Len(code)
    BY SlotFacts DEF BlockCode
  <1>1. LoopTarget(p) \in Exits(To(p)) /\ Jumps(code[p])
    BY Threads DEF Jumps
  <1>2. CASE LoopTarget(p) # p + 2
    BY <1>1, <1>2, ExitItself DEF GenericEdge, Meet
  <1>3. CASE LoopTarget(p) = p + 2
    <2>1. GenericEdge(p, TRUE) = p + 1
      BY <1>3 DEF GenericEdge
    <2>2. p + 1 \in Pcs /\ p + 1 \notin Starts /\ code[p + 1].op = "NOP" /\ p + 1 # Off
      <3>1. p + 1 \in Pcs /\ p + 1 \notin Starts /\ code[p + 1] = Nop
        BY <1>0, AuxIsNoStart DEF HasAux
      <3> QED BY <1>0, <3>1 DEF Nop, Ins, Pcs, Off
    <2>3. BlockOf(p + 1)
      <3>1. p + 1 \in StartedBy(p)
        BY DEF StartedBy
      <3>2. p + 1 \in Leaders
        BY <1>0, <1>1, <3>1, LeadersAre
      <3> QED BY <2>2, <3>2 DEF BlockOf, BlockCode
    <2>4. p + 2 \in Leaders /\ p + 2 \in Starts
      BY <1>1, <1>3, LoopTargetStarts
    <2>5. (p + 1) + 1 \in Leaders
      <3>1. (p + 1) + 1 = p + 2
        BY <1>0
      <3> QED BY <2>4, <3>1
    <2>6. BlockEnd(p + 1) = p + 1 /\ Terminator(p + 1) = p + 1 /\ Statements(p + 1) = Lift(p + 1, NoTop).made
      BY <2>3, <2>5, OneSlot
    <2>7. Statements(p + 1) = <<>>
      BY <2>2, <2>6 DEF Lift, Silent, Operations, Loads, Accesses, Arithmetic, Imports, Closes, RegisterTests,
                        LoopMarkers
    <2>8. FallThrough(p + 1) = p + 2
      <3>1. p + 2 \in Nat /\ p + 2 <= Len(code) /\ (p + 1) + 1 = p + 2 /\ p + 1 < Len(code)
        <4>1. p + 2 <= Len(code)
          BY <1>0, <2>4, SlotFacts
        <4> QED BY <1>0, <4>1
      <3> QED BY <2>6, <3>1 DEF FallThrough
    <2>9. EdgeTo(p + 1, TRUE) = p + 2 /\ EdgeTo(p + 1, FALSE) = p + 2
      <3>1. ~(p + 1 > Len(code))
        BY <1>0, <2>2 DEF Pcs
      <3> QED BY <2>2, <2>6, <2>8, <3>1 DEF EdgeTo
    <2>10. p + 2 \in Exits(p + 1)
      <3>1. p + 1 \in Idle
        BY <2>3, <2>7, <2>9 DEF BlockOf, Idle
      <3> QED BY <2>9, <3>1, ExitOn
    <2> QED BY <1>1, <1>3, <2>1, <2>10 DEF Meet
  <1> QED BY <1>2, <1>3

\* Where the machine goes from an instruction that decides.
Goes(p, holds) ==
    IF code[p].op = "RETURN" THEN Gone
    ELSE IF code[p].op \in {"JUMP", "JUMPX", "LOADB", "FORGPREP"} THEN To(p)
    ELSE IF code[p].op \in RegisterTests
    THEN IF holds = (code[p].op \in {"JUMPIF", "JUMPIFEQ"}) THEN To(p) ELSE p + Len(Slots(code[p]))
    ELSE IF code[p].op = "FORNPREP" THEN (IF holds THEN p + 1 ELSE To(p))
    ELSE IF holds THEN To(p) ELSE p + 1

LEMMA DecidedLeads ==
    ASSUME NEW b, NEW p, Inside(p, b), BlockCode, NumericPaired, Decides(p), NEW holds \in BOOLEAN
    PROVE  Led(b, holds, Goes(p, holds))
  <1>0. /\ p \in Starts /\ CodeShape /\ p \in Nat /\ Terminator(b) = p /\ ~(b > Len(code))
        /\ HasAux(code[p]) => Len(Slots(code[p])) = 2
        /\ ~HasAux(code[p]) => Len(Slots(code[p])) = 1
    <2>1. p \in Starts /\ CodeShape
      BY DEF Decides, BlockCode
    <2>2. b \in Nat /\ b <= p /\ p <= BlockEnd(b) /\ BlockEnd(b) <= Len(code) /\ p \in Nat /\ BlockEnd(b) \in Nat
          /\ Len(code) \in Nat
      BY InsideBounds
    <2> QED BY <2>1, <2>2, SlotFacts, DecidesFirst
  <1>1. code[p].op \in {"RETURN", "JUMP", "JUMPX", "LOADB", "FORGPREP", "FORGLOOP", "FORNPREP", "FORNLOOP"}
                       \cup RegisterTests
    BY DEF Decides, Stops, Jumps, RegisterTests
  <1>2. CASE code[p].op \in {"RETURN", "JUMP", "JUMPX"}
    <2>1. EdgeTo(b, holds) = Goes(p, holds)
      BY <1>0, <1>2 DEF EdgeTo, Goes
    <2> QED BY <1>2, <2>1, MeetItself, LedByDecision
  <1>3. CASE code[p].op = "LOADB"
    <2>1. code[p].c # 0
      BY <1>3 DEF Decides, Stops, Jumps
    <2>2. EdgeTo(b, holds) = Goes(p, holds)
      BY <1>0, <1>3, <2>1 DEF EdgeTo, Goes, SkipTo, To
    <2> QED BY <1>3, <2>2, MeetItself, LedByDecision
  <1>4. CASE code[p].op \in {"JUMPIF", "JUMPIFNOT"}
    <2>1. Len(Slots(code[p])) = 1
      BY <1>0, <1>4 DEF HasAux
    <2>2. EdgeTo(b, holds) = TruthEdge(p, holds)
      BY <1>0, <1>4 DEF EdgeTo
    <2>3. Goes(p, holds) = IF holds = (code[p].op \in {"JUMPIF", "JUMPIFEQ"}) THEN To(p) ELSE p + 1
      BY <1>4, <2>1 DEF Goes, RegisterTests
    <2>4. TruthEdge(p, holds) = Goes(p, holds)
      BY <1>4, <2>3 DEF TruthEdge
    <2> QED BY <1>4, <2>2, <2>4, MeetItself, LedByDecision
  <1>5. CASE code[p].op \in {"JUMPIFEQ", "JUMPIFNOTEQ"}
    <2>1. Len(Slots(code[p])) = 2
      BY <1>0, <1>5 DEF HasAux
    <2>2. EdgeTo(b, holds) = CompareEdge(p, holds)
      BY <1>0, <1>5 DEF EdgeTo
    <2>3. Goes(p, holds) = IF holds = (code[p].op \in {"JUMPIF", "JUMPIFEQ"}) THEN To(p) ELSE p + 2
      BY <1>5, <2>1 DEF Goes, RegisterTests
    <2>4. CompareEdge(p, holds) = Goes(p, holds)
      BY <1>5, <2>3 DEF CompareEdge
    <2> QED BY <1>5, <2>2, <2>4, MeetItself, LedByDecision
  <1>6. CASE code[p].op = "FORGPREP"
    <2>1. EdgeTo(b, holds) = LoopTarget(p) /\ Goes(p, holds) = To(p)
      BY <1>0, <1>6 DEF EdgeTo, Goes
    <2>2. LoopTarget(p) \in Exits(To(p))
      BY <1>0, <1>6, Threads DEF Jumps
    <2>3. Meet(LoopTarget(p), To(p))
      BY <2>2, ExitItself DEF Meet
    <2> QED BY <1>6, <2>1, <2>3, LedByDecision
  <1>7. CASE code[p].op = "FORGLOOP"
    <2>1. EdgeTo(b, holds) = GenericEdge(p, holds) /\ Goes(p, holds) = IF holds THEN To(p) ELSE p + 1
      BY <1>0, <1>7 DEF EdgeTo, Goes, RegisterTests
    <2>2. CASE holds
      BY <1>0, <1>7, <2>1, <2>2, GenericLeads, LedByDecision
    <2>3. CASE ~holds
      <3>1. GenericEdge(p, holds) = p + 1
        BY <2>3 DEF GenericEdge
      <3> QED BY <1>7, <2>1, <2>3, <3>1, MeetItself, LedByDecision
    <2> QED BY <2>2, <2>3
  <1>8. CASE code[p].op = "FORNPREP"
    <2>1. Goes(p, holds) = IF holds THEN p + 1 ELSE To(p)
      BY <1>8 DEF Goes, RegisterTests
    <2> QED BY <1>0, <1>8, <2>1, PrepLeads
  <1>9. CASE code[p].op = "FORNLOOP"
    <2>1. EdgeTo(b, holds) = NumericEdge(p, holds) /\ Goes(p, holds) = IF holds THEN To(p) ELSE p + 1
      BY <1>0, <1>9 DEF EdgeTo, Goes, RegisterTests
    <2>2. CASE holds
      BY <1>0, <1>9, <2>1, <2>2, StepLeads, LedByDecision
    <2>3. CASE ~holds
      <3>1. NumericEdge(p, holds) = p + 1
        BY <2>3 DEF NumericEdge
      <3> QED BY <1>9, <2>1, <2>3, <3>1, MeetItself, LedByDecision
    <2> QED BY <2>2, <2>3
  <1> QED BY <1>1, <1>2, <1>3, <1>4, <1>5, <1>6, <1>7, <1>8, <1>9 DEF RegisterTests

LEMMA OnwardLeads ==
    ASSUME NEW b, NEW p, Inside(p, b), BlockCode, ~Decides(p), Onward(p) \in Leaders \cup {Off}
    PROVE  Led(b, FALSE, Onward(p))
  <1>1. Terminator(b) = Onward(p) - 1 /\ EdgeTo(b, FALSE) = Onward(p) /\ code[Onward(p) - 1].op # "FORNPREP"
    BY FallsThrough
  <1> QED BY <1>1, MeetItself DEF Led

-----------------------------------------------------------------------------
(* The order that lifting keeps. *)

\* Both make the same events, and in the same order but for what has none.
Same(s, t) == Ordered(s) = Ordered(t) /\ ToSet(s) = ToSet(t)

LEMMA OrderedScan ==
    ASSUME NEW T, NEW s \in Seq(T)
    PROVE  \E f \in [0..Len(s) -> Seq(T)] :
               /\ Ordered(s) = f[Len(s)] /\ f[0] = <<>>
               /\ \A n \in 1..Len(s) : f[n] = IF Unordered(s[n]) THEN f[n - 1] ELSE Append(f[n - 1], s[n])
  <1>0. Len(s) \in Nat /\ \A n \in 1..Len(s) : s[n] \in T
    BY LenProperties, ElementOfSeq
  <1> DEFINE step(n, x) == IF Unordered(s[n]) THEN x ELSE Append(x, s[n])
             g == [n \in 1..Len(s) |-> [x \in Seq(T) |-> step(n, x)]]
  <1>1. \A n \in 1..Len(s) : \A x \in Seq(T) : step(n, x) \in Seq(T)
    BY <1>0, AppendProperties
  <1>2. g \in [1..Len(s) -> [Seq(T) -> Seq(T)]]
    <2> HIDE DEF step
    <2> QED BY <1>1
  <1>3. \E f : Scanned(f, Len(s), Seq(T), <<>>, g)
    <2>1. <<>> \in Seq(T)
      BY EmptySeq
    <2> HIDE DEF g
    <2> QED BY <1>0, <1>2, <2>1, Scans
  <1>4. PICK f \in [0..Len(s) -> Seq(T)] :
             f[0] = <<>> /\ \A n \in 1..Len(s) : f[n] = g[n][f[n - 1]]
    BY <1>3 DEF Scanned
  <1>5. \A n \in 1..Len(s) : n - 1 \in 0..Len(s) /\ f[n - 1] \in Seq(T) /\ f[n] = step(n, f[n - 1])
    <2> SUFFICES ASSUME NEW n \in 1..Len(s)
                 PROVE  n - 1 \in 0..Len(s) /\ f[n - 1] \in Seq(T) /\ f[n] = step(n, f[n - 1])
      OBVIOUS
    <2>1. n - 1 \in 0..Len(s)
      BY <1>0
    <2>2. f[n - 1] \in Seq(T)
      BY <2>1
    <2> HIDE DEF step
    <2> QED BY <2>1, <2>2, <1>4
  <1> DEFINE Reads(h) == h = [n \in 0..Len(s) |-> IF n = 0 THEN <<>> ELSE step(n, h[n - 1])]
             kept == CHOOSE h : Reads(h)
  <1>6. Reads(f)
    <2> HIDE DEF step
    <2>1. \A n \in 0..Len(s) : n # 0 => n \in 1..Len(s)
      BY <1>0
    <2> QED BY <2>1, <1>4, <1>5
  <1>7. Ordered(s) = kept[Len(s)]
    BY DEF Ordered
  <1>8. Reads(kept)
    <2> HIDE DEF Reads
    <2> QED BY <1>6
  <1> HIDE DEF kept
  <1>9. kept[0] = <<>> /\ \A n \in 1..Len(s) : kept[n] = step(n, kept[n - 1])
    <2> HIDE DEF step
    <2> QED BY <1>8, <1>0
  <1>10. kept = f
    <2> DEFINE Differ == {n \in 0..Len(s) : kept[n] # f[n]}
    <2>1. SUFFICES ASSUME Differ # {} PROVE FALSE
      <3> HIDE DEF step
      <3> QED BY <1>6, <1>8
    <2>2. PICK m \in Differ : \A n \in Differ : m <= n
      <3>1. Differ \in SUBSET Nat
        BY <1>0
      <3> HIDE DEF Differ
      <3> QED BY <2>1, <3>1, LeastSlot
    <2>3. m # 0
      BY <2>2, <1>4, <1>9
    <2>4. m \in 1..Len(s) /\ m - 1 \in 0..Len(s) /\ m - 1 \notin Differ
      BY <2>2, <2>3, <1>0
    <2>5. kept[m - 1] = f[m - 1]
      BY <2>4
    <2>6. kept[m] = f[m]
      <3> HIDE DEF step
      <3> QED BY <2>4, <2>5, <1>5, <1>9
    <2> QED BY <2>2, <2>6
  <1> QED BY <1>4, <1>5, <1>7, <1>10

LEMMA OrderedType ==
    ASSUME NEW T, NEW s \in Seq(T)
    PROVE  Ordered(s) \in Seq(T)
  <1>1. Len(s) \in 0..Len(s)
    BY LenProperties
  <1> QED BY <1>1, OrderedScan

LEMMA OrderedEmpty == Ordered(<<>>) = <<>>
  <1>1. <<>> \in Seq(Nat) /\ Len(<<>>) = 0
    BY EmptySeq
  <1> QED BY <1>1, OrderedScan

LEMMA OrderedAppend ==
    ASSUME NEW T, NEW s \in Seq(T), NEW e \in T
    PROVE  Ordered(Append(s, e)) = IF Unordered(e) THEN Ordered(s) ELSE Append(Ordered(s), e)
  <1> DEFINE t == Append(s, e)
  <1>1. /\ t \in Seq(T) /\ Len(t) = Len(s) + 1 /\ Len(s) \in Nat
        /\ \A n \in 1..Len(s) : t[n] = s[n]
        /\ t[Len(s) + 1] = e
    BY AppendProperties, LenProperties
  <1>2. PICK f \in [0..Len(s) -> Seq(T)] :
             /\ Ordered(s) = f[Len(s)] /\ f[0] = <<>>
             /\ \A n \in 1..Len(s) : f[n] = IF Unordered(s[n]) THEN f[n - 1] ELSE Append(f[n - 1], s[n])
    BY OrderedScan
  <1>3. PICK h \in [0..Len(t) -> Seq(T)] :
             /\ Ordered(t) = h[Len(t)] /\ h[0] = <<>>
             /\ \A n \in 1..Len(t) : h[n] = IF Unordered(t[n]) THEN h[n - 1] ELSE Append(h[n - 1], t[n])
    BY <1>1, OrderedScan
  <1> HIDE DEF t
  <1> DEFINE Agree == {n \in 0..Len(s) : h[n] = f[n]}
  <1>4. \A n \in 0..Len(s) : n \in Agree
    <2>1. 0 \in Agree
      BY <1>1, <1>2, <1>3
    <2>2. ASSUME NEW n \in Nat, 0 <= n, n < Len(s), n \in Agree PROVE n + 1 \in Agree
      <3>1. n + 1 \in 1..Len(s) /\ n + 1 \in 1..Len(t) /\ (n + 1) - 1 = n /\ n + 1 \in 0..Len(s)
        BY <1>1, <2>2
      <3>2. h[n] = f[n] /\ t[n + 1] = s[n + 1]
        BY <2>2, <3>1, <1>1
      <3>3. f[n + 1] = IF Unordered(s[n + 1]) THEN f[n] ELSE Append(f[n], s[n + 1])
        BY <3>1, <1>2
      <3>4. h[n + 1] = IF Unordered(t[n + 1]) THEN h[n] ELSE Append(h[n], t[n + 1])
        BY <3>1, <1>3
      <3> QED BY <3>1, <3>2, <3>3, <3>4
    <2>3. 0 \in Nat
      OBVIOUS
    <2> HIDE DEF Agree
    <2> QED BY <1>1, <2>1, <2>2, <2>3, SlotInduction
  <1>5. Len(s) + 1 \in 1..Len(t) /\ (Len(s) + 1) - 1 = Len(s) /\ Len(s) \in 0..Len(s)
    BY <1>1
  <1>6. h[Len(s)] = Ordered(s)
    BY <1>2, <1>4, <1>5
  <1> QED BY <1>1, <1>3, <1>5, <1>6 DEF t

LEMMA AppendToConcat ==
    ASSUME NEW T, NEW s \in Seq(T), NEW t \in Seq(T), NEW e \in T
    PROVE  s \o Append(t, e) = Append(s \o t, e)
  <1>1. <<e>> \in Seq(T) /\ s \o t \in Seq(T)
    BY ConcatProperties
  <1>2. Append(t, e) = t \o <<e>> /\ Append(s \o t, e) = (s \o t) \o <<e>>
    BY <1>1, AppendIsConcat
  <1> QED BY <1>1, <1>2, ConcatAssociative

LEMMA OrderedConcat ==
    ASSUME NEW T, NEW s \in Seq(T), NEW t \in Seq(T)
    PROVE  Ordered(s \o t) = Ordered(s) \o Ordered(t)
  <1> DEFINE Fails(u) == Ordered(s \o u) # Ordered(s) \o Ordered(u)
             Bad == {n \in Nat : \E u \in Seq(T) : Len(u) = n /\ Fails(u)}
  <1>1. SUFFICES ASSUME Fails(t) PROVE FALSE
    OBVIOUS
  <1>2. Bad # {}
    BY <1>1, LenProperties
  <1>3. PICK m \in Bad : \A n \in Bad : m <= n
    <2>1. Bad \in SUBSET Nat
      OBVIOUS
    <2> HIDE DEF Bad
    <2> QED BY <1>2, <2>1, LeastSlot
  <1>4. PICK u \in Seq(T) : Len(u) = m /\ Fails(u)
    BY <1>3
  <1>5. u # <<>>
    <2> SUFFICES ASSUME u = <<>> PROVE FALSE
      OBVIOUS
    <2>1. s \o u = s /\ Ordered(u) = <<>> /\ Ordered(s) \in Seq(T) /\ Ordered(s) \o <<>> = Ordered(s)
      BY ConcatEmptySeq, OrderedEmpty, OrderedType
    <2> QED BY <1>4, <2>1
  <1>6. PICK v \in Seq(T), e \in T : u = Append(v, e)
    BY <1>5, SequenceEmptyOrAppend
  <1>7. Len(v) \in Nat /\ Len(v) < m
    BY <1>4, <1>6, AppendProperties, LenProperties
  <1>8. ~Fails(v)
    BY <1>3, <1>7
  <1>9. s \o u = Append(s \o v, e) /\ s \o v \in Seq(T) /\ Ordered(s) \in Seq(T) /\ Ordered(v) \in Seq(T)
    <2>1. s \o u = Append(s \o v, e)
      BY <1>6, AppendToConcat
    <2>2. s \o v \in Seq(T)
      BY ConcatProperties
    <2> QED BY <2>1, <2>2, OrderedType
  <1>10. /\ Ordered(s \o u) = IF Unordered(e) THEN Ordered(s \o v) ELSE Append(Ordered(s \o v), e)
         /\ Ordered(u) = IF Unordered(e) THEN Ordered(v) ELSE Append(Ordered(v), e)
    BY <1>6, <1>9, OrderedAppend
  <1>11. Ordered(s) \o Append(Ordered(v), e) = Append(Ordered(s) \o Ordered(v), e)
    BY <1>9, AppendToConcat
  <1> QED BY <1>4, <1>8, <1>10, <1>11

LEMMA SetOfConcat ==
    ASSUME NEW T, NEW s \in Seq(T), NEW t \in Seq(T)
    PROVE  ToSet(s \o t) = ToSet(s) \cup ToSet(t)
  <1>1. /\ s \o t \in Seq(T) /\ Len(s) \in Nat /\ Len(t) \in Nat /\ Len(s \o t) = Len(s) + Len(t)
        /\ \A i \in 1..Len(s) + Len(t) : (s \o t)[i] = IF i <= Len(s) THEN s[i] ELSE t[i - Len(s)]
        /\ DOMAIN s = 1..Len(s) /\ DOMAIN t = 1..Len(t) /\ DOMAIN (s \o t) = 1..Len(s) + Len(t)
    BY ConcatProperties, LenProperties
  <1>2. ASSUME NEW x \in ToSet(s \o t) PROVE x \in ToSet(s) \cup ToSet(t)
    <2>1. PICK i \in 1..Len(s) + Len(t) : x = (s \o t)[i]
      BY <1>1 DEF ToSet
    <2>2. CASE i <= Len(s)
      BY <1>1, <2>1, <2>2 DEF ToSet
    <2>3. CASE ~(i <= Len(s))
      <3>1. i - Len(s) \in 1..Len(t) /\ x = t[i - Len(s)]
        BY <1>1, <2>1, <2>3
      <3> QED BY <1>1, <3>1 DEF ToSet
    <2> QED BY <2>2, <2>3
  <1>3. ASSUME NEW x \in ToSet(s) PROVE x \in ToSet(s \o t)
    <2>1. PICK i \in 1..Len(s) : x = s[i]
      BY <1>1 DEF ToSet
    <2>2. i \in 1..Len(s) + Len(t) /\ i <= Len(s) /\ x = (s \o t)[i]
      BY <1>1, <2>1
    <2> QED BY <1>1, <2>2 DEF ToSet
  <1>4. ASSUME NEW x \in ToSet(t) PROVE x \in ToSet(s \o t)
    <2>1. PICK i \in 1..Len(t) : x = t[i]
      BY <1>1 DEF ToSet
    <2>2. i + Len(s) \in 1..Len(s) + Len(t) /\ ~(i + Len(s) <= Len(s)) /\ (i + Len(s)) - Len(s) = i
      BY <1>1, <2>1
    <2>3. x = (s \o t)[i + Len(s)]
      BY <1>1, <2>1, <2>2
    <2> QED BY <1>1, <2>2, <2>3 DEF ToSet
  <1> QED BY <1>2, <1>3, <1>4

\* Both go on with the same.
LEMMA SameGoesOn ==
    ASSUME NEW T, NEW s \in Seq(T), NEW t \in Seq(T), NEW u \in Seq(T), Same(s, t)
    PROVE  Same(s \o u, t \o u)
  <1>1. Ordered(s \o u) = Ordered(s) \o Ordered(u) /\ Ordered(t \o u) = Ordered(t) \o Ordered(u)
    BY OrderedConcat
  <1>2. ToSet(s \o u) = ToSet(s) \cup ToSet(u) /\ ToSet(t \o u) = ToSet(t) \cup ToSet(u)
    BY SetOfConcat
  <1> QED BY <1>1, <1>2 DEF Same

\* What has no order may be made ahead of a list still pending.
LEMMA SameAhead ==
    ASSUME NEW T, NEW s \in Seq(T), NEW t \in Seq(T), NEW u \in Seq(T), NEW e \in T,
           Same(s, t \o u), Unordered(e)
    PROVE  Same(s \o <<e>>, (t \o <<e>>) \o u)
  <1>1. <<e>> \in Seq(T) /\ t \o <<e>> \in Seq(T) /\ t \o u \in Seq(T)
    BY ConcatProperties
  <1>2. Ordered(<<e>>) = <<>>
    <2>1. <<>> \in Seq(T) /\ Append(<<>>, e) = <<e>>
      BY EmptySeq
    <2> QED BY <2>1, OrderedAppend, OrderedEmpty
  <1>3. Ordered(s) \in Seq(T) /\ Ordered(t) \in Seq(T) /\ Ordered(s) \o <<>> = Ordered(s) /\ Ordered(t) \o <<>> = Ordered(t)
    BY OrderedType, ConcatEmptySeq
  <1>4. Ordered(s \o <<e>>) = Ordered(s) /\ Ordered(t \o <<e>>) = Ordered(t)
    <2>1. Ordered(s \o <<e>>) = Ordered(s) \o Ordered(<<e>>)
      BY <1>1, OrderedConcat
    <2>2. Ordered(t \o <<e>>) = Ordered(t) \o Ordered(<<e>>)
      BY <1>1, OrderedConcat
    <2> QED BY <1>2, <1>3, <2>1, <2>2
  <1>5. Ordered((t \o <<e>>) \o u) = Ordered(t \o u)
    <2>1. Ordered((t \o <<e>>) \o u) = Ordered(t \o <<e>>) \o Ordered(u)
      BY <1>1, OrderedConcat
    <2>2. Ordered(t \o u) = Ordered(t) \o Ordered(u)
      BY OrderedConcat
    <2> QED BY <1>4, <2>1, <2>2
  <1>6. /\ ToSet(s \o <<e>>) = ToSet(s) \cup ToSet(<<e>>)
        /\ ToSet((t \o <<e>>) \o u) = (ToSet(t) \cup ToSet(<<e>>)) \cup ToSet(u)
        /\ ToSet(t \o u) = ToSet(t) \cup ToSet(u)
    <2>1. ToSet(s \o <<e>>) = ToSet(s) \cup ToSet(<<e>>)
      BY <1>1, SetOfConcat
    <2>2. ToSet(t \o <<e>>) = ToSet(t) \cup ToSet(<<e>>)
      BY <1>1, SetOfConcat
    <2>3. ToSet((t \o <<e>>) \o u) = ToSet(t \o <<e>>) \cup ToSet(u)
      BY <1>1, SetOfConcat
    <2>4. ToSet(t \o u) = ToSet(t) \cup ToSet(u)
      BY SetOfConcat
    <2> QED BY <2>1, <2>2, <2>3, <2>4
  <1> QED BY <1>4, <1>5, <1>6 DEF Same

-----------------------------------------------------------------------------
(* The scan of admit_open_call_order. *)

Scannings == [next : Nat, open : BOOLEAN, ok : BOOLEAN]
AdmitOn(p, so) ==
    LET at == IF so.open THEN FallbackConsumer(p) ELSE p
    IN  IF p # so.next THEN so
        ELSE [next |-> at + Len(Slots(code[at])), open |-> OpenCallAfter(code[at], so.open),
              ok |-> so.ok /\ (so.open => Consumes(at) \/ Inert(code[at]))]

\* A fallback is skipped from its hint to the CALL that takes the list.
LEMMA Fallbacks ==
    ASSUME CodeShape, NEW p \in Pcs
    PROVE  /\ FallbackConsumer(p) \in Pcs
           /\ FallbackConsumer(p) # p =>
                LET c == FallbackConsumer(p)
                IN  /\ code[p].op = "FASTCALL" /\ c \in Starts /\ c > p
                    /\ code[c].op = "CALL" /\ code[c].b = 0
                    /\ \A at \in Starts : p < at /\ at < c => code[at].op \in {"MOVE", "GETIMPORT"}
  <1>1. p \in Nat /\ code[p] \in Instructions /\ code[p].c \in Nat
    <2>1. p \in Nat /\ code[p] \in Instructions
      BY LenProperties, ElementOfSeq DEF CodeShape, Pcs
    <2> QED BY <2>1 DEF Instructions
  <1> DEFINE c == p + 1 + code[p].c
  <1>2. c \in Nat /\ c > p
    BY <1>1
  <1>3. CASE FallbackConsumer(p) = p
    BY <1>3
  <1>4. CASE FallbackConsumer(p) # p
    <2>1. /\ FallbackConsumer(p) = c /\ code[p].op = "FASTCALL" /\ c \in Starts
          /\ code[c].op = "CALL" /\ code[c].b = 0
          /\ \A at \in Starts \cap (p + 1..c - 1) : LoadsCallee(at, code[c].a)
      BY <1>4 DEF FallbackConsumer
    <2>2. c \in Pcs
      BY <2>1 DEF CodeShape
    <2> HIDE DEF c
    <2>3. ASSUME NEW at \in Starts, p < at, at < c PROVE code[at].op \in {"MOVE", "GETIMPORT"}
      <3>1. at \in Nat
        BY SlotFacts
      <3>2. at \in p + 1..c - 1
        BY <3>1, <2>3, <1>1, <1>2
      <3> QED BY <3>2, <2>1 DEF LoadsCallee
    <2> QED BY <1>2, <2>1, <2>2, <2>3
  <1> QED BY <1>3, <1>4

LEMMA AdmitOnType ==
    ASSUME CodeShape, NEW p \in Pcs, NEW so \in Scannings
    PROVE  AdmitOn(p, so) \in Scannings
  <1>1. so.next \in Nat /\ so.open \in BOOLEAN /\ so.ok \in BOOLEAN
    BY DEF Scannings
  <1> DEFINE at == IF so.open THEN FallbackConsumer(p) ELSE p
  <1>2. at \in Pcs
    BY <1>1, Fallbacks
  <1> HIDE DEF at
  <1>3. at \in Nat
    BY <1>2, LenProperties DEF Pcs, CodeShape
  <1>4. Len(Slots(code[at])) \in Nat
    <2>1. Len(<<code[at]>>) = 1 /\ Len(<<code[at], Nop>>) = 2
      OBVIOUS
    <2> QED BY <2>1 DEF Slots
  <1>5. OpenCallAfter(code[at], so.open) \in BOOLEAN
    BY <1>1 DEF OpenCallAfter
  <1>6. at + Len(Slots(code[at])) \in Nat
    BY <1>3, <1>4
  <1>7. AdmitOn(p, so) = IF p # so.next THEN so
            ELSE [next |-> at + Len(Slots(code[at])), open |-> OpenCallAfter(code[at], so.open),
                  ok |-> so.ok /\ (so.open => Consumes(at) \/ Inert(code[at]))]
    BY DEF AdmitOn, at
  <1>8. (so.ok /\ (so.open => Consumes(at) \/ Inert(code[at]))) \in BOOLEAN
    OBVIOUS
  <1> QED BY <1>1, <1>5, <1>6, <1>7, <1>8 DEF Scannings

LEMMA AdmitOnRefuses ==
    ASSUME NEW p, NEW so, ~so.ok
    PROVE  ~AdmitOn(p, so).ok
  <1> DEFINE at == IF so.open THEN FallbackConsumer(p) ELSE p
             next == at + Len(Slots(code[at]))
             open == OpenCallAfter(code[at], so.open)
             ok == so.ok /\ (so.open => Consumes(at) \/ Inert(code[at]))
  <1>1. ~ok
    OBVIOUS
  <1>2. AdmitOn(p, so) = IF p # so.next THEN so ELSE [next |-> next, open |-> open, ok |-> ok]
    BY DEF AdmitOn
  <1> HIDE DEF next, open, ok
  <1>3. CASE p # so.next
    BY <1>2, <1>3
  <1>4. CASE p = so.next
    <2>1. AdmitOn(p, so).ok = ok
      BY <1>2, <1>4
    <2> QED BY <1>1, <2>1
  <1> QED BY <1>3, <1>4

LEMMA AdmissionScans ==
    ASSUME CodeShape
    PROVE  /\ Admission \in [0..Len(code) -> Scannings]
           /\ Admission[0] = [next |-> 1, open |-> FALSE, ok |-> TRUE]
           /\ \A p \in Pcs : Admission[p] = AdmitOn(p, Admission[p - 1])
  <1>0. Len(code) \in Nat
    BY LenProperties DEF CodeShape
  <1> DEFINE start == [next |-> 1, open |-> FALSE, ok |-> TRUE]
             g == [p \in 1..Len(code) |-> [x \in Scannings |-> AdmitOn(p, x)]]
  <1>1. g \in [1..Len(code) -> [Scannings -> Scannings]]
    BY AdmitOnType DEF Pcs
  <1>2. start \in Scannings
    BY DEF Scannings
  <1>3. \E f : Scanned(f, Len(code), Scannings, start, g)
    <2> HIDE DEF g, start
    <2> QED BY <1>0, <1>1, <1>2, Scans
  <1>4. PICK f \in [0..Len(code) -> Scannings] :
             f[0] = start /\ \A p \in 1..Len(code) : f[p] = g[p][f[p - 1]]
    BY <1>3 DEF Scanned
  <1>5. \A p \in 1..Len(code) : p - 1 \in 0..Len(code) /\ f[p - 1] \in Scannings /\ f[p] = AdmitOn(p, f[p - 1])
    <2> SUFFICES ASSUME NEW p \in 1..Len(code)
                 PROVE  p - 1 \in 0..Len(code) /\ f[p - 1] \in Scannings /\ f[p] = AdmitOn(p, f[p - 1])
      OBVIOUS
    <2>1. p - 1 \in 0..Len(code)
      BY <1>0
    <2>2. f[p - 1] \in Scannings
      BY <2>1
    <2> QED BY <2>1, <2>2, <1>4
  <1> DEFINE Reads(h) == h = [p \in 0..Len(code) |-> IF p = 0 THEN start ELSE AdmitOn(p, h[p - 1])]
  <1>6. Reads(f)
    <2>1. \A p \in 0..Len(code) : p # 0 => p \in 1..Len(code)
      BY <1>0
    <2> HIDE DEF start
    <2> QED BY <2>1, <1>4, <1>5
  <1>7. Admission = CHOOSE h : Reads(h)
    BY DEF Admission, AdmitOn
  <1>8. Reads(Admission)
    <2> HIDE DEF Reads
    <2> QED BY <1>6, <1>7
  <1>9. Admission[0] = start /\ \A p \in 1..Len(code) : Admission[p] = AdmitOn(p, Admission[p - 1])
    <2> HIDE DEF start
    <2> QED BY <1>8, <1>0
  <1>10. Admission = f
    <2> DEFINE Differ == {p \in 0..Len(code) : Admission[p] # f[p]}
    <2>1. SUFFICES ASSUME Differ # {} PROVE FALSE
      <3> HIDE DEF start
      <3> QED BY <1>6, <1>8
    <2>2. PICK m \in Differ : \A p \in Differ : m <= p
      <3>1. Differ \in SUBSET Nat
        BY <1>0
      <3> HIDE DEF Differ
      <3> QED BY <2>1, <3>1, LeastSlot
    <2>3. m # 0
      BY <2>2, <1>4, <1>9
    <2>4. m \in 1..Len(code) /\ m - 1 \in 0..Len(code) /\ m - 1 \notin Differ
      BY <2>2, <2>3, <1>0
    <2>5. Admission[m - 1] = f[m - 1]
      BY <2>4
    <2> QED BY <2>2, <2>4, <2>5, <1>5, <1>9
  <1> QED BY <1>4, <1>9, <1>10 DEF Pcs

\* A refusal is final.
LEMMA AllAdmitted ==
    ASSUME CodeShape, Admitted, NEW p \in 0..Len(code)
    PROVE  Admission[p].ok
  <1>0. Len(code) \in Nat
    BY LenProperties DEF CodeShape
  <1> DEFINE Refused == {k \in 0..Len(code) : ~Admission[Len(code) - k].ok}
  <1>1. SUFFICES ASSUME ~Admission[p].ok PROVE FALSE
    OBVIOUS
  <1>2. Len(code) - p \in Refused
    BY <1>0, <1>1
  <1>3. PICK k \in Refused : \A j \in Refused : k <= j
    <2>1. Refused \in SUBSET Nat
      BY <1>0
    <2> HIDE DEF Refused
    <2> QED BY <1>2, <2>1, LeastSlot
  <1>4. k # 0
    BY <1>0, <1>3 DEF Admitted
  <1>5. k - 1 \in 0..Len(code) /\ Len(code) - (k - 1) \in Pcs
        /\ (Len(code) - (k - 1)) - 1 = Len(code) - k
    BY <1>0, <1>3, <1>4 DEF Pcs
  <1>6. ~Admission[Len(code) - (k - 1)].ok
    <2> DEFINE q == Len(code) - (k - 1)
    <2>1. Admission[q] = AdmitOn(q, Admission[q - 1]) /\ ~Admission[q - 1].ok
      BY <1>3, <1>5, AdmissionScans
    <2> HIDE DEF q
    <2>2. ~Admission[q].ok
      BY <2>1, AdmitOnRefuses
    <2> QED BY <2>2 DEF q
  <1>7. k - 1 \in Refused
    BY <1>5, <1>6
  <1> QED BY <1>3, <1>7, <1>0

Visited(p) == Admission[p - 1].next = p

\* A call's results are still open where m is scanned, or where it is skipped.
PendingAt(m) ==
    \E f \in Starts : f <= m /\ Visited(f) /\ Admission[f - 1].open /\ m <= FallbackConsumer(f)

LEMMA Neighbours ==
    ASSUME CodeShape, NEW q \in Starts, NEW n, n = q + Len(Slots(code[q]))
    PROVE  n \in Nat /\ q < n /\ \A s \in Starts : s > q => s >= n
  <1>0. /\ q \in Nat
        /\ HasAux(code[q]) => Len(Slots(code[q])) = 2
        /\ ~HasAux(code[q]) => Len(Slots(code[q])) = 1
    BY SlotFacts
  <1>1. \A s \in Starts : s \in Nat
    BY SlotFacts
  <1>2. HasAux(code[q]) => q + 1 \notin Starts
    BY AuxIsNoStart
  <1>3. ASSUME NEW s \in Starts, s > q PROVE s >= n
    <2>1. s \in Nat
      BY <1>1
    <2>2. CASE HasAux(code[q])
      <3>1. s # q + 1 /\ n = q + 2
        BY <1>0, <1>2, <2>2
      <3> QED BY <1>0, <1>3, <2>1, <3>1
    <2>3. CASE ~HasAux(code[q])
      <3>1. n = q + 1
        BY <1>0, <2>3
      <3> QED BY <1>0, <1>3, <2>1, <3>1
    <2> QED BY <2>2, <2>3
  <1>4. n \in Nat /\ q < n
    BY <1>0
  <1> QED BY <1>3, <1>4

LEMMA Predecessor ==
    ASSUME CodeShape, NEW p \in Starts, p # 1
    PROVE  \E q \in Starts : p = q + Len(Slots(code[q]))
  <1>0. p \in Nat /\ p >= 1 /\ p <= Len(code) /\ Len(code) \in Nat
    BY SlotFacts
  <1>1. p \in Pcs /\ p - 1 \in Pcs
    BY <1>0 DEF Pcs
  <1>2. ~(p - 1 \in Starts /\ HasAux(code[p - 1]))
    BY <1>1, StartRule
  <1>3. CASE p - 1 \in Starts
    <2>1. Len(Slots(code[p - 1])) = 1 /\ p = (p - 1) + 1
      BY <1>0, <1>2, <1>3, SlotFacts
    <2> QED BY <1>3, <2>1
  <1>4. CASE p - 1 \notin Starts
    <2>1. (p - 1) - 1 \in Starts /\ HasAux(code[(p - 1) - 1])
      BY <1>1, <1>4, OffStarts
    <2>2. Len(Slots(code[(p - 1) - 1])) = 2 /\ p = ((p - 1) - 1) + 2
      BY <1>0, <2>1, SlotFacts
    <2> QED BY <2>1, <2>2
  <1> QED BY <1>3, <1>4

\* The scan goes from where it is over an instruction, or a fallback.
LEMMA Visits ==
    ASSUME CodeShape, Admitted, NEW p \in Starts, Visited(p),
           NEW at, at = IF Admission[p - 1].open THEN FallbackConsumer(p) ELSE p,
           NEW n, n = at + Len(Slots(code[at]))
    PROVE  /\ at \in Starts /\ n \in Nat /\ Visited(n)
           /\ Admission[n - 1].open = OpenCallAfter(code[at], Admission[p - 1].open)
           /\ Admission[p - 1].open => Consumes(at) \/ Inert(code[at])
  <1>0. p \in Nat /\ p >= 1 /\ p <= Len(code) /\ Len(code) \in Nat /\ p \in Pcs /\ p - 1 \in 0..Len(code)
    <2>1. p \in Nat /\ p >= 1 /\ p <= Len(code) /\ Len(code) \in Nat
      BY SlotFacts
    <2> QED BY <2>1 DEF Pcs
  <1>1. at \in Starts /\ at >= p
    <2>1. CASE at = p
      BY <1>0, <2>1
    <2>2. CASE at # p
      <3>1. at = FallbackConsumer(p) /\ FallbackConsumer(p) # p
        BY <2>2
      <3>2. FallbackConsumer(p) \in Starts /\ FallbackConsumer(p) > p
        BY <1>0, <3>1, Fallbacks
      <3>3. FallbackConsumer(p) \in Nat
        BY <3>2, SlotFacts
      <3> QED BY <1>0, <3>1, <3>2, <3>3
    <2> QED BY <2>1, <2>2
  <1>2. /\ at \in Nat /\ at <= Len(code)
        /\ HasAux(code[at]) => Len(Slots(code[at])) = 2
        /\ ~HasAux(code[at]) => Len(Slots(code[at])) = 1
    BY <1>1, SlotFacts
  <1>3. n \in Nat /\ at < n /\ n - 1 \in Nat /\ n - 1 >= p /\ n - 1 <= Len(code) /\ (n - 1) + 1 = n
    <2>1. n \in Starts \cup {Off}
      BY <1>1, NextIsStart
    <2>2. \A q \in Starts : q <= Len(code)
      BY SlotFacts
    <2>3. n \in Nat /\ at < n
      BY <1>1, Neighbours
    <2>4. n <= Len(code) + 1
      BY <2>1, <2>2, <2>3, <1>0 DEF Off
    <2> QED BY <2>3, <2>4, <1>0, <1>1, <1>2
  <1> DEFINE so == Admission[p - 1]
             open == OpenCallAfter(code[at], so.open)
             ok == so.ok /\ (so.open => Consumes(at) \/ Inert(code[at]))
             r == [next |-> n, open |-> open, ok |-> ok]
  <1>4. Admission[p] = r
    <2>1. Admission[p] = AdmitOn(p, so)
      BY <1>0, AdmissionScans
    <2>2. p = so.next
      BY DEF Visited
    <2> QED BY <2>1, <2>2 DEF AdmitOn
  <1>5. so.open => Consumes(at) \/ Inert(code[at])
    <2>1. Admission[p].ok
      <3>1. p \in 0..Len(code)
        BY <1>0
      <3> QED BY <3>1, AllAdmitted
    <2> HIDE DEF ok
    <2>2. ok
      BY <2>1, <1>4
    <2> QED BY <2>2 DEF ok
  <1> HIDE DEF open, ok
  <1>6. r.next = n /\ r.open = open
    OBVIOUS
  <1> DEFINE There == {k \in p..n - 1 : Admission[k] = r}
  <1>7. n - 1 \in There
    <2>1. p \in There
      BY <1>0, <1>3, <1>4
    <2>2. ASSUME NEW k \in Nat, p <= k, k < n - 1, k \in There PROVE k + 1 \in There
      <3>1. k + 1 \in Pcs /\ (k + 1) - 1 = k /\ k + 1 \in p..n - 1 /\ k + 1 # n
        BY <2>2, <1>0, <1>3 DEF Pcs
      <3>2. Admission[k + 1] = AdmitOn(k + 1, Admission[k])
        BY <3>1, AdmissionScans
      <3>3. Admission[k] = r /\ k + 1 # Admission[k].next
        BY <2>2, <3>1, <1>6
      <3>4. Admission[k + 1] = r
        BY <3>2, <3>3 DEF AdmitOn
      <3> QED BY <3>1, <3>4
    <2>3. n - 1 \in p..n - 1
      BY <1>0, <1>3
    <2> HIDE DEF There, r
    <2> QED BY <1>0, <1>3, <2>1, <2>2, <2>3, SlotInduction
  <1>8. Admission[n - 1].next = n /\ Admission[n - 1].open = open
    BY <1>6, <1>7
  <1> QED BY <1>1, <1>3, <1>5, <1>8 DEF Visited, open

\* It passes every instruction, or skips it in a fallback.
LEMMA Covers ==
    ASSUME CodeShape, Admitted, NEW p \in Starts, ~Visited(p)
    PROVE  \E f \in Starts : f < p /\ Visited(f) /\ Admission[f - 1].open /\ p <= FallbackConsumer(f)
  <1> DEFINE Skipped(m) == \E f \in Starts : f < m /\ Visited(f) /\ Admission[f - 1].open /\ m <= FallbackConsumer(f)
             Missed == {m \in Starts : ~Visited(m) /\ ~Skipped(m)}
  <1>1. SUFFICES ASSUME Missed # {} PROVE FALSE
    OBVIOUS
  <1>2. PICK m \in Missed : \A k \in Missed : m <= k
    <2>1. Missed \in SUBSET Nat
      BY SlotFacts
    <2> HIDE DEF Missed
    <2> QED BY <1>1, <2>1, LeastSlot
  <1>3. m \in Starts /\ m \in Nat /\ ~Visited(m) /\ ~Skipped(m)
    <2>1. m \in Starts /\ ~Visited(m) /\ ~Skipped(m)
      BY <1>2
    <2> QED BY <2>1, SlotFacts
  <1>4. m # 1
    BY <1>3, AdmissionScans DEF Visited
  <1>5. PICK q \in Starts : m = q + Len(Slots(code[q]))
    BY <1>3, <1>4, Predecessor
  <1>6. q \in Nat /\ q < m /\ \A s \in Starts : s > q => s >= m
    BY <1>5, Neighbours, SlotFacts
  <1>7. q \notin Missed
    BY <1>2, <1>3, <1>6
  <1>8. \A f \in Starts : FallbackConsumer(f) \in Nat /\ f \in Pcs /\ f \in Nat
                          /\ (FallbackConsumer(f) # f => FallbackConsumer(f) \in Starts /\ FallbackConsumer(f) > f)
    <2> SUFFICES ASSUME NEW f \in Starts
                 PROVE  FallbackConsumer(f) \in Nat /\ f \in Pcs /\ f \in Nat
                        /\ (FallbackConsumer(f) # f => FallbackConsumer(f) \in Starts /\ FallbackConsumer(f) > f)
      OBVIOUS
    <2>1. f \in Pcs /\ f \in Nat
      BY SlotFacts DEF Pcs
    <2>2. FallbackConsumer(f) \in Pcs
      BY <2>1, Fallbacks
    <2>3. FallbackConsumer(f) \in Nat
      BY <2>2 DEF Pcs
    <2> QED BY <2>1, <2>3, Fallbacks
  <1>9. CASE Visited(q)
    <2>1. CASE Admission[q - 1].open /\ FallbackConsumer(q) # q
      <3>1. m <= FallbackConsumer(q)
        BY <2>1, <1>6, <1>8, <1>3
      <3> QED BY <1>3, <1>6, <1>9, <2>1, <3>1
    <2>2. CASE ~(Admission[q - 1].open /\ FallbackConsumer(q) # q)
      <3>1. q = IF Admission[q - 1].open THEN FallbackConsumer(q) ELSE q
        BY <2>2
      <3>2. Visited(m)
        BY <1>5, <1>9, <3>1, Visits
      <3> QED BY <1>3, <3>2
    <2> QED BY <2>1, <2>2
  <1>10. CASE Skipped(q)
    <2>1. PICK f \in Starts : f < q /\ Visited(f) /\ Admission[f - 1].open /\ q <= FallbackConsumer(f)
      BY <1>10
    <2>2. FallbackConsumer(f) \in Nat /\ f \in Nat /\ FallbackConsumer(f) # f /\ FallbackConsumer(f) \in Starts
      BY <1>6, <1>8, <2>1
    <2>3. CASE q = FallbackConsumer(f)
      <3>1. q = IF Admission[f - 1].open THEN FallbackConsumer(f) ELSE f
        BY <2>1, <2>3
      <3>2. Visited(m)
        BY <1>5, <2>1, <3>1, Visits
      <3> QED BY <1>3, <3>2
    <2>4. CASE q # FallbackConsumer(f)
      <3>1. FallbackConsumer(f) > q
        BY <1>6, <2>1, <2>2, <2>4
      <3>2. m <= FallbackConsumer(f) /\ f < m
        BY <1>3, <1>6, <2>1, <2>2, <3>1
      <3> QED BY <1>3, <2>1, <3>2
    <2> QED BY <2>3, <2>4
  <1> QED BY <1>5, <1>7, <1>9, <1>10

\* What takes an open list, and what may pass while one is open.
Takes(i) == (i.op \in {"CALL", "RETURN"} /\ i.b = 0) \/ (i.op = "SETLIST" /\ i.c = 0)
LoadsFallback(m) ==
    /\ code[m].op \in {"MOVE", "GETIMPORT"}
    /\ \E f \in Starts : f < m /\ m < FallbackConsumer(f)

LEMMA FallbackSlots ==
    ASSUME CodeShape, NEW f \in Starts
    PROVE  /\ f \in Nat /\ f \in Pcs /\ FallbackConsumer(f) \in Nat /\ FallbackConsumer(f) \in Starts
           /\ FallbackConsumer(f) >= f
  <1>1. f \in Pcs /\ f \in Nat
    BY SlotFacts DEF Pcs
  <1>2. CASE FallbackConsumer(f) = f
    BY <1>1, <1>2
  <1>3. CASE FallbackConsumer(f) # f
    <2>1. FallbackConsumer(f) \in Starts /\ FallbackConsumer(f) > f
      BY <1>1, <1>3, Fallbacks
    <2>2. FallbackConsumer(f) \in Nat
      BY <2>1, SlotFacts
    <2> QED BY <1>1, <2>1, <2>2
  <1> QED BY <1>2, <1>3

LEMMA PendingShape ==
    ASSUME CodeShape, Admitted, NEW m \in Starts, PendingAt(m)
    PROVE  Takes(code[m]) \/ code[m].op = "NAMECALL" \/ Inert(code[m]) \/ LoadsFallback(m)
  <1>1. PICK f \in Starts : f <= m /\ Visited(f) /\ Admission[f - 1].open /\ m <= FallbackConsumer(f)
    BY DEF PendingAt
  <1>2. f \in Nat /\ f \in Pcs /\ FallbackConsumer(f) \in Nat /\ FallbackConsumer(f) >= f /\ m \in Nat
    BY FallbackSlots, SlotFacts
  <1>3. CASE m = FallbackConsumer(f)
    <2>1. m = IF Admission[f - 1].open THEN FallbackConsumer(f) ELSE f
      BY <1>1, <1>3
    <2>2. Consumes(m) \/ Inert(code[m])
      BY <1>1, <2>1, Visits
    <2> QED BY <2>2 DEF Consumes, Takes
  <1>4. CASE m # FallbackConsumer(f) /\ m = f
    <2>1. code[f].op = "FASTCALL"
      BY <1>2, <1>4, Fallbacks
    <2> QED BY <1>4, <2>1 DEF Inert
  <1>5. CASE m # FallbackConsumer(f) /\ m # f
    <2>1. f < m /\ m < FallbackConsumer(f) /\ FallbackConsumer(f) # f
      BY <1>1, <1>2, <1>5
    <2>2. code[m].op \in {"MOVE", "GETIMPORT"}
      BY <1>2, <2>1, Fallbacks
    <2> QED BY <2>1, <2>2 DEF LoadsFallback
  <1> QED BY <1>3, <1>4, <1>5

\* Open results stay open until they are taken.
LEMMA PendingNext ==
    ASSUME CodeShape, Admitted, NEW m \in Starts, PendingAt(m), OpenCallAfter(code[m], TRUE),
           NEW n \in Starts, n = m + Len(Slots(code[m]))
    PROVE  PendingAt(n)
  <1>1. PICK f \in Starts : f <= m /\ Visited(f) /\ Admission[f - 1].open /\ m <= FallbackConsumer(f)
    BY DEF PendingAt
  <1>2. f \in Nat /\ FallbackConsumer(f) \in Nat /\ FallbackConsumer(f) \in Starts /\ m \in Nat /\ n \in Nat
    BY FallbackSlots, SlotFacts
  <1>3. m < n /\ \A s \in Starts : s > m => s >= n
    BY Neighbours
  <1>4. CASE m = FallbackConsumer(f)
    <2>1. m = IF Admission[f - 1].open THEN FallbackConsumer(f) ELSE f
      BY <1>1, <1>4
    <2>2. Visited(n) /\ Admission[n - 1].open = OpenCallAfter(code[m], Admission[f - 1].open)
      BY <1>1, <2>1, Visits
    <2>3. Admission[f - 1].open = TRUE
      <3>1. f - 1 \in 0..Len(code)
        <4>1. f \in Nat /\ f >= 1 /\ f <= Len(code) /\ Len(code) \in Nat
          BY SlotFacts
        <4> QED BY <4>1
      <3>2. Admission[f - 1].open \in BOOLEAN
        BY <3>1, AdmissionScans DEF Scannings
      <3> QED BY <1>1, <3>2
    <2>4. n <= FallbackConsumer(n)
      BY <1>2, FallbackSlots
    <2>5. Admission[n - 1].open
      <3> HIDE DEF Visited
      <3>1. OpenCallAfter(code[m], Admission[f - 1].open) = OpenCallAfter(code[m], TRUE)
        BY <2>3
      <3> QED BY <2>2, <3>1
    <2> QED BY <1>2, <2>2, <2>4, <2>5 DEF PendingAt
  <1>5. CASE m # FallbackConsumer(f)
    <2>1. FallbackConsumer(f) > m
      BY <1>1, <1>2, <1>5
    <2>2. n <= FallbackConsumer(f) /\ f <= n
      BY <1>1, <1>2, <1>3, <2>1
    <2> QED BY <1>1, <2>2 DEF PendingAt
  <1> QED BY <1>4, <1>5

LEMMA PendingOpens ==
    ASSUME CodeShape, Admitted, NEW m \in Starts, code[m].op = "CALL", code[m].c = 0,
           NEW n \in Starts, n = m + Len(Slots(code[m]))
    PROVE  PendingAt(n)
  <1>1. \A open : OpenCallAfter(code[m], open) = TRUE
    BY DEF OpenCallAfter
  <1>2. CASE PendingAt(m)
    BY <1>1, <1>2, PendingNext
  <1>3. CASE ~PendingAt(m)
    <2>1. m \in Nat /\ m <= FallbackConsumer(m) /\ m \in Pcs
      BY FallbackSlots
    <2>2. Visited(m)
      <3> SUFFICES ASSUME ~Visited(m) PROVE FALSE
        OBVIOUS
      <3>1. PICK f \in Starts : f < m /\ Visited(f) /\ Admission[f - 1].open /\ m <= FallbackConsumer(f)
        BY Covers
      <3>2. f <= m
        BY <3>1, <2>1, SlotFacts
      <3> QED BY <1>3, <3>1, <3>2 DEF PendingAt
    <2>3. ~Admission[m - 1].open
      BY <1>3, <2>1, <2>2 DEF PendingAt
    <2>4. m = IF Admission[m - 1].open THEN FallbackConsumer(m) ELSE m
      BY <2>3
    <2>5. Visited(n) /\ Admission[n - 1].open = OpenCallAfter(code[m], Admission[m - 1].open)
      BY <2>2, <2>4, Visits
    <2>6. n <= FallbackConsumer(n) /\ n \in Nat
      BY FallbackSlots
    <2> QED BY <1>1, <2>5, <2>6 DEF PendingAt
  <1> QED BY <1>2, <1>3

\* Code that cannot run off its end.
Ends == code[Len(code)].op \in {"RETURN", "JUMP", "JUMPX"}

\* Only a decision is last in such code.
LEMMA EndsDeciding ==
    ASSUME CodeShape, Ends, NEW p \in Starts, p + Len(Slots(code[p])) \notin Starts
    PROVE  p = Len(code) /\ code[p].op \in {"RETURN", "JUMP", "JUMPX"}
  <1>0. /\ p \in Nat /\ p >= 1 /\ p <= Len(code) /\ Len(code) \in Nat
        /\ HasAux(code[p]) => Len(Slots(code[p])) = 2
        /\ ~HasAux(code[p]) => Len(Slots(code[p])) = 1
    BY SlotFacts
  <1>1. p + Len(Slots(code[p])) = Len(code) + 1
    BY NextIsStart DEF Off
  <1>2. CASE HasAux(code[p])
    <2>1. p + 1 = Len(code) /\ code[p + 1] = Nop
      <3>1. p + 1 = Len(code)
        <4>1. p + 2 = Len(code) + 1
          BY <1>0, <1>1, <1>2
        <4> QED BY <1>0, <4>1
      <3> QED BY <1>2, <3>1, AuxIsNoStart
    <2> QED BY <2>1 DEF Ends, Nop, Ins
  <1>3. CASE ~HasAux(code[p])
    <2>1. p = Len(code)
      <3>1. p + 1 = Len(code) + 1
        BY <1>0, <1>1, <1>3
      <3> QED BY <1>0, <3>1
    <2> QED BY <2>1 DEF Ends
  <1> QED BY <1>2, <1>3

\* Results a call leaves open are in a list the machine still has.
LEMMA NeverStuck ==
    ASSUME CodeShape, TargetsOK, OpenOK, Admitted, Ends, NEW p \in Starts, PendingAt(p)
    PROVE  Before(p) # Closed
  <1> DEFINE Stuck == {m \in Starts : PendingAt(m) /\ Before(m) = Closed}
  <1>1. SUFFICES ASSUME Stuck # {} PROVE FALSE
    OBVIOUS
  <1>2. PICK m \in Stuck : \A k \in Stuck : k <= m
    <2>1. Stuck \in SUBSET (0..Len(code)) /\ Len(code) \in Nat
      BY SlotFacts
    <2> HIDE DEF Stuck
    <2> QED BY <1>1, <2>1, GreatestSlot
  <1>3. m \in Starts /\ PendingAt(m) /\ Before(m) = Closed
    BY <1>2
  <1>4. /\ m \in Nat /\ m >= 1 /\ Len(code) \in Nat /\ code[m] \in Instructions
        /\ code[m].a \in Nat /\ code[m].b \in Nat
    <2>1. m \in Nat /\ m >= 1 /\ Len(code) \in Nat /\ code[m] \in Instructions
      BY <1>3, SlotFacts
    <2> QED BY <2>1 DEF Instructions
  <1> DEFINE n == m + Len(Slots(code[m]))
  <1>5. Open[n - 1] = TopAfter(code[m], Closed)
    BY <1>3, OpenAcross
  <1>6. n \in Nat /\ m < n
    BY <1>3, Neighbours
  <1>7. ~Takes(code[m])
    <2> SUFFICES ASSUME Takes(code[m]) PROVE FALSE
      OBVIOUS
    <2>1. Closed <= code[m].a /\ Closed < code[m].a /\ Closed < code[m].b
      BY <1>4 DEF Closed
    <2>2. TopAfter(code[m], Closed) = Lost
      BY <2>1, ListsRefused DEF Takes
    <2>3. n - 1 \in 0..Len(code)
      <3>1. n \in Starts \cup {Off}
        BY <1>3, NextIsStart
      <3>2. n <= Len(code) + 1
        BY <3>1, <1>4, SlotFacts DEF Off
      <3> HIDE DEF n
      <3> QED BY <1>4, <1>6, <3>2
    <2> HIDE DEF n
    <2> QED BY <1>5, <2>2, <2>3, NeverLost
  <1>8. code[m].op = "NAMECALL" \/ Inert(code[m]) \/ code[m].op \in {"MOVE", "GETIMPORT"}
    BY <1>3, <1>7, PendingShape DEF LoadsFallback
  <1>9. OpenCallAfter(code[m], TRUE) = TRUE /\ TopAfter(code[m], Closed) = Closed
        /\ code[m].op \notin {"RETURN", "JUMP", "JUMPX"}
    BY <1>8 DEF OpenCallAfter, TopAfter, Inert, Jumps
  <1>10. n \in Starts
    BY <1>3, <1>9, EndsDeciding
  <1>11. PendingAt(n)
    BY <1>3, <1>9, <1>10, PendingNext
  <1>12. Before(n) = Closed
    <2> HIDE DEF n
    <2> QED BY <1>5, <1>9 DEF Before
  <1>13. n \in Stuck
    BY <1>10, <1>11, <1>12
  <1> HIDE DEF n, Stuck
  <1> QED BY <1>2, <1>4, <1>6, <1>13

-----------------------------------------------------------------------------
(* What the machine does at an instruction, beside what it is lifted to. *)

Lists == [from : Nat, base : Int]
MethodAt(p) == p > 2 /\ p - 2 \in Starts /\ code[p - 2].op = "NAMECALL"
First(p) == IF MethodAt(p) THEN code[p].a + 2 ELSE code[p].a + 1

CallDoes(p, l) ==
    Event("call", p, IF code[p].b = 0 THEN First(p)..l.base - 1 ELSE First(p)..code[p].a + code[p].b - 1,
          IF code[p].b = 0 THEN l.from ELSE 0)
ReturnDoes(p, l) ==
    IF code[p].b = 0 THEN Event("return", p, code[p].a..l.base - 1, l.from)
    ELSE Event("return", p, code[p].a..code[p].a + code[p].b - 2, 0)
SetListDoes(p, l) ==
    IF code[p].c = 0 THEN Event("list", p, code[p].b..l.base - 1, l.from)
    ELSE Event("list", p, code[p].b..code[p].b + code[p].c - 2, 0)

Does(p, l) ==
    LET i == code[p]
    IN  IF i.op \in Operations THEN <<Event("op", p, Registers(i), 0)>>
        ELSE IF i.op \in RegisterTests THEN <<Event("test", p, Registers(i), 0)>>
        ELSE IF i.op \in LoopMarkers THEN <<Event("loop", p, {i.a, i.a + 1, i.a + 2}, 0)>>
        ELSE IF i.op = "NEWCLOSURE" THEN <<Event("closure", p, CapturesOf(p), 0)>>
        ELSE IF i.op = "CALL" THEN <<CallDoes(p, l)>>
        ELSE IF i.op = "GETVARARGS" /\ i.b # 0 THEN <<Event("op", p, {}, 0)>>
        ELSE IF i.op = "RETURN" THEN <<ReturnDoes(p, l)>>
        ELSE IF i.op = "SETLIST" THEN <<SetListDoes(p, l)>>
        ELSE <<>>

ListAfter(p, l) ==
    LET i == code[p]
    IN  IF i.op = "CALL"
        THEN IF i.c = 0 THEN [from |-> p, base |-> i.a] ELSE IF i.b = 0 THEN NoList ELSE l
        ELSE IF i.op = "GETVARARGS" /\ i.b = 0 THEN [from |-> p, base |-> i.a]
        ELSE IF i.op = "RETURN" \/ (i.op = "SETLIST" /\ i.c = 0) THEN NoList
        ELSE l

\* A method's CALL is lifted with the lookup before it.
UnitMade(p, top) == IF code[p].op = "CALL" THEN LiftCall(p, First(p), top).made ELSE Lift(p, top).made
UnitTop(p, top) == IF code[p].op = "CALL" THEN LiftCall(p, First(p), top).top ELSE Lift(p, top).top

LEMMA SlotNumbers ==
    ASSUME CodeShape, NEW p \in Starts
    PROVE  /\ p \in Nat /\ code[p] \in Instructions /\ code[p].op \in Opcodes
           /\ code[p].a \in Nat /\ code[p].b \in Nat /\ code[p].c \in Nat
  <1>1. p \in Nat /\ code[p] \in Instructions
    BY SlotFacts
  <1> QED BY <1>1 DEF Instructions

LEMMA DoesType ==
    ASSUME CodeShape, NEW p \in Starts, NEW l \in Lists
    PROVE  Does(p, l) \in Seq(Events) /\ ListAfter(p, l) \in Lists
           /\ CallDoes(p, l) \in Events /\ ReturnDoes(p, l) \in Events /\ SetListDoes(p, l) \in Events
  <1>1. /\ p \in Nat /\ code[p] \in Instructions
        /\ code[p].a \in Nat /\ code[p].b \in Nat /\ code[p].c \in Nat
    BY SlotNumbers
  <1>2. l.from \in Nat /\ l.base \in Int
    BY DEF Lists
  <1>3. First(p) \in Nat
    BY <1>1 DEF First
  <1>4. /\ Registers(code[p]) \in SUBSET Int /\ {code[p].a, code[p].a + 1, code[p].a + 2} \in SUBSET Int
        /\ CapturesOf(p) \in SUBSET Int /\ {} \in SUBSET Int
    BY <1>1, RegistersType DEF CapturesOf
  <1>5. /\ Event("op", p, Registers(code[p]), 0) \in Events
        /\ Event("test", p, Registers(code[p]), 0) \in Events
        /\ Event("loop", p, {code[p].a, code[p].a + 1, code[p].a + 2}, 0) \in Events
        /\ Event("closure", p, CapturesOf(p), 0) \in Events
        /\ Event("op", p, {}, 0) \in Events
    BY <1>1, <1>4, EventType
  <1>6. CallDoes(p, l) \in Events
    <2> DEFINE regs == IF code[p].b = 0 THEN First(p)..l.base - 1 ELSE First(p)..code[p].a + code[p].b - 1
               tail == IF code[p].b = 0 THEN l.from ELSE 0
    <2>1. regs \in SUBSET Int /\ tail \in Nat
      BY <1>1, <1>2, <1>3
    <2>2. CallDoes(p, l) = Event("call", p, regs, tail)
      BY DEF CallDoes
    <2> HIDE DEF regs, tail
    <2> QED BY <1>1, <2>1, <2>2, EventType
  <1>7. ReturnDoes(p, l) \in Events
    <2>1. code[p].a..l.base - 1 \in SUBSET Int /\ code[p].a..code[p].a + code[p].b - 2 \in SUBSET Int
      BY <1>1, <1>2
    <2> QED BY <1>1, <1>2, <2>1, EventType DEF ReturnDoes
  <1>8. SetListDoes(p, l) \in Events
    <2>1. code[p].b..l.base - 1 \in SUBSET Int /\ code[p].b..code[p].b + code[p].c - 2 \in SUBSET Int
      BY <1>1, <1>2
    <2> QED BY <1>1, <1>2, <2>1, EventType DEF SetListDoes
  <1>9. Does(p, l) \in Seq(Events)
    <2>1. <<>> \in Seq(Events)
      OBVIOUS
    <2>2. \A e \in Events : <<e>> \in Seq(Events)
      OBVIOUS
    <2> QED BY <1>5, <1>6, <1>7, <1>8, <2>1, <2>2 DEF Does
  <1>10. ListAfter(p, l) \in Lists
    BY <1>1 DEF ListAfter, NoList, Lists, Closed
  <1> QED BY <1>6, <1>7, <1>8, <1>9, <1>10

\* Whatever takes an open list finds one.
LEMMA TakesOpen ==
    ASSUME CodeShape, TargetsOK, OpenOK, NEW p \in Starts
    PROVE  /\ TopAfter(code[p], Before(p)) # Lost
           /\ Takes(code[p]) /\ Before(p) \in Int => Before(p) # Closed
  <1>1. /\ p \in Nat /\ code[p] \in Instructions
        /\ code[p].a \in Nat /\ code[p].b \in Nat /\ code[p].c \in Nat
    BY SlotNumbers
  <1> DEFINE n == p + Len(Slots(code[p]))
  <1>2. n - 1 \in 0..Len(code)
    <2>1. n \in Starts \cup {Off} /\ n \in Nat /\ p < n
      BY NextIsStart, Neighbours
    <2>2. Len(code) \in Nat /\ p >= 1
      BY SlotFacts
    <2>3. n <= Len(code) + 1
      BY <2>1, <2>2, SlotFacts DEF Off
    <2> HIDE DEF n
    <2> QED BY <1>1, <2>1, <2>2, <2>3
  <1>3. TopAfter(code[p], Before(p)) # Lost
    <2>1. Open[n - 1] = TopAfter(code[p], Before(p))
      BY OpenAcross
    <2> HIDE DEF n
    <2> QED BY <1>2, <2>1, NeverLost
  <1>4. ASSUME Takes(code[p]), Before(p) = Closed PROVE FALSE
    <2>1. Closed <= code[p].a /\ Closed < code[p].a /\ Closed < code[p].b
      BY <1>1 DEF Closed
    <2>2. TopAfter(code[p], Closed) = Lost
      BY <1>4, <2>1, ListsRefused DEF Takes
    <2> QED BY <1>3, <1>4, <2>2
  <1> QED BY <1>3, <1>4

\* Made with nothing pending, and made by taking what is.
LEMMA SameMade ==
    ASSUME NEW s \in Seq(Events), NEW t \in Seq(Events), NEW u \in Seq(Events), NEW e \in Events, Same(s, t \o u)
    PROVE  /\ Same(s \o <<>>, (t \o <<>>) \o u)
           /\ Same(s \o <<e>>, (t \o (u \o <<e>>)) \o <<>>)
           /\ Same(s \o <<e>>, (t \o <<>>) \o (u \o <<e>>))
           /\ u = <<>> => Same(s \o <<e>>, (t \o <<e>>) \o u)
  <1>1. <<e>> \in Seq(Events) /\ t \o u \in Seq(Events) /\ u \o <<e>> \in Seq(Events)
    BY ConcatProperties
  <1>2. /\ s \o <<>> = s /\ t \o <<>> = t
        /\ (t \o u) \o <<e>> = t \o (u \o <<e>>)
    BY <1>1, ConcatEmptySeq, ConcatAssociative
  <1>3. Same(s \o <<e>>, (t \o u) \o <<e>>)
    BY <1>1, SameGoesOn
  <1>4. t \o (u \o <<e>>) \in Seq(Events)
    BY <1>1, ConcatProperties
  <1>5. (t \o (u \o <<e>>)) \o <<>> = t \o (u \o <<e>>)
    BY <1>4, ConcatEmptySeq
  <1>6. u = <<>> => u \o <<e>> = <<e>>
    BY <1>1, ConcatEmptySeq
  <1>7. u = <<>> => (t \o <<e>>) \o u = t \o <<e>>
    <2>1. t \o <<e>> \in Seq(Events)
      BY <1>1, ConcatProperties
    <2> QED BY <2>1, ConcatEmptySeq
  <1> QED BY <1>2, <1>3, <1>5, <1>6, <1>7

\* The walk's pending list is the machine's, and calls nested in it are open.
Held(p, top, l) ==
    code[p].op # "FORNLOOP" =>
        top.base = Before(p) /\ (Before(p) # Closed => l.base = Before(p) /\ top.from = l.from)
Ready(p, top, l) ==
    /\ CodeShape /\ TargetsOK /\ OpenOK /\ Admitted
    /\ p \in Starts /\ top \in Tops /\ l \in Lists
    /\ Held(p, top, l)
    /\ top.calls # <<>> => PendingAt(p)

\* Nothing that keeps an order is reached with a call pending.
LEMMA NonePending ==
    ASSUME NEW p, NEW top, NEW l, Ready(p, top, l), ~Takes(code[p]), code[p].op # "NAMECALL",
           ~Inert(code[p]), code[p].op \notin {"MOVE", "GETIMPORT"}
    PROVE  top.calls = <<>>
  BY PendingShape DEF Ready, LoadsFallback

LEMMA UnitTakes ==
    ASSUME NEW p, NEW top, NEW l, Ready(p, top, l), Takes(code[p])
    PROVE  top # NoTop /\ top.base = l.base /\ top.from = l.from /\ code[p].op # "FORNLOOP"
  <1>1. code[p].op # "FORNLOOP"
    BY DEF Takes
  <1>2. top.base = Before(p) /\ top.base \in Int
    BY <1>1 DEF Ready, Held, Tops
  <1>3. Before(p) # Closed
    BY <1>2, TakesOpen DEF Ready
  <1> QED BY <1>1, <1>2, <1>3 DEF Ready, Held, NoTop

LEMMA CallUnit ==
    ASSUME NEW p, NEW top, NEW l, Ready(p, top, l), code[p].op = "CALL"
    PROVE  /\ UnitMade(p, top) = IF code[p].c = 0 THEN <<>> ELSE top.calls \o <<CallDoes(p, l)>>
           /\ UnitTop(p, top) = IF code[p].c = 0
                                THEN [from |-> p, base |-> code[p].a, calls |-> top.calls \o <<CallDoes(p, l)>>]
                                ELSE IF code[p].b = 0 THEN NoTop ELSE top
           /\ code[p].b # 0 => top.calls = <<>>
  <1>1. code[p].b # 0 => top.calls = <<>>
    BY NonePending DEF Takes, Inert
  <1>2. code[p].b = 0 => top # NoTop /\ top.base = l.base /\ top.from = l.from
    BY UnitTakes DEF Takes
  <1>3. Event("call", p, Arguments(p, First(p), top), After(p, top)) = CallDoes(p, l)
    <2>1. Arguments(p, First(p), top) = IF code[p].b = 0 THEN First(p)..l.base - 1
                                        ELSE First(p)..code[p].a + code[p].b - 1
      BY <1>2 DEF Arguments
    <2>2. After(p, top) = IF code[p].b = 0 THEN l.from ELSE 0
      BY <1>2 DEF After
    <2> QED BY <2>1, <2>2 DEF CallDoes
  <1> DEFINE made == (IF code[p].b = 0 THEN top.calls ELSE <<>>) \o <<CallDoes(p, l)>>
  <1>4. made = top.calls \o <<CallDoes(p, l)>>
    BY <1>1
  <1>5. LiftCall(p, First(p), top) =
            IF code[p].c = 0
            THEN [made |-> <<>>, top |-> [from |-> p, base |-> code[p].a, calls |-> made]]
            ELSE [made |-> made, top |-> IF code[p].b = 0 THEN NoTop ELSE top]
    BY <1>2, <1>3 DEF LiftCall
  <1> HIDE DEF made
  <1>6. UnitMade(p, top) = IF code[p].c = 0 THEN <<>> ELSE made
    BY <1>5 DEF UnitMade
  <1>7. UnitTop(p, top) = IF code[p].c = 0 THEN [from |-> p, base |-> code[p].a, calls |-> made]
                          ELSE IF code[p].b = 0 THEN NoTop ELSE top
    BY <1>5 DEF UnitTop
  <1> QED BY <1>1, <1>4, <1>6, <1>7

LEMMA ListUnit ==
    ASSUME NEW p, NEW top, NEW l, Ready(p, top, l), code[p].op \in {"RETURN", "SETLIST"},
           NEW e, e = IF code[p].op = "RETURN" THEN ReturnDoes(p, l) ELSE SetListDoes(p, l)
    PROVE  /\ UnitMade(p, top) = IF Takes(code[p]) THEN top.calls \o <<e>> ELSE <<e>>
           /\ UnitTop(p, top) = IF Takes(code[p]) THEN NoTop ELSE top
           /\ ~Takes(code[p]) => top.calls = <<>>
  <1>1. ~Takes(code[p]) => top.calls = <<>>
    BY NonePending DEF Inert
  <1>2. Takes(code[p]) => top # NoTop /\ top.base = l.base /\ top.from = l.from
    BY UnitTakes
  <1>3. CASE code[p].op = "RETURN"
    <2>1. Takes(code[p]) <=> code[p].b = 0
      BY <1>3 DEF Takes
    <2>2. /\ UnitMade(p, top) = LiftList("return", p, code[p].a, code[p].b, top).made
          /\ UnitTop(p, top) = LiftList("return", p, code[p].a, code[p].b, top).top
      BY <1>3 DEF UnitMade, UnitTop, Lift, Silent, Operations, Loads, Accesses, Arithmetic, Imports, Closes,
                  RegisterTests, LoopMarkers
    <2>3. CASE code[p].b = 0
      BY <1>1, <1>2, <1>3, <2>1, <2>2, <2>3 DEF LiftList, ReturnDoes
    <2>4. CASE code[p].b # 0
      BY <1>1, <1>2, <1>3, <2>1, <2>2, <2>4 DEF LiftList, ReturnDoes
    <2> QED BY <2>3, <2>4
  <1>4. CASE code[p].op = "SETLIST"
    <2>1. Takes(code[p]) <=> code[p].c = 0
      BY <1>4 DEF Takes
    <2>2. /\ UnitMade(p, top) = LiftList("list", p, code[p].b, code[p].c, top).made
          /\ UnitTop(p, top) = LiftList("list", p, code[p].b, code[p].c, top).top
      BY <1>4 DEF UnitMade, UnitTop, Lift, Silent, Operations, Loads, Accesses, Arithmetic, Imports, Closes,
                  RegisterTests, LoopMarkers
    <2>3. CASE code[p].c = 0
      BY <1>1, <1>2, <1>4, <2>1, <2>2, <2>3 DEF LiftList, SetListDoes
    <2>4. CASE code[p].c # 0
      BY <1>1, <1>2, <1>4, <2>1, <2>2, <2>4 DEF LiftList, SetListDoes
    <2> QED BY <2>3, <2>4
  <1> QED BY <1>3, <1>4

\* The other units leave the pending list alone, or start one of varargs.
LEMMA PlainUnit ==
    ASSUME NEW p, NEW top, NEW l, Ready(p, top, l), code[p].op \notin {"CALL", "RETURN", "SETLIST", "NAMECALL"}
    PROVE  /\ UnitMade(p, top) = Does(p, l)
           /\ UnitTop(p, top) = IF code[p].op = "GETVARARGS" /\ code[p].b = 0
                                THEN [from |-> p, base |-> code[p].a, calls |-> <<>>] ELSE top
           /\ code[p].op = "GETVARARGS" => top.calls = <<>>
  <1>1. code[p].op \in Opcodes
    BY SlotNumbers DEF Ready
  <1>2. code[p].op = "GETVARARGS" => top.calls = <<>>
    BY NonePending DEF Inert, Takes
  <1>3. CASE code[p].op = "GETVARARGS"
    <2>1. /\ UnitMade(p, top) = LiftVarargs(p, top).made
          /\ UnitTop(p, top) = LiftVarargs(p, top).top
          /\ Does(p, l) = IF code[p].b # 0 THEN <<Event("op", p, {}, 0)>> ELSE <<>>
      BY <1>3 DEF UnitMade, UnitTop, Does, Lift, Silent, Operations, Loads, Accesses, Arithmetic, Imports, Closes,
                  RegisterTests, LoopMarkers
    <2> QED BY <1>2, <1>3, <2>1 DEF LiftVarargs
  <1>4. CASE code[p].op # "GETVARARGS"
    BY <1>1, <1>4 DEF UnitMade, UnitTop, Does, Lift, LiftClosure, Opcodes, Silent, Operations, Loads, Accesses,
                      Arithmetic, Imports, Closes, RegisterTests, LoopMarkers
  <1> QED BY <1>2, <1>3, <1>4

LEMMA UnitSame ==
    ASSUME NEW p, NEW top, NEW l, Ready(p, top, l), code[p].op # "NAMECALL",
           NEW ev \in Seq(Events), NEW made \in Seq(Events), Same(ev, made \o top.calls)
    PROVE  Same(ev \o Does(p, l), (made \o UnitMade(p, top)) \o UnitTop(p, top).calls)
  <1>0. top.calls \in Seq(Events) /\ NoTop.calls = <<>>
    BY DEF Ready, Tops, NoTop
  <1>1. /\ Does(p, l) \in Seq(Events)
        /\ CallDoes(p, l) \in Events /\ ReturnDoes(p, l) \in Events /\ SetListDoes(p, l) \in Events
    BY DoesType DEF Ready
  <1>2. CASE code[p].op = "CALL"
    <2> DEFINE e == CallDoes(p, l)
    <2>1. Does(p, l) = <<e>>
      BY <1>2 DEF Does, Operations, Loads, Accesses, Arithmetic, Imports, Closes, RegisterTests, LoopMarkers
    <2>2. /\ UnitMade(p, top) = IF code[p].c = 0 THEN <<>> ELSE top.calls \o <<e>>
          /\ UnitTop(p, top) = IF code[p].c = 0
                               THEN [from |-> p, base |-> code[p].a, calls |-> top.calls \o <<e>>]
                               ELSE IF code[p].b = 0 THEN NoTop ELSE top
          /\ code[p].b # 0 => top.calls = <<>>
      BY <1>2, CallUnit
    <2> HIDE DEF e
    <2>3. CASE code[p].c = 0
      <3>1. UnitMade(p, top) = <<>> /\ UnitTop(p, top).calls = top.calls \o <<e>>
        BY <2>2, <2>3
      <3>2. e \in Events
        BY <1>1 DEF e
      <3>3. Same(ev \o <<e>>, (made \o <<>>) \o (top.calls \o <<e>>))
        BY <1>0, <3>2, SameMade
      <3> QED BY <2>1, <3>1, <3>3
    <2>4. CASE code[p].c # 0
      <3>1. UnitMade(p, top) = top.calls \o <<e>> /\ UnitTop(p, top).calls = <<>>
        BY <1>0, <2>2, <2>4
      <3>2. e \in Events
        BY <1>1 DEF e
      <3>3. Same(ev \o <<e>>, (made \o (top.calls \o <<e>>)) \o <<>>)
        BY <1>0, <3>2, SameMade
      <3> QED BY <2>1, <3>1, <3>3
    <2> QED BY <2>3, <2>4
  <1>3. CASE code[p].op \in {"RETURN", "SETLIST"}
    <2> DEFINE e == IF code[p].op = "RETURN" THEN ReturnDoes(p, l) ELSE SetListDoes(p, l)
    <2>1. Does(p, l) = <<e>>
      BY <1>3 DEF Does, Operations, Loads, Accesses, Arithmetic, Imports, Closes, RegisterTests, LoopMarkers
    <2>2. /\ UnitMade(p, top) = IF Takes(code[p]) THEN top.calls \o <<e>> ELSE <<e>>
          /\ UnitTop(p, top) = IF Takes(code[p]) THEN NoTop ELSE top
          /\ ~Takes(code[p]) => top.calls = <<>>
      BY <1>3, ListUnit
    <2>3. e \in Events
      BY <1>1
    <2> HIDE DEF e
    <2>4. /\ Same(ev \o <<e>>, (made \o (top.calls \o <<e>>)) \o <<>>)
          /\ top.calls = <<>> => Same(ev \o <<e>>, (made \o <<e>>) \o top.calls)
      BY <1>0, <2>3, SameMade
    <2>5. CASE Takes(code[p])
      BY <1>0, <2>1, <2>2, <2>4, <2>5
    <2>6. CASE ~Takes(code[p])
      BY <2>1, <2>2, <2>4, <2>6
    <2> QED BY <2>5, <2>6
  <1>4. CASE code[p].op \notin {"CALL", "RETURN", "SETLIST"}
    <2>1. UnitMade(p, top) = Does(p, l) /\ UnitTop(p, top).calls = top.calls
      BY <1>4, PlainUnit
    <2>2. CASE Does(p, l) = <<>>
      <3>1. Same(ev \o <<>>, (made \o <<>>) \o top.calls)
        <4>1. PICK e \in Events : TRUE
          BY <1>1
        <4> QED BY <1>0, <4>1, SameMade
      <3> QED BY <2>1, <2>2, <3>1
    <2>3. ASSUME NEW e, Does(p, l) = <<e>>
          PROVE  Same(ev \o Does(p, l), (made \o UnitMade(p, top)) \o UnitTop(p, top).calls)
      <3>1. e \in Events
        <4>1. Len(<<e>>) = 1 /\ <<e>>[1] = e /\ 1 \in 1..Len(<<e>>)
          OBVIOUS
        <4> QED BY <1>1, <2>3, <4>1, ElementOfSeq
      <3>2. CASE top.calls = <<>>
        BY <1>0, <2>1, <2>3, <3>1, <3>2, SameMade
      <3>3. CASE top.calls # <<>>
        <4>1. code[p].op \in {"CLOSEUPVALS", "MOVE", "GETIMPORT", "NOP", "FASTCALL"}
              /\ (code[p].op \in {"MOVE", "GETIMPORT"} => LoadsFallback(p))
          BY <1>4, <3>3, PendingShape DEF Ready, Takes, Inert, LoadsFallback
        <4>2. code[p].op \notin {"NOP", "FASTCALL"}
          BY <2>3, <4>1 DEF Does, Operations, Loads, Accesses, Arithmetic, Imports, Closes, RegisterTests, LoopMarkers
        <4>3. e = Event("op", p, Registers(code[p]), 0)
          BY <2>3, <4>1, <4>2 DEF Does, Operations, Loads, Accesses, Arithmetic, Imports, Closes
        <4>4. e.pc = p /\ e.ev = "op"
          BY <4>3 DEF Event
        <4>5. Unordered(e)
          BY <4>1, <4>2, <4>4, FallbackSlots DEF Unordered, LoadsFallback, Ready
        <4>6. Same(ev \o <<e>>, (made \o <<e>>) \o top.calls)
          BY <1>0, <3>1, <4>5, SameAhead
        <4> QED BY <2>1, <2>3, <4>6
      <3> QED BY <3>2, <3>3
    <2>4. Does(p, l) = <<>> \/ \E e : Does(p, l) = <<e>>
      BY DEF Does
    <2> QED BY <2>2, <2>3, <2>4
  <1> QED BY <1>2, <1>3, <1>4

\* The pending list stays the machine's.
LEMMA UnitHeld ==
    ASSUME NEW p, NEW top, NEW l, Ready(p, top, l), ~Decides(p), code[p].op # "NAMECALL"
    PROVE  /\ UnitTop(p, top).base = TopAfter(code[p], Before(p))
           /\ TopAfter(code[p], Before(p)) # Closed => UnitTop(p, top).from = ListAfter(p, l).from
  <1>0. /\ p \in Starts /\ code[p].op # "FORNLOOP" /\ code[p].op # "RETURN" /\ ~Jumps(code[p])
    BY DEF Ready, Decides, Stops, Jumps
  <1>1. top.base = Before(p) /\ (Before(p) # Closed => top.from = l.from)
    BY <1>0 DEF Ready, Held
  <1>2. TopAfter(code[p], Before(p)) # Lost
    BY TakesOpen DEF Ready
  <1>3. NoTop.base = Closed
    BY DEF NoTop
  <1>4. CASE code[p].op = "CALL"
    <2>1. TopAfter(code[p], Before(p)) = IF code[p].c = 0 THEN code[p].a
                                         ELSE IF code[p].b = 0 THEN Closed ELSE Before(p)
      <3>1. TopAfter(code[p], Before(p)) =
                IF code[p].b = 0 /\ Before(p) <= code[p].a THEN Lost
                ELSE IF code[p].c = 0 THEN code[p].a ELSE IF code[p].b = 0 THEN Closed ELSE Before(p)
        BY <1>4 DEF TopAfter, Jumps
      <3> QED BY <1>2, <3>1
    <2>2. ListAfter(p, l) = IF code[p].c = 0 THEN [from |-> p, base |-> code[p].a]
                            ELSE IF code[p].b = 0 THEN NoList ELSE l
      BY <1>4 DEF ListAfter
    <2>3. CASE code[p].c = 0
      <3>1. UnitTop(p, top).from = p /\ UnitTop(p, top).base = code[p].a
        <4>1. UnitTop(p, top) = [from |-> p, base |-> code[p].a, calls |-> top.calls \o <<CallDoes(p, l)>>]
          BY <1>4, <2>3, CallUnit
        <4> DEFINE calls == top.calls \o <<CallDoes(p, l)>>
        <4> HIDE DEF calls
        <4>2. UnitTop(p, top) = [from |-> p, base |-> code[p].a, calls |-> calls]
          BY <4>1 DEF calls
        <4> QED BY <4>2
      <3> QED BY <2>1, <2>2, <2>3, <3>1
    <2>4. CASE code[p].c # 0
      <3>1. UnitTop(p, top) = IF code[p].b = 0 THEN NoTop ELSE top
        BY <1>4, <2>4, CallUnit
      <3> QED BY <1>1, <1>3, <2>1, <2>2, <2>4, <3>1
    <2> QED BY <2>3, <2>4
  <1>5. CASE code[p].op = "SETLIST"
    <2>1. TopAfter(code[p], Before(p)) = IF code[p].c = 0 THEN Closed ELSE Before(p)
      BY <1>0, <1>2, <1>5 DEF TopAfter
    <2>2. ListAfter(p, l) = IF code[p].c = 0 THEN NoList ELSE l
      BY <1>5 DEF ListAfter
    <2>3. UnitTop(p, top) = IF code[p].c = 0 THEN NoTop ELSE top
      <3>1. Takes(code[p]) <=> code[p].c = 0
        BY <1>5 DEF Takes
      <3> QED BY <1>5, <3>1, ListUnit
    <2> QED BY <1>1, <1>3, <2>1, <2>2, <2>3
  <1>6. CASE code[p].op = "GETVARARGS"
    <2>1. TopAfter(code[p], Before(p)) = IF code[p].b = 0 THEN code[p].a ELSE Before(p)
      <3>1. TopAfter(code[p], Before(p)) =
                IF ~IsVararg THEN Lost ELSE IF code[p].b = 0 THEN code[p].a ELSE Before(p)
        BY <1>6 DEF TopAfter, Jumps
      <3> QED BY <1>2, <3>1
    <2>2. ListAfter(p, l) = IF code[p].b = 0 THEN [from |-> p, base |-> code[p].a] ELSE l
      BY <1>6 DEF ListAfter
    <2>3. UnitTop(p, top) = IF code[p].b = 0 THEN [from |-> p, base |-> code[p].a, calls |-> <<>>] ELSE top
      BY <1>6, PlainUnit
    <2> QED BY <1>1, <2>1, <2>2, <2>3
  <1>7. CASE code[p].op \notin {"CALL", "SETLIST", "GETVARARGS"}
    <2>1. TopAfter(code[p], Before(p)) = Before(p)
      BY <1>0, <1>7 DEF TopAfter
    <2>2. ListAfter(p, l) = l
      BY <1>0, <1>7 DEF ListAfter
    <2>3. UnitTop(p, top) = top
      BY <1>0, <1>7, PlainUnit
    <2> QED BY <1>1, <2>1, <2>2, <2>3
  <1> QED BY <1>4, <1>5, <1>6, <1>7

\* Calls are pending only where the scan has open results.
LEMMA UnitPending ==
    ASSUME NEW p, NEW top, NEW l, Ready(p, top, l), code[p].op # "NAMECALL"
    PROVE  /\ Decides(p) => UnitTop(p, top).calls = <<>>
           /\ \A n \in Starts : n = p + Len(Slots(code[p])) /\ UnitTop(p, top).calls # <<>> => PendingAt(n)
  <1>0. CodeShape /\ Admitted /\ p \in Starts /\ NoTop.calls = <<>>
    BY DEF Ready, NoTop
  <1>1. CASE code[p].op = "CALL"
    <2>1. ~Decides(p)
      BY <1>1 DEF Decides, Stops, Jumps
    <2>2. CASE code[p].c = 0
      BY <1>0, <1>1, <2>1, <2>2, PendingOpens
    <2>3. CASE code[p].c # 0
      <3>1. UnitTop(p, top).calls = <<>>
        BY <1>0, <1>1, <2>3, CallUnit
      <3> QED BY <2>1, <3>1
    <2> QED BY <2>2, <2>3
  <1>2. CASE code[p].op \in {"RETURN", "SETLIST"}
    <2>1. UnitTop(p, top).calls = <<>>
      BY <1>0, <1>2, ListUnit
    <2> QED BY <2>1
  <1>3. CASE code[p].op \notin {"CALL", "RETURN", "SETLIST"}
    <2>1. UnitTop(p, top).calls = top.calls
      BY <1>3, PlainUnit
    <2>2. Decides(p) => top.calls = <<>>
      BY <1>3, NonePending DEF Decides, Stops, Jumps, Takes, Inert
    <2>3. ASSUME NEW n \in Starts, n = p + Len(Slots(code[p])), top.calls # <<>> PROVE PendingAt(n)
      <3>1. PendingAt(p)
        BY <2>3 DEF Ready
      <3>2. code[p].op \notin {"GETVARARGS"}
        BY <2>3, <1>3, NonePending DEF Takes, Inert
      <3>3. OpenCallAfter(code[p], TRUE)
        BY <1>3, <3>2 DEF OpenCallAfter
      <3> QED BY <1>0, <2>3, <3>1, <3>3, PendingNext
    <2> QED BY <2>1, <2>2, <2>3
  <1> QED BY <1>1, <1>2, <1>3

-----------------------------------------------------------------------------
(* The machine beside the walk over its block. *)

\* The walk where the machine is: a method's CALL is lifted where its lookup
\* was, and the captures of a closure with it.
Passed(b, p) == Walk(b)[IF MethodAt(p) THEN p - 3 ELSE p - 1]
Reached(b, p) ==
    LET w == Passed(b, p)
    IN  IF MethodAt(p) THEN b <= p - 2 /\ w.next = p - 2
        ELSE w.next >= p /\ \A q \in p..w.next - 1 : code[q].op = "CAPTURE"

LEMMA MethodFacts ==
    ASSUME CodeShape, GroupsOK, NEW p \in Nat, MethodAt(p)
    PROVE  /\ p - 2 \in Starts /\ code[p - 2].op = "NAMECALL" /\ p > 2
           /\ p - 1 \in Pcs /\ p - 1 \notin Starts /\ p \in Pcs /\ p \notin Targets
           /\ code[p].op = "CALL" /\ code[p].a = code[p - 2].a
  <1>1. p - 2 \in Starts /\ code[p - 2].op = "NAMECALL" /\ HasAux(code[p - 2])
    BY DEF MethodAt, HasAux
  <1>2. p - 2 \in Nat /\ p - 2 >= 1
    BY <1>1, SlotFacts
  <1> DEFINE q == p - 2
  <1>3. q + 1 \in Pcs /\ q + 1 \notin Starts
    BY <1>1, AuxIsNoStart
  <1>4. q + 2 \in Pcs /\ q + 2 \notin Targets /\ code[q + 2].op = "CALL" /\ code[q + 2].a = code[q].a
    BY <1>1 DEF GroupsOK
  <1>5. q + 2 \in Nat
    BY <1>2
  <1>6. q + 2 = p /\ q + 1 = p - 1
    OBVIOUS
  <1> QED BY <1>1, <1>3, <1>4, <1>5, <1>6 DEF MethodAt

\* A block starts at no method's CALL.
LEMMA BlocksStartNoMethod ==
    ASSUME CodeShape, GroupsOK, NEW l \in Leaders, l \in Nat
    PROVE  ~MethodAt(l)
  <1> SUFFICES ASSUME MethodAt(l) PROVE FALSE
    OBVIOUS
  <1>1. /\ code[l - 2].op = "NAMECALL" /\ l > 2 /\ l - 1 \notin Starts /\ l \notin Targets
        /\ code[l].op = "CALL"
    BY MethodFacts
  <1>2. PICK q \in Starts : Jumps(code[q]) /\ l \in StartedBy(q)
    BY <1>1, LeadersAre
  <1>3. q \in Nat
    BY SlotFacts
  <1>4. CASE code[q].op \in {"JUMPIFEQ", "JUMPIFNOTEQ"}
    <2>1. q = l - 2
      BY <1>2, <1>3, <1>4 DEF StartedBy
    <2> QED BY <1>1, <1>4, <2>1
  <1>5. CASE code[q].op \notin {"JUMPIFEQ", "JUMPIFNOTEQ"}
    <2>1. q = l - 1 \/ (q = l /\ code[q].op = "FORNLOOP")
      BY <1>2, <1>3, <1>5 DEF StartedBy
    <2> QED BY <1>1, <2>1
  <1> QED BY <1>4, <1>5

\* What comes after an instruction that decides nothing.
LEMMA OnwardBounds ==
    ASSUME NEW b, NEW p, Inside(p, b), ~Decides(p), NEW n, n = Onward(p)
    PROVE  /\ n \in Nat /\ p < n /\ n - 1 <= BlockEnd(b) /\ n \in Starts \cup {Off}
           /\ n \in Leaders \cup {Off} => n - 1 = BlockEnd(b)
  <1>0. /\ b \in Nat /\ p \in Nat /\ p \in Pcs /\ BlockEnd(b) \in Nat /\ Len(code) \in Nat
        /\ b <= p /\ p <= BlockEnd(b) /\ BlockEnd(b) <= Len(code)
    BY InsideBounds
  <1>1. CodeShape /\ TargetsOK /\ BlockOf(b) /\ Leaders \subseteq Nat
    BY LeaderIsNumber DEF Inside, BlockOf
  <1>2. n \in Nat /\ n > p
    <2>1. CASE p \in Starts
      <3>1. n \in {p + 1, p + 2}
        BY <1>1, <2>1, SlotFacts DEF Onward
      <3> QED BY <1>0, <3>1
    <2>2. CASE p \notin Starts
      BY <1>0, <2>2 DEF Onward
    <2> QED BY <2>1, <2>2
  <1>3. \A l \in Leaders : ~(p < l /\ l < n)
    <2> SUFFICES ASSUME NEW l \in Leaders, p < l, l < n PROVE FALSE
      OBVIOUS
    <2>1. CASE p \in Starts
      <3>1. code[p].op # "FORGLOOP"
        BY <2>1 DEF Decides, Jumps
      <3> QED BY <1>1, <2>1, <3>1, BlocksStartAfterJumps DEF Onward
    <2>2. CASE p \notin Starts
      BY <1>0, <1>1, <2>2 DEF Onward
    <2> QED BY <2>1, <2>2
  <1>4. n \in Starts \cup {Off}
    <2>1. CASE p \in Starts
      BY <1>1, <2>1, NextIsStart DEF Onward
    <2>2. CASE p \notin Starts
      <3>1. n = p + 1
        BY <2>2 DEF Onward
      <3>2. n = Off \/ n \in Pcs
        BY <1>0, <3>1 DEF Pcs, Off
      <3>3. n - 1 = p
        BY <1>0, <3>1
      <3> QED BY <1>1, <2>2, <3>2, <3>3, StartRule
    <2> QED BY <2>1, <2>2
  <1>5. n <= Len(code) + 1
    BY <1>0, <1>1, <1>4, SlotFacts DEF Off
  <1>6. n - 1 <= BlockEnd(b)
    <2>1. BlockEnd(b) + 1 \in Leaders \cup {Off}
      BY <1>1, BlockBounds
    <2>2. CASE BlockEnd(b) + 1 = Off
      BY <1>0, <1>2, <1>5, <2>2 DEF Off
    <2>3. CASE BlockEnd(b) + 1 \in Leaders
      <3>1. ~(BlockEnd(b) + 1 < n)
        BY <1>0, <1>3, <2>3
      <3> QED BY <1>0, <1>2, <3>1
    <2> QED BY <2>1, <2>2, <2>3
  <1>7. ASSUME n \in Leaders \cup {Off} PROVE n - 1 = BlockEnd(b)
    <2>1. CASE n = Off
      BY <1>0, <1>6, <2>1 DEF Off
    <2>2. CASE n \in Leaders
      <3>1. n > BlockEnd(b)
        <4>1. n <= b \/ n > BlockEnd(b)
          BY <1>1, <2>2, BlockBounds
        <4> QED BY <1>0, <1>2, <4>1
      <3> QED BY <1>0, <1>2, <1>6, <3>1
    <2> QED BY <1>7, <2>1, <2>2
  <1> QED BY <1>2, <1>4, <1>6, <1>7

\* The walk passes over a spare word.
LEMMA WalkSpare ==
    ASSUME NEW b, BlockOf(b), NEW q \in b..BlockEnd(b), q \notin Starts
    PROVE  /\ Walk(b)[q].made = Walk(b)[q - 1].made /\ Walk(b)[q].top = Walk(b)[q - 1].top
           /\ Walk(b)[q - 1].next = q => Walk(b)[q].next = q + 1
  <1>1. q \in Nat /\ q \in Pcs /\ q - 1 \in b - 1..BlockEnd(b)
    BY BlockBounds
  <1>2. code[q].op = "NOP"
    BY <1>1, OffStarts DEF BlockOf, Nop, Ins
  <1> DEFINE w == Walk(b)[q - 1]
  <1>3. w \in Walks /\ Walk(b)[q] = WalkOn(q, w)
    BY <1>1, WalkSteps
  <1>4. Lift(q, w.top) = [made |-> <<>>, top |-> w.top, next |-> q + 1]
    BY <1>2 DEF Lift, Silent, Operations, Loads, Accesses, Arithmetic, Imports, Closes, RegisterTests, LoopMarkers
  <1>5. w.made \o <<>> = w.made
    BY <1>3, ConcatEmptySeq DEF Walks
  <1>6. ~Stops(code[q])
    BY <1>2 DEF Stops
  <1> HIDE DEF w
  <1>7. WalkOn(q, w) = IF q # w.next THEN w ELSE [made |-> w.made \o <<>>, top |-> w.top, next |-> q + 1]
    BY <1>4, <1>6 DEF WalkOn
  <1>8. /\ WalkOn(q, w).made = w.made /\ WalkOn(q, w).top = w.top
        /\ w.next = q => WalkOn(q, w).next = q + 1
    BY <1>5, <1>7
  <1> QED BY <1>3, <1>8 DEF w

LEMMA OnwardNoMethod ==
    ASSUME CodeShape, GroupsOK, NEW p \in Starts, code[p].op # "NAMECALL", NEW n, n = p + Len(Slots(code[p]))
    PROVE  ~MethodAt(n)
  <1> SUFFICES ASSUME MethodAt(n) PROVE FALSE
    OBVIOUS
  <1>1. n \in Nat /\ p \in Nat /\ n \in {p + 1, p + 2}
    BY Neighbours, SlotFacts
  <1>2. n - 1 \notin Starts /\ code[n - 2].op = "NAMECALL"
    BY <1>1, MethodFacts
  <1>3. (n = p + 1 => n - 1 = p) /\ (n = p + 2 => n - 2 = p)
    BY <1>1
  <1> QED BY <1>1, <1>2, <1>3

\* The walk at one slot of its block.
LEMMA WalkAt ==
    ASSUME NEW b, BlockOf(b), NEW q, q \in b..BlockEnd(b), NEW r, r = q - 1
    PROVE  Walk(b)[q] = WalkOn(q, Walk(b)[r]) /\ Walk(b)[q] \in Walks /\ Walk(b)[r] \in Walks
  <1>1. b \in Nat /\ BlockEnd(b) \in Nat
    BY BlockBounds
  <1>2. q \in b - 1..BlockEnd(b) /\ q - 1 \in b - 1..BlockEnd(b)
    BY <1>1
  <1>3. Walk(b)[q] = WalkOn(q, Walk(b)[q - 1])
    BY WalkSteps
  <1>4. Walk(b)[q] \in Walks /\ Walk(b)[q - 1] \in Walks
    BY <1>2, WalkSteps
  <1> QED BY <1>3, <1>4

\* A method's lookup and CALL are one unit.
LEMMA WalkMethod ==
    ASSUME NEW b, NEW p, Inside(p, b), MethodAt(p), Reached(b, p), NEW w, w = Passed(b, p)
    PROVE  /\ w \in Walks /\ Walk(b)[p] \in Walks
           /\ Walk(b)[p].made = w.made \o UnitMade(p, w.top) /\ Walk(b)[p].top = UnitTop(p, w.top)
           /\ Walk(b)[p].next = p + 1
  <1>1. /\ b \in Nat /\ p \in Nat /\ BlockEnd(b) \in Nat /\ b <= p /\ p <= BlockEnd(b)
        /\ BlockOf(b) /\ CodeShape /\ GroupsOK
    BY InsideBounds DEF Inside, BlockOf
  <1>2. /\ p - 2 \in Starts /\ code[p - 2].op = "NAMECALL" /\ p > 2
        /\ code[p].op = "CALL" /\ code[p].a = code[p - 2].a
    BY <1>1, MethodFacts
  <1>3. w = Walk(b)[p - 3] /\ b <= p - 2 /\ w.next = p - 2
    BY DEF Passed, Reached
  <1> DEFINE q == p - 2
  <1>4. /\ q \in b..BlockEnd(b) /\ q + 1 \in b..BlockEnd(b) /\ q + 2 \in b..BlockEnd(b) /\ q + 2 = p
        /\ q - 1 = p - 3 /\ q - 1 \in b - 1..BlockEnd(b) /\ (q + 1) - 1 = q /\ (q + 2) - 1 = q + 1
        /\ q + 1 # q + 3 /\ q + 2 # q + 3 /\ q + 3 = p + 1 /\ q \in Nat
    BY <1>1, <1>2, <1>3
  <1>5. code[q].op = "NAMECALL" /\ code[q].a = code[q + 2].a /\ w.next = q
    BY <1>2, <1>3, <1>4
  <1> HIDE DEF q
  <1>6. w \in Walks /\ Walk(b)[q] = WalkOn(q, w) /\ Walk(b)[q] \in Walks
    <2>1. /\ Walk(b)[q] = WalkOn(q, Walk(b)[p - 3]) /\ Walk(b)[q] \in Walks /\ Walk(b)[p - 3] \in Walks
      <3>1. BlockOf(b) /\ q \in b..BlockEnd(b) /\ p - 3 = q - 1
        BY <1>1, <1>4
      <3> QED BY <3>1, WalkAt
    <2> QED BY <1>3, <2>1
  <1>7. Lift(q, w.top) = [made |-> LiftCall(q + 2, code[q].a + 2, w.top).made,
                          top |-> LiftCall(q + 2, code[q].a + 2, w.top).top, next |-> q + 3]
    BY <1>5 DEF Lift, LiftMethod, Silent, Operations, Loads, Accesses, Arithmetic, Imports, Closes, RegisterTests,
                LoopMarkers
  <1>8. /\ UnitMade(p, w.top) = LiftCall(q + 2, code[q].a + 2, w.top).made
        /\ UnitTop(p, w.top) = LiftCall(q + 2, code[q].a + 2, w.top).top
    BY <1>2, <1>4, <1>5 DEF UnitMade, UnitTop, First
  <1>9. ~Stops(code[q])
    BY <1>5 DEF Stops
  <1>10. Walk(b)[q] = [made |-> w.made \o UnitMade(p, w.top), top |-> UnitTop(p, w.top), next |-> q + 3]
    BY <1>5, <1>6, <1>7, <1>8, <1>9 DEF WalkOn
  <1>11. Walk(b)[q].next = q + 3
    BY <1>10
  <1>12. Walk(b)[q + 1] = Walk(b)[q]
    <2>1. Walk(b)[q + 1] = WalkOn(q + 1, Walk(b)[q])
      <3>1. BlockOf(b) /\ q + 1 \in b..BlockEnd(b) /\ q = (q + 1) - 1
        BY <1>1, <1>4
      <3> QED BY <3>1, WalkAt
    <2> QED BY <1>4, <1>11, <2>1 DEF WalkOn
  <1>13. Walk(b)[q + 2] = Walk(b)[q]
    <2>1. Walk(b)[q + 2] = WalkOn(q + 2, Walk(b)[q + 1])
      <3>1. BlockOf(b) /\ q + 2 \in b..BlockEnd(b) /\ q + 1 = (q + 2) - 1
        BY <1>1, <1>4
      <3> QED BY <3>1, WalkAt
    <2> QED BY <1>4, <1>11, <1>12, <2>1 DEF WalkOn
  <1>14. Walk(b)[p] = Walk(b)[q]
    BY <1>4, <1>13
  <1>15. Walk(b)[p] = [made |-> w.made \o UnitMade(p, w.top), top |-> UnitTop(p, w.top), next |-> p + 1]
    BY <1>4, <1>10, <1>14
  <1> DEFINE made == w.made \o UnitMade(p, w.top)
             top == UnitTop(p, w.top)
             next == p + 1
  <1>16. Walk(b)[p] = [made |-> made, top |-> top, next |-> next]
    BY <1>15
  <1> HIDE DEF made, top, next
  <1>17. Walk(b)[p].made = made /\ Walk(b)[p].top = top /\ Walk(b)[p].next = next
    BY <1>16
  <1> QED BY <1>6, <1>14, <1>17 DEF made, top, next

\* The walk over the unit the machine is at.
LEMMA WalkOne ==
    ASSUME NEW b, NEW p, Inside(p, b), p \in Starts, ~MethodAt(p), code[p].op # "NAMECALL",
           NEW w, w = Walk(b)[p - 1], w.next = p
    PROVE  /\ w \in Walks /\ Walk(b)[p] \in Walks
           /\ Walk(b)[p].made = w.made \o UnitMade(p, w.top) /\ Walk(b)[p].top = UnitTop(p, w.top)
           /\ Walk(b)[p].next = IF Stops(code[p]) THEN Gone
                                ELSE IF code[p].op = "NEWCLOSURE" THEN p + 1 + code[p].b ELSE p + 1
  <1>1. /\ b \in Nat /\ p \in Nat /\ BlockEnd(b) \in Nat /\ b <= p /\ p <= BlockEnd(b)
        /\ BlockOf(b) /\ CodeShape /\ GroupsOK
    BY InsideBounds DEF Inside, BlockOf
  <1>2. p \in b..BlockEnd(b) /\ p - 1 \in b - 1..BlockEnd(b) /\ p \in b - 1..BlockEnd(b)
    BY <1>1
  <1>3. w \in Walks /\ Walk(b)[p] \in Walks /\ Walk(b)[p] = WalkOn(p, w)
    BY <1>1, <1>2, WalkSteps
  <1>4. code[p].op \in Opcodes
    BY <1>1, SlotNumbers
  <1>5. /\ UnitMade(p, w.top) = Lift(p, w.top).made /\ UnitTop(p, w.top) = Lift(p, w.top).top
    BY DEF UnitMade, UnitTop, First, Lift, Silent, Operations, Loads, Accesses, Arithmetic, Imports, Closes,
           RegisterTests, LoopMarkers
  <1>6. Lift(p, w.top).next = IF code[p].op = "NEWCLOSURE" THEN p + 1 + code[p].b ELSE p + 1
    BY <1>4 DEF Lift, LiftClosure, Opcodes, Silent, Operations, Loads, Accesses, Arithmetic, Imports, Closes,
                RegisterTests, LoopMarkers
  <1> DEFINE made == w.made \o Lift(p, w.top).made
             next == IF Stops(code[p]) THEN Gone ELSE Lift(p, w.top).next
  <1>7. WalkOn(p, w) = [made |-> made, top |-> Lift(p, w.top).top, next |-> next]
    BY DEF WalkOn
  <1> HIDE DEF made, next
  <1>8. /\ Walk(b)[p].made = made /\ Walk(b)[p].top = Lift(p, w.top).top /\ Walk(b)[p].next = next
    BY <1>3, <1>7
  <1> QED BY <1>3, <1>5, <1>6, <1>8 DEF made, next

LEMMA WalkUnit ==
    ASSUME NEW b, NEW p, Inside(p, b), p \in Starts, ~Decides(p), code[p].op # "NAMECALL", Reached(b, p),
           NEW n, n = Onward(p)
    PROVE  /\ Reached(b, n) /\ Passed(b, n) = Walk(b)[n - 1] /\ Passed(b, n) \in Walks
           /\ Passed(b, n).made = Passed(b, p).made \o UnitMade(p, Passed(b, p).top)
           /\ Passed(b, n).top = UnitTop(p, Passed(b, p).top)
  <1> SUFFICES ASSUME NEW w, w = Passed(b, p)
               PROVE  /\ Reached(b, n) /\ Passed(b, n) = Walk(b)[n - 1] /\ Passed(b, n) \in Walks
                      /\ Passed(b, n).made = w.made \o UnitMade(p, w.top) /\ Passed(b, n).top = UnitTop(p, w.top)
    OBVIOUS
  <1>1. /\ b \in Nat /\ p \in Nat /\ BlockEnd(b) \in Nat /\ b <= p /\ p <= BlockEnd(b)
        /\ BlockOf(b) /\ CodeShape /\ GroupsOK
    BY InsideBounds DEF Inside, BlockOf
  <1>2. /\ n = p + Len(Slots(code[p])) /\ n \in Nat /\ p < n /\ n - 1 <= BlockEnd(b)
        /\ HasAux(code[p]) => n = p + 2
        /\ ~HasAux(code[p]) => n = p + 1
    <2>1. n = p + Len(Slots(code[p]))
      BY DEF Onward
    <2> QED BY <1>1, <2>1, OnwardBounds, SlotFacts
  <1>3. ~MethodAt(n)
    BY <1>1, <1>2, OnwardNoMethod
  <1>4. Passed(b, n) = Walk(b)[n - 1]
    BY <1>3 DEF Passed
  <1>5. Reached(b, n) <=> Walk(b)[n - 1].next >= n /\ \A q \in n..Walk(b)[n - 1].next - 1 : code[q].op = "CAPTURE"
    BY <1>3, <1>4 DEF Reached
  <1>6. CASE MethodAt(p)
    <2>1. code[p].op = "CALL"
      BY <1>1, <1>6, MethodFacts
    <2>2. n = p + 1 /\ n - 1 = p
      BY <1>1, <1>2, <2>1 DEF HasAux
    <2>3. /\ w \in Walks /\ Walk(b)[p] \in Walks
          /\ Walk(b)[p].made = w.made \o UnitMade(p, w.top) /\ Walk(b)[p].top = UnitTop(p, w.top)
          /\ Walk(b)[p].next = p + 1
      BY <1>6, WalkMethod
    <2>4. \A q \in n..n - 1 : FALSE
      BY <1>2
    <2>5. Reached(b, n)
      BY <1>2, <1>5, <2>2, <2>3, <2>4
    <2> QED BY <1>4, <2>2, <2>3, <2>5
  <1>7. CASE ~MethodAt(p) /\ w.next = p
    <2>1. w = Walk(b)[p - 1]
      BY <1>7 DEF Passed
    <2>2. /\ w \in Walks /\ Walk(b)[p] \in Walks
          /\ Walk(b)[p].made = w.made \o UnitMade(p, w.top) /\ Walk(b)[p].top = UnitTop(p, w.top)
          /\ Walk(b)[p].next = IF code[p].op = "NEWCLOSURE" THEN p + 1 + code[p].b ELSE p + 1
      <3>1. ~Stops(code[p])
        BY DEF Decides
      <3>2. /\ w \in Walks /\ Walk(b)[p] \in Walks
            /\ Walk(b)[p].made = w.made \o UnitMade(p, w.top) /\ Walk(b)[p].top = UnitTop(p, w.top)
            /\ Walk(b)[p].next = IF Stops(code[p]) THEN Gone
                                 ELSE IF code[p].op = "NEWCLOSURE" THEN p + 1 + code[p].b ELSE p + 1
        BY <1>7, <2>1, WalkOne
      <3> QED BY <3>1, <3>2
    <2>3. CASE HasAux(code[p])
      <3>1. n - 1 = p + 1 /\ p + 1 \in b..BlockEnd(b) /\ (p + 1) - 1 = p /\ p + 1 \in b - 1..BlockEnd(b)
            /\ p + 1 + 1 = n
        BY <1>1, <1>2, <2>3
      <3>2. p + 1 \notin Starts
        BY <1>1, <2>3, AuxIsNoStart
      <3>3. Walk(b)[p].next = p + 1
        BY <2>2, <2>3 DEF HasAux
      <3>4. /\ Walk(b)[p + 1].made = Walk(b)[p].made /\ Walk(b)[p + 1].top = Walk(b)[p].top
            /\ Walk(b)[p + 1].next = n
        BY <1>1, <3>1, <3>2, <3>3, WalkSpare
      <3>5. \A q \in n..n - 1 : FALSE
        BY <1>2
      <3>6. Reached(b, n)
        BY <1>2, <1>5, <3>1, <3>4, <3>5
      <3>7. Walk(b)[p + 1] \in Walks
        BY <1>1, <3>1, WalkSteps
      <3> QED BY <1>4, <2>2, <3>1, <3>4, <3>6, <3>7
    <2>4. CASE ~HasAux(code[p])
      <3>1. n = p + 1 /\ n - 1 = p
        BY <1>1, <1>2, <2>4
      <3>2. Walk(b)[p].next >= n /\ \A q \in n..Walk(b)[p].next - 1 : code[q].op = "CAPTURE"
        <4>1. CASE code[p].op = "NEWCLOSURE"
          <5>1. Walk(b)[p].next = p + 1 + code[p].b /\ code[p].b \in Nat
            BY <1>1, <2>2, <4>1, SlotNumbers
          <5>2. n..(p + 1 + code[p].b) - 1 = CapturesOf(p)
            BY <1>1, <3>1, <5>1 DEF CapturesOf
          <5>3. \A q \in CapturesOf(p) : code[q].op = "CAPTURE"
            BY <1>1, <4>1 DEF GroupsOK
          <5>4. p + 1 + code[p].b >= n
            BY <1>1, <3>1, <5>1
          <5> QED BY <5>1, <5>2, <5>3, <5>4
        <4>2. CASE code[p].op # "NEWCLOSURE"
          <5>1. Walk(b)[p].next = n
            BY <2>2, <3>1, <4>2
          <5>2. \A q \in n..n - 1 : FALSE
            BY <1>2
          <5> QED BY <1>2, <5>1, <5>2
        <4> QED BY <4>1, <4>2
      <3> QED BY <1>4, <1>5, <2>2, <3>1, <3>2
    <2> QED BY <2>3, <2>4
  <1>8. CASE ~MethodAt(p) /\ w.next # p
    <2>1. /\ w = Walk(b)[p - 1] /\ w.next >= p /\ \A q \in p..w.next - 1 : code[q].op = "CAPTURE"
      BY <1>8 DEF Passed, Reached
    <2>2. /\ p \in b..BlockEnd(b) /\ p - 1 \in b - 1..BlockEnd(b)
      BY <1>1
    <2>3. w \in Walks /\ Walk(b)[p] = WalkOn(p, w)
      <3>1. /\ Walk(b)[p] = WalkOn(p, Walk(b)[p - 1]) /\ Walk(b)[p - 1] \in Walks
        <4>1. BlockOf(b) /\ p \in b..BlockEnd(b) /\ p - 1 = p - 1
          BY <1>1, <2>2
        <4> QED BY <4>1, WalkAt
      <3> QED BY <2>1, <3>1
    <2>4. Walk(b)[p] = w
      BY <1>8, <2>3 DEF WalkOn
    <2>5. w.next \in Nat /\ p \in p..w.next - 1 /\ w.next >= p + 1
      <3>1. w.next \in Nat
        BY <2>3 DEF Walks
      <3> QED BY <1>1, <1>8, <2>1, <3>1
    <2>6. code[p].op = "CAPTURE"
      BY <2>1, <2>5
    <2>7. n = p + 1 /\ n - 1 = p
      BY <1>1, <1>2, <2>6 DEF HasAux
    <2>8. UnitMade(p, w.top) = <<>> /\ UnitTop(p, w.top) = w.top
      BY <2>6 DEF UnitMade, UnitTop, Lift, Silent, Operations, Loads, Accesses, Arithmetic, Imports, Closes,
                  RegisterTests, LoopMarkers
    <2>9. w.made \o <<>> = w.made
      BY <2>3, ConcatEmptySeq DEF Walks
    <2>10. \A q \in n..w.next - 1 : code[q].op = "CAPTURE"
      <3>1. \A q \in n..w.next - 1 : q \in p..w.next - 1
        BY <1>1, <2>5, <2>7
      <3> QED BY <2>1, <3>1
    <2>11. Reached(b, n)
      BY <1>5, <2>4, <2>5, <2>7, <2>10
    <2> QED BY <1>4, <2>3, <2>4, <2>7, <2>8, <2>9, <2>11
  <1> QED BY <1>6, <1>7, <1>8

\* The walk ends with the instruction that decides.
LEMMA WalkEnd ==
    ASSUME NEW b, NEW p, Inside(p, b), Decides(p), Reached(b, p), NEW w, w = Passed(b, p)
    PROVE  w \in Walks /\ Statements(b) = w.made \o UnitMade(p, w.top)
  <1>1. /\ b \in Nat /\ p \in Nat /\ BlockEnd(b) \in Nat /\ b <= p /\ p <= BlockEnd(b)
        /\ BlockOf(b) /\ CodeShape /\ GroupsOK
    BY InsideBounds DEF Inside, BlockOf
  <1>2. /\ p \in Starts /\ (Stops(code[p]) \/ Jumps(code[p]))
        /\ code[p].op \notin {"CALL", "CAPTURE", "NAMECALL", "NEWCLOSURE"}
    BY DEF Decides, Stops, Jumps
  <1>3. ~MethodAt(p)
    BY <1>1, <1>2, MethodFacts
  <1>4. w = Walk(b)[p - 1] /\ w.next >= p /\ \A q \in p..w.next - 1 : code[q].op = "CAPTURE"
    BY <1>3 DEF Passed, Reached
  <1>5. w.next = p
    <2>1. w.next \in Nat
      <3>1. BlockOf(b) /\ p \in b..BlockEnd(b) /\ p - 1 = p - 1
        BY <1>1
      <3>2. Walk(b)[p - 1] \in Walks
        BY <3>1, WalkAt
      <3> QED BY <1>4, <3>2 DEF Walks
    <2>2. ~(p \in p..w.next - 1)
      BY <1>2, <1>4
    <2> QED BY <1>1, <1>4, <2>1, <2>2
  <1>6. /\ w \in Walks /\ Walk(b)[p] \in Walks
        /\ Walk(b)[p].made = w.made \o UnitMade(p, w.top) /\ Walk(b)[p].top = UnitTop(p, w.top)
        /\ Walk(b)[p].next = IF Stops(code[p]) THEN Gone
                             ELSE IF code[p].op = "NEWCLOSURE" THEN p + 1 + code[p].b ELSE p + 1
    <2>1. p \in Starts /\ code[p].op # "NAMECALL" /\ w = Walk(b)[p - 1]
      BY <1>2, <1>4
    <2> QED BY <1>3, <1>5, <2>1, WalkOne
  <1>7. CASE Stops(code[p])
    <2>1. Walk(b)[p].next = Gone
      BY <1>6, <1>7
    <2> DEFINE r == Walk(b)[p]
               S == {q \in Nat : Walk(b)[q] = r}
    <2>2. ASSUME NEW k \in Nat, p <= k, k < BlockEnd(b), k \in S PROVE k + 1 \in S
      <3>1. BlockOf(b) /\ k + 1 \in b..BlockEnd(b) /\ k = (k + 1) - 1 /\ k + 1 # Gone
        BY <1>1, <2>2 DEF Gone
      <3>2. Walk(b)[k + 1] = WalkOn(k + 1, Walk(b)[k])
        BY <3>1, WalkAt
      <3>3. Walk(b)[k + 1] = Walk(b)[k]
        BY <2>1, <2>2, <3>1, <3>2 DEF WalkOn
      <3> QED BY <2>2, <3>3
    <2>3. p \in S /\ BlockEnd(b) \in p..BlockEnd(b)
      BY <1>1
    <2>4. BlockEnd(b) \in S
      <3> HIDE DEF S
      <3> QED BY <1>1, <2>2, <2>3, SlotInduction
    <2> QED BY <1>6, <2>4 DEF Statements
  <1>8. CASE ~Stops(code[p])
    <2>1. \A l \in StartedBy(p) : l \in Leaders
      BY <1>1, <1>2, <1>8, LeadersAre
    <2>2. \A l \in Leaders : l <= b \/ l > BlockEnd(b)
      BY <1>1, BlockBounds
    <2>3. CASE code[p].op \in {"JUMPIFEQ", "JUMPIFNOTEQ"}
      <3>1. p + 2 > BlockEnd(b)
        <4>1. p + 2 \in Leaders /\ ~(p + 2 <= b)
          BY <1>1, <2>1, <2>3 DEF StartedBy
        <4> QED BY <2>2, <4>1
      <3>2. CASE BlockEnd(b) = p
        BY <1>6, <3>2 DEF Statements
      <3>3. CASE BlockEnd(b) # p
        <4>1. BlockEnd(b) = p + 1 /\ p + 1 \in b..BlockEnd(b) /\ (p + 1) - 1 = p
          BY <1>1, <3>1, <3>3
        <4>2. p + 1 \notin Starts
          BY <1>1, <1>2, <2>3, AuxIsNoStart DEF HasAux
        <4>3. Walk(b)[p + 1].made = Walk(b)[p].made
          BY <1>1, <4>1, <4>2, WalkSpare
        <4> QED BY <1>6, <4>1, <4>3 DEF Statements
      <3> QED BY <3>2, <3>3
    <2>4. CASE code[p].op \notin {"JUMPIFEQ", "JUMPIFNOTEQ"}
      <3>1. p + 1 \in Leaders /\ ~(p + 1 <= b)
        BY <1>1, <2>1, <2>4 DEF StartedBy
      <3>2. p + 1 > BlockEnd(b)
        BY <2>2, <3>1
      <3>3. BlockEnd(b) = p
        BY <1>1, <3>2
      <3> QED BY <1>6, <3>3 DEF Statements
    <2> QED BY <2>3, <2>4
  <1> QED BY <1>7, <1>8

-----------------------------------------------------------------------------
(* What the machine did in its block, beside what the walk made of it. *)

Done(p, b, ev, l) ==
    LET w == Passed(b, p)
    IN  /\ ev \in Seq(Events) /\ Reached(b, p) /\ w \in Walks
        /\ Same(ev, w.made \o w.top.calls)
        /\ p \in Starts =>
             /\ code[p].op # "FORNLOOP" =>
                    w.top.base = Before(p) /\ (Before(p) # Closed => w.top.from = l.from)
             /\ w.top.calls # <<>> => PendingAt(p)

\* Where the machine is in a block, having done what the walk made.
Beside(p, b, ev, l) ==
    /\ Inside(p, b) /\ OpenOK /\ Admitted
    /\ l \in Lists /\ HoldsList(p, b, l) /\ Done(p, b, ev, l)

LEMMA BesideReady ==
    ASSUME NEW b, NEW p, NEW l, NEW ev, Beside(p, b, ev, l), p \in Starts
    PROVE  Ready(p, Passed(b, p).top, l)
  <1>1. CodeShape /\ TargetsOK /\ OpenOK /\ Admitted /\ l \in Lists
    BY DEF Beside, Inside, BlockOf
  <1>2. Passed(b, p).top \in Tops
    BY DEF Beside, Done, Walks
  <1>3. Held(p, Passed(b, p).top, l)
    BY DEF Beside, HoldsList, Done, Held
  <1>4. Passed(b, p).top.calls # <<>> => PendingAt(p)
    BY DEF Beside, Done
  <1> QED BY <1>1, <1>2, <1>3, <1>4 DEF Ready

\* Leaving a block by what decides.
LEMMA DecidedSame ==
    ASSUME NEW b, NEW p, NEW l, NEW ev, Beside(p, b, ev, l), Decides(p)
    PROVE  Same(ev \o Does(p, l), Statements(b))
  <1> DEFINE w == Passed(b, p)
  <1>1. p \in Starts /\ Inside(p, b) /\ Reached(b, p) /\ ev \in Seq(Events) /\ Same(ev, w.made \o w.top.calls)
    BY DEF Beside, Done, Decides
  <1>2. w \in Walks /\ Statements(b) = w.made \o UnitMade(p, w.top)
    BY <1>1, WalkEnd
  <1>3. Ready(p, w.top, l) /\ code[p].op # "NAMECALL"
    BY <1>1, BesideReady DEF Decides, Stops, Jumps
  <1>4. w.made \in Seq(Events) /\ w.top \in Tops
    BY <1>2 DEF Walks
  <1>5. Same(ev \o Does(p, l), (w.made \o UnitMade(p, w.top)) \o UnitTop(p, w.top).calls)
    BY <1>1, <1>3, <1>4, UnitSame
  <1>6. UnitTop(p, w.top).calls = <<>>
    BY <1>3, UnitPending
  <1>7. Statements(b) \in Seq(Events)
    <2>1. BlockOf(b) /\ BlockEnd(b) \in b - 1..BlockEnd(b)
      BY <1>1, InsideBounds DEF Inside
    <2>2. Walk(b)[BlockEnd(b)] \in Walks
      BY <2>1, WalkSteps
    <2> QED BY <2>2 DEF Statements, Walks
  <1>8. Statements(b) \o <<>> = Statements(b)
    BY <1>7, ConcatEmptySeq
  <1> QED BY <1>2, <1>5, <1>6, <1>8

\* A block begins with nothing done and nothing pending.
LEMMA BeginsSame ==
    ASSUME NEW b, BlockOf(b), OpenOK, NEW l
    PROVE  Done(b, b, <<>>, l)
  <1>1. b \in Nat /\ b \in Pcs /\ b \in Leaders
    BY BlockBounds DEF BlockOf
  <1>2. ~MethodAt(b)
    BY <1>1, BlocksStartNoMethod DEF BlockOf
  <1> DEFINE start == [made |-> <<>>, top |-> NoTop, next |-> b]
  <1>3. Walk(b)[b - 1] = start
    BY WalkSteps
  <1>4. Passed(b, b) = start
    BY <1>2, <1>3 DEF Passed
  <1>5. <<>> \in Seq(Events) /\ NoTop \in Tops
    BY DEF NoTop, Tops, Closed
  <1>6. start \in Walks
    BY <1>1, <1>5 DEF Walks
  <1>7. start.next = b /\ start.made \o start.top.calls = <<>> /\ start.top.base = Closed /\ start.top.calls = <<>>
    BY <1>5, ConcatEmptySeq DEF NoTop
  <1>8. Reached(b, b)
    <2>1. \A q \in b..b - 1 : FALSE
      BY <1>1
    <2>2. start.next >= b
      BY <1>1
    <2> HIDE DEF start
    <2> QED BY <1>2, <1>4, <1>7, <2>1, <2>2 DEF Reached
  <1>9. b \in Starts /\ code[b].op # "FORNLOOP" => Before(b) = Closed
    BY <1>1, BlocksStartClosed DEF BlockOf
  <1>10. Same(<<>>, <<>>)
    BY DEF Same
  <1> HIDE DEF start
  <1> QED BY <1>4, <1>5, <1>6, <1>7, <1>8, <1>9, <1>10 DEF Done

\* The AUX word a generic step leaves through begins a block.
LEMMA SpareWord ==
    ASSUME NEW b, NEW p, Inside(p, b), p \notin Starts
    PROVE  /\ p = b /\ ~Decides(p) /\ Onward(p) = p + 1 /\ p - 1 \in Starts /\ code[p - 1].op = "FORGLOOP"
           /\ Passed(b, p).made = <<>> /\ Passed(b, p).top = NoTop
           /\ Walk(b)[p].made = <<>> /\ Walk(b)[p].top = NoTop /\ Walk(b)[p].next = p + 1 /\ Walk(b)[p] \in Walks
           /\ \A l : Does(p, l) = <<>> /\ ListAfter(p, l) = l
  <1>1. /\ b \in Nat /\ p \in Nat /\ BlockEnd(b) \in Nat /\ b <= p /\ p <= BlockEnd(b)
        /\ BlockOf(b) /\ CodeShape /\ GroupsOK /\ p \in Pcs /\ b \in Leaders
    BY InsideBounds DEF Inside, BlockOf
  <1>2. p - 1 \in Starts /\ code[p - 1].op = "FORGLOOP"
    BY DEF Inside, AtInstruction
  <1>3. p \in Leaders
    <2>1. (p - 1) + 1 = p
      BY <1>1
    <2>2. Jumps(code[p - 1]) /\ p \in StartedBy(p - 1)
      BY <1>2, <2>1 DEF Jumps, StartedBy
    <2> QED BY <1>1, <1>2, <2>2, LeadersAre
  <1>4. p = b
    <2>1. ~(b < p /\ p <= p)
      BY <1>3 DEF Inside, InBlock
    <2> QED BY <1>1, <2>1
  <1>5. Walk(b)[b - 1] = [made |-> <<>>, top |-> NoTop, next |-> b]
    BY <1>1, WalkSteps
  <1>6. Walk(b)[b - 1].made = <<>> /\ Walk(b)[b - 1].top = NoTop /\ Walk(b)[b - 1].next = b
    BY <1>5
  <1>7. Passed(b, p) = Walk(b)[b - 1]
    <2>1. ~MethodAt(b)
      BY <1>1, BlocksStartNoMethod
    <2> QED BY <1>4, <2>1 DEF Passed
  <1>8. b \in b..BlockEnd(b) /\ b \in b - 1..BlockEnd(b) /\ b \notin Starts
    BY <1>1, <1>4
  <1>9. Walk(b)[b].made = <<>> /\ Walk(b)[b].top = NoTop /\ Walk(b)[b].next = b + 1
    BY <1>1, <1>6, <1>8, WalkSpare
  <1>10. Walk(b)[b] \in Walks
    BY <1>1, <1>8, WalkSteps
  <1>11. code[p].op = "NOP"
    BY <1>1, OffStarts DEF Nop, Ins
  <1>12. \A l : Does(p, l) = <<>> /\ ListAfter(p, l) = l
    BY <1>11 DEF Does, ListAfter, Operations, Loads, Accesses, Arithmetic, Imports, Closes, RegisterTests, LoopMarkers
  <1> QED BY <1>2, <1>4, <1>6, <1>7, <1>9, <1>10, <1>12 DEF Decides, Onward

\* Going on from a lookup to its CALL.
LEMMA LookupSame ==
    ASSUME NEW b, NEW p, NEW l, NEW ev, Beside(p, b, ev, l), p \in Starts, code[p].op = "NAMECALL",
           NEW n, n = Onward(p)
    PROVE  /\ n \notin Leaders \cup {Off} /\ Done(n, b, ev \o Does(p, l), ListAfter(p, l))
  <1> DEFINE w == Passed(b, p)
  <1>0. /\ CodeShape /\ TargetsOK /\ OpenOK /\ GroupsOK /\ Admitted /\ Inside(p, b)
        /\ p \in Nat /\ b \in Nat /\ b <= p /\ Len(code) \in Nat /\ p >= 1
    BY InsideBounds, SlotFacts DEF Beside, Inside, BlockOf
  <1>1. n = p + 2 /\ n = p + Len(Slots(code[p])) /\ n \in Nat /\ n - 2 = p /\ n > 2 /\ n - 3 = p - 1
    <2>1. n = p + Len(Slots(code[p])) /\ Len(Slots(code[p])) = 2
      BY <1>0, SlotFacts DEF Onward, HasAux
    <2> QED BY <1>0, <2>1
  <1>2. MethodAt(n)
    BY <1>1 DEF MethodAt
  <1>3. n \in Pcs /\ n \notin Leaders /\ n # Off
    <2>1. n \in Pcs
      BY <1>0, <1>1, <1>2, MethodFacts
    <2>2. n \notin Leaders
      BY <1>0, <1>1, <1>2, BlocksStartNoMethod
    <2> QED BY <1>0, <1>1, <2>1, <2>2 DEF Pcs, Off
  <1>4. n \in Starts
    BY <1>0, <1>1, <1>3, NextIsStart
  <1>5. ~MethodAt(p)
    BY <1>0, MethodFacts
  <1>6. /\ w = Walk(b)[p - 1] /\ w.next >= p /\ \A q \in p..w.next - 1 : code[q].op = "CAPTURE"
        /\ w \in Walks /\ ev \in Seq(Events) /\ Same(ev, w.made \o w.top.calls)
        /\ w.top.base = Before(p) /\ (Before(p) # Closed => w.top.from = l.from)
        /\ w.top.calls # <<>> => PendingAt(p)
    BY <1>5 DEF Beside, Done, Passed, Reached
  <1> HIDE DEF w
  <1>7. w.next = p
    <2>1. w.next \in Nat
      BY <1>6 DEF Walks
    <2>2. ~(p \in p..w.next - 1)
      BY <1>6
    <2> QED BY <1>0, <1>6, <2>1, <2>2
  <1>8. Passed(b, n) = w
    BY <1>1, <1>2, <1>6 DEF Passed
  <1>9. Reached(b, n)
    BY <1>0, <1>1, <1>2, <1>7, <1>8 DEF Reached
  <1>10. Before(n) = Before(p)
    <2>1. Open[n - 1] = TopAfter(code[p], Before(p))
      BY <1>0, <1>1, OpenAcross
    <2>2. n \notin Targets
      BY <1>0, <1>3, LeadersAre
    <2>3. TopAfter(code[p], Before(p)) = Before(p)
      BY DEF TopAfter, Jumps
    <2> QED BY <2>1, <2>2, <2>3 DEF Before
  <1>11. Does(p, l) = <<>> /\ ListAfter(p, l) = l
    BY DEF Does, ListAfter, Operations, Loads, Accesses, Arithmetic, Imports, Closes, RegisterTests, LoopMarkers
  <1>12. ev \o Does(p, l) = ev
    BY <1>6, <1>11, ConcatEmptySeq
  <1>13. w.top.calls # <<>> => PendingAt(n)
    <2>1. OpenCallAfter(code[p], TRUE)
      BY DEF OpenCallAfter
    <2> QED BY <1>0, <1>1, <1>4, <1>6, <2>1, PendingNext
  <1> QED BY <1>3, <1>6, <1>8, <1>9, <1>10, <1>11, <1>12, <1>13 DEF Done

\* Going on in a block.
LEMMA OnwardSame ==
    ASSUME NEW b, NEW p, NEW l, NEW ev, Beside(p, b, ev, l), ~Decides(p),
           NEW n, n = Onward(p), n \notin Leaders \cup {Off}
    PROVE  Done(n, b, ev \o Does(p, l), ListAfter(p, l))
  <1> DEFINE w == Passed(b, p)
             x == Passed(b, n)
             k == ListAfter(p, l)
  <1>0. /\ CodeShape /\ TargetsOK /\ OpenOK /\ GroupsOK /\ Admitted /\ Inside(p, b)
        /\ p \in Nat /\ b \in Nat
    BY InsideBounds DEF Beside, Inside, BlockOf
  <1>1. w \in Walks /\ ev \in Seq(Events) /\ Same(ev, w.made \o w.top.calls) /\ Reached(b, p)
    BY DEF Beside, Done
  <1>2. n \in Nat /\ p < n /\ n \in Starts
    BY <1>0, OnwardBounds
  <1>3. CASE p \notin Starts
    <2>1. /\ n = p + 1 /\ p - 1 \in Starts /\ code[p - 1].op = "FORGLOOP"
          /\ w.made = <<>> /\ w.top = NoTop
          /\ Walk(b)[p].made = <<>> /\ Walk(b)[p].top = NoTop /\ Walk(b)[p].next = p + 1 /\ Walk(b)[p] \in Walks
          /\ Does(p, l) = <<>> /\ k = l
      BY <1>0, <1>3, SpareWord
    <2>2. n - 2 = p - 1 /\ n - 1 = p
      BY <1>0, <2>1
    <2>3. ~MethodAt(n)
      BY <2>1, <2>2 DEF MethodAt
    <2>4. x = Walk(b)[p]
      BY <2>2, <2>3 DEF Passed
    <2>5. Reached(b, n)
      <3>1. \A q \in n..n - 1 : FALSE
        BY <1>2
      <3>2. x.next = n
        BY <2>1, <2>4
      <3> HIDE DEF x
      <3> QED BY <1>2, <2>3, <3>1, <3>2 DEF Reached, x
    <2>6. Before(n) = Closed
      <3>1. Len(Slots(code[p - 1])) = 2
        BY <1>0, <2>1, SlotFacts DEF HasAux
      <3>2. ((p - 1) + Len(Slots(code[p - 1]))) - 1 = n - 1
        BY <1>0, <2>1, <3>1
      <3>3. Open[n - 1] = TopAfter(code[p - 1], Before(p - 1))
        BY <1>0, <2>1, <3>2, OpenAcross
      <3>4. TopAfter(code[p - 1], Before(p - 1)) = Closed
        BY <2>1 DEF TopAfter, Jumps
      <3> QED BY <3>3, <3>4 DEF Before
    <2>7. ev \o Does(p, l) = ev
      BY <1>1, <2>1, ConcatEmptySeq
    <2>8. NoTop.base = Closed /\ NoTop.calls = <<>>
      BY DEF NoTop
    <2>9. x.made = w.made /\ x.top = w.top /\ x.top = NoTop /\ x \in Walks
      BY <2>1, <2>4
    <2> HIDE DEF w, x
    <2> QED BY <1>1, <2>5, <2>6, <2>7, <2>8, <2>9 DEF Done, x
  <1>4. CASE p \in Starts /\ code[p].op = "NAMECALL"
    BY <1>4, LookupSame
  <1>5. CASE p \in Starts /\ code[p].op # "NAMECALL"
    <2>1. /\ Reached(b, n) /\ x = Walk(b)[n - 1] /\ x \in Walks
          /\ x.made = w.made \o UnitMade(p, w.top) /\ x.top = UnitTop(p, w.top)
      <3>1. p \in Starts /\ code[p].op # "NAMECALL" /\ Inside(p, b) /\ Reached(b, p)
        BY <1>0, <1>1, <1>5
      <3> QED BY <3>1, WalkUnit
    <2>2. Ready(p, w.top, l)
      BY <1>5, BesideReady
    <2>3. w.made \in Seq(Events)
      BY <1>1 DEF Walks
    <2>4. Same(ev \o Does(p, l), x.made \o x.top.calls)
      <3>1. Same(ev \o Does(p, l), (w.made \o UnitMade(p, w.top)) \o UnitTop(p, w.top).calls)
        BY <1>1, <1>5, <2>2, <2>3, UnitSame
      <3> QED BY <2>1, <3>1
    <2>5. Before(n) = TopAfter(code[p], Before(p))
      <3>1. n = p + Len(Slots(code[p]))
        BY <1>5 DEF Onward
      <3>2. Open[n - 1] = TopAfter(code[p], Before(p))
        BY <1>0, <1>5, <3>1, OpenAcross
      <3>3. n \notin Targets
        BY <1>0, LeadersAre
      <3> QED BY <3>2, <3>3 DEF Before
    <2>6. /\ x.top.base = Before(n)
          /\ Before(n) # Closed => x.top.from = k.from
      BY <1>5, <2>1, <2>2, <2>5, UnitHeld
    <2>7. x.top.calls # <<>> => PendingAt(n)
      <3>1. n = p + Len(Slots(code[p]))
        BY <1>5 DEF Onward
      <3> QED BY <1>2, <1>5, <2>1, <2>2, <3>1, UnitPending
    <2>8. ev \o Does(p, l) \in Seq(Events)
      <3>1. Does(p, l) \in Seq(Events)
        BY <1>0, <1>5, DoesType DEF Beside
      <3> QED BY <1>1, <3>1, ConcatProperties
    <2> HIDE DEF w, x, k
    <2> QED BY <2>1, <2>4, <2>6, <2>7, <2>8 DEF Done, x, k
  <1> QED BY <1>3, <1>4, <1>5

\* Leaving a block at its end.
LEMMA LeftSame ==
    ASSUME NEW b, NEW p, NEW l, NEW ev, Beside(p, b, ev, l), ~Decides(p), Ends,
           NEW n, n = Onward(p), n \in Leaders \cup {Off}
    PROVE  Same(ev \o Does(p, l), Statements(b))
  <1> DEFINE w == Passed(b, p)
             x == Passed(b, n)
  <1>0. /\ CodeShape /\ TargetsOK /\ OpenOK /\ GroupsOK /\ Admitted /\ Inside(p, b) /\ l \in Lists
        /\ p \in Nat /\ b \in Nat
    BY InsideBounds DEF Beside, Inside, BlockOf
  <1>1. w \in Walks /\ ev \in Seq(Events) /\ Same(ev, w.made \o w.top.calls) /\ Reached(b, p)
    BY DEF Beside, Done
  <1>2. n \in Nat /\ p < n /\ n - 1 = BlockEnd(b) /\ n \in Starts \cup {Off}
    BY <1>0, OnwardBounds
  <1>3. CASE p \notin Starts
    <2>1. /\ n = p + 1 /\ w.made = <<>> /\ w.top = NoTop /\ Walk(b)[p].made = <<>> /\ Does(p, l) = <<>>
      BY <1>0, <1>3, SpareWord
    <2>2. Statements(b) = <<>>
      <3>1. BlockEnd(b) = p
        BY <1>0, <1>2, <2>1
      <3> QED BY <2>1, <3>1 DEF Statements
    <2>3. w.made \o w.top.calls = <<>>
      <3>1. NoTop.calls = <<>> /\ <<>> \in Seq(Events)
        BY DEF NoTop
      <3> QED BY <2>1, <3>1, ConcatEmptySeq
    <2>4. ev \o Does(p, l) = ev
      BY <1>1, <2>1, ConcatEmptySeq
    <2> QED BY <1>1, <2>2, <2>3, <2>4
  <1>4. CASE p \in Starts /\ code[p].op = "NAMECALL"
    BY <1>4, LookupSame
  <1>5. CASE p \in Starts /\ code[p].op # "NAMECALL"
    <2>1. /\ Reached(b, n) /\ x = Walk(b)[n - 1] /\ x \in Walks
          /\ x.made = w.made \o UnitMade(p, w.top) /\ x.top = UnitTop(p, w.top)
      <3>1. p \in Starts /\ code[p].op # "NAMECALL" /\ Inside(p, b) /\ Reached(b, p)
        BY <1>0, <1>1, <1>5
      <3> QED BY <3>1, WalkUnit
    <2>2. Ready(p, w.top, l)
      BY <1>5, BesideReady
    <2>3. w.made \in Seq(Events)
      BY <1>1 DEF Walks
    <2>4. Same(ev \o Does(p, l), x.made \o x.top.calls)
      <3>1. Same(ev \o Does(p, l), (w.made \o UnitMade(p, w.top)) \o UnitTop(p, w.top).calls)
        BY <1>1, <1>5, <2>2, <2>3, UnitSame
      <3> QED BY <2>1, <3>1
    <2>5. n = p + Len(Slots(code[p]))
      BY <1>5 DEF Onward
    <2>6. n \in Starts /\ n \in Leaders
      <3>1. n \in Starts
        <4> SUFFICES ASSUME n \notin Starts PROVE FALSE
          OBVIOUS
        <4>1. code[p].op \in {"RETURN", "JUMP", "JUMPX"}
          BY <1>0, <1>5, <2>5, EndsDeciding
        <4> QED BY <1>5, <4>1 DEF Decides, Stops, Jumps
      <3>2. n # Off
        BY <1>0, <3>1, SlotFacts DEF Off
      <3> QED BY <3>1, <3>2
    <2>7. x.top.calls = <<>>
      <3> SUFFICES ASSUME x.top.calls # <<>> PROVE FALSE
        OBVIOUS
      <3>1. PendingAt(n)
        BY <1>5, <2>1, <2>2, <2>5, <2>6, UnitPending
      <3>2. Before(n) # Closed
        BY <1>0, <2>6, <3>1, NeverStuck
      <3>3. code[n].op = "FORNLOOP"
        BY <1>0, <2>6, <3>2, BlocksStartClosed
      <3>4. Takes(code[n]) \/ code[n].op = "NAMECALL" \/ Inert(code[n]) \/ LoadsFallback(n)
        BY <1>0, <2>6, <3>1, PendingShape
      <3> QED BY <3>3, <3>4 DEF Takes, Inert, LoadsFallback
    <2>8. Statements(b) = x.made
      BY <1>2, <2>1 DEF Statements
    <2>9. x.made \o x.top.calls = x.made
      <3>1. x.made \in Seq(Events)
        BY <2>1 DEF Walks
      <3> QED BY <2>7, <3>1, ConcatEmptySeq
    <2> HIDE DEF w, x
    <2> QED BY <2>4, <2>8, <2>9
  <1> QED BY <1>3, <1>4, <1>5

\* A decision leaves the block.
LEMMA DecisionLeaves ==
    ASSUME CodeShape, Decides(pc), NEW holds \in BOOLEAN
    PROVE  Goes(pc, holds) \in Leaders \cup {Gone}
  <1>1. CASE code[pc].op = "RETURN"
    BY <1>1 DEF Goes
  <1>2. CASE code[pc].op # "RETURN"
    <2>1. Jumps(code[pc]) /\ pc \in Starts
      BY <1>2 DEF Decides, Stops, Jumps
    <2>2. Goes(pc, holds) \in {To(pc)} \cup StartedBy(pc)
      <3>1. /\ HasAux(code[pc]) => Len(Slots(code[pc])) = 2
            /\ ~HasAux(code[pc]) => Len(Slots(code[pc])) = 1
        BY <2>1, SlotFacts
      <3>2. code[pc].op \in RegisterTests => pc + Len(Slots(code[pc])) \in StartedBy(pc)
        BY <3>1 DEF RegisterTests, HasAux, StartedBy
      <3>3. code[pc].op \notin RegisterTests => pc + 1 \in StartedBy(pc)
        BY DEF RegisterTests, StartedBy
      <3> QED BY <1>2, <3>2, <3>3 DEF Goes, RegisterTests
    <2> QED BY <2>1, <2>2, LeadersAre DEF Targets
  <1> QED BY <1>1, <1>2

-----------------------------------------------------------------------------
(* Steps keep the invariant. *)

LEMMA LoopsKept ==
    ASSUME UNCHANGED <<code, blocks>>
    PROVE  /\ Starts' = Starts /\ Pcs' = Pcs /\ Leaders' = Leaders
           /\ \A p : LoopTarget(p)' = LoopTarget(p) /\ To(p)' = To(p)
           /\ \A p : NumericSteps(p)' = NumericSteps(p) /\ NumericStep(p)' = NumericStep(p)
           /\ \A b : BlockEnd(b)' = BlockEnd(b) /\ Terminator(b)' = Terminator(b)
           /\ \A b : FallThrough(b)' = FallThrough(b) /\ SilentExit(b)' = SilentExit(b)
  <1>1. Starts' = Starts /\ Pcs' = Pcs /\ Leaders' = Leaders
    BY CodeKept
  <1>2. ASSUME NEW p PROVE LoopTarget(p)' = LoopTarget(p) /\ To(p)' = To(p)
    BY DEF LoopTarget, To
  <1>3. ASSUME NEW p PROVE NumericSteps(p)' = NumericSteps(p) /\ NumericStep(p)' = NumericStep(p)
    BY <1>1, <1>2 DEF NumericSteps, NumericStep
  <1>4. ASSUME NEW b PROVE BlockEnd(b)' = BlockEnd(b) /\ Terminator(b)' = Terminator(b)
    BY <1>1 DEF BlockEnd, Terminator, Off
  <1>5. ASSUME NEW b PROVE FallThrough(b)' = FallThrough(b) /\ SilentExit(b)' = SilentExit(b)
    BY <1>2, <1>4 DEF FallThrough, SilentExit, Off
  <1> QED BY <1>1, <1>2, <1>3, <1>4, <1>5

LEMMA WalkKept ==
    ASSUME UNCHANGED <<code, blocks>>, NEW b
    PROVE  Walk(b)' = Walk(b) /\ Statements(b)' = Statements(b)
  <1>1. ASSUME NEW p, NEW top PROVE Lift(p, top)' = Lift(p, top)
    BY DEF Lift, LiftCall, LiftVarargs, LiftList, LiftClosure, LiftMethod, Arguments, After, Panic, CapturesOf
  <1>2. BlockEnd(b)' = BlockEnd(b)
    BY LoopsKept
  <1>3. Walk(b)' = Walk(b)
    BY <1>1, <1>2 DEF Walk
  <1> QED BY <1>2, <1>3 DEF Statements

LEMMA LedKept ==
    ASSUME UNCHANGED <<code, blocks>>
    PROVE  SameControl' <=> (last'.block # 0 => Led(last'.block, last'.holds, last'.to))
  <1>1. Starts' = Starts /\ Len(code)' = Len(code) /\ Off' = Off
    BY LoopsKept DEF Off
  <1>2. ASSUME NEW q PROVE BackJump(q)' = BackJump(q)
    <2>1. \A r : EmptyBodies(r)' = EmptyBodies(r)
      BY <1>1, LoopsKept, WalkKept DEF EmptyBodies
    <2>2. \A r : LoopTarget(r)' = LoopTarget(r) /\ SilentExit(r)' = SilentExit(r)
      BY LoopsKept
    <2>3. ASSUME NEW n, NEW to PROVE JumpOn(q, n, to)' = JumpOn(q, n, to)
      BY <1>1, <2>1, <2>2 DEF JumpOn
    <2> DEFINE Reads(h) == h = [n \in 0..Len(code) |-> IF n = 0 THEN LoopTarget(q) ELSE JumpOn(q, n, h[n - 1])]
    <2>4. ASSUME NEW h PROVE Reads(h)' <=> Reads(h)
      BY <1>1, <2>2, <2>3
    <2>5. BackJump(q) = (CHOOSE h : Reads(h))[Len(code)]
      BY DEF BackJump, JumpOn
    <2>6. BackJump(q)' = (CHOOSE h : Reads(h)')[Len(code)']
      BY DEF BackJump, JumpOn
    <2> HIDE DEF Reads
    <2>7. (CHOOSE h : Reads(h)') = (CHOOSE h : Reads(h))
      BY <2>4
    <2> QED BY <1>1, <2>5, <2>6, <2>7
  <1>3. ASSUME NEW t, NEW holds
        PROVE  /\ NumericEdge(t, holds)' = NumericEdge(t, holds) /\ GenericEdge(t, holds)' = GenericEdge(t, holds)
               /\ TruthEdge(t, holds)' = TruthEdge(t, holds) /\ CompareEdge(t, holds)' = CompareEdge(t, holds)
               /\ SkipTo(t)' = SkipTo(t)
    <2>1. To(t)' = To(t) /\ LoopTarget(t)' = LoopTarget(t)
      BY LoopsKept
    <2>2. NumericEdge(t, holds)' = NumericEdge(t, holds)
      BY <1>2 DEF NumericEdge
    <2>3. GenericEdge(t, holds)' = GenericEdge(t, holds)
      BY <2>1 DEF GenericEdge
    <2>4. TruthEdge(t, holds)' = TruthEdge(t, holds) /\ CompareEdge(t, holds)' = CompareEdge(t, holds)
      BY <2>1 DEF TruthEdge, CompareEdge
    <2>5. SkipTo(t)' = SkipTo(t)
      BY DEF SkipTo
    <2> QED BY <2>2, <2>3, <2>4, <2>5
  <1>4. ASSUME NEW b, NEW holds PROVE EdgeTo(b, holds)' = EdgeTo(b, holds)
    <2>1. Terminator(b)' = Terminator(b) /\ FallThrough(b)' = FallThrough(b)
      BY LoopsKept
    <2> DEFINE t == Terminator(b)
    <2>2. t' = t /\ To(t)' = To(t) /\ LoopTarget(t)' = LoopTarget(t) /\ NumericStep(t)' = NumericStep(t)
      BY <2>1, LoopsKept
    <2>3. /\ NumericEdge(t, holds)' = NumericEdge(t, holds) /\ GenericEdge(t, holds)' = GenericEdge(t, holds)
          /\ TruthEdge(t, holds)' = TruthEdge(t, holds) /\ CompareEdge(t, holds)' = CompareEdge(t, holds)
          /\ SkipTo(t)' = SkipTo(t)
      BY <1>3, <2>1
    <2> QED BY <1>1, <2>1, <2>2, <2>3 DEF EdgeTo
  <1>5. ASSUME NEW b PROVE Exits(b)' = Exits(b)
    <2>1. \A c : EdgeTo(c, TRUE)' = EdgeTo(c, TRUE) /\ EdgeTo(c, FALSE)' = EdgeTo(c, FALSE)
      BY <1>4
    <2>2. Idle' = Idle
      BY <1>1, <2>1, WalkKept DEF Idle
    <2>3. Through(b)' = Through(b)
      <3> DEFINE Followed(S) == /\ b \in Idle => b \in S
                                /\ \A d \in S : EdgeTo(d, TRUE) \in Idle => EdgeTo(d, TRUE) \in S
      <3>1. ASSUME NEW S PROVE Followed(S)' <=> Followed(S)
        BY <2>1, <2>2
      <3>2. Through(b) = {c \in Idle : \A S \in SUBSET Idle : Followed(S) => c \in S}
        BY DEF Through
      <3>3. Through(b)' = {c \in Idle' : \A S \in SUBSET Idle' : Followed(S)' => c \in S}
        BY DEF Through
      <3> HIDE DEF Followed
      <3> QED BY <2>2, <3>1, <3>2, <3>3
    <2> QED BY <2>1, <2>3 DEF Exits
  <1>6. ASSUME NEW p PROVE Conforming(p)' <=> Conforming(p)
    BY <1>1, LoopsKept DEF Conforming, Twins
  <1>7. ASSUME NEW b, NEW c PROVE (Meet(b, c)' <=> Meet(b, c)) /\ (Twins(b, c)' <=> Twins(b, c))
    BY <1>1, <1>5, LoopsKept DEF Meet, Twins
  <1> QED BY <1>1, <1>4, <1>5, <1>6, <1>7, LoopsKept DEF SameControl, Led

\* The machine has passed no RETURN, and went where the edges of the blocks it
\* left lead.
ControlIInv ==
    /\ LiftIInv
    /\ phase = "read" => last = NoBlock
    /\ phase = "run" => Unreturned(pc, block)
    /\ SameControl

LEMMA RunsInside ==
    ASSUME ControlIInv, phase = "run"
    PROVE  /\ Inside(pc, block) /\ BlockCode /\ NumericPaired
           /\ pc \notin Starts => code[pc] = Nop /\ ~Decides(pc)
           /\ Onward(pc) = Following
  <1>1. /\ CodeShape /\ TargetsOK /\ At(pc, block, list) /\ blocks = Leaders /\ pc \in Pcs
        /\ pc \notin Starts => code[pc] = Nop
    BY RunningAt DEF ControlIInv
  <1>2. GroupsOK /\ NumericPaired
    BY DEF ControlIInv, LiftIInv, RunInv, Accepted, Valid
  <1>3. block # Off
    <2>1. block <= pc /\ block \in Leaders /\ pc \in Nat
      BY <1>1, PcIsNumber DEF At, InBlock
    <2>2. block \in Nat /\ Len(code) \in Nat
      BY <1>1, <2>1, LeaderIsNumber, LenProperties DEF CodeShape
    <2> QED BY <1>1, <2>1, <2>2 DEF Pcs, Off
  <1>4. Inside(pc, block)
    BY <1>1, <1>2, <1>3 DEF Inside, BlockOf, At, InBlock, ControlIInv
  <1>5. Onward(pc) = Following
    <2>1. Len(Slots(Nop)) = 1
      BY DEF Slots, HasAux, Nop, Ins
    <2> QED BY <1>1, <2>1 DEF Onward, Following
  <1> QED BY <1>1, <1>2, <1>4, <1>5 DEF BlockCode, Decides

\* A step goes on from an instruction that decides nothing, or where one that
\* does goes.
LEMMA GoesLed ==
    ASSUME ControlIInv, phase = "run", UNCHANGED <<code, blocks>>, NEW to, NEW holds \in BOOLEAN, NEW made,
           Go(to, holds, made),
           \/ ~Decides(pc) /\ to = Following /\ ~holds
           \/ Decides(pc) /\ to = Goes(pc, holds)
    PROVE  SameControl' /\ (phase' = "run" => Unreturned(pc, block)')
  <1>1. /\ Inside(pc, block) /\ BlockCode /\ NumericPaired /\ Onward(pc) = Following
        /\ blocks = Leaders /\ CodeShape /\ Starts' = Starts
    BY RunsInside, CodeKept DEF BlockCode
  <1>2. \A q \in Starts : q \in Nat
    BY <1>1, SlotFacts
  <1>3. Decides(pc) => to \in blocks \cup {Gone}
    BY <1>1, DecisionLeaves
  <1>4. CASE to \in blocks \cup {Gone, Off} \/ to # pc + Len(Slots(code[pc]))
    <2>1. last' = [block |-> block, events |-> events \o made, holds |-> holds, to |-> to]
          /\ block' = to /\ pc' = to /\ phase' = IF to \in {Gone, Off} THEN "done" ELSE "run"
      BY <1>4 DEF Go
    <2>2. Led(block, holds, to)
      <3>1. CASE Decides(pc)
        BY <1>1, <3>1, DecidedLeads
      <3>2. CASE ~Decides(pc)
        <4>1. to \in Leaders \cup {Off}
          <5>1. to = Following /\ Following \in Nat /\ Following # 0
            <6>1. pc \in Nat /\ CodeShape
              BY <1>1, InsideBounds
            <6>2. Onward(pc) \in {pc + 1, pc + 2}
              BY <1>1, SlotFacts DEF Onward
            <6> QED BY <1>1, <3>2, <6>1, <6>2
          <5> QED BY <1>1, <1>4, <5>1 DEF Gone, Following
        <4> QED BY <1>1, <3>2, <4>1, OnwardLeads
      <3> QED BY <3>1, <3>2
    <2>3. SameControl'
      BY <2>1, <2>2, LedKept
    <2>4. phase' = "run" => Unreturned(pc, block)'
      <3> SUFFICES ASSUME phase' = "run"
                   PROVE  \A q \in Starts : block' <= q /\ q < pc' => code[q].op # "RETURN"
        BY <1>1 DEF Unreturned
      <3>1. to \in Leaders
        BY <1>1, <1>3, <1>4, <2>1 DEF Following
      <3>2. to \in Nat
        BY <1>1, <3>1, LeaderIsNumber DEF BlockCode
      <3>3. \A q \in Starts : ~(to <= q /\ q < to)
        BY <1>2, <3>2
      <3> QED BY <2>1, <3>3
    <2> QED BY <2>3, <2>4
  <1>5. CASE ~(to \in blocks \cup {Gone, Off} \/ to # pc + Len(Slots(code[pc])))
    <2>1. last' = last /\ block' = block /\ pc' = Following /\ ~Decides(pc)
      BY <1>3, <1>5 DEF Go, Following
    <2>2. SameControl'
      <3>1. SameControl <=> (last.block # 0 => Led(last.block, last.holds, last.to))
        BY DEF SameControl, Led
      <3> QED BY <2>1, <3>1, LedKept DEF ControlIInv
    <2>3. Unreturned(pc, block)'
      <3>1. ASSUME NEW q \in Starts, block <= q, q < Following
            PROVE  code[q].op # "RETURN"
        <4>1. pc \in Nat
          BY <1>1, InsideBounds
        <4>2. CASE q < pc
          BY <3>1, <4>2 DEF ControlIInv, Unreturned
        <4>3. CASE q = pc
          BY <2>1, <4>3 DEF Decides, Stops
        <4>4. CASE q > pc
          <5>1. pc \in Starts /\ HasAux(code[pc]) /\ Following = pc + 2
            <6>1. CASE pc \in Starts /\ HasAux(code[pc])
              BY <1>1, <6>1, SlotFacts DEF Following
            <6>2. CASE ~(pc \in Starts /\ HasAux(code[pc]))
              <7>1. Following = pc + 1
                BY <1>1, <6>2, SlotFacts DEF Onward
              <7> QED BY <1>2, <3>1, <4>1, <4>4, <7>1
            <6> QED BY <6>1, <6>2
          <5>2. q = pc + 1
            BY <1>2, <3>1, <4>1, <4>4, <5>1
          <5> QED BY <1>1, <5>1, <5>2, AuxIsNoStart
        <4> QED BY <1>2, <4>1, <4>2, <4>3, <4>4
      <3> QED BY <1>1, <2>1, <3>1 DEF Unreturned
    <2> QED BY <2>2, <2>3
  <1> QED BY <1>4, <1>5

\* Every step does what its instruction does, and goes where it goes.
StepGoes ==
    \E to : \E holds \in BOOLEAN :
        /\ Go(to, holds, Does(pc, list))
        /\ list' = ListAfter(pc, list)
        /\ \/ ~Decides(pc) /\ to = Following /\ ~holds
           \/ Decides(pc) /\ to = Goes(pc, holds)

LEMMA RunGoes ==
    ASSUME ControlIInv, Run
    PROVE  StepGoes
  <1>0. phase = "run"
    BY DEF Run, Running, RunPlain, RunLoadB, RunClosure, RunCall, RunVarargs, RunReturn, RunSetList, RunJump,
           RunTest, RunLoop
  <1>1. pc \notin Starts => code[pc].op = "NOP"
    BY <1>0, RunsInside DEF Nop, Ins
  <1>2. pc \in Starts => CodeShape /\ (~HasAux(code[pc]) => Len(Slots(code[pc])) = 1)
    BY <1>0, RunsInside, SlotFacts DEF BlockCode
  <1>3. CASE RunPlain
    <2>1. ~Decides(pc) /\ list' = list
      BY <1>3 DEF RunPlain, Decides, Stops, Jumps
    <2>2. Does(pc, list) = IF code[pc].op \in {"NOP", "FASTCALL", "CAPTURE", "NAMECALL"} THEN <<>>
                           ELSE <<Event("op", pc, Registers(code[pc]), 0)>>
      BY <1>3 DEF RunPlain, Does, Operations, Loads, Accesses, Arithmetic, Imports, Closes, RegisterTests, LoopMarkers
    <2>3. ListAfter(pc, list) = list
      BY <1>3 DEF RunPlain, ListAfter
    <2>4. Go(Following, FALSE, Does(pc, list))
      BY <1>3, <2>2 DEF RunPlain
    <2> QED BY <2>1, <2>3, <2>4 DEF StepGoes
  <1>4. CASE RunLoadB
    <2>1. pc \in Starts /\ code[pc].op = "LOADB" /\ list' = list
      BY <1>1, <1>4 DEF RunLoadB
    <2>2. Does(pc, list) = <<Event("op", pc, Registers(code[pc]), 0)>> /\ ListAfter(pc, list) = list
      BY <2>1 DEF Does, ListAfter, Operations, Loads, Accesses, Arithmetic, Imports, Closes, RegisterTests, LoopMarkers
    <2>3. Go(To(pc), FALSE, Does(pc, list))
      BY <1>4, <2>2 DEF RunLoadB
    <2>4. CASE code[pc].c = 0
      <3>1. ~Decides(pc)
        BY <2>1, <2>4 DEF Decides, Stops, Jumps
      <3>2. To(pc) = Following
        <4>1. Len(Slots(code[pc])) = 1 /\ pc \in Nat
          BY <1>2, <2>1, SlotFacts DEF HasAux
        <4> QED BY <2>1, <2>4, <4>1 DEF To, Following
      <3> QED BY <2>1, <2>2, <2>3, <3>1, <3>2 DEF StepGoes
    <2>5. CASE code[pc].c # 0
      <3>1. Decides(pc) /\ To(pc) = Goes(pc, FALSE)
        BY <2>1, <2>5 DEF Decides, Stops, Goes
      <3> QED BY <2>1, <2>2, <2>3, <3>1 DEF StepGoes
    <2> QED BY <2>4, <2>5
  <1>5. CASE RunClosure
    <2>1. ~Decides(pc) /\ list' = list
      BY <1>5 DEF RunClosure, Decides, Stops, Jumps
    <2>2. Does(pc, list) = <<Event("closure", pc, CapturesOf(pc), 0)>> /\ ListAfter(pc, list) = list
      BY <1>5 DEF RunClosure, Does, ListAfter, Operations, Loads, Accesses, Arithmetic, Imports, Closes, RegisterTests, LoopMarkers
    <2>3. Go(Following, FALSE, Does(pc, list))
      BY <1>5, <2>2 DEF RunClosure
    <2> QED BY <2>1, <2>2, <2>3 DEF StepGoes
  <1>6. CASE RunCall
    <2>1. ~Decides(pc) /\ code[pc].op = "CALL"
      BY <1>6 DEF RunCall, Decides, Stops, Jumps
    <2>2. Does(pc, list) = <<CallDoes(pc, list)>>
      BY <2>1 DEF Does, Operations, Loads, Accesses, Arithmetic, Imports, Closes, RegisterTests, LoopMarkers
    <2>3. Go(Following, FALSE, <<CallDoes(pc, list)>>)
      BY <1>6 DEF RunCall, CallDoes, First, MethodAt
    <2>4. list' = ListAfter(pc, list)
      BY <1>6, <2>1 DEF RunCall, ListAfter
    <2> QED BY <2>1, <2>2, <2>3, <2>4 DEF StepGoes
  <1>7. CASE RunVarargs
    <2>1. ~Decides(pc) /\ code[pc].op = "GETVARARGS"
      BY <1>7 DEF RunVarargs, Decides, Stops, Jumps
    <2>2. Does(pc, list) = IF code[pc].b = 0 THEN <<>> ELSE <<Event("op", pc, {}, 0)>>
      BY <2>1 DEF Does, Operations, Loads, Accesses, Arithmetic, Imports, Closes, RegisterTests, LoopMarkers
    <2>3. Go(Following, FALSE, Does(pc, list))
      BY <1>7, <2>2 DEF RunVarargs
    <2>4. list' = ListAfter(pc, list)
      BY <1>7, <2>1 DEF RunVarargs, ListAfter
    <2> QED BY <2>1, <2>3, <2>4 DEF StepGoes
  <1>8. CASE RunReturn
    <2>1. code[pc].op = "RETURN" /\ Decides(pc) /\ Goes(pc, FALSE) = Gone
      BY <1>1, <1>8 DEF RunReturn, Decides, Stops, Goes
    <2>2. Does(pc, list) = <<ReturnDoes(pc, list)>>
      BY <2>1 DEF Does, Operations, Loads, Accesses, Arithmetic, Imports, Closes, RegisterTests, LoopMarkers
    <2>3. Go(Gone, FALSE, <<ReturnDoes(pc, list)>>)
      BY <1>8 DEF RunReturn, ReturnDoes
    <2>4. list' = ListAfter(pc, list)
      BY <1>8, <2>1 DEF RunReturn, ListAfter
    <2> QED BY <2>1, <2>2, <2>3, <2>4 DEF StepGoes
  <1>9. CASE RunSetList
    <2>1. ~Decides(pc) /\ code[pc].op = "SETLIST"
      BY <1>9 DEF RunSetList, Decides, Stops, Jumps
    <2>2. Does(pc, list) = <<SetListDoes(pc, list)>>
      BY <2>1 DEF Does, Operations, Loads, Accesses, Arithmetic, Imports, Closes, RegisterTests, LoopMarkers
    <2>3. Go(Following, FALSE, <<SetListDoes(pc, list)>>)
      BY <1>9 DEF RunSetList, SetListDoes
    <2>4. list' = ListAfter(pc, list)
      BY <1>9, <2>1 DEF RunSetList, ListAfter
    <2> QED BY <2>1, <2>2, <2>3, <2>4 DEF StepGoes
  <1>10. CASE RunJump
    <2>1. code[pc].op \in {"JUMP", "JUMPX"} /\ Decides(pc) /\ Goes(pc, FALSE) = To(pc) /\ list' = list
      BY <1>1, <1>10 DEF RunJump, Decides, Jumps, Goes
    <2>2. Does(pc, list) = <<>> /\ ListAfter(pc, list) = list
      BY <2>1 DEF Does, ListAfter, Operations, Loads, Accesses, Arithmetic, Imports, Closes, RegisterTests, LoopMarkers
    <2>3. Go(To(pc), FALSE, Does(pc, list))
      BY <1>10, <2>2 DEF RunJump
    <2> QED BY <2>1, <2>2, <2>3 DEF StepGoes
  <1>11. ASSUME NEW holds \in BOOLEAN, RunTest(holds) PROVE StepGoes
    <2>1. Decides(pc) /\ list' = list
      BY <1>1, <1>11 DEF RunTest, RegisterTests, Decides, Jumps
    <2>2. Does(pc, list) = <<Event("test", pc, Registers(code[pc]), 0)>> /\ ListAfter(pc, list) = list
      BY <1>11 DEF RunTest, Does, ListAfter, Operations, Loads, Accesses, Arithmetic, Imports, Closes, RegisterTests, LoopMarkers
    <2>3. Goes(pc, holds) = IF holds = (code[pc].op \in {"JUMPIF", "JUMPIFEQ"}) THEN To(pc) ELSE Following
      BY <1>11 DEF RunTest, RegisterTests, Goes, Following
    <2>4. Go(Goes(pc, holds), holds, Does(pc, list))
      BY <1>11, <2>2, <2>3 DEF RunTest
    <2> QED BY <2>1, <2>2, <2>4 DEF StepGoes
  <1>12. ASSUME NEW holds \in BOOLEAN, RunLoop(holds) PROVE StepGoes
    <2>1. Decides(pc) /\ list' = list
      BY <1>1, <1>12 DEF RunLoop, LoopMarkers, Decides, Jumps
    <2>2. /\ Does(pc, list) = <<Event("loop", pc, {code[pc].a, code[pc].a + 1, code[pc].a + 2}, 0)>>
          /\ ListAfter(pc, list) = list
      BY <1>12 DEF RunLoop, Does, ListAfter, Operations, Loads, Accesses, Arithmetic, Imports, Closes, RegisterTests, LoopMarkers
    <2>3. Goes(pc, holds) = CASE code[pc].op = "FORGPREP" -> To(pc)
                              [] code[pc].op = "FORNPREP" -> IF holds THEN pc + 1 ELSE To(pc)
                              [] OTHER -> IF holds THEN To(pc) ELSE pc + 1
      BY <1>12 DEF RunLoop, LoopMarkers, RegisterTests, Goes
    <2>4. Go(Goes(pc, holds), holds, Does(pc, list))
      BY <1>12, <2>2, <2>3 DEF RunLoop
    <2> QED BY <2>1, <2>2, <2>4 DEF StepGoes
  <1> QED BY <1>3, <1>4, <1>5, <1>6, <1>7, <1>8, <1>9, <1>10, <1>11, <1>12 DEF Run

LEMMA RunLed ==
    ASSUME ControlIInv, Run
    PROVE  SameControl' /\ (phase' = "run" => Unreturned(pc, block)')
  <1>0. phase = "run" /\ UNCHANGED <<code, blocks>>
    BY DEF Run, Running, RunPlain, RunLoadB, RunClosure, RunCall, RunVarargs, RunReturn, RunSetList, RunJump,
           RunTest, RunLoop
  <1>1. PICK to : \E holds \in BOOLEAN :
            /\ Go(to, holds, Does(pc, list))
            /\ \/ ~Decides(pc) /\ to = Following /\ ~holds
               \/ Decides(pc) /\ to = Goes(pc, holds)
    BY RunGoes DEF StepGoes
  <1> QED BY <1>0, <1>1, GoesLed

LEMMA ControlStep == ControlIInv /\ [Next]_vars => ControlIInv'
  <1> SUFFICES ASSUME ControlIInv, [Next]_vars PROVE ControlIInv'
    OBVIOUS
  <1>0. LiftIInv'
    BY LiftStep DEF ControlIInv
  <1>1. CASE UNCHANGED vars
    <2>1. SameControl'
      <3>1. SameControl <=> (last.block # 0 => Led(last.block, last.holds, last.to))
        BY DEF SameControl, Led
      <3> QED BY <1>1, <3>1, LedKept DEF ControlIInv, vars
    <2>2. phase' = "run" => Unreturned(pc, block)'
      BY <1>1, CodeKept DEF ControlIInv, vars, Unreturned
    <2> QED BY <1>0, <1>1, <2>1, <2>2 DEF ControlIInv, vars
  <1>2. CASE Run
    <2>1. phase' # "read"
      BY <1>2 DEF Run, Running, RunPlain, RunLoadB, RunClosure, RunCall, RunVarargs, RunReturn, RunSetList,
                  RunJump, RunTest, RunLoop, Go
    <2> QED BY <1>0, <1>2, <2>1, RunLed DEF ControlIInv
  <1>3. CASE Accept \/ \E i \in kit.instructions : Read(i)
    <2>1. phase = "read" /\ last' = last /\ pc' = pc /\ block' = block
      BY <1>3 DEF Accept, Read
    <2>2. last' = NoBlock /\ pc' = 1 /\ block' = 1
      BY <2>1 DEF ControlIInv, LiftIInv
    <2>3. SameControl'
      BY <2>2 DEF SameControl, NoBlock
    <2>4. Unreturned(pc, block)'
      <3>1. \A q \in Starts' : q \in Nat
        BY DEF Starts, Pcs
      <3>2. \A q \in Starts' : ~(1 <= q /\ q < 1)
        BY <3>1
      <3> QED BY <2>2, <3>2 DEF Unreturned
    <2> QED BY <1>0, <2>2, <2>3, <2>4 DEF ControlIInv
  <1> QED BY <1>1, <1>2, <1>3 DEF Next

\* For code of any length: while the machine runs it has passed no RETURN in its
\* block, and it went where the edges of every block it left lead.
THEOREM ControlInvariant == Spec => []ControlIInv
  <1>1. Init => ControlIInv
    BY LiftStarts DEF Init, ControlIInv, SameControl, NoBlock
  <1> QED BY <1>1, ControlStep, PTL DEF Spec

\* SameControl, for any code: the edges of every block lead where the machine
\* went from it, each straight or through a block that does nothing.
THEOREM EdgesLead == Spec => []SameControl
  <1>1. ControlIInv => SameControl
    BY DEF ControlIInv
  <1> QED BY <1>1, ControlInvariant, PTL

-----------------------------------------------------------------------------
(* What the machine does, beside the statements of its blocks. *)

\* Where the machine is in its block: at its start, or beside the walk.
Stands == (pc = block /\ events = <<>>) \/ Done(pc, block, events, list)

\* What the machine did in the blocks it left is what their statements do.
EffectsIInv ==
    /\ ControlIInv
    /\ phase = "read" => events = <<>>
    /\ phase = "run" => Stands
    /\ SameEffects

LEMMA DoneKept ==
    ASSUME UNCHANGED <<code, blocks>>
    PROVE  /\ Done(pc, block, events, list)' <=> Done(pc', block', events', list')
           /\ SameEffects' <=> (last'.block # 0 /\ Ends => Same(last'.events, Statements(last'.block)))
  <1>1. /\ Starts' = Starts /\ Targets' = Targets /\ Leaders' = Leaders /\ Open' = Open
        /\ Pcs' = Pcs /\ Len(code)' = Len(code)
    BY CodeKept
  <1>2. ASSUME NEW p PROVE FallbackConsumer(p)' = FallbackConsumer(p)
    BY <1>1 DEF FallbackConsumer, LoadsCallee
  <1>3. Admission' = Admission
    BY <1>1 DEF Admission, FallbackConsumer, Consumes, LoadsCallee
  <1>4. ASSUME NEW s PROVE Ordered(s)' = Ordered(s)
    BY <1>1, <1>2 DEF Ordered, Unordered
  <1>5. Done(pc, block, events, list)' <=> Done(pc', block', events', list')
    <2>1. ASSUME NEW b PROVE Walk(b)' = Walk(b)
      BY WalkKept
    <2>2. MethodAt(pc)' <=> MethodAt(pc')
      BY <1>1 DEF MethodAt
    <2>3. Passed(block, pc)' = Passed(block', pc')
      BY <2>1, <2>2 DEF Passed
    <2>4. Reached(block, pc)' <=> Reached(block', pc')
      BY <2>2, <2>3 DEF Reached
    <2>5. Before(pc)' = Before(pc')
      BY <1>1 DEF Before
    <2>6. PendingAt(pc)' <=> PendingAt(pc')
      BY <1>1, <1>2, <1>3 DEF PendingAt, Visited
    <2>7. Same(events, Passed(block, pc).made \o Passed(block, pc).top.calls)'
            <=> Same(events', Passed(block', pc').made \o Passed(block', pc').top.calls)
      BY <1>4, <2>3 DEF Same
    <2> QED BY <1>1, <2>3, <2>4, <2>5, <2>6, <2>7 DEF Done
  <1>6. SameEffects' <=> (last'.block # 0 /\ Ends => Same(last'.events, Statements(last'.block)))
    <2>1. ASSUME NEW b PROVE Statements(b)' = Statements(b)
      BY WalkKept
    <2> QED BY <1>1, <1>4, <2>1 DEF SameEffects, Ends, Same
  <1> QED BY <1>5, <1>6

LEMMA StandsBeside ==
    ASSUME EffectsIInv, phase = "run"
    PROVE  Beside(pc, block, events, list)
  <1>1. Inside(pc, block) /\ At(pc, block, list) /\ BlockOf(block)
    <2>1. Inside(pc, block)
      BY RunsInside DEF EffectsIInv
    <2>2. At(pc, block, list)
      BY RunningAt DEF EffectsIInv, ControlIInv
    <2> QED BY <2>1, <2>2 DEF Inside
  <1>2. OpenOK /\ Admitted /\ list \in Lists
    BY DEF EffectsIInv, ControlIInv, LiftIInv, RunInv, Accepted, Valid, ListType, Lists
  <1>3. HoldsList(pc, block, list)
    BY <1>1 DEF At
  <1>4. Done(pc, block, events, list)
    <2>1. Done(block, block, <<>>, list)
      BY <1>1, <1>2, BeginsSame
    <2> QED BY <2>1 DEF EffectsIInv, Stands
  <1> QED BY <1>1, <1>2, <1>3, <1>4 DEF Beside

\* A step does in the block what the walk makes of it, and leaves it with all
\* of its statements done.
LEMMA GoesSame ==
    ASSUME EffectsIInv, phase = "run", UNCHANGED <<code, blocks>>, StepGoes
    PROVE  SameEffects' /\ (phase' = "run" => Stands')
  <1>1. PICK to : \E holds \in BOOLEAN :
            /\ Go(to, holds, Does(pc, list)) /\ list' = ListAfter(pc, list)
            /\ \/ ~Decides(pc) /\ to = Following /\ ~holds
               \/ Decides(pc) /\ to = Goes(pc, holds)
    BY DEF StepGoes
  <1>2. PICK holds \in BOOLEAN :
            /\ Go(to, holds, Does(pc, list)) /\ list' = ListAfter(pc, list)
            /\ \/ ~Decides(pc) /\ to = Following /\ ~holds
               \/ Decides(pc) /\ to = Goes(pc, holds)
    BY <1>1
  <1>3. Beside(pc, block, events, list)
    BY StandsBeside
  <1>4. Inside(pc, block) /\ Onward(pc) = Following /\ blocks = Leaders /\ CodeShape
    BY RunsInside DEF EffectsIInv, BlockCode
  <1>5. Decides(pc) => to \in blocks \cup {Gone}
    BY <1>2, <1>4, DecisionLeaves
  <1>6. Following # Gone
    <2>1. pc \in Nat /\ Following \in {pc + 1, pc + 2}
      <3>1. pc \in Nat
        BY <1>4, InsideBounds
      <3>2. Onward(pc) \in {pc + 1, pc + 2}
        BY <1>4, SlotFacts DEF Onward
      <3> QED BY <1>4, <3>1, <3>2
    <2> QED BY <2>1 DEF Gone
  <1>7. CASE to \in blocks \cup {Gone, Off} \/ to # pc + Len(Slots(code[pc]))
    <2>1. /\ last' = [block |-> block, events |-> events \o Does(pc, list), holds |-> holds, to |-> to]
          /\ block' = to /\ pc' = to /\ events' = <<>>
      BY <1>2, <1>7 DEF Go
    <2>2. Ends => Same(events \o Does(pc, list), Statements(block))
      <3>1. CASE Decides(pc)
        BY <1>3, <3>1, DecidedSame
      <3>2. CASE ~Decides(pc)
        <4>1. to = Following /\ to \in Leaders \cup {Off}
          BY <1>2, <1>4, <1>6, <1>7, <3>2 DEF Following
        <4> QED BY <1>3, <1>4, <3>2, <4>1, LeftSame
      <3> QED BY <3>1, <3>2
    <2>3. last'.events = events \o Does(pc, list) /\ last'.block = block
      BY <2>1
    <2> QED BY <2>1, <2>2, <2>3, DoneKept DEF Stands
  <1>8. CASE ~(to \in blocks \cup {Gone, Off} \/ to # pc + Len(Slots(code[pc])))
    <2>1. /\ last' = last /\ block' = block /\ pc' = to /\ events' = events \o Does(pc, list)
          /\ list' = ListAfter(pc, list) /\ ~Decides(pc) /\ to = Onward(pc) /\ to \notin Leaders \cup {Off}
      BY <1>2, <1>4, <1>5, <1>8 DEF Go, Following
    <2>2. Done(to, block, events \o Does(pc, list), ListAfter(pc, list))
      BY <1>3, <2>1, OnwardSame
    <2>3. Stands'
      BY <2>1, <2>2, DoneKept DEF Stands
    <2>4. SameEffects'
      <3>1. SameEffects <=> (last.block # 0 /\ Ends => Same(last.events, Statements(last.block)))
        BY DEF SameEffects, Ends, Same
      <3> QED BY <2>1, <3>1, DoneKept DEF EffectsIInv
    <2> QED BY <2>3, <2>4
  <1> QED BY <1>7, <1>8

LEMMA EffectsStep == EffectsIInv /\ [Next]_vars => EffectsIInv'
  <1> SUFFICES ASSUME EffectsIInv, [Next]_vars PROVE EffectsIInv'
    OBVIOUS
  <1>0. ControlIInv'
    BY ControlStep DEF EffectsIInv
  <1>1. CASE UNCHANGED vars
    <2>1. /\ code' = code /\ blocks' = blocks /\ last' = last /\ pc' = pc /\ block' = block
          /\ events' = events /\ list' = list /\ phase' = phase
      BY <1>1 DEF vars
    <2>2. SameEffects'
      <3>1. SameEffects <=> (last.block # 0 /\ Ends => Same(last.events, Statements(last.block)))
        BY DEF SameEffects, Ends, Same
      <3> QED BY <2>1, <3>1, DoneKept DEF EffectsIInv
    <2>3. Stands' <=> Stands
      BY <2>1, DoneKept DEF Stands
    <2> QED BY <1>0, <2>1, <2>2, <2>3 DEF EffectsIInv
  <1>2. CASE Run
    <2>1. phase' # "read" /\ phase = "run" /\ UNCHANGED <<code, blocks>>
      BY <1>2 DEF Run, Running, RunPlain, RunLoadB, RunClosure, RunCall, RunVarargs, RunReturn, RunSetList,
                  RunJump, RunTest, RunLoop, Go
    <2>2. StepGoes
      BY <1>2, RunGoes DEF EffectsIInv
    <2>3. SameEffects' /\ (phase' = "run" => Stands')
      BY <2>1, <2>2, GoesSame
    <2> QED BY <1>0, <2>1, <2>3 DEF EffectsIInv
  <1>3. CASE Accept \/ \E i \in kit.instructions : Read(i)
    <2>1. /\ phase = "read" /\ last' = last /\ pc' = pc /\ block' = block /\ events' = events
      BY <1>3 DEF Accept, Read
    <2>2. last' = NoBlock /\ pc' = 1 /\ block' = 1 /\ events' = <<>>
      BY <2>1 DEF EffectsIInv, ControlIInv, LiftIInv
    <2>3. SameEffects'
      BY <2>2 DEF SameEffects, NoBlock
    <2>4. Stands'
      BY <2>2 DEF Stands
    <2> QED BY <1>0, <2>2, <2>3, <2>4 DEF EffectsIInv
  <1> QED BY <1>1, <1>2, <1>3 DEF Next

\* For code of any length: while the machine runs, what it did in its block is
\* what the walk made of it so far, the calls of an open list still to be made,
\* and in the blocks it left it did what their statements do.
THEOREM EffectsInvariant == Spec => []EffectsIInv
  <1>1. Init => EffectsIInv
    <2>1. Init => ControlIInv
      BY LiftStarts DEF Init, ControlIInv, SameControl, NoBlock
    <2> QED BY <2>1 DEF Init, EffectsIInv, SameEffects, NoBlock
  <1> QED BY <1>1, EffectsStep, PTL DEF Spec

\* SameEffects, for any code that cannot run off its end: the statements of
\* every block do what the machine did in it, every call once, in its order,
\* with the arguments the machine passed.
THEOREM BlocksDoTheSame == Spec => []SameEffects
  <1>1. EffectsIInv => SameEffects
    BY DEF EffectsIInv
  <1> QED BY <1>1, EffectsInvariant, PTL

=============================================================================
