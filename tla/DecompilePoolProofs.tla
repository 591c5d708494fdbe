------------------------ MODULE DecompilePoolProofs ------------------------
(***************************************************************************)
(* A batch of any length, with any programs, on any number of threads.      *)
(*                                                                         *)
(* A worker that waits drives other scripts on top of the waiting one, so   *)
(* what a script finds on its thread when it goes on is stated for the      *)
(* whole stack: only the top is not at its join, each frame has saved the   *)
(* scope of the frame below it, and a script is on one stack, once.         *)
(***************************************************************************)
EXTENDS DecompilePool, SequenceTheorems, WellFoundedInduction, TLAPS

-----------------------------------------------------------------------------
(* Ids. *)

\* A rising sequence of ids in from .. to - 1.
Rising(s, from, to) ==
    /\ s \in Seq(Nat)
    /\ \A j \in 1..Len(s) : from <= s[j] /\ s[j] < to
    /\ \A j, k \in 1..Len(s) : j < k => s[j] < s[k]

\* The ids one pass mints.
LEMMA MintRises ==
    ASSUME NEW from \in Nat, NEW n \in Nat
    PROVE  Rising(Mint(from, n), from, from + n) /\ Len(Mint(from, n)) = n
  <1>1. Mint(from, n) \in Seq(Nat) /\ Len(Mint(from, n)) = n
    BY DEF Mint
  <1>2. \A j \in 1..n : Mint(from, n)[j] = from + j - 1
    BY DEF Mint
  <1>. QED
    BY <1>1, <1>2 DEF Rising

\* The ids of one pass and then those of another.
LEMMA RisingJoin ==
    ASSUME NEW a \in Nat, NEW b \in Nat, NEW c \in Nat, a <= b, b <= c,
           NEW s, NEW t, Rising(s, a, b), Rising(t, b, c)
    PROVE  Rising(s \o t, a, c)
  <1>1. s \in Seq(Nat) /\ t \in Seq(Nat) /\ s \o t \in Seq(Nat)
    BY DEF Rising
  <1>2. Len(s \o t) = Len(s) + Len(t) /\ Len(s) \in Nat /\ Len(t) \in Nat
    BY <1>1
  <1>3. \A j \in 1..Len(s) : (s \o t)[j] = s[j] /\ s[j] \in Nat /\ a <= s[j] /\ s[j] < b
    BY <1>1 DEF Rising
  <1>4. \A j \in Len(s) + 1..Len(s) + Len(t) :
          /\ (s \o t)[j] = t[j - Len(s)] /\ j - Len(s) \in 1..Len(t)
          /\ (s \o t)[j] \in Nat /\ b <= (s \o t)[j] /\ (s \o t)[j] < c
    BY <1>1, <1>2 DEF Rising
  <1>5. \A j \in 1..Len(s \o t) : a <= (s \o t)[j] /\ (s \o t)[j] < c
    BY <1>2, <1>3, <1>4
  <1>6. ASSUME NEW j \in 1..Len(s \o t), NEW k \in 1..Len(s \o t), j < k
        PROVE  (s \o t)[j] < (s \o t)[k]
    <2>1. CASE k <= Len(s)
      BY <1>2, <1>3, <1>6, <2>1 DEF Rising
    <2>2. CASE j <= Len(s) /\ k > Len(s)
      BY <1>2, <1>3, <1>4, <1>6, <2>2
    <2>3. CASE j > Len(s)
      <3>1. j - Len(s) < k - Len(s) /\ j - Len(s) \in 1..Len(t) /\ k - Len(s) \in 1..Len(t)
        BY <1>2, <1>6, <2>3
      <3>2. t[j - Len(s)] < t[k - Len(s)]
        BY <3>1 DEF Rising
      <3>. QED
        BY <1>2, <1>4, <1>6, <2>3, <3>2
    <2>. QED
      BY <1>2, <1>6, <2>1, <2>2, <2>3
  <1>. QED
    BY <1>1, <1>5, <1>6 DEF Rising

LEMMA RisingWider ==
    ASSUME NEW a \in Nat, NEW b \in Nat, NEW c \in Nat, NEW d \in Nat, a <= b, c <= d,
           NEW s, Rising(s, b, c)
    PROVE  Rising(s, a, d)
  BY DEF Rising

\* A block holds rising ids from its start to its end.
BlockOK(b, start, most) ==
    /\ b.kind \in {"source", "dispatcher", "marker"}
    /\ b.end \in Nat /\ start <= b.end /\ b.end <= start + most
    /\ Rising(b.ids, start, b.end)

LEMMA BlockHolds ==
    ASSUME NEW kind \in {"source", "dispatcher", "marker"}, NEW start \in Nat, NEW n \in 0..2
    PROVE  BlockOK(Block(kind, start, n), start, n) /\ Block(kind, start, n).kind = kind
  <1>1. n \in Nat /\ start + n \in Nat
    OBVIOUS
  <1>. QED
    BY <1>1, MintRises DEF BlockOK, Block

LEMMA BlockWider ==
    ASSUME NEW b, NEW start \in Nat, NEW n \in Nat, NEW m \in Nat, n <= m, BlockOK(b, start, n)
    PROVE  BlockOK(b, start, m)
  BY DEF BlockOK

LEMMA FallbackHolds ==
    ASSUME NEW fate \in Fates, NEW start \in Nat
    PROVE  /\ BlockOK(Fallback(fate, start), start, 1)
           /\ Fallback(fate, start).kind \in {"dispatcher", "marker"}
  <1>1. 1 \in 0..2
    OBVIOUS
  <1>. QED
    BY <1>1, BlockHolds DEF Fallback, Dispatching, Marker

LEMMA FirstHolds ==
    ASSUME NEW fate \in Fates, NEW start \in Nat
    PROVE  /\ BlockOK(FirstBlock(fate, start), start, 2)
           /\ fate.structured => FirstBlock(fate, start).kind = "source"
           /\ ~fate.structured => FirstBlock(fate, start).kind \in {"dispatcher", "marker"}
  <1>1. CASE fate.structured
    <2>1. FirstBlock(fate, start) = Block("source", start, 2) /\ 2 \in 0..2
      BY <1>1 DEF FirstBlock, Structuring
    <2>. QED
      BY <1>1, <2>1, BlockHolds
  <1>2. CASE ~fate.structured
    <2>1. FirstBlock(fate, start) = Fallback(fate, start)
      BY <1>2 DEF FirstBlock
    <2>. QED
      BY <1>2, <2>1, FallbackHolds, BlockWider
  <1>. QED
    BY <1>1, <1>2

\* Also when the first block is rejected; under the strict policy nothing but a
\* source-like block or a failure is left of a structured function.
LEMMA SecondHolds ==
    ASSUME NEW fate \in Fates, NEW start \in Nat
    PROVE  /\ BlockOK(SecondBlock(fate, start), start, 3)
           /\ options.strict /\ fate.structured => SecondBlock(fate, start).kind \in {"source", "marker"}
  <1>. DEFINE first == FirstBlock(fate, start)
              again == IF fate.structured THEN start ELSE first.end
              second == IF options.strict THEN Block("marker", again, Marker) ELSE Fallback(fate, again)
  <1>1. /\ BlockOK(first, start, 2)
        /\ fate.structured => first.kind = "source"
    BY FirstHolds
  <1>2. again \in Nat /\ start <= again /\ again <= start + 2
    BY <1>1 DEF BlockOK
  <1>3. PICK kind \in {"dispatcher", "marker"} :
          second = Block(kind, again, 1) /\ (options.strict => kind = "marker")
    BY DEF Fallback, Dispatching, Marker
  <1>6. BlockOK(second, again, 1) /\ second.kind = kind
    <2>1. 1 \in 0..2
      OBVIOUS
    <2>. QED
      BY <1>2, <1>3, <2>1, BlockHolds
  <1>4. CASE ~(fate.residual \/ first.kind = "marker")
    <2>1. SecondBlock(fate, start) = first
      BY <1>4 DEF SecondBlock
    <2>. QED
      BY <1>1, <2>1, BlockWider
  <1>5. CASE fate.residual \/ first.kind = "marker"
    <2>1. SecondBlock(fate, start)
            = IF second.kind = "marker" /\ ~options.strict /\ first.end > second.end
              THEN [second EXCEPT !.end = first.end] ELSE second
      BY <1>5 DEF SecondBlock
    <2>. DEFINE b == SecondBlock(fate, start)
    <2>2. /\ b.kind = second.kind /\ b.ids = second.ids
          /\ b.end \in {first.end, second.end} /\ second.end <= b.end
      <3>1. second = [kind |-> kind, ids |-> Mint(again, 1), end |-> again + 1]
        BY <1>3 DEF Block
      <3>2. first.end \in Nat /\ second.end \in Nat
        BY <1>1, <1>6 DEF BlockOK
      <3>. HIDE DEF first, second, again
      <3>. QED
        BY <2>1, <3>1, <3>2
    <2>3. b.end \in Nat /\ start <= b.end /\ b.end <= start + 3
      BY <1>1, <1>2, <1>6, <2>2 DEF BlockOK
    <2>4. Rising(b.ids, start, b.end)
      <3>1. Rising(second.ids, again, second.end) /\ second.end \in Nat
        BY <1>6 DEF BlockOK
      <3>. QED
        BY <1>2, <2>2, <2>3, <3>1, RisingWider
    <2>5. b.kind \in {"dispatcher", "marker"} /\ (options.strict => b.kind = "marker")
      BY <1>3, <1>6, <2>2
    <2>. QED
      BY <2>3, <2>4, <2>5 DEF BlockOK
  <1>. QED
    BY <1>4, <1>5

\* Under the strict policy the block is source-like or a failure.
LEMMA FinalHolds ==
    ASSUME NEW fate \in Fates, NEW start \in Nat
    PROVE  /\ BlockOK(FinalBlock(fate, start), start, 4)
           /\ options.strict => FinalBlock(fate, start).kind \in {"source", "marker"}
  <1>. DEFINE second == SecondBlock(fate, start)
  <1>1. /\ BlockOK(second, start, 3)
        /\ options.strict /\ fate.structured => second.kind \in {"source", "marker"}
    BY SecondHolds
  <1>2. CASE options.strict /\ ~fate.structured
    <2>1. FinalBlock(fate, start) = Block("marker", second.end, 1)
      BY <1>2 DEF FinalBlock, Marker
    <2>2. second.end \in Nat /\ start <= second.end /\ second.end <= start + 3 /\ 1 \in 0..2
      BY <1>1 DEF BlockOK
    <2>3. BlockOK(FinalBlock(fate, start), second.end, 1) /\ FinalBlock(fate, start).kind = "marker"
      BY <2>1, <2>2, BlockHolds
    <2>. HIDE DEF second
    <2>4. FinalBlock(fate, start).end \in Nat /\ start <= FinalBlock(fate, start).end
            /\ FinalBlock(fate, start).end <= start + 4
      BY <2>2, <2>3 DEF BlockOK
    <2>5. Rising(FinalBlock(fate, start).ids, start, FinalBlock(fate, start).end)
      BY <2>2, <2>3, <2>4, RisingWider DEF BlockOK
    <2>. QED
      BY <2>3, <2>4, <2>5 DEF BlockOK
  <1>3. CASE ~(options.strict /\ ~fate.structured)
    <2>1. FinalBlock(fate, start) = second
      BY <1>3 DEF FinalBlock
    <2>. QED
      BY <1>1, <1>3, <2>1, BlockWider
  <1>. QED
    BY <1>2, <1>3

\* What a function leaves: its ids are its own, in a stretch of six; and a
\* function that was neither dispatched under the strict policy nor failed has
\* a kind that may be answered.
Most == 6
Kinds == {"source", "dispatcher", "marker", "residual"}

LEMMA DecompiledHolds ==
    ASSUME NEW fate \in Fates, NEW start \in Nat
    PROVE  LET body == Decompiled(fate, start)
           IN /\ body.kind \in Kinds
              /\ body.end \in Nat /\ start <= body.end /\ body.end <= start + Most
              /\ Rising(body.ids, start, body.end)
              /\ options.strict => body.kind # "dispatcher"
  <1>. DEFINE body == Decompiled(fate, start)
              after == start + 1
              final == FinalBlock(fate, after)
  <1>1. after \in Nat /\ after + 1 \in Nat
    OBVIOUS
  <1>2. /\ BlockOK(final, after, 4)
        /\ options.strict => final.kind \in {"source", "marker"}
    BY <1>1, FinalHolds
  <1>3. CASE fate.ssa = "panic"
    <2>1. body = [kind |-> "marker", ids |-> Mint(after, 1), end |-> after + 1]
      BY <1>3 DEF Decompiled, Prepared, Marker
    <2>2. Rising(Mint(after, 1), after, after + 1)
      BY <1>1, MintRises
    <2>3. Rising(body.ids, start, body.end)
      BY <1>1, <2>1, <2>2, RisingWider
    <2>. QED
      BY <2>1, <2>3 DEF Kinds, Most
  <1>4. CASE fate.ssa = "budget"
    <2>1. body = [kind |-> "marker", ids |-> Mint(start, 2), end |-> after + 1]
      BY <1>4 DEF Decompiled, Prepared, Marker
    <2>2. Rising(Mint(start, 2), start, start + 2)
      BY MintRises
    <2>. QED
      BY <2>1, <2>2 DEF Kinds, Most
  <1>5. CASE fate.ssa \notin {"panic", "budget"}
    <2>1. body = [kind |-> IF final.kind = "dispatcher" /\ fate.leftover THEN "residual" ELSE final.kind,
                  ids |-> Mint(start, 1) \o final.ids \o Mint(final.end, 1),
                  end |-> final.end + 1]
      BY <1>5 DEF Decompiled, Prepared, Late
    <2>2. final.end \in Nat /\ after <= final.end /\ final.end <= after + 4 /\ Rising(final.ids, after, final.end)
      BY <1>2 DEF BlockOK
    <2>. HIDE DEF final
    <2>3. Rising(Mint(start, 1), start, after) /\ Rising(Mint(final.end, 1), final.end, final.end + 1)
      BY <2>2, MintRises
    <2>4. Rising(Mint(start, 1) \o final.ids, start, final.end)
      BY <1>1, <2>2, <2>3, RisingJoin
    <2>5. start <= final.end /\ final.end + 1 \in Nat /\ final.end <= final.end + 1
      BY <2>2
    <2>6. Rising((Mint(start, 1) \o final.ids) \o Mint(final.end, 1), start, final.end + 1)
      BY <2>2, <2>3, <2>4, <2>5, RisingJoin
    <2>7. body.kind \in Kinds /\ (options.strict => body.kind # "dispatcher")
      BY <1>2, <2>1 DEF Kinds, BlockOK
    <2>8. body.end \in Nat /\ start <= body.end /\ body.end <= start + Most
      BY <2>1, <2>2 DEF Most
    <2>. QED
      BY <2>1, <2>6, <2>7, <2>8
  <1>. QED
    BY <1>3, <1>4, <1>5

-----------------------------------------------------------------------------
(* The inductive invariant. *)

At(t) == 1..Len(stack[t])

Scopes == [item : 0..Len(items), attempt : Nat]
Frames == [item : Item, phase : {"attempt", "join"}, attempt : 1..4, sharing : 0..2,
           compact : BOOLEAN, saved : Scopes]

Shape ==
    /\ Len(items) \in Nat
    /\ \A i \in Item : ProgramOK(items[i].program)
    /\ options.strict \in BOOLEAN /\ options.compact \in BOOLEAN
    /\ jobs \subseteq ({<<i>> : i \in Item} \cup (Item \X Nat))
    /\ stack \in [Threads -> Seq(Frames)]
    /\ counter \in [Threads -> Nat]
    /\ scope \in [Threads -> Scopes]
    /\ base \in [Item -> Nat]
    /\ DOMAIN bodies = Item /\ bodies = [i \in Item |-> bodies[i]]
    /\ DOMAIN tail = Item /\ tail = [i \in Item |-> tail[i]]
    /\ DOMAIN outcome = Item /\ outcome = [i \in Item |-> outcome[i]]

\* A script is a job, or on one stack, once, or answered.  Its functions are
\* jobs while it waits for them.
OnceOnly ==
    \A t, u \in Threads : \A k \in At(t), l \in At(u) :
        stack[t][k].item = stack[u][l].item => t = u /\ k = l
Unanswered ==
    /\ \A t \in Threads : \A k \in At(t) :
         <<stack[t][k].item>> \notin jobs /\ outcome[stack[t][k].item] = NoResult
    /\ \A i \in Item : <<i>> \in jobs => outcome[i] = NoResult
OnlyTopMoves ==
    \A t \in Threads : \A k \in At(t) : k < Len(stack[t]) => stack[t][k].phase = "join"
Forked ==
    \A i \in Item : \A f \in Nat : <<i, f>> \in jobs =>
        /\ f \in Functions(i) /\ bodies[i][f] = NoBody
        /\ \E t \in Threads : \E k \in At(t) : stack[t][k].item = i /\ stack[t][k].phase = "join"

\* A lifted script with some of its functions decompiled.
Grown(i) ==
    /\ items[i].program.lift = "ok" /\ base[i] = items[i].program.locals
    /\ bodies[i] = [f \in Functions(i) |-> bodies[i][f]]
    /\ \A f \in Functions(i) : bodies[i][f] \in {NoBody, Part(i, f)}

Lifted ==
    \A t \in Threads : \A k \in At(t) : \A i \in Item :
        stack[t][k].item = i /\ stack[t][k].phase = "join" => Grown(i)

\* What is known of a script: an answer is what it gets on its own.
ItemOK(i) ==
    /\ bodies[i] # <<>> => Grown(i)
    /\ outcome[i].status = "ok" => bodies[i] = Parts(i) /\ ~Residual(Parts(i))
    /\ tail[i] \in {<<>>, TailIds(i)}
    /\ outcome[i] # NoResult => outcome[i] = Alone(i)
Content == \A i \in Item : ItemOK(i)

\* Each frame has saved the scope of the frame below, and the thread has that
\* of its top, or of the frame below a top that has not set its own.
Own(frame) == [item |-> frame.item, attempt |-> frame.attempt]
Below(t, k) == IF k = 1 THEN NoScope ELSE Own(stack[t][k - 1])
Current(t) ==
    LET n == Len(stack[t])
    IN IF n = 0 THEN NoScope
       ELSE IF stack[t][n].phase = "join" THEN Own(stack[t][n]) ELSE Below(t, n)
Scoped ==
    \A t \in Threads :
        /\ scope[t] = Current(t)
        /\ \A k \in At(t) : stack[t][k].phase = "join" => stack[t][k].saved = Below(t, k)

\* The levels a frame has behind it were not enough for its script.
Tried(frame) ==
    /\ options.compact => frame.compact /\ frame.attempt = frame.sharing + 1
    /\ ~options.compact =>
         /\ frame.compact => frame.sharing = 2 /\ frame.attempt = 4
         /\ ~frame.compact => frame.attempt = frame.sharing + 1
    /\ frame.attempt > 1 => items[frame.item].program.excess >= Level(frame.sharing, frame.compact)
Leveled == \A t \in Threads : \A k \in At(t) : Tried(stack[t][k])

\* What the call returned.
Returned == results # <<>> => \A i, j \in Item : j = Representative(i) => results[i] = Alone(j)

StackInv == OnceOnly /\ OnlyTopMoves /\ Scoped /\ Leveled
PoolInv == Shape /\ StackInv /\ Unanswered /\ Forked /\ Lifted /\ Content /\ Returned

-----------------------------------------------------------------------------
(* What a step does to a stack. *)

LEMMA Pushed ==
    ASSUME stack \in [Threads -> Seq(Frames)], NEW t \in Threads, NEW fr \in Frames,
           stack' = [stack EXCEPT ![t] = Append(@, fr)]
    PROVE  /\ stack' \in [Threads -> Seq(Frames)]
           /\ \A u \in Threads \ {t} : stack'[u] = stack[u]
           /\ Len(stack[t]) \in Nat /\ Len(stack'[t]) = Len(stack[t]) + 1
           /\ \A k \in 1..Len(stack[t]) : stack'[t][k] = stack[t][k]
           /\ stack'[t][Len(stack[t]) + 1] = fr
  OBVIOUS

LEMMA Replaced ==
    ASSUME stack \in [Threads -> Seq(Frames)], NEW t \in Threads, NEW fr \in Frames,
           stack[t] # <<>>, stack' = SetTop(t, fr)
    PROVE  /\ stack' \in [Threads -> Seq(Frames)]
           /\ \A u \in Threads \ {t} : stack'[u] = stack[u]
           /\ Len(stack[t]) \in Nat /\ Len(stack[t]) > 0 /\ Len(stack'[t]) = Len(stack[t])
           /\ \A k \in 1..Len(stack[t]) - 1 : stack'[t][k] = stack[t][k]
           /\ stack'[t][Len(stack[t])] = fr
  BY DEF SetTop

LEMMA Popped ==
    ASSUME stack \in [Threads -> Seq(Frames)], NEW t \in Threads,
           stack[t] # <<>>, stack' = Pop(t)
    PROVE  /\ stack' \in [Threads -> Seq(Frames)]
           /\ \A u \in Threads \ {t} : stack'[u] = stack[u]
           /\ Len(stack[t]) \in Nat /\ Len(stack[t]) > 0 /\ Len(stack'[t]) = Len(stack[t]) - 1
           /\ \A k \in 1..Len(stack[t]) - 1 : stack'[t][k] = stack[t][k]
  <1>1. stack[t] \in Seq(Frames) /\ Len(stack[t]) \in Nat /\ Len(stack[t]) > 0
    OBVIOUS
  <1>. DEFINE rest == SubSeq(stack[t], 1, Len(stack[t]) - 1)
  <1>2. /\ rest \in Seq(Frames) /\ Len(rest) = Len(stack[t]) - 1
        /\ \A k \in 1..Len(stack[t]) - 1 : rest[k] = stack[t][k]
    <2>1. Len(stack[t]) - 1 \in Int /\ 1 \in Int /\ \A k \in 1..Len(stack[t]) - 1 : stack[t][k] \in Frames
      BY <1>1
    <2>2. /\ rest \in Seq(Frames)
          /\ Len(rest) = IF 1 <= Len(stack[t]) - 1 THEN (Len(stack[t]) - 1) - 1 + 1 ELSE 0
          /\ \A k \in 1..(Len(stack[t]) - 1) - 1 + 1 : rest[k] = stack[t][1 + k - 1]
      BY <2>1, SubSeqProperties
    <2>. HIDE DEF rest
    <2>3. \A k \in 1..Len(stack[t]) - 1 : 1 + k - 1 = k /\ k \in 1..(Len(stack[t]) - 1) - 1 + 1
      BY <1>1
    <2>4. Len(rest) = Len(stack[t]) - 1
      <3>1. Len(rest) = IF 1 <= Len(stack[t]) - 1 THEN (Len(stack[t]) - 1) - 1 + 1 ELSE 0
        BY <2>2
      <3>2. \A n \in Nat : n > 0 => n - 1 = IF 1 <= n - 1 THEN (n - 1) - 1 + 1 ELSE 0
        OBVIOUS
      <3>. QED
        BY <1>1, <3>1, <3>2
    <2>5. ASSUME NEW k \in 1..Len(stack[t]) - 1 PROVE rest[k] = stack[t][k]
      <3>1. 1 + k - 1 = k /\ k \in 1..(Len(stack[t]) - 1) - 1 + 1
        BY <2>3
      <3>2. rest[k] = stack[t][1 + k - 1]
        BY <2>2, <3>1
      <3>. QED
        BY <3>1, <3>2
    <2>. QED
      BY <2>2, <2>4, <2>5
  <1>3. stack' = [stack EXCEPT ![t] = rest]
    BY DEF Pop, Front
  <1>. HIDE DEF rest
  <1>. QED
    BY <1>1, <1>2, <1>3

\* What does not change.
LEMMA Constant ==
    ASSUME UNCHANGED <<items, options, fresh>>
    PROVE  /\ Item' = Item /\ Frames' = Frames /\ Scopes' = Scopes
           /\ \A i : Functions(i)' = Functions(i) /\ TailIds(i)' = TailIds(i) /\ Alone(i)' = Alone(i)
           /\ \A i, f : Part(i, f)' = Part(i, f)
           /\ \A i : Parts(i)' = Parts(i) /\ Residual(Parts(i))' = Residual(Parts(i))
           /\ \A i : Representative(i)' = Representative(i)
           /\ \A fr : Tried(fr)' = Tried(fr)
  <1>1. Item' = Item /\ Frames' = Frames /\ Scopes' = Scopes
    BY DEF Item, Frames, Scopes
  <1>2. \A i : Functions(i)' = Functions(i) /\ TailIds(i)' = TailIds(i)
    BY DEF Functions, TailIds
  <1>3. \A fate, start : Decompiled(fate, start)' = Decompiled(fate, start)
    <2>1. \A fate, start : Fallback(fate, start)' = Fallback(fate, start)
      BY DEF Fallback, Certified
    <2>2. \A fate, start : FirstBlock(fate, start)' = FirstBlock(fate, start)
      BY <2>1 DEF FirstBlock
    <2>3. \A fate, start : SecondBlock(fate, start)' = SecondBlock(fate, start)
      BY <2>1, <2>2 DEF SecondBlock
    <2>4. \A fate, start : FinalBlock(fate, start)' = FinalBlock(fate, start)
      BY <2>3 DEF FinalBlock
    <2>. QED
      BY <2>4 DEF Decompiled
  <1>4. \A i, f : Part(i, f)' = Part(i, f)
    BY <1>3 DEF Part
  <1>5. \A i : Parts(i)' = Parts(i)
    BY <1>2, <1>4 DEF Parts
  <1>6. \A i : Alone(i)' = Alone(i)
    BY <1>2, <1>5 DEF Alone, Output, Reached, Residual
  <1>7. \A i : Representative(i)' = Representative(i)
    BY <1>1 DEF Representative, Context
  <1>8. \A fr : Tried(fr)' = Tried(fr)
    BY DEF Tried
  <1>9. \A i : Residual(Parts(i))' = Residual(Parts(i))
    BY <1>5 DEF Residual
  <1>. QED
    BY <1>1, <1>2, <1>4, <1>5, <1>6, <1>7, <1>8, <1>9

\* What a step leaves alone of a script.
LEMMA SameItem ==
    ASSUME UNCHANGED <<items, options, fresh>>,
           NEW i, bodies'[i] = bodies[i], base'[i] = base[i]
    PROVE  /\ Grown(i)' = Grown(i)
           /\ tail'[i] = tail[i] /\ outcome'[i] = outcome[i] => ItemOK(i)' = ItemOK(i)
  <1>1. Grown(i)' = Grown(i)
    BY Constant DEF Grown
  <1>. QED
    BY <1>1, Constant DEF ItemOK

LEMMA StillReturned ==
    ASSUME UNCHANGED <<items, options, fresh, results>>, Returned
    PROVE  Returned'
  <1>1. \A i : Alone(i)' = Alone(i)
    BY Constant
  <1>2. Item' = Item /\ \A i : Representative(i)' = Representative(i)
    BY Constant
  <1>. QED
    BY <1>1, <1>2 DEF Returned

\* The frames after a step, in terms of those before.
LEMMA FramesPushed ==
    ASSUME stack \in [Threads -> Seq(Frames)], NEW t \in Threads, NEW fr \in Frames,
           stack' = [stack EXCEPT ![t] = Append(@, fr)]
    PROVE  LET n == Len(stack[t]) + 1
           IN /\ n \in At(t)' /\ stack'[t][n] = fr /\ Len(stack'[t]) = n
              /\ \A u \in Threads : \A k \in At(u) :
                    k \in At(u)' /\ stack'[u][k] = stack[u][k] /\ ~(u = t /\ k = n)
              /\ \A u \in Threads : \A k \in At(u)' : (u = t /\ k = n) \/ k \in At(u)
  BY Pushed DEF At

LEMMA FramesReplaced ==
    ASSUME stack \in [Threads -> Seq(Frames)], NEW t \in Threads, NEW fr \in Frames,
           stack[t] # <<>>, stack' = SetTop(t, fr)
    PROVE  LET n == Len(stack[t])
           IN /\ n \in At(t) /\ n \in At(t)' /\ stack'[t][n] = fr /\ Len(stack'[t]) = n
              /\ \A u \in Threads : At(u)' = At(u)
              /\ \A u \in Threads : \A k \in At(u) : ~(u = t /\ k = n) => stack'[u][k] = stack[u][k]
  <1>1. At(t)' = At(t) /\ Len(stack[t]) \in At(t)
    BY Replaced DEF At
  <1>2. \A u \in Threads \ {t} : At(u)' = At(u)
    BY Replaced DEF At
  <1>3. \A k \in At(t) : k # Len(stack[t]) => stack'[t][k] = stack[t][k]
    BY Replaced DEF At
  <1>. QED
    BY <1>1, <1>2, <1>3, Replaced

LEMMA FramesPopped ==
    ASSUME stack \in [Threads -> Seq(Frames)], NEW t \in Threads,
           stack[t] # <<>>, stack' = Pop(t)
    PROVE  LET n == Len(stack[t])
           IN /\ n \in At(t) /\ n \notin At(t)' /\ Len(stack'[t]) = n - 1 /\ n \in Nat
              /\ \A u \in Threads : \A k \in At(u) :
                    ~(u = t /\ k = n) => k \in At(u)' /\ stack'[u][k] = stack[u][k]
              /\ \A u \in Threads : \A k \in At(u)' : k \in At(u) /\ ~(u = t /\ k = n)
  <1>1. /\ Len(stack[t]) \in At(t) /\ Len(stack[t]) \notin At(t)' /\ Len(stack[t]) \in Nat
        /\ Len(stack'[t]) = Len(stack[t]) - 1
    BY Popped DEF At
  <1>2. \A u \in Threads \ {t} : At(u)' = At(u) /\ stack'[u] = stack[u]
    BY Popped DEF At
  <1>3. \A k \in At(t) : k # Len(stack[t]) => k \in At(t)' /\ stack'[t][k] = stack[t][k]
    BY Popped DEF At
  <1>4. \A k \in At(t)' : k \in At(t) /\ k # Len(stack[t])
    BY Popped DEF At
  <1>. QED
    BY <1>1, <1>2, <1>3, <1>4

LEMMA FrameType ==
    ASSUME Shape, NEW t \in Threads, NEW k \in At(t)
    PROVE  stack[t][k] \in Frames /\ stack[t][k].item \in Item
  <1>1. stack[t] \in Seq(Frames)
    BY DEF Shape
  <1>2. stack[t][k] \in Frames
    BY <1>1 DEF At
  <1>. QED
    BY <1>2 DEF Frames

\* A job for a script is not a job for a function.
LEMMA JobsDiffer == \A i, j, f : <<i>> # <<j, f>>
  <1>1. \A i : DOMAIN <<i>> = 1..1
    OBVIOUS
  <1>2. \A i, j : DOMAIN <<i, j>> = 1..2
    OBVIOUS
  <1>3. 2 \in 1..2 /\ 2 \notin 1..1
    OBVIOUS
  <1>. QED
    BY <1>1, <1>2, <1>3, Zenon

-----------------------------------------------------------------------------
(* The stacks through a step. *)

SameBatch == UNCHANGED <<items, options, fresh>>
Pushes(t, fr) == stack' = [stack EXCEPT ![t] = Append(@, fr)]
Sets(t, fr) == stack[t] # <<>> /\ stack' = SetTop(t, fr)
Pops(t) == stack[t] # <<>> /\ stack' = Pop(t)
ScopeBecomes(t, s) == scope' = [scope EXCEPT ![t] = s]
OnNoStack(i) == \A u \in Threads : \A k \in At(u) : stack[u][k].item # i

\* A script that is on no stack goes on top of one that is free for it.
LEMMA PushKeeps ==
    ASSUME Shape, StackInv, NEW t \in Threads, Free(t), NEW fr \in Frames, fr.phase = "attempt", Tried(fr),
           OnNoStack(fr.item), Pushes(t, fr), SameBatch, ScopeBecomes(t, scope[t])
    PROVE  StackInv'
  <1>1. PICK n \in Nat : n = Len(stack[t]) + 1
    <2>1. stack[t] \in Seq(Frames)
      BY DEF Shape
    <2>. QED
      BY <2>1
  <1>2. stack \in [Threads -> Seq(Frames)] /\ stack' \in [Threads -> Seq(Frames)]
    BY Pushed DEF Shape, Pushes
  <1>3. /\ n \in At(t)' /\ stack'[t][n] = fr /\ Len(stack'[t]) = n
        /\ \A u \in Threads : \A k \in At(u) :
              k \in At(u)' /\ stack'[u][k] = stack[u][k] /\ ~(u = t /\ k = n)
        /\ \A u \in Threads : \A k \in At(u)' : (u = t /\ k = n) \/ k \in At(u)
    BY <1>1, <1>2, FramesPushed DEF Pushes
  <1>4. \A u \in Threads : Len(stack'[u]) \in Nat /\ Len(stack[u]) \in Nat
    BY <1>2
  <1>5. \A u \in Threads \ {t} : stack'[u] = stack[u]
    BY <1>2, Pushed DEF Pushes
  <1>6. OnceOnly'
    BY <1>3 DEF StackInv, OnceOnly, OnNoStack
  <1>7. stack[t] # <<>> => n > 1 /\ n - 1 = Len(stack[t]) /\ n - 1 \in At(t) /\ stack[t][n - 1].phase = "join"
    <2>1. ASSUME stack[t] # <<>> PROVE Len(stack[t]) > 0
      BY <1>2, <2>1
    <2>. QED
      BY <1>1, <1>4, <2>1 DEF At, Free, Top
  <1>8. OnlyTopMoves'
    <2>1. ASSUME NEW u \in Threads, NEW k \in At(u)', k < Len(stack'[u])
          PROVE  stack'[u][k].phase = "join"
      <3>0. ~(u = t /\ k = n)
        <4>1. ~(n < n)
          OBVIOUS
        <4>. QED
          BY <1>3, <2>1, <4>1, Zenon
      <3>1. k \in At(u) /\ stack'[u][k] = stack[u][k]
        BY <1>3, <2>1, <3>0
      <3>2. CASE u = t
        <4>1. k < n /\ k \in Nat /\ Len(stack[t]) >= k /\ Len(stack[t]) = n - 1 /\ stack[t] # <<>>
          BY <1>1, <1>3, <1>4, <2>1, <3>1, <3>2 DEF At
        <4>2. CASE k = n - 1
          BY <1>7, <3>1, <3>2, <4>1, <4>2
        <4>3. CASE k # n - 1
          BY <3>1, <3>2, <4>1, <4>3 DEF StackInv, OnlyTopMoves
        <4>. QED
          BY <4>2, <4>3
      <3>3. CASE u # t
        BY <1>5, <2>1, <3>1, <3>3 DEF StackInv, OnlyTopMoves
      <3>. QED
        BY <3>2, <3>3
    <2>. QED
      BY <2>1 DEF OnlyTopMoves
  <1>9. Scoped'
    <2>1. ASSUME NEW u \in Threads, NEW k \in At(u) PROVE Below(u, k)' = Below(u, k)
      <3>1. k # 1 => k - 1 \in At(u)
        BY <1>4 DEF At
      <3>. QED
        BY <1>3, <3>1 DEF Below, Own
    <2>2. \A u \in Threads : \A k \in At(u)' : stack'[u][k].phase = "join" => stack'[u][k].saved = Below(u, k)'
      BY <1>3, <2>1 DEF StackInv, Scoped
    <2>3. Current(t)' = Current(t)
      <3>1. Current(t)' = IF n = 1 THEN NoScope ELSE Own(stack'[t][n - 1])
        BY <1>1, <1>3, <1>4 DEF Current, Below, Own
      <3>2. CASE stack[t] = <<>>
        <4>1. n = 1 /\ Len(stack[t]) = 0
          BY <1>1, <3>2
        <4>. QED
          BY <3>1, <4>1 DEF Current
      <3>3. CASE stack[t] # <<>>
        <4>1. n # 1 /\ stack'[t][n - 1] = stack[t][n - 1] /\ Len(stack[t]) # 0
          BY <1>3, <1>7, <3>3
        <4>2. Current(t) = Own(stack[t][n - 1])
          BY <1>7, <3>3, <4>1 DEF Current
        <4>. QED
          BY <3>1, <4>1, <4>2
      <3>. QED
        BY <3>2, <3>3
    <2>4. \A u \in Threads \ {t} : Current(u)' = Current(u)
      BY <1>5 DEF Current, Below, Own
    <2>5. scope' = scope
      BY DEF Shape, ScopeBecomes
    <2>. QED
      BY <2>2, <2>3, <2>4, <2>5 DEF StackInv, Scoped
  <1>10. Leveled'
    <2>1. \A x : Tried(x)' = Tried(x)
      BY Constant DEF SameBatch
    <2>. QED
      BY <1>3, <2>1 DEF StackInv, Leveled
  <1>. QED
    BY <1>6, <1>8, <1>9, <1>10 DEF StackInv

\* The frame on top goes on to its join, or to its next attempt.
LEMMA ReplaceKeeps ==
    ASSUME Shape, StackInv, NEW t \in Threads, NEW fr \in Frames, Tried(fr), Sets(t, fr), SameBatch,
           fr.item = Top(t).item,
           fr.phase = "join" => fr.saved = Below(t, Len(stack[t])),
           ScopeBecomes(t, IF fr.phase = "join" THEN Own(fr) ELSE Below(t, Len(stack[t])))
    PROVE  StackInv'
  <1>1. PICK n \in Nat : n = Len(stack[t])
    <2>1. stack[t] \in Seq(Frames)
      BY DEF Shape
    <2>. QED
      BY <2>1
  <1>2. stack \in [Threads -> Seq(Frames)] /\ stack' \in [Threads -> Seq(Frames)]
    BY Replaced DEF Shape, Sets
  <1>3. /\ n \in At(t) /\ n \in At(t)' /\ stack'[t][n] = fr /\ Len(stack'[t]) = n
        /\ \A u \in Threads : At(u)' = At(u)
        /\ \A u \in Threads : \A k \in At(u) : ~(u = t /\ k = n) => stack'[u][k] = stack[u][k]
    BY <1>1, <1>2, FramesReplaced DEF Sets
  <1>4. \A u \in Threads : Len(stack'[u]) = Len(stack[u]) /\ Len(stack[u]) \in Nat
    BY <1>1, <1>2, <1>3, Replaced DEF Sets
  <1>5. \A u \in Threads \ {t} : stack'[u] = stack[u]
    BY <1>2, Replaced DEF Sets
  <1>6. n > 0
    BY <1>1, <1>3 DEF At
  <1>7. stack[t][n].item = fr.item
    BY <1>1 DEF Top
  <1>8. OnceOnly'
    <2>1. \A u \in Threads : \A k \in At(u)' : k \in At(u) /\ stack'[u][k].item = stack[u][k].item
      BY <1>3, <1>7
    <2>. QED
      BY <2>1 DEF StackInv, OnceOnly
  <1>9. OnlyTopMoves'
    BY <1>3, <1>4 DEF StackInv, OnlyTopMoves
  <1>10. Scoped'
    <2>1. ASSUME NEW u \in Threads, NEW k \in At(u)
          PROVE Below(u, k)' = Below(u, k)
      <3>1. k # 1 => k - 1 \in At(u) /\ (u = t => k - 1 # n)
        BY <1>1, <1>4 DEF At
      <3>. QED
        BY <1>3, <3>1 DEF Below, Own
    <2>2. ASSUME NEW u \in Threads, NEW k \in At(u)', stack'[u][k].phase = "join"
          PROVE  stack'[u][k].saved = Below(u, k)'
      <3>1. k \in At(u) /\ Below(u, k)' = Below(u, k)
        BY <1>3, <2>1, <2>2
      <3>2. CASE u = t /\ k = n
        <4>1. stack'[u][k] = fr /\ fr.phase = "join"
          BY <1>3, <2>2, <3>2
        <4>. QED
          BY <1>1, <3>1, <3>2, <4>1
      <3>3. CASE ~(u = t /\ k = n)
        <4>1. stack'[u][k] = stack[u][k]
          BY <1>3, <3>1, <3>3
        <4>2. stack[u][k].saved = Below(u, k)
          BY <2>2, <3>1, <4>1 DEF StackInv, Scoped
        <4>. QED
          BY <3>1, <4>1, <4>2
      <3>. QED
        BY <3>2, <3>3
    <2>3. Current(t)' = IF fr.phase = "join" THEN Own(fr) ELSE Below(t, n)
      <3>1. Current(t)' = IF fr.phase = "join" THEN Own(fr) ELSE IF n = 1 THEN NoScope ELSE Own(stack'[t][n - 1])
        BY <1>3, <1>6 DEF Current, Below, Own
      <3>2. n # 1 => stack'[t][n - 1] = stack[t][n - 1]
        <4>0. At(t) = 1..n
          BY <1>1 DEF At
        <4>1. n # 1 => n - 1 \in At(t) /\ n - 1 # n
          <5>1. n # 1 => n - 1 \in 1..n /\ n - 1 # n
            BY <1>6
          <5>. QED
            BY <4>0, <5>1, Zenon
        <4>. QED
          BY <1>3, <4>1
      <3>. QED
        BY <3>1, <3>2 DEF Below
    <2>4. \A u \in Threads \ {t} : Current(u)' = Current(u)
      BY <1>5 DEF Current, Below, Own
    <2>5. \A u \in Threads : scope'[u] = Current(u)'
      <3>1. scope'[t] = Current(t)'
        BY <1>1, <2>3 DEF Shape, ScopeBecomes
      <3>2. \A u \in Threads \ {t} : scope'[u] = scope[u]
        BY DEF Shape, ScopeBecomes
      <3>. QED
        BY <2>4, <3>1, <3>2 DEF StackInv, Scoped
    <2>. QED
      BY <2>2, <2>5 DEF Scoped
  <1>11. Leveled'
    <2>1. \A x : Tried(x)' = Tried(x)
      BY Constant DEF SameBatch
    <2>. QED
      BY <1>3, <2>1 DEF StackInv, Leveled
  <1>. QED
    BY <1>8, <1>9, <1>10, <1>11 DEF StackInv

\* The frame on top is answered, and its thread goes back to the scope below.
LEMMA PopKeeps ==
    ASSUME Shape, StackInv, NEW t \in Threads, Pops(t), SameBatch,
           ScopeBecomes(t, Below(t, Len(stack[t])))
    PROVE  StackInv'
  <1>1. PICK n \in Nat : n = Len(stack[t])
    <2>1. stack[t] \in Seq(Frames)
      BY DEF Shape
    <2>. QED
      BY <2>1
  <1>2. stack \in [Threads -> Seq(Frames)] /\ stack' \in [Threads -> Seq(Frames)]
    BY Popped DEF Shape, Pops
  <1>3. /\ n \in At(t) /\ n \notin At(t)' /\ Len(stack'[t]) = n - 1
        /\ \A u \in Threads : \A k \in At(u) :
              ~(u = t /\ k = n) => k \in At(u)' /\ stack'[u][k] = stack[u][k]
        /\ \A u \in Threads : \A k \in At(u)' : k \in At(u) /\ ~(u = t /\ k = n)
    BY <1>1, <1>2, FramesPopped DEF Pops
  <1>4. \A u \in Threads : Len(stack'[u]) \in Nat /\ Len(stack[u]) \in Nat
    BY <1>2
  <1>5. \A u \in Threads \ {t} : stack'[u] = stack[u]
    BY <1>2, Popped DEF Pops
  <1>6. n > 0
    BY <1>1, <1>3 DEF At
  <1>7. \A u \in Threads : \A k \in At(u)' : k \in At(u) /\ stack'[u][k] = stack[u][k]
    BY <1>3
  <1>8. OnceOnly'
    BY <1>7 DEF StackInv, OnceOnly
  <1>9. OnlyTopMoves'
    <2>1. ASSUME NEW u \in Threads, NEW k \in At(u)', k < Len(stack'[u])
          PROVE  k < Len(stack[u])
      <3>1. CASE u = t
        BY <1>1, <1>3, <1>4, <2>1, <3>1 DEF At
      <3>2. CASE u # t
        BY <1>5, <2>1, <3>2
      <3>. QED
        BY <3>1, <3>2
    <2>. QED
      BY <1>7, <2>1 DEF StackInv, OnlyTopMoves
  <1>10. Scoped'
    <2>1. ASSUME NEW u \in Threads, NEW k \in At(u)'
          PROVE Below(u, k)' = Below(u, k)
      <3>1. k # 1 => k - 1 \in At(u)'
        BY <1>4 DEF At
      <3>. QED
        BY <1>7, <3>1 DEF Below, Own
    <2>2. \A u \in Threads : \A k \in At(u)' : stack'[u][k].phase = "join" => stack'[u][k].saved = Below(u, k)'
      BY <1>7, <2>1 DEF StackInv, Scoped
    <2>3. Current(t)' = Below(t, n)
      <3>1. CASE n = 1
        BY <1>3, <3>1 DEF Current, Below
      <3>2. CASE n # 1
        <4>0. At(t) = 1..n /\ At(t)' = 1..n - 1
          BY <1>1, <1>3 DEF At
        <4>1. n - 1 # 0 /\ n - 1 \in At(t)' /\ n - 1 \in At(t) /\ n - 1 < Len(stack[t])
          <5>1. n - 1 # 0 /\ n - 1 \in 1..n - 1 /\ n - 1 \in 1..n /\ n - 1 < n
            BY <1>6, <3>2
          <5>. QED
            BY <1>1, <4>0, <5>1, Zenon
        <4>2. stack'[t][n - 1] = stack[t][n - 1] /\ stack[t][n - 1].phase = "join"
          BY <1>7, <4>1 DEF StackInv, OnlyTopMoves
        <4>3. Current(t)' = Own(stack[t][n - 1])
          BY <1>3, <4>1, <4>2 DEF Current, Own
        <4>. QED
          BY <3>2, <4>3 DEF Below
      <3>. QED
        BY <3>1, <3>2
    <2>4. \A u \in Threads \ {t} : Current(u)' = Current(u)
      BY <1>5 DEF Current, Below, Own
    <2>5. \A u \in Threads : scope'[u] = Current(u)'
      <3>1. scope'[t] = Current(t)'
        BY <1>1, <2>3 DEF Shape, ScopeBecomes
      <3>2. \A u \in Threads \ {t} : scope'[u] = scope[u]
        BY DEF Shape, ScopeBecomes
      <3>. QED
        BY <2>4, <3>1, <3>2 DEF StackInv, Scoped
    <2>. QED
      BY <2>2, <2>5 DEF Scoped
  <1>11. Leveled'
    <2>1. \A x : Tried(x)' = Tried(x)
      BY Constant DEF SameBatch
    <2>. QED
      BY <1>7, <2>1 DEF StackInv, Leveled
  <1>. QED
    BY <1>8, <1>9, <1>10, <1>11 DEF StackInv

-----------------------------------------------------------------------------
(* The steps. *)

LEMMA TakeKeeps ==
    ASSUME PoolInv, NEW t \in Threads, NEW i \in Item, Take(t, i)
    PROVE  PoolInv'
  <1>1. PICK fr : fr = [item |-> i, phase |-> "attempt", attempt |-> 1, sharing |-> 0,
                        compact |-> options.compact, saved |-> NoScope]
    OBVIOUS
  <1>2. /\ <<i>> \in jobs /\ jobs' = jobs \ {<<i>>}
        /\ UNCHANGED <<items, options, fresh, counter, scope, base, bodies, tail, outcome, results>>
    BY DEF Take
  <1>3. Free(t) /\ Pushes(t, fr)
    BY <1>1 DEF Take, Pushes
  <1>4. Shape /\ StackInv /\ SameBatch /\ ScopeBecomes(t, scope[t])
    BY <1>2 DEF PoolInv, SameBatch, ScopeBecomes, Shape
  <1>5. fr \in Frames /\ fr.phase = "attempt" /\ fr.item = i /\ Tried(fr)
    <2>1. fr \in Frames
      BY <1>1, <1>4 DEF Frames, Scopes, NoScope, Shape
    <2>2. Tried(fr)
      BY <1>1, <1>4 DEF Tried, Shape
    <2>. QED
      BY <1>1, <2>1, <2>2
  <1>6. OnNoStack(fr.item)
    BY <1>2, <1>5 DEF PoolInv, Unanswered, OnNoStack
  <1>7. StackInv'
    BY <1>3, <1>4, <1>5, <1>6, PushKeeps
  <1>8. PICK n : n = Len(stack[t]) + 1
    OBVIOUS
  <1>9. stack' \in [Threads -> Seq(Frames)] /\ stack \in [Threads -> Seq(Frames)]
    BY <1>3, <1>4, <1>5, Pushed DEF Shape, Pushes
  <1>10. /\ n \in At(t)' /\ stack'[t][n] = fr
         /\ \A u \in Threads : \A k \in At(u) : k \in At(u)' /\ stack'[u][k] = stack[u][k]
         /\ \A u \in Threads : \A k \in At(u)' : (u = t /\ k = n) \/ (k \in At(u) /\ stack'[u][k] = stack[u][k])
    <2>1. stack' = [stack EXCEPT ![t] = Append(@, fr)] /\ fr \in Frames
      BY <1>3, <1>5 DEF Pushes
    <2>2. /\ n \in At(t)' /\ stack'[t][n] = fr
          /\ \A u \in Threads : \A k \in At(u) :
                k \in At(u)' /\ stack'[u][k] = stack[u][k] /\ ~(u = t /\ k = n)
          /\ \A u \in Threads : \A k \in At(u)' : (u = t /\ k = n) \/ k \in At(u)
      BY <1>8, <1>9, <2>1, FramesPushed
    <2>. QED
      BY <2>2, Zenon
  <1>11. Item' = Item /\ Frames' = Frames /\ Scopes' = Scopes /\ \A j : Functions(j)' = Functions(j)
    BY <1>2, Constant
  <1>12. Shape'
    BY <1>2, <1>4, <1>9, <1>11 DEF Shape
  <1>13. \A j : Grown(j)' = Grown(j) /\ ItemOK(j)' = ItemOK(j)
    BY <1>2, SameItem
  <1>14. Unanswered'
    <2>1. outcome[i] = NoResult
      BY <1>2 DEF PoolInv, Unanswered
    <2>2. \A u \in Threads : \A k \in At(u)' :
            <<stack'[u][k].item>> \notin jobs' /\ outcome[stack'[u][k].item] = NoResult
      BY <1>2, <1>5, <1>10, <2>1 DEF PoolInv, Unanswered
    <2>. QED
      BY <1>2, <1>11, <2>2 DEF PoolInv, Unanswered
  <1>15. Forked'
    <2>1. ASSUME NEW j \in Item, NEW f \in Nat, <<j, f>> \in jobs'
          PROVE  /\ f \in Functions(j) /\ bodies[j][f] = NoBody
                 /\ \E u \in Threads : \E k \in At(u)' : stack'[u][k].item = j /\ stack'[u][k].phase = "join"
      <3>1. <<j, f>> \in jobs
        BY <1>2, <2>1
      <3>2. /\ f \in Functions(j) /\ bodies[j][f] = NoBody
            /\ \E u \in Threads : \E k \in At(u) : stack[u][k].item = j /\ stack[u][k].phase = "join"
        BY <2>1, <3>1 DEF PoolInv, Forked
      <3>. QED
        BY <1>10, <3>2
    <2>. QED
      BY <1>2, <1>11, <2>1 DEF Forked
  <1>16. Lifted'
    <2>1. \A u \in Threads : \A k \in At(u)' : stack'[u][k].phase = "join" => k \in At(u) /\ stack'[u][k] = stack[u][k]
      BY <1>5, <1>10
    <2>. QED
      BY <1>11, <1>13, <2>1 DEF PoolInv, Lifted
  <1>17. Content'
    BY <1>11, <1>13 DEF PoolInv, Content
  <1>18. Returned'
    BY <1>2, StillReturned DEF PoolInv
  <1>. QED
    BY <1>7, <1>12, <1>14, <1>15, <1>16, <1>17, <1>18 DEF PoolInv

\* What a pop leaves on the stacks: other scripts, where and as they were.
LEMMA Rest ==
    ASSUME Shape, StackInv, NEW t \in Threads, Pops(t)
    PROVE  /\ stack' \in [Threads -> Seq(Frames)]
           /\ Len(stack[t]) \in At(t) /\ Top(t) = stack[t][Len(stack[t])] /\ Top(t) \in Frames
           /\ \A u \in Threads : \A k \in At(u)' :
                 k \in At(u) /\ stack'[u][k] = stack[u][k] /\ stack[u][k].item # Top(t).item
           /\ \A u \in Threads : \A k \in At(u) :
                 stack[u][k].item # Top(t).item => k \in At(u)' /\ stack'[u][k] = stack[u][k]
  <1>1. stack \in [Threads -> Seq(Frames)] /\ stack' \in [Threads -> Seq(Frames)]
    BY Popped DEF Shape, Pops
  <1>2. PICK n : n = Len(stack[t])
    OBVIOUS
  <1>3. /\ n \in At(t)
        /\ \A u \in Threads : \A k \in At(u) :
              ~(u = t /\ k = n) => k \in At(u)' /\ stack'[u][k] = stack[u][k]
        /\ \A u \in Threads : \A k \in At(u)' : k \in At(u) /\ ~(u = t /\ k = n)
    BY <1>1, <1>2, FramesPopped DEF Pops
  <1>4. Top(t) = stack[t][n] /\ stack[t][n] \in Frames
    BY <1>2, <1>3, FrameType DEF Top
  <1>5. \A u \in Threads : \A k \in At(u) : stack[u][k].item = Top(t).item <=> u = t /\ k = n
    BY <1>3, <1>4 DEF StackInv, OnceOnly
  <1>. QED
    BY <1>1, <1>2, <1>3, <1>4, <1>5

\* And a change of the top frame.
LEMMA Others ==
    ASSUME Shape, StackInv, NEW t \in Threads, NEW fr \in Frames, Sets(t, fr), fr.item = Top(t).item
    PROVE  /\ stack' \in [Threads -> Seq(Frames)]
           /\ Len(stack[t]) \in At(t) /\ Top(t) = stack[t][Len(stack[t])] /\ Top(t) \in Frames
           /\ \A u \in Threads : At(u)' = At(u)
           /\ \A u \in Threads : \A k \in At(u) :
                 IF stack[u][k].item = fr.item THEN stack'[u][k] = fr /\ stack[u][k] = Top(t)
                 ELSE stack'[u][k] = stack[u][k]
  <1>1. stack \in [Threads -> Seq(Frames)] /\ stack' \in [Threads -> Seq(Frames)]
    BY Replaced DEF Shape, Sets
  <1>2. PICK n : n = Len(stack[t])
    OBVIOUS
  <1>3. /\ n \in At(t) /\ stack'[t][n] = fr
        /\ \A u \in Threads : At(u)' = At(u)
        /\ \A u \in Threads : \A k \in At(u) : ~(u = t /\ k = n) => stack'[u][k] = stack[u][k]
    BY <1>1, <1>2, FramesReplaced DEF Sets
  <1>4. Top(t) = stack[t][n] /\ stack[t][n] \in Frames
    BY <1>2, <1>3, FrameType DEF Top
  <1>5. \A u \in Threads : \A k \in At(u) : stack[u][k].item = Top(t).item <=> u = t /\ k = n
    BY <1>3, <1>4 DEF StackInv, OnceOnly
  <1>. QED
    BY <1>1, <1>2, <1>3, <1>4, <1>5

Ends(i, last, result) ==
    /\ counter' \in [Threads -> Nat]
    /\ tail' = [tail EXCEPT ![i] = last] /\ outcome' = [outcome EXCEPT ![i] = result]
    /\ UNCHANGED <<items, options, fresh, jobs, base, bodies, results>>

\* A script is answered.
LEMMA AnswerKeeps ==
    ASSUME PoolInv, NEW t \in Threads, Pops(t), NEW i, i = Top(t).item,
           NEW last \in {<<>>, TailIds(i)}, NEW result, result = Alone(i),
           result.status = "ok" => bodies[i] = Parts(i) /\ ~Residual(Parts(i)),
           \A f \in Nat : <<i, f>> \notin jobs,
           ScopeBecomes(t, Below(t, Len(stack[t]))), Ends(i, last, result)
    PROVE  PoolInv'
  <1>0. UNCHANGED <<items, options, fresh, jobs, base, bodies, results>>
    BY DEF Ends
  <1>1. Shape /\ StackInv /\ SameBatch
    BY <1>0 DEF PoolInv, SameBatch
  <1>2. StackInv'
    BY <1>1, PopKeeps
  <1>3. /\ stack' \in [Threads -> Seq(Frames)]
        /\ Len(stack[t]) \in At(t) /\ Top(t) = stack[t][Len(stack[t])] /\ Top(t) \in Frames
        /\ \A u \in Threads : \A k \in At(u)' : k \in At(u) /\ stack'[u][k] = stack[u][k] /\ stack[u][k].item # i
        /\ \A u \in Threads : \A k \in At(u) :
              stack[u][k].item # i => k \in At(u)' /\ stack'[u][k] = stack[u][k]
    BY <1>1, Rest
  <1>4. i \in Item
    BY <1>3 DEF Frames
  <1>5. /\ Item' = Item /\ Frames' = Frames /\ Scopes' = Scopes
        /\ \A j : Functions(j)' = Functions(j) /\ Alone(j)' = Alone(j) /\ TailIds(j)' = TailIds(j)
    BY <1>0, Constant
  <1>6. Shape'
    <2>1. scope' \in [Threads -> Scopes]
      <3>1. Below(t, Len(stack[t])) \in Scopes
        <4>1. Current(t) \in Scopes
          BY <1>1 DEF StackInv, Scoped, Shape
        <4>2. Top(t).phase = "join" => Top(t).saved = Below(t, Len(stack[t]))
          BY <1>1, <1>3 DEF StackInv, Scoped
        <4>3. Top(t).phase # "join" => Current(t) = Below(t, Len(stack[t]))
          <5>1. Len(stack[t]) # 0
            BY <1>3 DEF At
          <5>. QED
            BY <1>3, <5>1 DEF Current
        <4>. QED
          BY <1>3, <4>1, <4>2, <4>3 DEF Frames
      <3>. QED
        BY <1>1, <3>1 DEF ScopeBecomes, Shape
    <2>2. /\ DOMAIN tail' = Item /\ tail' = [j \in Item |-> tail'[j]]
          /\ DOMAIN outcome' = Item /\ outcome' = [j \in Item |-> outcome'[j]]
      BY <1>1 DEF Shape, Ends
    <2>. QED
      BY <1>1, <1>3, <1>5, <2>1, <2>2 DEF Shape, Ends
  <1>7. \A j \in Item \ {i} : tail'[j] = tail[j] /\ outcome'[j] = outcome[j]
    BY <1>1 DEF Shape, Ends
  <1>8. tail'[i] = last /\ outcome'[i] = result
    BY <1>1, <1>4 DEF Shape, Ends
  <1>9. <<i>> \notin jobs
    BY <1>3 DEF PoolInv, Unanswered
  <1>10. Unanswered'
    <2>1. \A u \in Threads : \A k \in At(u)' :
            <<stack'[u][k].item>> \notin jobs /\ outcome'[stack'[u][k].item] = NoResult
      <3>1. \A u \in Threads : \A k \in At(u) : stack[u][k].item \in Item
        BY <1>1, FrameType
      <3>2. \A u \in Threads : \A k \in At(u) : <<stack[u][k].item>> \notin jobs /\ outcome[stack[u][k].item] = NoResult
        BY DEF PoolInv, Unanswered
      <3>. QED
        BY <1>3, <1>7, <3>1, <3>2
    <2>2. \A j \in Item : <<j>> \in jobs => outcome'[j] = NoResult
      BY <1>7, <1>9 DEF PoolInv, Unanswered
    <2>. QED
      BY <1>0, <1>5, <2>1, <2>2 DEF Unanswered
  <1>11. Forked'
    <2>1. ASSUME NEW j \in Item, NEW f \in Nat, <<j, f>> \in jobs
          PROVE  /\ f \in Functions(j) /\ bodies[j][f] = NoBody
                 /\ \E u \in Threads : \E k \in At(u)' : stack'[u][k].item = j /\ stack'[u][k].phase = "join"
      <3>1. j # i
        BY <2>1
      <3>2. /\ f \in Functions(j) /\ bodies[j][f] = NoBody
            /\ \E u \in Threads : \E k \in At(u) : stack[u][k].item = j /\ stack[u][k].phase = "join"
        BY <2>1 DEF PoolInv, Forked
      <3>. QED
        BY <1>3, <3>1, <3>2
    <2>. QED
      BY <1>0, <1>5, <2>1 DEF Forked
  <1>12. \A j : Grown(j)' = Grown(j)
    BY <1>0, SameItem
  <1>13. Lifted'
    BY <1>3, <1>5, <1>12 DEF PoolInv, Lifted
  <1>14. Content'
    <2>1. \A j \in Item \ {i} : ItemOK(j)'
      BY <1>0, <1>7, SameItem DEF PoolInv, Content
    <2>2. ItemOK(i)'
      <3>1. bodies[i] # <<>> => Grown(i)'
        BY <1>4, <1>12 DEF PoolInv, Content, ItemOK
      <3>2. Parts(i)' = Parts(i) /\ Residual(Parts(i))' = Residual(Parts(i))
        BY <1>0, Constant
      <3>. QED
        BY <1>0, <1>5, <1>8, <3>1, <3>2 DEF ItemOK
    <2>. QED
      BY <1>5, <2>1, <2>2 DEF Content
  <1>15. Returned'
    BY <1>0, StillReturned DEF PoolInv
  <1>. QED
    BY <1>2, <1>6, <1>10, <1>11, <1>13, <1>14, <1>15 DEF PoolInv

\* The frame on top of a stack: its script is unanswered and no job, and while
\* it is not at its join the thread has the scope below it.
LEMMA TopHolds ==
    ASSUME PoolInv, NEW t \in Threads, stack[t] # <<>>
    PROVE  /\ Len(stack[t]) \in At(t) /\ Top(t) = stack[t][Len(stack[t])] /\ Top(t) \in Frames
           /\ Top(t).item \in Item /\ Tried(Top(t)) /\ ProgramOK(items[Top(t).item].program)
           /\ <<Top(t).item>> \notin jobs /\ outcome[Top(t).item] = NoResult
           /\ Top(t).phase # "join" => scope[t] = Below(t, Len(stack[t]))
           /\ Top(t).phase = "join" =>
                /\ scope[t] = Own(Top(t)) /\ Top(t).saved = Below(t, Len(stack[t]))
                /\ Grown(Top(t).item)
  <1>1. Shape /\ StackInv
    BY DEF PoolInv
  <1>2. Len(stack[t]) \in At(t) /\ Len(stack[t]) # 0
    <2>1. stack[t] \in Seq(Frames)
      BY <1>1 DEF Shape
    <2>2. Len(stack[t]) \in Nat /\ Len(stack[t]) > 0
      BY <2>1
    <2>. QED
      BY <2>2 DEF At
  <1>3. Top(t) = stack[t][Len(stack[t])]
    BY DEF Top
  <1>4. Top(t) \in Frames /\ Top(t).item \in Item
    BY <1>1, <1>2, <1>3, FrameType
  <1>5. Tried(Top(t))
    BY <1>1, <1>2, <1>3 DEF StackInv, Leveled
  <1>6. ProgramOK(items[Top(t).item].program)
    BY <1>1, <1>4 DEF Shape
  <1>7. <<Top(t).item>> \notin jobs /\ outcome[Top(t).item] = NoResult
    BY <1>2, <1>3 DEF PoolInv, Unanswered
  <1>8. scope[t] = IF Top(t).phase = "join" THEN Own(Top(t)) ELSE Below(t, Len(stack[t]))
    BY <1>1, <1>2, <1>3 DEF StackInv, Scoped, Current
  <1>9. Top(t).phase = "join" => Top(t).saved = Below(t, Len(stack[t]))
    BY <1>1, <1>2, <1>3 DEF StackInv, Scoped
  <1>10. Top(t).phase = "join" => Grown(Top(t).item)
    BY <1>2, <1>3, <1>4 DEF PoolInv, Lifted
  <1>. QED
    BY <1>2, <1>3, <1>4, <1>5, <1>6, <1>7, <1>8, <1>9, <1>10

\* Lifting failed: an error, as it would be alone.
LEMMA RefusalKeeps ==
    ASSUME PoolInv, NEW t \in Threads, Attempt(t), items[Top(t).item].program.lift # "ok"
    PROVE  PoolInv'
  <1>1. PICK i : i = Top(t).item
    OBVIOUS
  <1>2. stack[t] # <<>> /\ Top(t).phase = "attempt"
    BY DEF Attempt
  <1>3. /\ Pops(t) /\ scope' = [scope EXCEPT ![t] = scope[t]]
        /\ tail' = [tail EXCEPT ![i] = <<>>] /\ outcome' = [outcome EXCEPT ![i] = Error]
        /\ counter' = [counter EXCEPT ![t] = 0]
        /\ UNCHANGED <<items, options, fresh, jobs, base, bodies, results>>
    BY <1>1, <1>2 DEF Attempt, Answer, Pops, ResetIds
  <1>4. Ends(i, <<>>, Error)
    BY <1>3 DEF Ends, PoolInv, Shape
  <1>5. ScopeBecomes(t, Below(t, Len(stack[t])))
    BY <1>2, <1>3, TopHolds DEF ScopeBecomes
  <1>6. Error = Alone(i)
    BY <1>1 DEF Alone
  <1>7. \A f \in Nat : <<i, f>> \notin jobs
    <2>1. ASSUME NEW f \in Nat, <<i, f>> \in jobs PROVE FALSE
      <3>1. i \in Item /\ Len(stack[t]) \in At(t) /\ Top(t) = stack[t][Len(stack[t])]
        BY <1>1, <1>2, TopHolds
      <3>2. \E u \in Threads : \E k \in At(u) : stack[u][k].item = i /\ stack[u][k].phase = "join"
        BY <2>1, <3>1 DEF PoolInv, Forked
      <3>. QED
        BY <1>1, <1>2, <3>1, <3>2 DEF PoolInv, StackInv, OnceOnly
    <2>. QED
      BY <2>1
  <1>8. Error.status # "ok"
    BY DEF Error
  <1>. QED
    BY <1>1, <1>3, <1>4, <1>5, <1>6, <1>7, <1>8, AnswerKeeps

\* What a script with the frame fr on top of t goes on with.
GoesOn(t, fr, i, last) ==
    /\ Sets(t, fr) /\ fr \in Frames /\ fr.item = i /\ i = Top(t).item
    /\ ScopeBecomes(t, IF fr.phase = "join" THEN Own(fr) ELSE Below(t, Len(stack[t])))
    /\ fr.phase = "join" => fr.saved = Below(t, Len(stack[t]))
    /\ last \in {<<>>, TailIds(i)} /\ tail' = [tail EXCEPT ![i] = last]
    /\ counter' \in [Threads -> Nat] /\ scope' \in [Threads -> Scopes]
    /\ UNCHANGED <<items, options, fresh, outcome, results>>

\* Its frame apart, a stack stays as it is.
LEMMA GoesOnHolds ==
    ASSUME PoolInv, NEW t \in Threads, NEW fr, NEW i, NEW last, GoesOn(t, fr, i, last), Tried(fr)
    PROVE  /\ StackInv' /\ Returned' /\ i \in Item /\ Item' = Item
           /\ stack' \in [Threads -> Seq(Frames)] /\ Frames' = Frames /\ Scopes' = Scopes
           /\ \A j : Functions(j)' = Functions(j)
           /\ \A u \in Threads : At(u)' = At(u)
           /\ \A u \in Threads : \A k \in At(u) :
                 /\ stack[u][k].item = i => stack'[u][k] = fr /\ stack[u][k] = Top(t)
                 /\ stack[u][k].item # i => stack'[u][k] = stack[u][k]
                 /\ stack'[u][k].item = stack[u][k].item /\ stack[u][k].item \in Item
           /\ DOMAIN tail' = Item /\ tail' = [j \in Item |-> tail'[j]]
           /\ tail'[i] = last /\ \A j \in Item \ {i} : tail'[j] = tail[j]
           /\ \E u \in Threads : \E k \in At(u) : stack'[u][k] = fr
  <1>1. Shape /\ StackInv /\ SameBatch /\ Sets(t, fr) /\ fr \in Frames /\ fr.item = i /\ i = Top(t).item
    BY DEF PoolInv, SameBatch, GoesOn
  <1>2. StackInv'
    BY <1>1, ReplaceKeeps DEF GoesOn
  <1>3. /\ stack' \in [Threads -> Seq(Frames)]
        /\ Len(stack[t]) \in At(t) /\ Top(t) = stack[t][Len(stack[t])] /\ Top(t) \in Frames
        /\ \A u \in Threads : At(u)' = At(u)
        /\ \A u \in Threads : \A k \in At(u) :
              IF stack[u][k].item = i THEN stack'[u][k] = fr /\ stack[u][k] = Top(t)
              ELSE stack'[u][k] = stack[u][k]
    BY <1>1, Others
  <1>4. i \in Item
    BY <1>1 DEF Frames
  <1>5. \A u \in Threads : \A k \in At(u) : stack[u][k].item \in Item
    BY <1>1, FrameType
  <1>6. \A u \in Threads : \A k \in At(u) :
           /\ stack[u][k].item = i => stack'[u][k] = fr /\ stack[u][k] = Top(t)
           /\ stack[u][k].item # i => stack'[u][k] = stack[u][k]
           /\ stack'[u][k].item = stack[u][k].item
    BY <1>1, <1>3
  <1>7. \E u \in Threads : \E k \in At(u) : stack'[u][k] = fr
    BY <1>1, <1>3
  <1>8. /\ DOMAIN tail' = Item /\ tail' = [j \in Item |-> tail'[j]]
        /\ tail'[i] = last /\ \A j \in Item \ {i} : tail'[j] = tail[j]
    BY <1>1, <1>4 DEF Shape, GoesOn
  <1>9. Item' = Item /\ Frames' = Frames /\ Scopes' = Scopes /\ \A j : Functions(j)' = Functions(j)
    BY Constant DEF GoesOn
  <1>10. Returned'
    BY StillReturned DEF GoesOn, PoolInv
  <1>. QED
    BY <1>2, <1>3, <1>4, <1>5, <1>6, <1>7, <1>8, <1>9, <1>10

\* The script is lifted, and its functions become jobs.
LEMMA ForkKeeps ==
    ASSUME PoolInv, NEW t \in Threads, Attempt(t), items[Top(t).item].program.lift = "ok"
    PROVE  PoolInv'
  <1>1. PICK i : i = Top(t).item
    OBVIOUS
  <1>2. stack[t] # <<>> /\ Top(t).phase = "attempt"
    BY DEF Attempt
  <1>3. /\ i \in Item /\ Top(t) \in Frames /\ Tried(Top(t)) /\ ProgramOK(items[i].program)
        /\ <<i>> \notin jobs /\ outcome[i] = NoResult /\ scope[t] = Below(t, Len(stack[t]))
    BY <1>1, <1>2, TopHolds
  <1>4. PICK fr : fr = [Top(t) EXCEPT !.phase = "join", !.saved = scope[t]]
    OBVIOUS
  <1>5. /\ stack' = SetTop(t, fr) /\ scope' = [scope EXCEPT ![t] = [item |-> i, attempt |-> Top(t).attempt]]
        /\ jobs' = jobs \cup {<<i, f>> : f \in Functions(i)}
        /\ base' = [base EXCEPT ![i] = 0 + items[i].program.locals]
        /\ bodies' = [bodies EXCEPT ![i] = [f \in Functions(i) |-> NoBody]]
        /\ tail' = [tail EXCEPT ![i] = <<>>]
        /\ counter' = [counter EXCEPT ![t] = 0 + items[i].program.locals]
        /\ UNCHANGED <<items, options, fresh, outcome, results>>
    BY <1>1, <1>2, <1>4 DEF Attempt, Answer, ResetIds
  <1>6. Shape /\ 0 + items[i].program.locals = items[i].program.locals /\ items[i].program.locals \in Nat
    BY <1>3 DEF PoolInv, ProgramOK
  <1>7. scope[t] \in Scopes
    BY <1>6 DEF Shape
  <1>8. /\ fr \in Frames /\ fr.item = i /\ fr.phase = "join" /\ fr.saved = scope[t]
        /\ fr.attempt = Top(t).attempt /\ fr.sharing = Top(t).sharing /\ fr.compact = Top(t).compact
    BY <1>1, <1>3, <1>4, <1>7 DEF Frames
  <1>9. Tried(fr)
    BY <1>1, <1>3, <1>8 DEF Tried
  <1>10. GoesOn(t, fr, i, <<>>)
    <2>1. Sets(t, fr) /\ ScopeBecomes(t, IF fr.phase = "join" THEN Own(fr) ELSE Below(t, Len(stack[t])))
      BY <1>2, <1>5, <1>8 DEF Sets, ScopeBecomes, Own
    <2>2. [item |-> i, attempt |-> Top(t).attempt] \in Scopes
      BY <1>3, <1>6 DEF Scopes, Frames, Item, Shape
    <2>3. counter' \in [Threads -> Nat] /\ scope' \in [Threads -> Scopes]
      BY <1>5, <1>6, <2>2 DEF Shape
    <2>. QED
      BY <1>1, <1>3, <1>5, <1>8, <2>1, <2>3 DEF GoesOn
  <1>11. /\ StackInv' /\ Returned' /\ Item' = Item
         /\ stack' \in [Threads -> Seq(Frames)] /\ Frames' = Frames /\ Scopes' = Scopes
         /\ \A j : Functions(j)' = Functions(j)
         /\ \A u \in Threads : At(u)' = At(u)
         /\ \A u \in Threads : \A k \in At(u) :
               /\ stack[u][k].item = i => stack'[u][k] = fr /\ stack[u][k] = Top(t)
               /\ stack[u][k].item # i => stack'[u][k] = stack[u][k]
               /\ stack'[u][k].item = stack[u][k].item /\ stack[u][k].item \in Item
         /\ DOMAIN tail' = Item /\ tail' = [j \in Item |-> tail'[j]]
         /\ tail'[i] = <<>> /\ \A j \in Item \ {i} : tail'[j] = tail[j]
         /\ \E u \in Threads : \E k \in At(u) : stack'[u][k] = fr
    BY <1>9, <1>10, GoesOnHolds
  <1>12. /\ DOMAIN bodies' = Item /\ bodies' = [j \in Item |-> bodies'[j]] /\ base' \in [Item -> Nat]
         /\ bodies'[i] = [f \in Functions(i) |-> NoBody] /\ base'[i] = items[i].program.locals
         /\ \A j \in Item \ {i} : bodies'[j] = bodies[j] /\ base'[j] = base[j]
    BY <1>3, <1>5, <1>6 DEF Shape
  <1>13. Functions(i) \subseteq Nat
    BY DEF Functions
  <1>14. \A j \in Item : <<j>> \in jobs' => <<j>> \in jobs /\ j # i
    BY <1>3, <1>5, JobsDiffer
  <1>15. Shape'
    <2>1. jobs' \subseteq ({<<j>> : j \in Item} \cup (Item \X Nat))
      BY <1>3, <1>5, <1>6, <1>13 DEF Shape
    <2>2. counter' \in [Threads -> Nat] /\ scope' \in [Threads -> Scopes']
      BY <1>10, <1>11 DEF GoesOn
    <2>3. /\ Len(items') \in Nat /\ \A j \in Item' : ProgramOK(items'[j].program)
          /\ options'.strict \in BOOLEAN /\ options'.compact \in BOOLEAN
      BY <1>5, <1>6, <1>11 DEF Shape
    <2>4. stack' \in [Threads -> Seq(Frames')] /\ base' \in [Item' -> Nat]
      BY <1>11, <1>12
    <2>5. DOMAIN bodies' = Item' /\ bodies' = [j \in Item' |-> bodies'[j]]
      BY <1>11, <1>12
    <2>6. DOMAIN tail' = Item' /\ tail' = [j \in Item' |-> tail'[j]]
      BY <1>11
    <2>7. DOMAIN outcome' = Item' /\ outcome' = [j \in Item' |-> outcome'[j]]
      BY <1>5, <1>6, <1>11 DEF Shape
    <2>. QED
      BY <1>11, <2>1, <2>2, <2>3, <2>4, <2>5, <2>6, <2>7 DEF Shape
  <1>16. Unanswered'
    <2>1. ASSUME NEW u \in Threads, NEW k \in At(u)
          PROVE  <<stack'[u][k].item>> \notin jobs' /\ outcome[stack'[u][k].item] = NoResult
      <3>1. <<stack[u][k].item>> \notin jobs /\ outcome[stack[u][k].item] = NoResult
        BY DEF PoolInv, Unanswered
      <3>2. stack'[u][k].item = stack[u][k].item /\ stack[u][k].item \in Item
        BY <1>11
      <3>. QED
        BY <1>14, <3>1, <3>2
    <2>2. \A j \in Item : <<j>> \in jobs' => outcome[j] = NoResult
      BY <1>14 DEF PoolInv, Unanswered
    <2>. QED
      BY <1>5, <1>11, <2>1, <2>2 DEF Unanswered
  <1>17. Forked'
    <2>1. ASSUME NEW j \in Item, NEW f \in Nat, <<j, f>> \in jobs'
          PROVE  /\ f \in Functions(j) /\ bodies'[j][f] = NoBody
                 /\ \E u \in Threads : \E k \in At(u) : stack'[u][k].item = j /\ stack'[u][k].phase = "join"
      <3>1. CASE j = i
        <4>1. f \in Functions(i)
          <5>1. CASE <<j, f>> \in jobs
            BY <2>1, <3>1, <5>1 DEF PoolInv, Forked
          <5>2. CASE <<j, f>> \notin jobs
            BY <1>5, <2>1, <3>1, <5>2
          <5>. QED
            BY <5>1, <5>2
        <4>. QED
          BY <1>8, <1>11, <1>12, <3>1, <4>1
      <3>2. CASE j # i
        <4>1. <<j, f>> \in jobs
          BY <1>5, <2>1, <3>2
        <4>2. /\ f \in Functions(j) /\ bodies[j][f] = NoBody
              /\ \E u \in Threads : \E k \in At(u) : stack[u][k].item = j /\ stack[u][k].phase = "join"
          BY <2>1, <4>1 DEF PoolInv, Forked
        <4>. QED
          BY <1>11, <1>12, <3>2, <4>2
      <3>. QED
        BY <3>1, <3>2
    <2>. QED
      BY <1>11, <2>1 DEF Forked
  <1>18. \A j \in Item \ {i} : Grown(j)' = Grown(j) /\ ItemOK(j)' = ItemOK(j)
    BY <1>5, <1>11, <1>12, SameItem
  <1>19. Grown(i)'
    <2>1. items' = items /\ Functions(i)' = Functions(i)
      BY <1>5, <1>11
    <2>2. bodies'[i] = [f \in Functions(i) |-> NoBody] /\ base'[i] = items[i].program.locals
      BY <1>12
    <2>3. items[i].program.lift = "ok"
      BY <1>1
    <2>. QED
      BY <2>1, <2>2, <2>3 DEF Grown
  <1>20. Lifted'
    <2>1. ASSUME NEW u \in Threads, NEW k \in At(u), NEW j \in Item,
                 stack'[u][k].item = j, stack'[u][k].phase = "join"
          PROVE  Grown(j)'
      <3>1. CASE j = i
        BY <1>19, <3>1
      <3>2. CASE j # i
        <4>1. stack[u][k].item = j /\ stack[u][k].phase = "join"
          BY <1>11, <2>1, <3>2
        <4>2. Grown(j)
          BY <4>1 DEF PoolInv, Lifted
        <4>. QED
          BY <1>18, <3>2, <4>2
      <3>. QED
        BY <3>1, <3>2
    <2>2. Item' = Item /\ \A u \in Threads : At(u)' = At(u)
      BY <1>11
    <2>. QED
      BY <2>1, <2>2 DEF Lifted
  <1>21. Content'
    <2>1. ItemOK(i)'
      BY <1>3, <1>5, <1>11, <1>19 DEF ItemOK, NoResult
    <2>. QED
      BY <1>11, <1>18, <2>1 DEF PoolInv, Content
  <1>. QED
    BY <1>11, <1>15, <1>16, <1>17, <1>20, <1>21 DEF PoolInv

LEMMA AttemptKeeps ==
    ASSUME PoolInv, NEW t \in Threads, Attempt(t)
    PROVE  PoolInv'
  BY RefusalKeeps, ForkKeeps

\* A script whose level was not enough begins again with the next.
LEMMA NextLevel ==
    ASSUME NEW fr \in Frames, Tried(fr), ProgramOK(items[fr.item].program), OverLimit(fr),
           options.compact \in BOOLEAN, fr.sharing < 2 \/ ~fr.compact
    PROVE  /\ Retried(fr) \in Frames /\ Tried(Retried(fr))
           /\ Retried(fr).item = fr.item /\ Retried(fr).phase = "attempt"
  <1>1. /\ fr.sharing \in 0..2 /\ fr.compact \in BOOLEAN /\ fr.attempt \in 1..4
        /\ items[fr.item].program.excess \in Nat
        /\ items[fr.item].program.excess > fr.sharing + IF fr.compact THEN 1 ELSE 0
    BY DEF Frames, ProgramOK, OverLimit, Level
  <1>2. fr.attempt + 1 \in 1..4
    BY <1>1 DEF Tried
  <1>3. PICK g : g = Retried(fr)
    OBVIOUS
  <1>4. /\ g.item = fr.item /\ g.phase = "attempt" /\ g.attempt = fr.attempt + 1
        /\ g.sharing = (IF fr.sharing < 2 THEN fr.sharing + 1 ELSE fr.sharing)
        /\ g.compact = (fr.sharing = 2 \/ fr.compact) /\ g.saved = fr.saved
    BY <1>3 DEF Retried, Frames
  <1>5. g \in Frames
    <2>1. g.sharing \in 0..2 /\ g.compact \in BOOLEAN
      BY <1>1, <1>4
    <2>2. g = [item |-> g.item, phase |-> g.phase, attempt |-> g.attempt, sharing |-> g.sharing,
               compact |-> g.compact, saved |-> g.saved]
      BY <1>3 DEF Retried, Frames
    <2>. QED
      BY <1>2, <1>4, <2>1, <2>2 DEF Frames
  <1>6. Tried(g)
    <2>1. CASE fr.sharing < 2
      <3>1. g.sharing = fr.sharing + 1 /\ g.compact = fr.compact
        BY <1>1, <1>4, <2>1
      <3>2. items[g.item].program.excess >= Level(g.sharing, g.compact)
        BY <1>1, <1>4, <3>1 DEF Level
      <3>. QED
        BY <1>1, <1>4, <2>1, <3>1, <3>2 DEF Tried
    <2>2. CASE fr.sharing = 2 /\ ~fr.compact
      <3>4. ~options.compact
        BY <2>2, Zenon DEF Tried
      <3>5. g.compact
        BY <1>4, <2>2, Zenon
      <3>6. g.sharing = 2
        BY <1>4, <2>2
      <3>1. g.sharing = 2 /\ g.compact /\ ~options.compact
        BY <3>4, <3>5, <3>6, Zenon
      <3>2. items[g.item].program.excess >= Level(g.sharing, g.compact)
        BY <1>1, <1>4, <2>2, <3>1 DEF Level
      <3>3. g.attempt = 4
        BY <1>4, <2>2, <3>1 DEF Tried
      <3>. QED
        BY <3>1, <3>2, <3>3 DEF Tried
    <2>. QED
      BY <1>1, <2>1, <2>2
  <1>. QED
    BY <1>3, <1>4, <1>5, <1>6

\* When all the functions of a script are done, their bodies are those it gets
\* on its own.
LEMMA AllDone ==
    ASSUME NEW i, Grown(i), \A f \in Functions(i) : bodies[i][f] # NoBody
    PROVE  bodies[i] = Parts(i)
  BY DEF Grown, Parts

\* A function is decompiled, wherever its thread comes from, as it is alone.
LEMMA FunctionKeeps ==
    ASSUME PoolInv, NEW t \in Threads, NEW i \in Item, NEW f \in Functions(i), Function(t, i, f)
    PROVE  PoolInv'
  <1>1. PICK body : body = Decompiled(items[i].program.functions[f], base[i] + (f - 1) * Stride)
    OBVIOUS
  <1>2. /\ <<i, f>> \in jobs /\ jobs' = jobs \ {<<i, f>>}
        /\ counter' = [counter EXCEPT ![t] = body.end]
        /\ bodies' = [bodies EXCEPT ![i][f] = [kind |-> body.kind, ids |-> body.ids]]
        /\ UNCHANGED <<items, options, fresh, stack, scope, base, tail, outcome, results>>
    BY <1>1 DEF Function, SetBase
  <1>3. Shape /\ StackInv /\ ProgramOK(items[i].program)
    BY DEF PoolInv, Shape
  <1>4. f \in Nat /\ f >= 1 /\ items[i].program.functions[f] \in Fates
    BY <1>3 DEF ProgramOK, Functions
  <1>5. bodies[i][f] = NoBody /\ Grown(i) /\ outcome[i] = NoResult
    <2>1. bodies[i][f] = NoBody
      BY <1>2, <1>4 DEF PoolInv, Forked
    <2>2. \E u \in Threads : \E k \in At(u) : stack[u][k].item = i /\ stack[u][k].phase = "join"
      BY <1>2, <1>4 DEF PoolInv, Forked
    <2>3. Grown(i)
      BY <2>2 DEF PoolInv, Lifted
    <2>4. outcome[i] = NoResult
      BY <2>2 DEF PoolInv, Unanswered
    <2>. QED
      BY <2>1, <2>3, <2>4
  <1>6. base[i] + (f - 1) * Stride \in Nat
    <2>1. base[i] \in Nat /\ Stride \in Nat /\ f - 1 \in Nat
      BY <1>3, <1>4, StrideAssumption DEF Shape
    <2>2. (f - 1) * Stride \in Nat
      BY <2>1
    <2>. QED
      BY <2>1, <2>2
  <1>7. body.end \in Nat
    BY <1>1, <1>4, <1>6, DecompiledHolds
  <1>8. Part(i, f) = [kind |-> body.kind, ids |-> body.ids]
    BY <1>1, <1>5 DEF Part, Grown
  <1>9. /\ DOMAIN bodies' = Item /\ bodies' = [j \in Item |-> bodies'[j]]
        /\ bodies'[i] = [bodies[i] EXCEPT ![f] = Part(i, f)]
        /\ \A j \in Item \ {i} : bodies'[j] = bodies[j]
    BY <1>2, <1>3, <1>8 DEF Shape
  <1>10. /\ bodies'[i] = [g \in Functions(i) |-> bodies'[i][g]]
         /\ bodies'[i][f] = Part(i, f) /\ \A g \in Functions(i) \ {f} : bodies'[i][g] = bodies[i][g]
    <2>1. bodies[i] = [g \in Functions(i) |-> bodies[i][g]]
      BY <1>5 DEF Grown
    <2>. QED
      BY <1>9, <2>1
  <1>11. /\ Item' = Item /\ Frames' = Frames /\ Scopes' = Scopes
         /\ \A j : Functions(j)' = Functions(j) /\ \A g : Part(j, g)' = Part(j, g)
         /\ \A u \in Threads : At(u)' = At(u)
    BY <1>2, Constant DEF At
  <1>12. Shape'
    BY <1>2, <1>3, <1>7, <1>9, <1>11 DEF Shape
  <1>13. StackInv'
    <2>1. OnceOnly' /\ OnlyTopMoves'
      BY <1>2, <1>3 DEF StackInv, OnceOnly, OnlyTopMoves, At
    <2>2. Scoped'
      BY <1>2, <1>3 DEF StackInv, Scoped, At, Current, Below, Own
    <2>3. \A x : Tried(x)' = Tried(x)
      BY <1>2, Constant
    <2>4. Leveled'
      BY <1>2, <1>3, <2>3 DEF StackInv, Leveled, At
    <2>. QED
      BY <2>1, <2>2, <2>4 DEF StackInv
  <1>14. Unanswered'
    BY <1>2, <1>11 DEF PoolInv, Unanswered
  <1>15. Forked'
    <2>1. ASSUME NEW j \in Item, NEW g \in Nat, <<j, g>> \in jobs'
          PROVE  /\ g \in Functions(j) /\ bodies'[j][g] = NoBody
                 /\ \E u \in Threads : \E k \in At(u) : stack[u][k].item = j /\ stack[u][k].phase = "join"
      <3>1. <<j, g>> \in jobs /\ ~(j = i /\ g = f)
        BY <1>2, <2>1
      <3>2. /\ g \in Functions(j) /\ bodies[j][g] = NoBody
            /\ \E u \in Threads : \E k \in At(u) : stack[u][k].item = j /\ stack[u][k].phase = "join"
        BY <3>1 DEF PoolInv, Forked
      <3>3. bodies'[j][g] = bodies[j][g]
        BY <1>9, <1>10, <3>1, <3>2
      <3>. QED
        BY <3>2, <3>3
    <2>. QED
      BY <1>2, <1>11, <2>1 DEF Forked
  <1>16. \A j \in Item \ {i} : Grown(j)' = Grown(j) /\ ItemOK(j)' = ItemOK(j)
    BY <1>2, <1>9, SameItem
  <1>17. Grown(i)'
    <2>1. \A g \in Functions(i) : bodies'[i][g] \in {NoBody, Part(i, g)}
      BY <1>5, <1>10 DEF Grown
    <2>. QED
      BY <1>2, <1>5, <1>10, <1>11, <2>1 DEF Grown
  <1>18. Lifted'
    BY <1>2, <1>11, <1>16, <1>17 DEF PoolInv, Lifted
  <1>19. Content'
    <2>1. outcome'[i] = NoResult /\ tail'[i] \in {<<>>, TailIds(i)'} /\ NoResult.status # "ok"
      BY <1>2, <1>5, Constant DEF PoolInv, Content, ItemOK, NoResult
    <2>2. ItemOK(i)'
      BY <1>17, <2>1 DEF ItemOK
    <2>. QED
      BY <1>11, <1>16, <2>2 DEF PoolInv, Content
  <1>20. Returned'
    BY <1>2, StillReturned DEF PoolInv
  <1>. QED
    BY <1>12, <1>13, <1>14, <1>15, <1>18, <1>19, <1>20 DEF PoolInv

\* The tail of a script whose functions are done: what it starts from.
LEMMA TailHolds ==
    ASSUME PoolInv, NEW t \in Threads, SerialTail(t)
    PROVE  LET i == Top(t).item
           IN /\ stack[t] # <<>> /\ Top(t).phase = "join" /\ Grown(i) /\ bodies[i] = Parts(i)
              /\ \A f \in Nat : <<i, f>> \notin jobs
              /\ counter' \in [Threads -> Nat] /\ tail' = [tail EXCEPT ![i] = TailIds(i)]
  <1>1. PICK i : i = Top(t).item
    OBVIOUS
  <1>2. PICK start : start = base[i] + Len(items[i].program.functions) * Stride
    OBVIOUS
  <1>3. /\ stack[t] # <<>> /\ Top(t).phase = "join" /\ \A f \in Functions(i) : bodies[i][f] # NoBody
        /\ counter' = [counter EXCEPT ![t] = start + TailLocals]
        /\ tail' = [tail EXCEPT ![i] = Mint(start, TailLocals)]
    BY <1>1, <1>2 DEF SerialTail, SetBase
  <1>4. i \in Item /\ Grown(i) /\ ProgramOK(items[i].program)
    BY <1>1, <1>3, TopHolds
  <1>5. bodies[i] = Parts(i)
    BY <1>3, <1>4, AllDone
  <1>6. \A f \in Nat : <<i, f>> \notin jobs
    BY <1>3, <1>4 DEF PoolInv, Forked
  <1>7. start \in Nat
    <2>1. base[i] \in Nat /\ Stride \in Nat /\ Len(items[i].program.functions) \in Nat
      BY <1>4, StrideAssumption DEF PoolInv, Shape, ProgramOK
    <2>2. Len(items[i].program.functions) * Stride \in Nat
      BY <2>1
    <2>. QED
      BY <1>2, <2>1, <2>2
  <1>8. Mint(start, TailLocals) = TailIds(i)
    BY <1>2, <1>4 DEF TailIds, Grown
  <1>9. counter' \in [Threads -> Nat]
    BY <1>3, <1>7 DEF PoolInv, Shape, TailLocals
  <1>. QED
    BY <1>1, <1>3, <1>4, <1>5, <1>6, <1>8, <1>9

\* How a tail ends: with a retry, or with an answer.
Failed(i) == items[i].program.tail = "panic" \/ Residual(bodies[i])
Retries(t) == OverLimit(Top(t)) /\ ~Failed(Top(t).item) /\ (Top(t).sharing < 2 \/ ~Top(t).compact)

LEMMA RetryKeeps ==
    ASSUME PoolInv, NEW t \in Threads, SerialTail(t), Retries(t)
    PROVE  PoolInv'
  <1>1. PICK i, fr : i = Top(t).item /\ fr = Retried(Top(t))
    OBVIOUS
  <1>2. /\ stack[t] # <<>> /\ Top(t).phase = "join" /\ Grown(i) /\ bodies[i] = Parts(i)
        /\ \A f \in Nat : <<i, f>> \notin jobs
        /\ counter' \in [Threads -> Nat] /\ tail' = [tail EXCEPT ![i] = TailIds(i)]
    BY <1>1, TailHolds
  <1>3. /\ stack' = SetTop(t, fr) /\ scope' = [scope EXCEPT ![t] = Top(t).saved]
        /\ UNCHANGED <<items, options, fresh, jobs, base, bodies, outcome, results>>
    BY <1>1 DEF SerialTail, Retries, Failed
  <1>4. /\ i \in Item /\ Top(t) \in Frames /\ Tried(Top(t)) /\ ProgramOK(items[i].program)
        /\ outcome[i] = NoResult /\ Top(t).saved = Below(t, Len(stack[t])) /\ <<i>> \notin jobs
    BY <1>1, <1>2, TopHolds
  <1>5. Shape /\ options.compact \in BOOLEAN
    BY DEF PoolInv, Shape
  <1>6. fr \in Frames /\ Tried(fr) /\ fr.item = i /\ fr.phase = "attempt"
    BY <1>1, <1>4, <1>5, NextLevel DEF Retries
  <1>7. GoesOn(t, fr, i, TailIds(i))
    <2>1. Sets(t, fr) /\ ScopeBecomes(t, IF fr.phase = "join" THEN Own(fr) ELSE Below(t, Len(stack[t])))
      BY <1>2, <1>3, <1>4, <1>6 DEF Sets, ScopeBecomes
    <2>2. scope' \in [Threads -> Scopes]
      BY <1>3, <1>4, <1>5 DEF Shape, Frames
    <2>. QED
      BY <1>1, <1>2, <1>3, <1>6, <2>1, <2>2 DEF GoesOn
  <1>8. /\ StackInv' /\ Returned' /\ Item' = Item
        /\ stack' \in [Threads -> Seq(Frames)] /\ Frames' = Frames /\ Scopes' = Scopes
        /\ \A j : Functions(j)' = Functions(j)
        /\ \A u \in Threads : At(u)' = At(u)
        /\ \A u \in Threads : \A k \in At(u) :
              /\ stack[u][k].item = i => stack'[u][k] = fr /\ stack[u][k] = Top(t)
              /\ stack[u][k].item # i => stack'[u][k] = stack[u][k]
              /\ stack'[u][k].item = stack[u][k].item /\ stack[u][k].item \in Item
        /\ DOMAIN tail' = Item /\ tail' = [j \in Item |-> tail'[j]]
        /\ tail'[i] = TailIds(i) /\ \A j \in Item \ {i} : tail'[j] = tail[j]
    BY <1>6, <1>7, GoesOnHolds
  <1>9. Shape'
    BY <1>3, <1>5, <1>7, <1>8 DEF Shape, GoesOn
  <1>10. Unanswered'
    <2>1. ASSUME NEW u \in Threads, NEW k \in At(u)
          PROVE  <<stack'[u][k].item>> \notin jobs /\ outcome[stack'[u][k].item] = NoResult
      <3>1. <<stack[u][k].item>> \notin jobs /\ outcome[stack[u][k].item] = NoResult
        BY DEF PoolInv, Unanswered
      <3>2. stack'[u][k].item = stack[u][k].item
        BY <1>8
      <3>. QED
        BY <3>1, <3>2
    <2>2. \A j \in Item : <<j>> \in jobs => outcome[j] = NoResult
      BY DEF PoolInv, Unanswered
    <2>. QED
      BY <1>3, <1>8, <2>1, <2>2 DEF Unanswered
  <1>11. Forked'
    <2>1. ASSUME NEW j \in Item, NEW f \in Nat, <<j, f>> \in jobs
          PROVE  /\ f \in Functions(j) /\ bodies[j][f] = NoBody
                 /\ \E u \in Threads : \E k \in At(u) : stack'[u][k].item = j /\ stack'[u][k].phase = "join"
      <3>1. j # i
        BY <1>2, <2>1
      <3>2. /\ f \in Functions(j) /\ bodies[j][f] = NoBody
            /\ \E u \in Threads : \E k \in At(u) : stack[u][k].item = j /\ stack[u][k].phase = "join"
        BY <2>1 DEF PoolInv, Forked
      <3>. QED
        BY <1>8, <3>1, <3>2
    <2>. QED
      BY <1>3, <1>8, <2>1 DEF Forked
  <1>12. \A j : Grown(j)' = Grown(j)
    BY <1>3, SameItem
  <1>13. Lifted'
    <2>1. ASSUME NEW u \in Threads, NEW k \in At(u), NEW j \in Item,
                 stack'[u][k].item = j, stack'[u][k].phase = "join"
          PROVE  Grown(j)
      <3>1. stack[u][k].item = j /\ stack[u][k].phase = "join"
        BY <1>6, <1>8, <2>1
      <3>. QED
        BY <3>1 DEF PoolInv, Lifted
    <2>2. Item' = Item /\ \A u \in Threads : At(u)' = At(u)
      BY <1>8
    <2>. QED
      BY <1>12, <2>1, <2>2 DEF Lifted
  <1>14. Content'
    <2>1. \A j \in Item \ {i} : ItemOK(j)' = ItemOK(j)
      BY <1>3, <1>8, SameItem
    <2>2. ItemOK(i)'
      <3>1. outcome'[i] = NoResult /\ tail'[i] = TailIds(i)' /\ NoResult.status # "ok"
        BY <1>3, <1>4, <1>8, Constant DEF NoResult
      <3>. QED
        BY <1>2, <1>12, <3>1 DEF ItemOK
    <2>. QED
      BY <1>8, <2>1, <2>2 DEF PoolInv, Content
  <1>. QED
    BY <1>8, <1>9, <1>10, <1>11, <1>13, <1>14 DEF PoolInv

\* The attempt at which the limits hold is the first at which they could.
LEMMA LevelReached ==
    ASSUME NEW fr \in Frames, Tried(fr), ProgramOK(items[fr.item].program), ~OverLimit(fr)
    PROVE  fr.attempt = Reached(items[fr.item].program.excess) /\ items[fr.item].program.excess <= 3
  <1>1. PICK excess \in Nat : excess = items[fr.item].program.excess
    BY DEF ProgramOK
  <1>2. fr.sharing \in 0..2 /\ fr.compact \in BOOLEAN /\ fr.attempt \in 1..4
    BY DEF Frames
  <1>3. PICK level \in 0..3 : level = Level(fr.sharing, fr.compact)
    <2>1. CASE fr.compact
      <3>1. Level(fr.sharing, fr.compact) = fr.sharing + 1
        BY <2>1 DEF Level
      <3>. QED
        BY <1>2, <3>1
    <2>2. CASE ~fr.compact
      <3>1. Level(fr.sharing, fr.compact) = fr.sharing + 0
        BY <2>2 DEF Level
      <3>. QED
        BY <1>2, <3>1
    <2>. QED
      BY <2>1, <2>2
  <1>4. excess <= level
    BY <1>1, <1>3 DEF OverLimit
  <1>5. fr.attempt > 1 => excess >= level
    BY <1>1, <1>3 DEF Tried
  <1>6. fr.attempt = Reached(excess)
    <2>1. CASE options.compact
      <3>1. fr.compact /\ fr.attempt = fr.sharing + 1
        BY <2>1, Zenon DEF Tried
      <3>2. level = fr.sharing + 1
        BY <1>3, <3>1 DEF Level
      <3>. QED
        BY <1>2, <1>4, <1>5, <2>1, <3>1, <3>2 DEF Reached
    <2>2. CASE ~options.compact /\ fr.compact
      <3>1. fr.sharing = 2 /\ fr.attempt = 4
        BY <2>2, Zenon DEF Tried
      <3>2. level = fr.sharing + 1
        BY <1>3, <2>2 DEF Level
      <3>. QED
        BY <1>4, <1>5, <2>2, <3>1, <3>2 DEF Reached
    <2>3. CASE ~options.compact /\ ~fr.compact
      <3>1. fr.attempt = fr.sharing + 1
        BY <2>3, Zenon DEF Tried
      <3>2. level = fr.sharing + 0
        BY <1>3, <2>3 DEF Level
      <3>. QED
        BY <1>2, <1>4, <1>5, <2>3, <3>1, <3>2 DEF Reached
    <2>. QED
      BY <2>1, <2>2, <2>3
  <1>. QED
    BY <1>1, <1>3, <1>4, <1>6

\* What an attempt that is not repeated answers is what the script gets alone.
LEMMA AnswerAlone ==
    ASSUME NEW fr \in Frames, NEW i, i = fr.item, Tried(fr), ProgramOK(items[i].program), Grown(i),
           bodies[i] = Parts(i), ~(OverLimit(fr) /\ ~Failed(i) /\ (fr.sharing < 2 \/ ~fr.compact)),
           NEW result, result = IF Failed(i) \/ OverLimit(fr) THEN Error ELSE Output(i, bodies[i], TailIds(i), Own(fr))
    PROVE  /\ result = Alone(i)
           /\ result.status = "ok" => ~Residual(Parts(i))
  <1>1. PICK excess \in Nat : excess = items[i].program.excess
    BY DEF ProgramOK
  <1>2. Failed(i) <=> items[i].program.tail = "panic" \/ Residual(Parts(i))
    BY DEF Failed
  <1>3. items[i].program.lift = "ok" /\ Error.status # "ok"
    BY DEF Grown, Error
  <1>4. CASE Failed(i)
    BY <1>2, <1>3, <1>4 DEF Alone
  <1>5. CASE ~Failed(i) /\ OverLimit(fr)
    <2>1. fr.sharing \in 0..2 /\ ~(fr.sharing < 2) /\ fr.compact
      BY <1>5 DEF Frames
    <2>2. Level(fr.sharing, fr.compact) = 3
      BY <2>1 DEF Level
    <2>3. excess > 3
      BY <1>1, <1>5, <2>2 DEF OverLimit
    <2>4. Alone(i) = Error
      BY <1>1, <2>3 DEF Alone
    <2>. QED
      BY <1>3, <1>5, <2>4
  <1>6. CASE ~Failed(i) /\ ~OverLimit(fr)
    <2>1. fr.attempt = Reached(excess) /\ excess <= 3
      BY <1>1, <1>6, LevelReached
    <2>2. result = Output(i, Parts(i), TailIds(i), [item |-> i, attempt |-> Reached(excess)])
      BY <1>6, <2>1 DEF Own
    <2>3. Alone(i) = Output(i, Parts(i), TailIds(i), [item |-> i, attempt |-> Reached(excess)])
      BY <1>1, <1>2, <1>3, <1>6, <2>1 DEF Alone
    <2>. QED
      BY <1>2, <1>6, <2>2, <2>3
  <1>. QED
    BY <1>4, <1>5, <1>6

LEMMA FinishKeeps ==
    ASSUME PoolInv, NEW t \in Threads, SerialTail(t), ~Retries(t)
    PROVE  PoolInv'
  <1>1. PICK i, fr : i = Top(t).item /\ fr = Top(t)
    OBVIOUS
  <1>2. /\ stack[t] # <<>> /\ fr.phase = "join" /\ Grown(i) /\ bodies[i] = Parts(i)
        /\ \A f \in Nat : <<i, f>> \notin jobs
        /\ counter' \in [Threads -> Nat] /\ tail' = [tail EXCEPT ![i] = TailIds(i)]
    BY <1>1, TailHolds
  <1>3. /\ i \in Item /\ fr \in Frames /\ Tried(fr) /\ ProgramOK(items[i].program)
        /\ scope[t] = Own(fr) /\ fr.saved = Below(t, Len(stack[t]))
    BY <1>1, <1>2, TopHolds
  <1>4. PICK last : last = Mint(base[i] + Len(items[i].program.functions) * Stride, TailLocals)
    OBVIOUS
  <1>5. last = TailIds(i)
    BY <1>2, <1>4 DEF TailIds, Grown
  <1>6. PICK result : result = IF Failed(i) \/ OverLimit(fr) THEN Error ELSE Output(i, bodies[i], last, scope[t])
    OBVIOUS
  <1>7. /\ outcome' = [outcome EXCEPT ![i] = result] /\ stack' = Pop(t)
        /\ scope' = [scope EXCEPT ![t] = fr.saved]
        /\ UNCHANGED <<items, options, fresh, jobs, base, bodies, results>>
    BY <1>1, <1>4, <1>6 DEF SerialTail, Retries, Failed, Answer, SetBase
  <1>8. result = Alone(i) /\ (result.status = "ok" => ~Residual(Parts(i)))
    BY <1>1, <1>2, <1>3, <1>5, <1>6, AnswerAlone DEF Retries
  <1>9. Ends(i, TailIds(i), result) /\ Pops(t) /\ ScopeBecomes(t, Below(t, Len(stack[t])))
    BY <1>2, <1>3, <1>7 DEF Ends, Pops, ScopeBecomes
  <1>. QED
    BY <1>1, <1>2, <1>8, <1>9, AnswerKeeps

LEMMA SerialTailKeeps ==
    ASSUME PoolInv, NEW t \in Threads, SerialTail(t)
    PROVE  PoolInv'
  BY RetryKeeps, FinishKeeps

LEMMA ReturnKeeps ==
    ASSUME PoolInv, Return
    PROVE  PoolInv'
  <1>1. /\ results' = [i \in Item |-> outcome[Representative(i)]]
        /\ \A i \in Item : outcome[Representative(i)] # NoResult
        /\ UNCHANGED <<items, options, fresh, jobs, stack, counter, scope, base, bodies, tail, outcome>>
    BY DEF Return
  <1>2. /\ Item' = Item /\ Frames' = Frames /\ Scopes' = Scopes
        /\ \A j : Functions(j)' = Functions(j) /\ Alone(j)' = Alone(j) /\ Representative(j)' = Representative(j)
        /\ \A u \in Threads : At(u)' = At(u)
    BY <1>1, Constant DEF At
  <1>3. Shape'
    BY <1>1, <1>2 DEF PoolInv, Shape
  <1>4. StackInv'
    <2>1. OnceOnly' /\ OnlyTopMoves'
      BY <1>1 DEF PoolInv, StackInv, OnceOnly, OnlyTopMoves, At
    <2>2. Scoped'
      BY <1>1 DEF PoolInv, StackInv, Scoped, At, Current, Below, Own
    <2>3. \A x : Tried(x)' = Tried(x)
      BY <1>1, Constant
    <2>4. Leveled'
      BY <1>1, <2>3 DEF PoolInv, StackInv, Leveled, At
    <2>. QED
      BY <2>1, <2>2, <2>4 DEF StackInv
  <1>5. Unanswered' /\ Forked'
    BY <1>1, <1>2 DEF PoolInv, Unanswered, Forked
  <1>6. \A j : Grown(j)' = Grown(j) /\ ItemOK(j)' = ItemOK(j)
    BY <1>1, SameItem
  <1>7. Lifted' /\ Content'
    BY <1>1, <1>2, <1>6 DEF PoolInv, Lifted, Content
  <1>8. Returned'
    <2>1. ASSUME NEW i \in Item, NEW j \in Item, j = Representative(i)
          PROVE  results'[i] = Alone(j)
      <3>1. outcome[j] = Alone(j)
        BY <1>1, <2>1 DEF PoolInv, Content, ItemOK
      <3>. QED
        BY <1>1, <2>1, <3>1
    <2>. QED
      BY <1>2, <2>1 DEF Returned
  <1>. QED
    BY <1>3, <1>4, <1>5, <1>7, <1>8 DEF PoolInv

\* A nonempty set of numbers has a least one.
LEMMA LeastNumber ==
    ASSUME NEW S \in SUBSET Nat, S # {}
    PROVE  \E x \in S : \A y \in S : x <= y
  <1>1. PICK x \in S : \A y \in S : <<y, x>> \notin OpToRel(<, Nat)
    BY NatLessThanWellFounded, WFMin
  <1>2. \A y \in S : ~(y < x)
    BY <1>1 DEF OpToRel
  <1>. QED
    BY <1>2

\* An item is decompiled in place of those equal to it: the first of them.
LEMMA RepresentativeHolds ==
    ASSUME Len(items) \in Nat, NEW i \in Item
    PROVE  Representative(i) \in Item /\ Context(Representative(i)) = Context(i)
  <1>. DEFINE Same == {j \in Item : Context(j) = Context(i)}
  <1>1. CASE fresh \/ Len(items) < 2
    BY <1>1 DEF Representative
  <1>2. CASE ~(fresh \/ Len(items) < 2)
    <2>1. Same \in SUBSET Nat /\ Same # {}
      BY DEF Item
    <2>2. \E j \in Same : \A k \in Same : j <= k
      BY <2>1, LeastNumber
    <2>4. \E m \in Item : Context(m) = Context(i) /\ \A k \in Item : Context(k) = Context(i) => m <= k
      BY <2>2
    <2>. QED
      BY <1>2, <2>4 DEF Representative
  <1>. QED
    BY <1>1, <1>2

\* At the start.
LEMMA PoolStarts ==
    ASSUME Init
    PROVE  PoolInv
  <1>1. PICK b \in Batches : items = b.items /\ options = b.options
    BY DEF Init
  <1>2. /\ Len(items) \in Nat /\ \A i \in Item : ProgramOK(items[i].program)
        /\ options.strict \in BOOLEAN /\ options.compact \in BOOLEAN
    <2>1. /\ b.items \in Seq({b.items[i] : i \in DOMAIN b.items})
          /\ \A i \in 1..Len(b.items) : ProgramOK(b.items[i].program)
          /\ b.options.strict \in BOOLEAN /\ b.options.compact \in BOOLEAN
      BY ProgramAssumption
    <2>2. Len(b.items) \in Nat
      BY <2>1
    <2>. QED
      BY <1>1, <2>1, <2>2 DEF Item
  <1>3. /\ jobs = {<<Representative(i)>> : i \in Item}
        /\ stack = [t \in Threads |-> <<>>] /\ counter = [t \in Threads |-> 0]
        /\ scope = [t \in Threads |-> NoScope] /\ base = [i \in Item |-> 0]
        /\ bodies = [i \in Item |-> <<>>] /\ tail = [i \in Item |-> <<>>]
        /\ outcome = [i \in Item |-> NoResult] /\ results = <<>>
    BY DEF Init
  <1>4. \A t \in Threads : Len(stack[t]) = 0 /\ At(t) = {}
    BY <1>3 DEF At
  <1>5. Shape
    <2>1. jobs \subseteq ({<<i>> : i \in Item} \cup (Item \X Nat))
      BY <1>2, <1>3, RepresentativeHolds
    <2>2. stack \in [Threads -> Seq(Frames)]
      BY <1>3
    <2>3. scope \in [Threads -> Scopes]
      BY <1>2, <1>3 DEF Scopes, NoScope
    <2>. QED
      BY <1>2, <1>3, <2>1, <2>2, <2>3 DEF Shape
  <1>6. StackInv
    <2>1. Scoped
      BY <1>3, <1>4 DEF Scoped, Current
    <2>. QED
      BY <1>4, <2>1 DEF StackInv, OnceOnly, OnlyTopMoves, Leveled
  <1>7. Unanswered
    BY <1>3, <1>4 DEF Unanswered
  <1>8. Forked
    <2>1. \A i, f : <<i, f>> \notin jobs
      BY <1>3, JobsDiffer
    <2>. QED
      BY <2>1 DEF Forked
  <1>9. Lifted
    BY <1>4 DEF Lifted
  <1>10. Content
    BY <1>3 DEF Content, ItemOK, NoResult
  <1>11. Returned
    BY <1>3 DEF Returned
  <1>. QED
    BY <1>5, <1>6, <1>7, <1>8, <1>9, <1>10, <1>11 DEF PoolInv

\* Steps that change nothing of a batch.
LEMMA PoolStutters ==
    ASSUME PoolInv, UNCHANGED vars
    PROVE  PoolInv'
  <1>1. UNCHANGED <<items, options, fresh, jobs, stack, counter, scope, base, bodies, tail, outcome, results>>
    BY DEF vars
  <1>2. /\ Item' = Item /\ Frames' = Frames /\ Scopes' = Scopes
        /\ \A j : Functions(j)' = Functions(j)
        /\ \A u \in Threads : At(u)' = At(u)
    BY <1>1, Constant DEF At
  <1>3. Shape'
    BY <1>1, <1>2 DEF PoolInv, Shape
  <1>4. StackInv'
    <2>1. OnceOnly' /\ OnlyTopMoves'
      BY <1>1 DEF PoolInv, StackInv, OnceOnly, OnlyTopMoves, At
    <2>2. Scoped'
      BY <1>1 DEF PoolInv, StackInv, Scoped, At, Current, Below, Own
    <2>3. \A x : Tried(x)' = Tried(x)
      BY <1>1, Constant
    <2>4. Leveled'
      BY <1>1, <2>3 DEF PoolInv, StackInv, Leveled, At
    <2>. QED
      BY <2>1, <2>2, <2>4 DEF StackInv
  <1>5. Unanswered' /\ Forked'
    BY <1>1, <1>2 DEF PoolInv, Unanswered, Forked
  <1>6. \A j : Grown(j)' = Grown(j) /\ ItemOK(j)' = ItemOK(j)
    BY <1>1, SameItem
  <1>7. Lifted' /\ Content'
    BY <1>1, <1>2, <1>6 DEF PoolInv, Lifted, Content
  <1>8. Returned'
    BY <1>1, StillReturned DEF PoolInv
  <1>. QED
    BY <1>3, <1>4, <1>5, <1>7, <1>8 DEF PoolInv

\* The inductive invariant, of every batch on every number of threads.
THEOREM PoolSafe == Spec => []PoolInv
  <1>1. Init => PoolInv
    BY PoolStarts
  <1>2. PoolInv /\ [Next]_vars => PoolInv'
    BY TakeKeeps, FunctionKeeps, AttemptKeeps, SerialTailKeeps, ReturnKeeps, PoolStutters DEF Next
  <1>. QED
    BY <1>1, <1>2, PTL DEF Spec

\* Equal items get equal answers.
LEMMA EqualItems ==
    ASSUME Len(items) \in Nat, NEW i \in Item, NEW j \in Item, Context(i) = Context(j)
    PROVE  Alone(i) = Alone(j)
  <1>1. items[i].program = items[j].program /\ Hint(items[i].name) = Hint(items[j].name)
    BY DEF Context
  <1>2. Functions(i) = Functions(j) /\ TailIds(i) = TailIds(j)
    BY <1>1 DEF Functions, TailIds
  <1>3. Parts(i) = Parts(j)
    BY <1>1, <1>2 DEF Parts, Part
  <1>4. [item |-> i, attempt |-> 0] # NoScope /\ \A k \in Item : \A n : [item |-> k, attempt |-> n] # NoScope
    BY DEF NoScope, Item
  <1>5. \A n : Output(i, Parts(i), TailIds(i), [item |-> i, attempt |-> n])
             = Output(j, Parts(j), TailIds(j), [item |-> j, attempt |-> n])
    BY <1>1, <1>2, <1>3, <1>4 DEF Output
  <1>. QED
    BY <1>1, <1>2, <1>3, <1>5 DEF Alone

\* Each item of the answer is what its script gets when nothing else runs, and
\* no success hides a failed or, under the strict policy, a dispatched function.
THEOREM AnswersAlone == Spec => []AsIfAlone
  <1>1. PoolInv => AsIfAlone
    <2>1. ASSUME PoolInv, results # <<>>, NEW i \in Item PROVE results[i] = Alone(i)
      <3>1. Len(items) \in Nat
        BY <2>1 DEF PoolInv, Shape
      <3>2. PICK j \in Item : j = Representative(i) /\ Context(j) = Context(i)
        BY <3>1, RepresentativeHolds
      <3>3. results[i] = Alone(j)
        BY <2>1, <3>2 DEF PoolInv, Returned
      <3>4. Alone(j) = Alone(i)
        BY <3>1, <3>2, EqualItems
      <3>. QED
        BY <3>3, <3>4
    <2>. QED
      BY <2>1 DEF AsIfAlone
  <1>. QED
    BY <1>1, PoolSafe, PTL

THEOREM SuccessIsWhole == Spec => []FailsClosed
  <1>1. PoolInv => FailsClosed
    <2>1. ASSUME PoolInv, NEW i \in Item, outcome[i].status = "ok", NEW f \in Functions(i)
          PROVE  bodies[i][f].kind \in IF options.strict THEN {"source"} ELSE {"source", "dispatcher"}
      <3>1. bodies[i] = Parts(i) /\ ~Residual(Parts(i))
        BY <2>1 DEF PoolInv, Content, ItemOK
      <3>2. bodies[i][f] = Part(i, f) /\ f \in DOMAIN Parts(i)
        BY <3>1 DEF Parts
      <3>3. Part(i, f).kind \notin {"marker", "residual"}
        BY <3>1, <3>2 DEF Residual
      <3>4. Part(i, f).kind \in Kinds /\ (options.strict => Part(i, f).kind # "dispatcher")
        <4>1. ProgramOK(items[i].program)
          BY <2>1 DEF PoolInv, Shape
        <4>2. f \in Nat /\ f - 1 \in Nat /\ items[i].program.functions[f] \in Fates
          BY <4>1 DEF ProgramOK, Functions
        <4>3. (f - 1) * Stride \in Nat
          BY <4>2, StrideAssumption
        <4>4. items[i].program.locals + (f - 1) * Stride \in Nat
          BY <4>1, <4>3 DEF ProgramOK
        <4>. QED
          BY <4>2, <4>4, DecompiledHolds DEF Part
      <3>. QED
        BY <3>2, <3>3, <3>4 DEF Kinds
    <2>. QED
      BY <2>1 DEF FailsClosed
  <1>. QED
    BY <1>1, PoolSafe, PTL

-----------------------------------------------------------------------------
(* Ids within one script. *)

\* A stretch of ids for the n-th function of a script after the m-th.
LEMMA Strides ==
    ASSUME NEW lifted \in Nat, NEW m \in Nat, NEW n \in Nat, m < n
    PROVE  lifted + m * Stride + Most < lifted + n * Stride
  <1>1. Stride \in Nat /\ Stride > Most
    BY StrideAssumption DEF Prepared, Structuring, Dispatching, Marker, Late, Most
  <1>2. n - (m + 1) \in Nat
    OBVIOUS
  <1>3. (n - (m + 1)) * Stride \in Nat /\ m * Stride \in Nat
    BY <1>1, <1>2
  <1>4. n * Stride = m * Stride + Stride + (n - (m + 1)) * Stride
    BY <1>1
  <1>. QED
    BY <1>1, <1>3, <1>4 DEF Most

\* The stretch of the p-th kind of ids: lifting, the tail, then each function.
Lo(i, p) ==
    LET lifted == items[i].program.locals
        n == Len(items[i].program.functions)
    IN IF p = 1 THEN 0 ELSE IF p = 2 THEN lifted + n * Stride ELSE lifted + (p - 3) * Stride
Hi(i, p) ==
    IF p = 1 THEN items[i].program.locals ELSE IF p = 2 THEN Lo(i, p) + TailLocals ELSE Lo(i, p) + Most

LEMMA StretchesApart ==
    ASSUME NEW i, ProgramOK(items[i].program),
           NEW p \in 1..2 + Len(items[i].program.functions), NEW q \in 1..2 + Len(items[i].program.functions), p # q
    PROVE  /\ Lo(i, p) \in Nat /\ Hi(i, p) \in Nat
           /\ Hi(i, p) <= Lo(i, q) \/ Hi(i, q) <= Lo(i, p)
  <1>1. PICK lifted, n : lifted = items[i].program.locals /\ n = Len(items[i].program.functions)
    OBVIOUS
  <1>2. lifted \in Nat /\ n \in Nat /\ Stride \in Nat
    BY <1>1, StrideAssumption DEF ProgramOK
  <1>3. \A m \in Nat : m * Stride \in Nat /\ lifted + m * Stride \in Nat
    BY <1>2
  <1>4. /\ Lo(i, 1) = 0 /\ Hi(i, 1) = lifted
        /\ Lo(i, 2) = lifted + n * Stride /\ Hi(i, 2) = lifted + n * Stride + 2
    BY <1>1 DEF Lo, Hi, TailLocals
  <1>5. \A r \in 3..2 + n : /\ Lo(i, r) = lifted + (r - 3) * Stride /\ Hi(i, r) = lifted + (r - 3) * Stride + Most
                            /\ r - 3 \in Nat /\ r - 3 < n
    BY <1>1, <1>2 DEF Lo, Hi
  <1>6. \A r \in 1..2 + n : Lo(i, r) \in Nat /\ Hi(i, r) \in Nat /\ (r # 1 => lifted <= Lo(i, r))
    <2>1. ASSUME NEW r \in 1..2 + n PROVE Lo(i, r) \in Nat /\ Hi(i, r) \in Nat /\ (r # 1 => lifted <= Lo(i, r))
      <3>1. CASE r = 1
        BY <1>2, <1>4, <3>1
      <3>2. CASE r = 2
        BY <1>2, <1>3, <1>4, <3>2
      <3>3. CASE r \in 3..2 + n
        <4>1. PICK m \in Nat : m = r - 3
          BY <1>5, <3>3
        <4>2. Lo(i, r) = lifted + m * Stride /\ Hi(i, r) = lifted + m * Stride + Most
          BY <1>5, <3>3, <4>1
        <4>. QED
          BY <1>2, <1>3, <4>2, <3>3 DEF Most
      <3>. QED
        BY <1>2, <3>1, <3>2, <3>3
    <2>. QED
      BY <2>1
  <1>7. ASSUME NEW r \in 3..2 + n, NEW m \in Nat, r - 3 < m PROVE Hi(i, r) < lifted + m * Stride
    <2>1. PICK l \in Nat : l = r - 3
      BY <1>5
    <2>2. lifted + l * Stride + Most < lifted + m * Stride
      BY <1>2, <1>7, <2>1, Strides
    <2>. QED
      BY <1>5, <2>1, <2>2
  <1>8. \A r \in 3..2 + n : Hi(i, r) < Lo(i, 2)
    BY <1>2, <1>4, <1>5, <1>7
  <1>9. \A r, u \in 3..2 + n : r < u => Hi(i, r) < Lo(i, u)
    BY <1>5, <1>7
  <1>10. p \in 1..2 + n /\ q \in 1..2 + n
    BY <1>1
  <1>11. CASE p = 1 \/ q = 1
    BY <1>4, <1>6, <1>10, <1>11
  <1>12. CASE p = 2 \/ q = 2
    <2>1. p = 2 => q = 1 \/ q \in 3..2 + n
      BY <1>2, <1>10
    <2>2. q = 2 => p = 1 \/ p \in 3..2 + n
      BY <1>2, <1>10
    <2>3. \A r \in 3..2 + n : Hi(i, r) <= Lo(i, 2)
      <3>1. \A r \in 3..2 + n : Hi(i, r) \in Nat /\ Lo(i, 2) \in Nat
        BY <1>2, <1>6
      <3>. QED
        BY <1>8, <3>1
    <2>. QED
      BY <1>6, <1>10, <1>11, <1>12, <2>1, <2>2, <2>3
  <1>13. CASE p \in 3..2 + n /\ q \in 3..2 + n
    <2>1. p < q \/ q < p
      BY <1>2, <1>13
    <2>2. Hi(i, p) < Lo(i, q) \/ Hi(i, q) < Lo(i, p)
      BY <1>9, <1>13, <2>1
    <2>. QED
      BY <1>6, <1>10, <2>2
  <1>14. p = 1 \/ q = 1 \/ p = 2 \/ q = 2 \/ (p \in 3..2 + n /\ q \in 3..2 + n)
    BY <1>2, <1>10
  <1>15. Lo(i, p) \in Nat /\ Hi(i, p) \in Nat
    BY <1>6, <1>10
  <1>. QED
    BY <1>11, <1>12, <1>13, <1>14, <1>15

\* Each kind of ids rises within its stretch.
LEMMA InStretch ==
    ASSUME Shape, NEW i \in Item, Grown(i), tail[i] \in {<<>>, TailIds(i)},
           NEW p \in 1..2 + Len(items[i].program.functions)
    PROVE  DOMAIN IdsOf(i) = 1..2 + Len(items[i].program.functions) /\ Rising(IdsOf(i)[p], Lo(i, p), Hi(i, p))
  <1>1. PICK lifted, n : lifted = items[i].program.locals /\ n = Len(items[i].program.functions)
    OBVIOUS
  <1>2. lifted \in Nat /\ n \in Nat /\ Stride \in Nat /\ ProgramOK(items[i].program)
    BY <1>1, StrideAssumption DEF Shape, ProgramOK
  <1>3. \A m \in Nat : m * Stride \in Nat /\ lifted + m * Stride \in Nat
    BY <1>2
  <1>4. PICK s : s = [f \in DOMAIN bodies[i] |-> bodies[i][f].ids]
    OBVIOUS
  <1>5. /\ base[i] = lifted /\ DOMAIN bodies[i] = 1..n
        /\ \A f \in 1..n : bodies[i][f] \in {NoBody, Part(i, f)}
    BY <1>1 DEF Grown, Functions
  <1>6. ASSUME NEW f \in 1..n
        PROVE  Rising(s[f], lifted + (f - 1) * Stride, lifted + (f - 1) * Stride + Most)
    <2>1. PICK start \in Nat : start = lifted + (f - 1) * Stride
      <3>1. f - 1 \in Nat
        OBVIOUS
      <3>. QED
        BY <1>3, <3>1
    <2>2. s[f] = bodies[i][f].ids
      BY <1>4, <1>5
    <2>3. CASE bodies[i][f] = NoBody
      BY <2>1, <2>2, <2>3 DEF NoBody, Rising
    <2>4. CASE bodies[i][f] = Part(i, f)
      <3>1. PICK body : body = Decompiled(items[i].program.functions[f], start)
        OBVIOUS
      <3>2. items[i].program.functions[f] \in Fates
        BY <1>1, <1>2 DEF ProgramOK
      <3>3. Rising(body.ids, start, body.end) /\ body.end \in Nat /\ body.end <= start + Most
        BY <2>1, <3>1, <3>2, DecompiledHolds
      <3>4. s[f] = body.ids
        BY <1>1, <2>1, <2>2, <2>4, <3>1 DEF Part
      <3>5. start + Most \in Nat /\ start <= start
        BY <2>1 DEF Most
      <3>. QED
        BY <2>1, <3>3, <3>4, <3>5, RisingWider
    <2>. QED
      BY <1>5, <2>3, <2>4
  <1>7. s \in Seq(Seq(Nat)) /\ Len(s) = n
    <2>1. \A f \in 1..n : s[f] \in Seq(Nat)
      BY <1>6 DEF Rising
    <2>2. s = [f \in 1..n |-> s[f]]
      BY <1>4, <1>5
    <2>3. s \in [1..n -> Seq(Nat)]
      BY <2>1, <2>2
    <2>. QED
      BY <1>2, <2>3
  <1>8. PICK first, last : first = Mint(base[i] - lifted, lifted) /\ last = tail[i]
    OBVIOUS
  <1>9. Rising(first, 0, lifted)
    <2>1. base[i] - lifted = 0 /\ 0 + lifted = lifted /\ 0 \in Nat
      BY <1>2, <1>5
    <2>2. first = Mint(0, lifted)
      BY <1>8, <2>1
    <2>3. Rising(Mint(0, lifted), 0, 0 + lifted)
      BY <1>2, <2>1, MintRises
    <2>. QED
      BY <2>1, <2>2, <2>3
  <1>10. Rising(last, lifted + n * Stride, lifted + n * Stride + TailLocals)
    <2>1. lifted + n * Stride \in Nat /\ TailLocals \in Nat
      BY <1>2, <1>3 DEF TailLocals
    <2>2. CASE last = <<>>
      BY <2>1, <2>2 DEF Rising
    <2>3. CASE last = TailIds(i)
      BY <1>1, <2>1, <2>3, MintRises DEF TailIds
    <2>. QED
      BY <1>8, <2>2, <2>3
  <1>11. IdsOf(i) = <<first, last>> \o s
    BY <1>1, <1>4, <1>8 DEF IdsOf
  <1>12. <<first, last>> \in Seq(Seq(Nat)) /\ Len(<<first, last>>) = 2
    BY <1>9, <1>10 DEF Rising
  <1>13. /\ Len(IdsOf(i)) = 2 + n /\ DOMAIN IdsOf(i) = 1..2 + n
         /\ IdsOf(i)[1] = first /\ IdsOf(i)[2] = last /\ \A r \in 3..2 + n : IdsOf(i)[r] = s[r - 2]
    <2>1. \A r \in 3..2 + n : r \in 1..2 + n /\ ~(r <= 2) /\ r - 2 \in 1..n
      BY <1>2
    <2>. QED
      BY <1>2, <1>7, <1>11, <1>12, <2>1
  <1>14. Rising(IdsOf(i)[p], Lo(i, p), Hi(i, p))
    <2>1. CASE p = 1
      BY <1>1, <1>9, <1>13, <2>1 DEF Lo, Hi
    <2>2. CASE p = 2
      BY <1>1, <1>10, <1>13, <2>2 DEF Lo, Hi
    <2>3. CASE p \in 3..2 + n
      <3>1. PICK f \in 1..n : f = p - 2 /\ f - 1 = p - 3
        BY <1>2, <2>3
      <3>2. IdsOf(i)[p] = s[f] /\ p # 1 /\ p # 2
        BY <1>13, <2>3, <3>1
      <3>3. Lo(i, p) = lifted + (f - 1) * Stride /\ Hi(i, p) = lifted + (f - 1) * Stride + Most
        BY <1>1, <3>1, <3>2 DEF Lo, Hi
      <3>. QED
        BY <1>6, <3>2, <3>3
    <2>4. p = 1 \/ p = 2 \/ p \in 3..2 + n
      BY <1>1, <1>2
    <2>. QED
      BY <2>1, <2>2, <2>3, <2>4
  <1>. QED
    BY <1>1, <1>13, <1>14

\* No two locals of one decompilation share an id.
THEOREM IdsApart == Spec => []IdsUnique
  <1>1. ASSUME PoolInv, NEW i \in Item, bodies[i] # <<>>,
               NEW p \in DOMAIN IdsOf(i), NEW q \in DOMAIN IdsOf(i),
               NEW j \in DOMAIN IdsOf(i)[p], NEW k \in DOMAIN IdsOf(i)[q], IdsOf(i)[p][j] = IdsOf(i)[q][k]
        PROVE  p = q /\ j = k
    <2>1. Shape /\ Grown(i) /\ tail[i] \in {<<>>, TailIds(i)} /\ ProgramOK(items[i].program)
      BY <1>1 DEF PoolInv, Shape, Content, ItemOK
    <2>2. PICK n : n = Len(items[i].program.functions)
      OBVIOUS
    <2>3. DOMAIN IdsOf(i) = 1..2 + n
      <3>1. n \in Nat
        BY <2>1, <2>2 DEF ProgramOK
      <3>2. 1 \in 1..2 + n
        BY <3>1
      <3>. QED
        BY <2>1, <2>2, <3>2, InStretch
    <2>4. Rising(IdsOf(i)[p], Lo(i, p), Hi(i, p)) /\ Rising(IdsOf(i)[q], Lo(i, q), Hi(i, q))
      BY <2>1, <2>2, <2>3, InStretch
    <2>5. PICK s, u : s = IdsOf(i)[p] /\ u = IdsOf(i)[q]
      OBVIOUS
    <2>6. /\ s \in Seq(Nat) /\ u \in Seq(Nat) /\ j \in 1..Len(s) /\ k \in 1..Len(u) /\ s[j] = u[k]
          /\ Lo(i, p) <= s[j] /\ s[j] < Hi(i, p) /\ Lo(i, q) <= u[k] /\ u[k] < Hi(i, q)
      <3>1. s \in Seq(Nat) /\ u \in Seq(Nat)
        BY <2>4, <2>5 DEF Rising
      <3>2. j \in 1..Len(s) /\ k \in 1..Len(u) /\ s[j] = u[k]
        BY <1>1, <2>5, <3>1
      <3>. QED
        BY <2>4, <2>5, <3>1, <3>2 DEF Rising
    <2>7. CASE p = q
      <3>1. j < k \/ k < j \/ j = k
        BY <2>6
      <3>2. \A a, b \in 1..Len(s) : a < b => s[a] < s[b]
        BY <2>4, <2>5 DEF Rising
      <3>3. s[j] \in Nat /\ s = u
        BY <2>5, <2>6, <2>7
      <3>. QED
        BY <2>6, <2>7, <3>1, <3>2, <3>3
    <2>8. CASE p # q
      <3>1. /\ Lo(i, p) \in Nat /\ Hi(i, p) \in Nat /\ Lo(i, q) \in Nat /\ Hi(i, q) \in Nat
            /\ Hi(i, p) <= Lo(i, q) \/ Hi(i, q) <= Lo(i, p)
        BY <2>1, <2>2, <2>3, <2>8, StretchesApart
      <3>2. s[j] \in Nat /\ u[k] = s[j]
        BY <2>6
      <3>3. PICK x \in Nat : x = s[j]
        BY <3>2
      <3>4. Lo(i, p) <= x /\ x < Hi(i, p) /\ Lo(i, q) <= x /\ x < Hi(i, q)
        BY <2>6, <3>2, <3>3
      <3>. QED
        BY <3>1, <3>4
    <2>. QED
      BY <2>7, <2>8
  <1>2. PoolInv => IdsUnique
    <2>1. SUFFICES ASSUME PoolInv, NEW i \in Item, bodies[i] # <<>>,
                          NEW p \in DOMAIN IdsOf(i), NEW q \in DOMAIN IdsOf(i),
                          NEW j \in DOMAIN IdsOf(i)[p], NEW k \in DOMAIN IdsOf(i)[q], IdsOf(i)[p][j] = IdsOf(i)[q][k]
                   PROVE  p = q /\ j = k
      BY DEF IdsUnique
    <2>. QED
      BY <1>1, <2>1
  <1>. QED
    BY <1>2, PoolSafe, PTL
=============================================================================
