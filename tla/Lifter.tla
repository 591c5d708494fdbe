------------------------------- MODULE Lifter -------------------------------
(***************************************************************************)
(* The lifter of one prototype beside the machine whose code it lifts.     *)
(* Code is read, validated and cut into blocks; lift_block gives each      *)
(* block its statements and edges; then the Luau VM (external) runs the    *)
(* code, any way its conditions fall, and what it did in each block is     *)
(* held against what the block was lifted to.                              *)
(*                                                                         *)
(* A statement is the event it makes when it runs: [ev, pc, regs, tail],   *)
(* with the registers it reads as a list and, for an open list, the pc     *)
(* whose results it ends with.  A call whose results are open makes no     *)
(* statement: it is nested in the statement that takes them.               *)
(***************************************************************************)
EXTENDS BytecodeValidate, SequencesExt

CONSTANTS
    Kits,           \* code is made of one of these: [instructions, slots],
                    \* slots being a bound on its length
    MaxBlocks       \* bound on the blocks the VM runs through

ASSUME KitAssumption ==
    /\ MaxBlocks \in Nat
    /\ \A k \in Kits : k.instructions \subseteq Instructions /\ k.slots \in Nat

VARIABLES
    kit,        \* what the code is made of
    phase,      \* "read", "refused", "run", "done"
    blocks,     \* discover_blocks: the pcs that start a block
    pc,         \* the VM: next slot to run
    block,      \* the block pc is in
    list,       \* the VM's open result list: [from, base], from = 0 when closed
    events,     \* what the VM did in this block
    last,       \* the block left last: [block, events, holds, to]
    ran         \* blocks run

vars == <<kit, code, phase, blocks, pc, block, list, events, last, ran>>

NoList == [from |-> 0, base |-> Closed]
NoBlock == [block |-> 0, events |-> <<>>, holds |-> FALSE, to |-> 0]
Event(ev, at, regs, tail) == [ev |-> ev, pc |-> at, regs |-> regs, tail |-> tail]
Off == Len(code) + 1    \* past the last instruction
Gone == 0               \* returned

----------------------------------------------------------------------------
\* discover_blocks

Leaders ==
    {1} \cup UNION {
        LET i == code[p]
        IN  CASE i.op = "LOADB" /\ i.c = 0 -> {}
              [] i.op \in {"JUMPIFEQ", "JUMPIFNOTEQ"} -> {p + 2, To(p)}
              [] i.op = "FORNLOOP" -> {p, p + 1, To(p)}
              [] OTHER -> {p + 1, To(p)}
        : p \in {q \in Pcs : Jumps(code[q])}}

\* The last slot of the block that starts at b.
BlockEnd(b) ==
    LET after == {p \in blocks : p > b}
    IN  (IF after = {} THEN Off ELSE CHOOSE p \in after : \A q \in after : p <= q) - 1

----------------------------------------------------------------------------
\* lift_block.  top is the pending list: where it came from, the register it
\* starts at, and the calls nested in it.

NoTop == [from |-> 0, base |-> Closed, calls |-> <<>>]
Panic(at) == <<Event("panic", at, {}, 0)>>

\* The registers a CALL passes from the first argument on, and the pending
\* list after them.
Arguments(at, first, top) ==
    IF code[at].b = 0 THEN first..top.base - 1 ELSE first..code[at].a + code[at].b - 1
After(at, top) == IF code[at].b = 0 THEN top.from ELSE 0

LiftCall(at, first, top) ==
    IF code[at].b = 0 /\ top = NoTop THEN [made |-> Panic(at), top |-> top]
    ELSE LET made == (IF code[at].b = 0 THEN top.calls ELSE <<>>)
                     \o <<Event("call", at, Arguments(at, first, top), After(at, top))>>
         IN  IF code[at].c = 0
             THEN [made |-> <<>>, top |-> [from |-> at, base |-> code[at].a, calls |-> made]]
             ELSE [made |-> made, top |-> IF code[at].b = 0 THEN NoTop ELSE top]

LiftVarargs(at, top) ==
    IF code[at].b # 0 THEN [made |-> <<Event("op", at, {}, 0)>>, top |-> top]
    ELSE [made |-> <<>>, top |-> [from |-> at, base |-> code[at].a, calls |-> <<>>]]

\* RETURN and SETLIST: the fixed registers from first on, count of them, or
\* those before the pending list and the list.
LiftList(ev, at, first, count, top) ==
    IF count # 0 THEN [made |-> <<Event(ev, at, first..first + count - 2, 0)>>, top |-> top]
    ELSE IF top = NoTop THEN [made |-> Panic(at), top |-> top]
    ELSE [made |-> top.calls \o <<Event(ev, at, first..top.base - 1, top.from)>>, top |-> NoTop]

\* One statement each: loads and skips, reads and writes of tables and globals,
\* arithmetic, imports, closing of upvalues.
Loads == {"MOVE", "LOADB"}
Accesses == {"SETGLOBAL"}
Arithmetic == {"ADD"}
Imports == {"GETIMPORT"}
Closes == {"CLOSEUPVALS"}
Operations == Loads \cup Accesses \cup Arithmetic \cup Imports \cup Closes

\* No statement: padding, hints, and jumps, which are edges.
Silent == {"NOP", "FASTCALL", "JUMP", "JUMPX", "CAPTURE"}

RegisterTests == {"JUMPIF", "JUMPIFNOT", "JUMPIFEQ", "JUMPIFNOTEQ"}
LoopMarkers == {"FORNPREP", "FORNLOOP", "FORGPREP", "FORGLOOP"}

\* A closure takes its captures with it, a method lookup the CALL after it.
LiftClosure(at, top) ==
    [made |-> <<Event("closure", at, CapturesOf(at), 0)>>, top |-> top, next |-> at + 1 + code[at].b]

\* Mutant: the object is passed once more.
LiftMethodSelf(at, top) ==
    LET call == LiftCall(at + 2, code[at].a + 1, top)
    IN  [made |-> call.made, top |-> call.top, next |-> at + 3]

LiftMethod(at, top) ==
    LET call == LiftCall(at + 2, code[at].a + 2, top)
    IN  [made |-> call.made, top |-> call.top, next |-> at + 3]

\* The unit at a pc: the statements it makes, the list pending after it, and
\* the slot the walk goes on from.
Lift(at, top) ==
    LET i == code[at]
        one(l) == [made |-> l.made, top |-> l.top, next |-> at + 1]
        plain(made) == [made |-> made, top |-> top, next |-> at + 1]
    IN  CASE i.op \in Silent -> plain(<<>>)
          [] i.op \in Operations -> plain(<<Event("op", at, Registers(i), 0)>>)
          [] i.op \in RegisterTests -> plain(<<Event("test", at, Registers(i), 0)>>)
          [] i.op \in LoopMarkers -> plain(<<Event("loop", at, {i.a, i.a + 1, i.a + 2}, 0)>>)
          [] i.op = "CALL" -> one(LiftCall(at, i.a + 1, top))
          [] i.op = "NAMECALL" -> LiftMethod(at, top)
          [] i.op = "GETVARARGS" -> one(LiftVarargs(at, top))
          [] i.op = "RETURN" -> one(LiftList("return", at, i.a, i.b, top))
          [] i.op = "SETLIST" -> one(LiftList("list", at, i.b, i.c, top))
          [] i.op = "NEWCLOSURE" -> LiftClosure(at, top)

\* LOADB over its skip and RETURN end the walk before the end of the block.
Stops(i) == i.op = "RETURN" \/ (i.op = "LOADB" /\ i.c # 0)

\* The walk over a block, after each of its slots: the statements made, the
\* list pending, and the slot the next unit is at.
Walk(b) ==
    LET walk[p \in b - 1..BlockEnd(b)] ==
            IF p < b THEN [made |-> <<>>, top |-> NoTop, next |-> b]
            ELSE LET so == walk[p - 1]
                     unit == Lift(p, so.top)
                 IN  IF p # so.next THEN so
                     ELSE [made |-> so.made \o unit.made, top |-> unit.top,
                           next |-> IF Stops(code[p]) THEN Gone ELSE unit.next]
    IN  walk

Statements(b) == Walk(b)[BlockEnd(b)].made

----------------------------------------------------------------------------
\* The edges of a block

\* The instruction that decides where the block goes.
Terminator(b) ==
    LET deciding == {p \in b..BlockEnd(b) : p \in Starts /\ (Stops(code[p]) \/ Jumps(code[p]))}
    IN  IF deciding = {} THEN BlockEnd(b) ELSE CHOOSE p \in deciding : \A q \in deciding : p <= q

\* The FORNLOOP a FORNPREP enters: the first on its registers before its exit.
NumericSteps(p) == {q \in p + 1..LoopTarget(p) - 1 :
                        q \in Pcs /\ code[q].op = "FORNLOOP" /\ code[q].a = code[p].a}
NumericStep(p) == CHOOSE q \in NumericSteps(p) : \A other \in NumericSteps(p) : q <= other
NumericPaired == \A p \in Starts : code[p].op = "FORNPREP" => NumericSteps(p) # {}

\* Mutant: the back jump of an empty loop is left threaded past its body.
EmptyBodiesErased(q) == {}

\* A block that decides nothing goes on to the next one, or ends.
FallThrough(b) == IF BlockEnd(b) < Len(code) THEN BlockEnd(b) + 1 ELSE Off

\* Where a block without statements goes.
SilentExit(b) ==
    LET t == Terminator(b)
    IN  IF code[t].op \in {"JUMP", "JUMPX"} THEN To(t) ELSE FallThrough(b)

\* The empty bodies of the loop of a FORNLOOP: the blocks of the successors of
\* its FORNPREPs.
EmptyBodies(q) ==
    {p + 1 : p \in {p \in Starts : /\ code[p].op = "FORNPREP" /\ NumericStep(p) = q
                                   /\ p + 1 # q /\ Statements(p + 1) = <<>>}}

\* Blocks are lifted from the last slot down.  At a FORNPREP whose empty body
\* leaves to where the back jump of the loop goes by then, the back jump is put
\* on the body: the loop keeps its body port.
BackJump(q) ==
    LET jump[n \in 0..Len(code)] ==
            IF n = 0 THEN LoopTarget(q)
            ELSE LET to == jump[n - 1]
                     body == Len(code) + 1 - n
                 IN  IF body \in EmptyBodies(q) /\ SilentExit(body) = to /\ to # body
                     THEN body ELSE to
    IN  jump[Len(code)]

\* Mutant: the skip of the pair every compiler emits.
SkipToPair(t) == t + 2

\* LOADB skips as many slots as C says.
SkipTo(t) == t + 1 + code[t].c

\* The two sides of a test: Then when its condition holds.
TruthEdge(t, holds) == IF holds = (code[t].op = "JUMPIF") THEN To(t) ELSE t + 1
CompareEdge(t, holds) == IF holds = (code[t].op = "JUMPIFEQ") THEN To(t) ELSE t + 2

\* A step goes to its body while it holds, else to the slot after it, and a
\* body that is the code after the loop is given a block that leads there.
GenericEdge(t, holds) == IF holds /\ LoopTarget(t) # t + 2 THEN LoopTarget(t) ELSE t + 1
NumericEdge(t, holds) == IF holds THEN BackJump(t) ELSE t + 1

\* Where the block goes when its condition holds (Then) and when it does not.
EdgeTo(b, holds) ==
    LET t == Terminator(b)
        op == code[t].op
    IN  IF b > Len(code) THEN Off ELSE
        CASE op = "RETURN" -> Gone
          [] op \in {"JUMP", "JUMPX"} -> To(t)
          [] op = "LOADB" /\ code[t].c # 0 -> SkipTo(t)
          [] op \in {"JUMPIF", "JUMPIFNOT"} -> TruthEdge(t, holds)
          [] op \in {"JUMPIFEQ", "JUMPIFNOTEQ"} -> CompareEdge(t, holds)
          [] op = "FORGPREP" -> LoopTarget(t)
          [] op = "FORGLOOP" -> GenericEdge(t, holds)
          [] op = "FORNPREP" -> NumericStep(t)
          [] op = "FORNLOOP" -> NumericEdge(t, holds)
          [] OTHER -> FallThrough(b)

----------------------------------------------------------------------------
\* Reading and validating

Init ==
    /\ kit \in Kits
    /\ code = <<>>
    /\ phase = "read"
    /\ blocks = {}
    /\ pc = 1 /\ block = 1
    /\ list = NoList /\ events = <<>> /\ last = NoBlock
    /\ ran = 0

Read(i) ==
    /\ phase = "read"
    /\ Len(code) + Len(Slots(i)) <= kit.slots
    /\ code' = code \o Slots(i)
    /\ UNCHANGED <<phase, blocks, pc, block, list, events, last, ran>>

\* validate, admit_open_call_order, then discover_blocks.  A numeric prep with
\* no step of its own makes lifting panic, which fails the whole script.
Accept ==
    /\ phase = "read"
    /\ code # <<>>
    /\ IF Valid /\ Admitted /\ NumericPaired
       THEN phase' = "run" /\ blocks' = Leaders
       ELSE phase' = "refused" /\ UNCHANGED blocks
    /\ UNCHANGED <<code, pc, block, list, events, last, ran>>

----------------------------------------------------------------------------
\* The VM

\* The VM goes to a slot; leaving the block or the code ends the block.
Go(to, holds, made) ==
    IF to \in blocks \cup {Gone, Off} \/ to # pc + Len(Slots(code[pc]))
    THEN /\ last' = [block |-> block, events |-> events \o made, holds |-> holds, to |-> to]
         /\ events' = <<>>
         /\ ran' = ran + 1
         /\ block' = to
         /\ pc' = to
         /\ phase' = IF to \in {Gone, Off} THEN "done" ELSE "run"
    ELSE /\ events' = events \o made
         /\ pc' = to
         /\ UNCHANGED <<last, ran, block, phase>>

Running == phase = "run" /\ ran < MaxBlocks

Following == pc + Len(Slots(code[pc]))

\* An operation on registers, or none.
RunPlain ==
    /\ Running
    /\ code[pc].op \in {"NOP", "FASTCALL", "CAPTURE", "MOVE", "ADD", "SETGLOBAL", "GETIMPORT",
                        "CLOSEUPVALS", "NAMECALL"}
    /\ Go(Following, FALSE,
          IF code[pc].op \in {"NOP", "FASTCALL", "CAPTURE", "NAMECALL"} THEN <<>>
          ELSE <<Event("op", pc, Registers(code[pc]), 0)>>)
    /\ UNCHANGED <<code, blocks, list>>

RunLoadB ==
    /\ Running
    /\ code[pc].op = "LOADB"
    /\ Go(To(pc), FALSE, <<Event("op", pc, Registers(code[pc]), 0)>>)
    /\ UNCHANGED <<code, blocks, list>>

RunClosure ==
    /\ Running
    /\ code[pc].op = "NEWCLOSURE"
    /\ Go(Following, FALSE, <<Event("closure", pc, CapturesOf(pc), 0)>>)
    /\ UNCHANGED <<code, blocks, list>>

\* A call takes the registers after the callee (and after the object, of a
\* method) up to the top: its count, or the end of the open list.
RunCall ==
    /\ Running
    /\ code[pc].op = "CALL"
    /\ LET i == code[pc]
           method == pc > 2 /\ pc - 2 \in Starts /\ code[pc - 2].op = "NAMECALL"
           first == IF method THEN i.a + 2 ELSE i.a + 1
       IN  Go(Following, FALSE,
              <<Event("call", pc, IF i.b = 0 THEN first..list.base - 1 ELSE first..i.a + i.b - 1,
                      IF i.b = 0 THEN list.from ELSE 0)>>)
    /\ list' = IF code[pc].c = 0 THEN [from |-> pc, base |-> code[pc].a]
               ELSE IF code[pc].b = 0 THEN NoList ELSE list
    /\ UNCHANGED <<code, blocks>>

RunVarargs ==
    /\ Running
    /\ code[pc].op = "GETVARARGS"
    /\ Go(Following, FALSE, IF code[pc].b = 0 THEN <<>> ELSE <<Event("op", pc, {}, 0)>>)
    /\ list' = IF code[pc].b = 0 THEN [from |-> pc, base |-> code[pc].a] ELSE list
    /\ UNCHANGED <<code, blocks>>

RunReturn ==
    /\ Running
    /\ code[pc].op = "RETURN"
    /\ LET i == code[pc]
       IN  Go(Gone, FALSE, <<IF i.b = 0 THEN Event("return", pc, i.a..list.base - 1, list.from)
                             ELSE Event("return", pc, i.a..i.a + i.b - 2, 0)>>)
    /\ list' = NoList
    /\ UNCHANGED <<code, blocks>>

RunSetList ==
    /\ Running
    /\ code[pc].op = "SETLIST"
    /\ LET i == code[pc]
       IN  /\ Go(Following, FALSE, <<IF i.c = 0 THEN Event("list", pc, i.b..list.base - 1, list.from)
                                     ELSE Event("list", pc, i.b..i.b + i.c - 2, 0)>>)
           /\ list' = IF i.c = 0 THEN NoList ELSE list
    /\ UNCHANGED <<code, blocks>>

RunJump ==
    /\ Running
    /\ code[pc].op \in {"JUMP", "JUMPX"}
    /\ Go(To(pc), FALSE, <<>>)
    /\ UNCHANGED <<code, blocks, list>>

RunTest(holds) ==
    /\ Running
    /\ code[pc].op \in RegisterTests
    /\ Go(IF holds = (code[pc].op \in {"JUMPIF", "JUMPIFEQ"}) THEN To(pc) ELSE Following,
          holds, <<Event("test", pc, Registers(code[pc]), 0)>>)
    /\ UNCHANGED <<code, blocks, list>>

\* A generic prep jumps to its step; a step jumps back while there is a next
\* value, and the slot of its AUX word is run as the NOP it holds.
RunLoop(holds) ==
    /\ Running
    /\ code[pc].op \in LoopMarkers
    /\ Go(CASE code[pc].op = "FORGPREP" -> To(pc)
            [] code[pc].op = "FORNPREP" -> IF holds THEN pc + 1 ELSE To(pc)
            [] OTHER -> IF holds THEN To(pc) ELSE pc + 1,
          holds, <<Event("loop", pc, {code[pc].a, code[pc].a + 1, code[pc].a + 2}, 0)>>)
    /\ UNCHANGED <<code, blocks, list>>

Run == \/ RunPlain \/ RunLoadB \/ RunClosure \/ RunCall \/ RunVarargs \/ RunReturn \/ RunSetList
       \/ RunJump \/ \E holds \in BOOLEAN : RunTest(holds) \/ RunLoop(holds)

Next == (Accept \/ Run \/ \E i \in kit.instructions : Read(i)) /\ UNCHANGED kit

Spec == Init /\ [][Next]_vars

----------------------------------------------------------------------------
\* The VM never runs an AUX word as an instruction, never leaves a block but
\* for the start of another, and whatever takes an open result list finds one
\* made in the same block, above the registers it takes with it.
RunsAsValidated ==
    phase = "run" =>
        /\ pc \in Pcs
        /\ pc \notin Starts => code[pc - 1].op = "FORGLOOP"
        /\ block \in blocks /\ pc \in block..BlockEnd(block)
        /\ LET i == code[pc]
               least == IF i.op = "CALL" THEN i.a + 1 ELSE IF i.op = "SETLIST" THEN i.b ELSE i.a
           IN  (IF i.op = "SETLIST" THEN i.c = 0 ELSE i.op \in {"CALL", "RETURN"} /\ i.b = 0) =>
                  list.from >= block /\ list.base >= least

\* What lifting leaves out of the order: closing upvalues, which an open call
\* may be moved past, and the loads of a FASTCALL's fallback callee.
Unordered(e) ==
    \/ code[e.pc].op = "CLOSEUPVALS"
    \/ \E p \in Starts : /\ FallbackConsumer(p) > e.pc /\ p < e.pc
                         /\ e.ev = "op"
Ordered(s) ==
    LET kept[n \in 0..Len(s)] ==
            IF n = 0 THEN <<>> ELSE IF Unordered(s[n]) THEN kept[n - 1] ELSE Append(kept[n - 1], s[n])
    IN  kept[Len(s)]

\* Each block's statements do what the VM did in it: the same operations on
\* the same registers, every call once, in the VM's order, with the arguments
\* the VM passed; nothing panics.  Of code that can run off its end, which
\* lifting marks as not returning, nothing is said.
SameEffects ==
    last.block # 0 /\ code[Len(code)].op \in {"RETURN", "JUMP", "JUMPX"} =>
        /\ Ordered(last.events) = Ordered(Statements(last.block))
        /\ ToSet(last.events) = ToSet(Statements(last.block))

\* The blocks that do nothing and go to one place.
Idle == {b \in blocks \ {Off} : Statements(b) = <<>> /\ EdgeTo(b, TRUE) = EdgeTo(b, FALSE)}

\* Those among them that one passes on the way from a block.
Through(b) ==
    {c \in Idle : \A S \in SUBSET Idle :
        /\ b \in Idle => b \in S
        /\ \A d \in S : EdgeTo(d, TRUE) \in Idle => EdgeTo(d, TRUE) \in S
        => c \in S}

\* Where one comes from a block, doing nothing.
Exits(b) == {b} \cup {EdgeTo(c, TRUE) : c \in Through(b)}
Meet(b, c) == b = c \/ Exits(b) \cap Exits(c) # {}

\* Two places that do the same RETURN.
Twins(b, c) == {b, c} \subseteq Pcs /\ code[b].op = "RETURN" /\ code[c] = code[b]

\* A numeric prep as compilers emit it: alone with its step; its exit right
\* after the step or, jumps folded, where the JUMP there goes or at the RETURN
\* that was copied there; the back jump to the prep's successor or where that
\* jumps.
Conforming(p) ==
    LET q == NumericStep(p)
    IN  /\ \A other \in Starts : code[other].op = "FORNPREP" /\ NumericStep(other) = q => other = p
        /\ \/ LoopTarget(p) = q + 1
           \/ code[q + 1].op = "JUMP" /\ To(q + 1) = LoopTarget(p)
           \/ Twins(q + 1, LoopTarget(p))
        /\ LoopTarget(q) = p + 1 \/ (code[p + 1].op = "JUMP" /\ To(p + 1) = LoopTarget(q))

\* The block's edge for the way the condition fell leads where the VM went,
\* each straight or through blocks that do nothing.  A numeric prep enters its
\* step's test first, which then decides: the first trip is one of its own.
SameControl ==
    last.block # 0 =>
        LET t == Terminator(last.block)
            to == last.to
            edge == EdgeTo(IF last.block <= Len(code) /\ code[t].op = "FORNPREP"
                           THEN NumericStep(t) ELSE last.block, last.holds)
        IN  IF last.block <= Len(code) /\ code[t].op = "FORNPREP"
            THEN Conforming(t) => IF last.holds THEN edge = to
                                  ELSE Meet(edge, to) \/ \E x \in Exits(to) : Twins(edge, x)
            ELSE Meet(edge, to)

=============================================================================
