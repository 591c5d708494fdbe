-------------------------- MODULE BytecodeValidate --------------------------
(***************************************************************************)
(* What a prototype's code must satisfy before anything follows its        *)
(* operands: validate and admit_open_call_order.                           *)
(*                                                                         *)
(* A slot of code is a record [op, a, b, c, d].  Opcodes that are treated  *)
(* alike go by the name of one of them: MOVE for the loads without an AUX  *)
(* word, GETIMPORT for those with one, ADD for the other operations on     *)
(* registers, SETGLOBAL for those with an AUX word, JUMPIF/JUMPIFNOT and   *)
(* JUMPIFEQ/JUMPIFNOTEQ for the conditional jumps without and with an AUX  *)
(* word, FASTCALL for every hint.  Pcs count from 1; d is relative to the  *)
(* next slot.  NEWCLOSURE carries in b the upvalues its prototype takes.   *)
(***************************************************************************)
EXTENDS Integers, Sequences, FiniteSets

CONSTANTS
    MaxStack,   \* max_stack_size
    IsVararg    \* is_vararg

ASSUME FrameAssumption == MaxStack \in Nat /\ IsVararg \in BOOLEAN

VARIABLE code   \* the instructions of the prototype

Opcodes ==
    {"NOP", "MOVE", "ADD", "SETGLOBAL", "GETIMPORT", "LOADB", "NEWCLOSURE", "CAPTURE", "CLOSEUPVALS",
     "NAMECALL", "CALL", "GETVARARGS", "RETURN", "SETLIST", "FASTCALL", "JUMP", "JUMPX",
     "JUMPIF", "JUMPIFNOT", "JUMPIFEQ", "JUMPIFNOTEQ", "FORNPREP", "FORNLOOP", "FORGPREP", "FORGLOOP"}
Instructions == [op : Opcodes, a : Nat, b : Nat, c : Nat, d : Int]

Ins(op, a, b, c, d) == [op |-> op, a |-> a, b |-> b, c |-> c, d |-> d]
Nop == Ins("NOP", 0, 0, 0, 0)

HasAux(i) ==
    i.op \in {"GETIMPORT", "SETGLOBAL", "NAMECALL", "JUMPIFEQ", "JUMPIFNOTEQ", "SETLIST", "FORGLOOP"}

\* The deserializer keeps the AUX word with its instruction and leaves a NOP
\* in its slot.
Slots(i) == IF HasAux(i) THEN <<i, Nop>> ELSE <<i>>

Pcs == 1..Len(code)

\* The slots that hold an instruction, not an AUX word.
Starts ==
    LET start[pc \in Pcs] == pc = 1 \/ ~(start[pc - 1] /\ HasAux(code[pc - 1]))
    IN  {pc \in Pcs : start[pc]}

Jumps(i) ==
    \/ i.op \in {"JUMP", "JUMPX", "JUMPIF", "JUMPIFNOT", "JUMPIFEQ", "JUMPIFNOTEQ",
                 "FORNPREP", "FORNLOOP", "FORGPREP", "FORGLOOP"}
    \/ i.op = "LOADB" /\ i.c # 0

To(pc) == pc + 1 + (IF code[pc].op = "LOADB" THEN code[pc].c ELSE code[pc].d)

Targets == {To(pc) : pc \in {p \in Starts : Jumps(code[p])}}

\* Mutant: a jump may land on any slot.
TargetsInCode == Targets \subseteq Pcs

TargetsOK == Targets \subseteq Starts

----------------------------------------------------------------------------
\* The registers an instruction names, the last of each range.

Registers(i) ==
    CASE i.op \in {"NOP", "JUMP", "JUMPX", "FASTCALL", "CAPTURE"} -> {}
      [] i.op \in {"MOVE", "ADD", "SETGLOBAL"} -> {i.a, i.b}
      [] i.op \in {"GETIMPORT", "LOADB", "NEWCLOSURE", "JUMPIF", "JUMPIFNOT"} -> {i.a}
      [] i.op \in {"JUMPIFEQ", "JUMPIFNOTEQ"} -> {i.a, i.b}
      [] i.op \in {"FORNPREP", "FORNLOOP", "FORGPREP"} -> {i.a + 2}
      [] i.op = "FORGLOOP" -> {i.a + 2 + i.b}
      [] i.op = "NAMECALL" -> {i.a + 1, i.b}
      [] i.op = "CALL" -> {i.a} \cup (IF i.b > 1 THEN {i.a + i.b - 1} ELSE {})
                                \cup (IF i.c > 1 THEN {i.a + i.c - 2} ELSE {})
      [] i.op \in {"RETURN", "GETVARARGS"} -> IF i.b > 1 THEN {i.a + i.b - 2} ELSE {}
      [] i.op = "SETLIST" -> {i.a} \cup (IF i.c > 1 THEN {i.b + i.c - 2} ELSE {})
      [] i.op = "CLOSEUPVALS" -> {i.a - 1}

RegistersOK ==
    \A pc \in Starts :
        /\ \A r \in Registers(code[pc]) : r < MaxStack
        /\ code[pc].op = "FORGLOOP" => code[pc].b > 0

----------------------------------------------------------------------------
\* Every generic prep meets its own step, through the trampoline Luau puts
\* before a loop instruction whose jump is too far.

LoopTarget(pc) ==
    LET to == To(pc)
    IN  IF /\ to + 1 = pc /\ to > 1 /\ code[to - 1].op = "JUMP" /\ code[to - 1].d = 1
           /\ code[to].op = "JUMPX"
        THEN To(to) ELSE to

Preps == {pc \in Starts : code[pc].op = "FORGPREP"}
Steps == {pc \in Starts : code[pc].op = "FORGLOOP"}

PairsOK ==
    /\ \A pc \in Preps : LoopTarget(pc) \in Steps /\ code[LoopTarget(pc)].a = code[pc].a
    /\ \A pc, other \in Preps : LoopTarget(pc) = LoopTarget(other) => pc = other
    /\ Steps \subseteq {LoopTarget(pc) : pc \in Preps}

----------------------------------------------------------------------------
\* An open result list: the base register it starts at, -1 when there is none.

Closed == -1
Lost == -2      \* "invalid open result list"

TopAfter(i, top) ==
    CASE i.op = "CALL" -> IF i.b = 0 /\ top <= i.a THEN Lost
                          ELSE IF i.c = 0 THEN i.a ELSE IF i.b = 0 THEN Closed ELSE top
      [] i.op = "GETVARARGS" -> IF ~IsVararg THEN Lost ELSE IF i.b = 0 THEN i.a ELSE top
      [] i.op = "RETURN" -> IF i.b = 0 /\ top < i.a THEN Lost ELSE Closed
      [] i.op = "SETLIST" /\ i.c = 0 -> IF top < i.b THEN Lost ELSE Closed
      [] Jumps(i) -> Closed
      [] OTHER -> top

\* Mutant: a branch target keeps the list of the code before it.
OpenThroughTargets ==
    LET after[pc \in 0..Len(code)] ==
            IF pc = 0 THEN Closed
            ELSE IF after[pc - 1] = Lost \/ pc \notin Starts THEN after[pc - 1]
                 ELSE TopAfter(code[pc], after[pc - 1])
    IN  after[Len(code)] # Lost

\* One linear scan over the instructions: the list after each slot.
Open ==
    LET after[pc \in 0..Len(code)] ==
            IF pc = 0 THEN Closed
            ELSE LET before == IF pc \in Targets THEN Closed ELSE after[pc - 1]
                 IN  IF after[pc - 1] = Lost THEN Lost
                     ELSE IF pc \notin Starts THEN before ELSE TopAfter(code[pc], before)
    IN  after

OpenOK == Open[Len(code)] # Lost

----------------------------------------------------------------------------
\* A closure with its captures, a method call with its CALL: whole, and never
\* entered midway.

CapturesOf(pc) == pc + 1..pc + code[pc].b

GroupsOK ==
    LET closures == {pc \in Starts : code[pc].op = "NEWCLOSURE"}
    IN  /\ \A pc \in closures : \A at \in CapturesOf(pc) :
              at \in Pcs /\ code[at].op = "CAPTURE" /\ at \notin Targets
        /\ \A at \in Starts : code[at].op = "CAPTURE" =>
              \E pc \in closures : at \in CapturesOf(pc)
        /\ \A pc \in Starts : code[pc].op = "NAMECALL" =>
              /\ pc + 2 \in Pcs /\ pc + 2 \notin Targets
              /\ code[pc + 2].op = "CALL" /\ code[pc + 2].a = code[pc].a

Valid == code # <<>> /\ TargetsOK /\ RegistersOK /\ PairsOK /\ OpenOK /\ GroupsOK

----------------------------------------------------------------------------
\* admit_open_call_order

\* The open CALL a FASTCALL hints at, when its fallback only loads its callee.
LoadsCallee(pc, callee) == code[pc].op \in {"MOVE", "GETIMPORT"} /\ code[pc].a = callee

FallbackConsumer(pc) ==
    LET consumer == pc + 1 + code[pc].c
    IN  IF /\ code[pc].op = "FASTCALL" /\ consumer \in Starts
           /\ code[consumer].op = "CALL" /\ code[consumer].b = 0
           /\ \A at \in Starts \cap (pc + 1..consumer - 1) : LoadsCallee(at, code[consumer].a)
        THEN consumer ELSE pc

Consumes(pc) ==
    LET takes(i) == \/ i.op \in {"CALL", "RETURN"} /\ i.b = 0
                    \/ i.op = "SETLIST" /\ i.c = 0
    IN  \/ takes(code[pc])
        \/ code[pc].op = "NAMECALL" /\ code[pc + 2].op = "CALL" /\ code[pc + 2].b = 0

Inert(i) == i.op \in {"NOP", "CLOSEUPVALS", "FASTCALL"}

OpenCallAfter(i, open) ==
    CASE i.op = "CALL" -> i.c = 0 \/ (open /\ i.b # 0)
      [] i.op = "GETVARARGS" /\ i.b = 0 -> FALSE
      [] i.op = "RETURN" -> FALSE
      [] i.op = "SETLIST" /\ i.c = 0 -> FALSE
      [] OTHER -> open

\* Between a call whose results are open and what takes them, nothing happens.
\* The scan after each slot: where it goes on, and whether a call is open.
Admission ==
    LET after[pc \in 0..Len(code)] ==
            IF pc = 0 THEN [next |-> 1, open |-> FALSE, ok |-> TRUE]
            ELSE LET so == after[pc - 1]
                     at == IF so.open THEN FallbackConsumer(pc) ELSE pc
                 IN  IF pc # so.next THEN so
                     ELSE [next |-> at + Len(Slots(code[at])), open |-> OpenCallAfter(code[at], so.open),
                           ok |-> so.ok /\ (so.open => Consumes(at) \/ Inert(code[at]))]
    IN  after

Admitted == Admission[Len(code)].ok

=============================================================================
