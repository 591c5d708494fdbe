----------------------------- MODULE SlotQueue -----------------------------
(***************************************************************************)
(* What admission promises, stated without semaphores, timeouts or phases: *)
(* `Slots' job slots served first come, first served through a queue of at *)
(* most `Room' waiters.  A slot is never free while somebody waits, and a  *)
(* slot that becomes free goes to the longest waiter in the same step.     *)
(* The README of the repository states this contract for the server.       *)
(***************************************************************************)
EXTENDS Integers, FiniteSets

CONSTANTS Clients, Slots, Room

VARIABLES
    busy,     \* clients that own a slot
    waiting,  \* clients in the queue
    ahead     \* for each client, the waiters that came before it

slots == <<busy, waiting, ahead>>

Start ==
    /\ busy = {}
    /\ waiting = {}
    /\ ahead = [c \in Clients |-> {}]

\* A newcomer finds a free slot; nobody is waiting for it.
Enter(c) ==
    /\ c \notin busy \union waiting
    /\ waiting = {}
    /\ Cardinality(busy) < Slots
    /\ busy' = busy \union {c}
    /\ UNCHANGED <<waiting, ahead>>

\* A newcomer joins the end of the queue: every slot is taken, there is room.
Join(c) ==
    /\ c \notin busy \union waiting
    /\ Cardinality(busy) = Slots
    /\ Cardinality(waiting) < Room
    /\ waiting' = waiting \union {c}
    /\ ahead' = [ahead EXCEPT ![c] = waiting]
    /\ UNCHANGED busy

\* A waiter gives up.
Abandon(c) ==
    /\ c \in waiting
    /\ waiting' = waiting \ {c}
    /\ ahead' = [q \in Clients |-> IF q = c THEN {} ELSE ahead[q] \ {c}]
    /\ UNCHANGED busy

\* An owner leaves an empty queue behind.
Vacate(c) ==
    /\ c \in busy
    /\ waiting = {}
    /\ busy' = busy \ {c}
    /\ UNCHANGED <<waiting, ahead>>

\* An owner leaves: its slot goes to the waiter nobody is ahead of.
HandOver(c, w) ==
    /\ c \in busy
    /\ w \in waiting
    /\ ahead[w] = {}
    /\ busy' = (busy \ {c}) \union {w}
    /\ waiting' = waiting \ {w}
    /\ ahead' = [q \in Clients |-> IF q = w THEN {} ELSE ahead[q] \ {w}]

Step ==
    \/ \E c \in Clients : Enter(c) \/ Join(c) \/ Abandon(c) \/ Vacate(c)
    \/ \E c, w \in Clients : HandOver(c, w)

SlotSpec == Start /\ [][Step]_slots
=============================================================================
