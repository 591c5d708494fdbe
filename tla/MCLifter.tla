------------------------------ MODULE MCLifter ------------------------------
EXTENDS Lifter

\* Jumps and skips.
Jumping ==
    {Ins("ADD", 0, 0, 0, 0), Ins("RETURN", 0, 1, 0, 0), Ins("LOADB", 0, 0, 2, 0),
     Ins("GETIMPORT", 0, 0, 0, 0), Ins("JUMPX", 0, 0, 0, 1)}
    \cup {Ins("JUMP", 0, 0, 0, d) : d \in {-2, 0}}
    \cup {Ins("JUMPIFNOT", 0, 0, 0, 1), Ins("JUMPIF", 0, 0, 0, -2), Ins("JUMPIFEQ", 0, 0, 0, 1)}

\* Generic loops, left and repeated from their bodies.
Iterating ==
    {Ins("ADD", 0, 0, 0, 0), Ins("RETURN", 0, 1, 0, 0), Ins("LOADB", 0, 0, 2, 0)}
    \cup {Ins("JUMP", 0, 0, 0, -2), Ins("JUMPIFNOT", 0, 0, 0, 1), Ins("JUMPIFEQ", 0, 0, 0, 1)}
    \cup {Ins("FORGPREP", 0, 0, 0, d) : d \in {0, 1}}
    \cup {Ins("FORGLOOP", 0, 1, 0, -2)}

\* Numeric loops, with bodies of one and two slots.
Counting ==
    {Ins("ADD", 0, 0, 0, 0), Ins("RETURN", 0, 1, 0, 0), Ins("JUMPIFNOTEQ", 0, 0, 0, 1)}
    \cup {Ins("JUMP", 0, 0, 0, 1)}
    \cup {Ins("FORNPREP", 0, 0, 0, d) : d \in {2, 3}}
    \cup {Ins("FORNLOOP", 0, 0, 0, d) : d \in {-2, -3}}

\* Numeric loops whose bodies are empty, or only break.
CountingIdly ==
    {Ins("ADD", 0, 0, 0, 0), Ins("RETURN", 0, 1, 0, 0)}
    \cup {Ins("JUMP", 0, 0, 0, d) : d \in {0, 1}}
    \cup {Ins("FORNPREP", 0, 0, 0, d) : d \in {1, 2}}
    \cup {Ins("FORNLOOP", 0, 0, 0, d) : d \in {-2, -1, 0}}

\* Numeric loops left by folded jumps, and preps that share a step with bodies
\* that lead into each other.
CountingFolded ==
    {Ins("ADD", 0, 0, 0, 0), Ins("RETURN", 0, 1, 0, 0), Ins("JUMP", 0, 0, 0, 1)}
    \cup {Ins("FORNPREP", 0, 0, 0, d) : d \in {2, 4}}
    \cup {Ins("FORNLOOP", 0, 0, 0, d) : d \in {-2, 0}}

\* Open result lists, with what may stand between a list and its taker.
Listing ==
    {Ins("CALL", 0, b, c, 0) : b \in {0, 2}, c \in {0, 1}}
    \cup {Ins("CALL", 1, b, 0, 0) : b \in {0, 2}}
    \cup {Ins("GETVARARGS", 1, 0, 0, 0), Ins("RETURN", 0, 0, 0, 0), Ins("SETLIST", 0, 1, 0, 0)}
    \cup {Ins("NAMECALL", 0, 0, 0, 0), Ins("CLOSEUPVALS", 0, 0, 0, 0), Ins("JUMPIF", 0, 0, 0, 1)}

\* What is lifted as one unit: closures, methods, the fallbacks of fast calls.
Grouping ==
    {Ins("CALL", 0, 0, c, 0) : c \in {0, 1}} \cup {Ins("CALL", 1, 2, 0, 0)}
    \cup {Ins("RETURN", 0, b, 0, 0) : b \in {0, 1}}
    \cup {Ins("NAMECALL", 0, 0, 0, 0), Ins("MOVE", 0, 0, 0, 0), Ins("JUMPIF", 0, 0, 0, 1)}
    \cup {Ins("FASTCALL", 0, 0, 1, 0), Ins("NEWCLOSURE", 0, 1, 0, 0), Ins("CAPTURE", 0, 0, 0, 0)}

\* Loop instructions whose jump is too far, with their trampolines.
Trampolines ==
    {Ins("RETURN", 0, 1, 0, 0), Ins("JUMP", 0, 0, 0, 1)}
    \cup {Ins("JUMPX", 0, 0, 0, d) : d \in {-3, 1, 2}}
FarIterating ==
    Trampolines \cup {Ins("FORGPREP", 0, 0, 0, d) : d \in {-2, 2}}
    \cup {Ins("FORGLOOP", 0, 1, 0, -2)}
FarCounting ==
    Trampolines \cup {Ins("FORNPREP", 0, 0, 0, d) : d \in {-2, 3}}
    \cup {Ins("FORNLOOP", 0, 0, 0, -2)}

MCKits ==
    {[instructions |-> Jumping, slots |-> 5],
     [instructions |-> Iterating, slots |-> 6],
     [instructions |-> Counting, slots |-> 6],
     [instructions |-> CountingIdly, slots |-> 5],
     [instructions |-> CountingFolded, slots |-> 6],
     [instructions |-> Listing, slots |-> 5],
     [instructions |-> Grouping, slots |-> 5],
     [instructions |-> FarIterating, slots |-> 6],
     [instructions |-> FarCounting, slots |-> 6]}
=============================================================================
