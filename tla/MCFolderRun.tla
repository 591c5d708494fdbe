---------------------------- MODULE MCFolderRun ----------------------------
(* Small instances of FolderRun for TLC: two contents share a fingerprint. *)
EXTENDS FolderRun, TLC

CONSTANTS a, b, r1, r2

AllModes  == [emit : BOOLEAN, export : BOOLEAN, warm : BOOLEAN]
WarmModes == [emit : BOOLEAN, export : BOOLEAN, warm : {TRUE}]
PlainAndAnalysis == {m \in WarmModes : ~m.export}

OneAtMost == {m \in WarmModes : ~(m.emit /\ m.export)}

Colliding == [c \in Contents |-> IF c \in {a, b} THEN 0 ELSE 1]
=============================================================================
