-------------------------- MODULE FolderRunProofs --------------------------
(***************************************************************************)
(* Proofs about FolderRun: for any number of runs, scripts and contents,    *)
(* the analysis published in an output directory describes what is there.   *)
(***************************************************************************)
EXTENDS FolderRun, TLAPS

-----------------------------------------------------------------------------
(* The inductive invariant. *)

Idling  == {"planning", "waiting", "ended"}   \* phases without the lock
Started == {"working", "publishing", "sealing", "failing", "exiting"}
Made    == {"writing", "truncated", "siding", "ok", "skip", "sourced"}
OnDisk  == {"siding", "ok", "skip", "sourced"}

\* Scripts are processed only once the run has the lock and is past Check.
RowsInPhase(r) ==
  \A s \in Scripts : row[r][s] \notin {"none", "todo"} => phase[r] \in Started

\* Rows from "writing" on have an artifact to write.
HasArtifact(r) ==
  \A s \in Scripts : row[r][s] \in Made => artifact[r][s] \in Artifacts

\* Once a source is written it stays what the run made, and a sidecar of an
\* "ok" row is whole.  Only a run without an export manifest truncates.
Written(r) ==
  \A s \in Scripts :
    /\ row[r][s] \in OnDisk => sources[s] = artifact[r][s]
    /\ row[r][s] = "ok" /\ Emits(r) /\ artifact[r][s][1] = "lift"
         => sidecars[<<s, artifact[r][s]>>] = "good"
    /\ row[r][s] = "truncated" => ~Exports(r)

\* What is gone of the previous analysis, and what is there of the new one,
\* in each phase.
Invalidated(r) ==
  /\ phase[r] = "invalidating" => provenance = None
  /\ phase[r] \in {"preparing", "publishing"} => provenance = None /\ manifest = None
  /\ phase[r] = "working" /\ (Emits(r) \/ Work(r) # {}) => provenance = None /\ manifest = None
  /\ phase[r] = "sealing" => provenance = Provenance(r) /\ manifest = None
  /\ phase[r] \in {"publishing", "sealing"} => Emits(r)

RunInv(r) == RowsInPhase(r) /\ HasArtifact(r) /\ Written(r) /\ Invalidated(r)

\* The inductive invariant.
FolderInv ==
  /\ TypeOK
  /\ \A r \in Runs : RunInv(r)
  /\ ManifestVouches
  /\ ProvenanceIsCurrent

-----------------------------------------------------------------------------
(* Type correctness. *)

LEMMA OutputType ==
  ASSUME NEW r \in Runs, NEW s \in Scripts, NEW text \in Texts,
         hint \in [Scripts -> Hints], Treatment(r, s, text) # "fail"
  PROVE  Output(r, s, text) \in Artifacts
  <1>1. text \in Contents
    BY DEF Treatment, Texts
  <1>2. CASE Treatment(r, s, text) = "lift"
    <2>1. Output(r, s, text) = <<"lift", hint[s], text>>
      BY <1>2 DEF Output
    <2> QED BY <1>1, <2>1 DEF Artifacts
  <1>3. CASE Treatment(r, s, text) \in {"report", "copy"}
    <2>1. Output(r, s, text) = <<Treatment(r, s, text), text>>
      BY <1>3 DEF Output
    <2> QED BY <1>1, <1>3, <2>1 DEF Artifacts
  <1>4. CASE Treatment(r, s, text) \notin {"lift", "report", "copy"}
    <2>1. Output(r, s, text) = <<"nothing">>
      BY <1>4 DEF Output
    <2> QED BY <2>1 DEF Artifacts
  <1> QED BY <1>2, <1>3, <1>4

LEMMA InitType == Init => TypeOK
  BY FolderAssumption DEF Init, TypeOK, Idle, Texts, Phases, Rows

\* A run ends: its memory is empty and its lock free.
LEMMA LeaveType ==
  ASSUME TypeOK, NEW r \in Runs, NEW status \in {0, 1, 2, 137}, Leave(r, status),
         UNCHANGED <<sources, sidecars, input>>
  PROVE  TypeOK'
  <1>1. /\ row' \in [Runs -> [Scripts -> Rows]]
        /\ seen' \in [Runs -> [Scripts -> Texts]]
        /\ kept' \in [Runs -> SUBSET Scripts]
        /\ bytes' \in [Runs -> [Scripts -> Texts]]
        /\ artifact' \in [Runs -> [Scripts -> Artifacts \union {None}]]
        /\ memo' \in [Runs -> [Scripts -> {None} \union [bytes : Texts, artifact : Artifacts]]]
    BY DEF TypeOK, Leave, Forget, Idle, Rows, Texts
  <1>2. /\ mode' \in [Runs -> Modes]
        /\ hint' \in [Scripts -> Hints]
        /\ code' \in [Runs -> {None, 0, 1, 2, 137}]
        /\ phase' \in [Runs -> Phases]
        /\ lock' \in Runs \union {None}
    BY DEF TypeOK, Leave, settings, Phases
  <1>3. \A q \in Runs : lock' = q <=> phase'[q] \notin {"planning", "waiting", "ended"}
    BY FolderAssumption DEF TypeOK, Leave, Phases
  <1> QED BY <1>1, <1>2, <1>3 DEF TypeOK

\* A run moves between two phases that both hold the lock or both do not.
LEMMA GotoType ==
  ASSUME TypeOK, NEW r \in Runs, NEW from \in Phases, NEW to \in Phases,
         Goto(r, from, to),
         from \in {"planning", "waiting", "ended"} <=> to \in {"planning", "waiting", "ended"},
         UNCHANGED <<mode, hint, input, sources, sidecars, lock, code, seen, kept,
                     bytes, artifact, memo>>,
         row' \in [Runs -> [Scripts -> Rows]]
  PROVE  TypeOK'
  <1>1. phase' \in [Runs -> Phases]
    BY DEF TypeOK, Goto
  <1>2. \A q \in Runs : lock' = q <=> phase'[q] \notin {"planning", "waiting", "ended"}
    BY DEF TypeOK, Goto
  <1> QED BY <1>1, <1>2 DEF TypeOK

\* A script moves on; what its step writes has the right type.
LEMMA AdvanceType ==
  ASSUME TypeOK, NEW r \in Runs, NEW s \in Scripts, NEW from \in Rows, NEW to \in Rows,
         Advance(r, s, from, to),
         UNCHANGED <<mode, hint, input, control>>,
         sources' \in [Scripts -> Artifacts \union {Absent, Torn}],
         sidecars' \in [Scripts \X Artifacts -> {"absent", "torn", "good"}],
         seen' \in [Runs -> [Scripts -> Texts]],
         kept' \in [Runs -> SUBSET Scripts],
         bytes' \in [Runs -> [Scripts -> Texts]],
         artifact' \in [Runs -> [Scripts -> Artifacts \union {None}]],
         memo' \in [Runs -> [Scripts -> {None} \union [bytes : Texts, artifact : Artifacts]]]
  PROVE  TypeOK'
  <1>1. row' \in [Runs -> [Scripts -> Rows]]
    BY DEF TypeOK, Advance
  <1> QED BY <1>1 DEF TypeOK, control

\* What a worker makes of a text, computed or reused, is an artifact.
LEMMA TakeMakes ==
  ASSUME TypeOK, NEW r \in Runs, NEW s \in Scripts, Take(r, s)
  PROVE  /\ \E from \in {"grouped", "todo"}, to \in {"fail", "writing"}, a \in Artifacts \union {None} :
              /\ Advance(r, s, from, to)
              /\ artifact' = [artifact EXCEPT ![r][s] = a]
              /\ to = "writing" => a \in Artifacts
         /\ memo' \in [Runs -> [Scripts -> {None} \union [bytes : Texts, artifact : Artifacts]]]
  <1> DEFINE text  == IF s \in kept[r] THEN seen[r][s] ELSE input[s]
             does  == Treatment(r, s, text)
             share == Grouped(r) /\ Cardinality(Group(r, s)) > 1 /\ does \in {"lift", "report"}
             hit   == share /\ Reusable(memo[r][s], text)
             made  == IF hit THEN memo[r][s].artifact ELSE Output(r, s, text)
  <1>1. text \in Texts
    BY DEF TypeOK
  <1>2. does # "fail" => made \in Artifacts
    <2>1. hit => memo[r][s].artifact \in Artifacts
      BY DEF TypeOK, Reusable
    <2>2. does # "fail" => Output(r, s, text) \in Artifacts
      BY <1>1, OutputType DEF TypeOK
    <2> QED BY <2>1, <2>2
  <1>3. \E from \in {"grouped", "todo"}, to \in {"fail", "writing"}, a \in Artifacts \union {None} :
          /\ Advance(r, s, from, to)
          /\ artifact' = [artifact EXCEPT ![r][s] = a]
          /\ to = "writing" => a \in Artifacts
    <2>1. /\ artifact' = [artifact EXCEPT ![r][s] = IF does = "fail" THEN None ELSE made]
          /\ Advance(r, s, IF Grouped(r) THEN "grouped" ELSE "todo",
                           IF does = "fail" THEN "fail" ELSE "writing")
      BY DEF Take
    <2> HIDE DEF made, does
    <2>2. CASE does = "fail"
      BY <2>1, <2>2
    <2>3. CASE does # "fail"
      BY <1>2, <2>1, <2>3
    <2> QED BY <2>2, <2>3
  <1>4. memo' \in [Runs -> [Scripts -> {None} \union [bytes : Texts, artifact : Artifacts]]]
    <2>1. memo' = IF share
                  THEN [memo EXCEPT ![r] = [u \in Scripts |->
                            IF u \in Group(r, s) THEN [bytes |-> text, artifact |-> made]
                                                 ELSE memo[r][u]]]
                  ELSE memo
      BY DEF Take, TypeOK
    <2>2. share => does # "fail"
      OBVIOUS
    <2> HIDE DEF made, does, text, share
    <2> QED BY <1>1, <1>2, <2>1, <2>2 DEF TypeOK
  <1> QED BY <1>3, <1>4

LEMMA TakeType ==
  ASSUME TypeOK, NEW r \in Runs, NEW s \in Scripts, Take(r, s)
  PROVE  TypeOK'
  <1>1. PICK from \in {"grouped", "todo"}, to \in {"fail", "writing"}, a \in Artifacts \union {None} :
           Advance(r, s, from, to) /\ artifact' = [artifact EXCEPT ![r][s] = a]
    BY TakeMakes
  <1>2. memo' \in [Runs -> [Scripts -> {None} \union [bytes : Texts, artifact : Artifacts]]]
    BY TakeMakes
  <1>3. artifact' \in [Runs -> [Scripts -> Artifacts \union {None}]]
    BY <1>1 DEF TypeOK
  <1>4. bytes' \in [Runs -> [Scripts -> Texts]]
    BY DEF Take, TypeOK
  <1>5. UNCHANGED <<mode, hint, input, control, sources, sidecars, seen, kept>>
    BY DEF Take, settings, disk, world
  <1> QED
    BY <1>1, <1>2, <1>3, <1>4, <1>5, AdvanceType DEF TypeOK, Rows, Finished

LEMMA AfterSourceType ==
  \A r \in Runs, s \in Scripts :
    AfterSource(r, s) \in {"skip", "siding", "ok"}
  BY DEF AfterSource

\* A step that stores an artifact keeps the type of the output directory.
LEMMA StoreType ==
  ASSUME TypeOK, NEW r \in Runs, NEW s \in Scripts, artifact[r][s] \in Artifacts,
         sources' = sources \/ sources' = [sources EXCEPT ![s] = artifact[r][s]]
  PROVE  sources' \in [Scripts -> Artifacts \union {Absent, Torn}]
  <1>1. sources \in [Scripts -> Artifacts \union {Absent, Torn}]
    BY DEF TypeOK
  <1>2. CASE sources' = sources
    BY <1>1, <1>2
  <1>3. CASE sources' = [sources EXCEPT ![s] = artifact[r][s]]
    BY <1>1, <1>3
  <1> QED BY <1>2, <1>3

LEMMA ScriptStepType ==
  ASSUME TypeOK, NEW r \in Runs, NEW s \in Scripts, HasArtifact(r),
         ScriptStep(r, s) \/ ScriptFault(r, s)
  PROVE  TypeOK'
  <1> USE DEF settings, disk, analysis, world, Rows, Finished
  <1>1. CASE GroupRead(r, s)
    <2>1. /\ seen' \in [Runs -> [Scripts -> Texts]]
          /\ kept' \in [Runs -> SUBSET Scripts]
      BY <1>1 DEF GroupRead, TypeOK
    <2> QED BY <1>1, <2>1, AdvanceType DEF GroupRead, TypeOK
  <1>2. CASE Take(r, s)
    BY <1>2, TakeType
  <1>3. CASE Publish(r, s)
    <2>1. artifact[r][s] \in Artifacts
      BY <1>3 DEF Publish, Advance, HasArtifact, Made
    <2>2. sources' \in [Scripts -> Artifacts \union {Absent, Torn}]
      BY <1>3, <2>1, StoreType DEF Publish
    <2>3. \E to \in {"fail", "skip", "siding", "ok"} : Advance(r, s, "writing", to)
      BY <1>3, AfterSourceType DEF Publish
    <2> QED BY <1>3, <2>2, <2>3, AdvanceType DEF Publish, TypeOK
  <1>4. CASE Truncate(r, s)
    <2>2. sources' \in [Scripts -> Artifacts \union {Absent, Torn}]
      BY <1>4 DEF Truncate, TypeOK
    <2> QED BY <1>4, <2>2, AdvanceType DEF Truncate, TypeOK
  <1>5. CASE Fill(r, s)
    <2>1. artifact[r][s] \in Artifacts
      BY <1>5 DEF Fill, Advance, HasArtifact, Made
    <2>2. sources' \in [Scripts -> Artifacts \union {Absent, Torn}]
      BY <1>5, <2>1, StoreType DEF Fill
    <2> QED BY <1>5, <2>2, AfterSourceType, AdvanceType DEF Fill, TypeOK
  <1>6. CASE WriteSidecar(r, s)
    <2>2. sidecars' \in [Scripts \X Artifacts -> {"absent", "torn", "good"}]
      BY <1>6 DEF WriteSidecar, TypeOK
    <2> QED BY <1>6, <2>2, AdvanceType DEF WriteSidecar, TypeOK
  <1>7. CASE PublishFails(r, s)
    <2>1. artifact[r][s] \in Artifacts
      BY <1>7 DEF PublishFails, Advance, HasArtifact, Made
    <2>2. sources' \in [Scripts -> Artifacts \union {Absent, Torn}]
      BY <1>7, <2>1, StoreType DEF PublishFails
    <2> QED BY <1>7, <2>2, AdvanceType DEF PublishFails, Fault, TypeOK
  <1>8. CASE FillFails(r, s)
    BY <1>8, AdvanceType DEF FillFails, Fault, TypeOK
  <1>11. CASE OpenFails(r, s)
    BY <1>11, AdvanceType DEF OpenFails, Fault, TypeOK
  <1>9. CASE SidecarFails(r, s)
    <2>1. sidecars' \in [Scripts \X Artifacts -> {"absent", "torn", "good"}]
      <3> DEFINE sidecar == <<s, artifact[r][s]>>
      <3>1. UNCHANGED sidecars \/ sidecars' = [sidecars EXCEPT ![sidecar] = "good"]
        BY <1>9 DEF SidecarFails
      <3>2. sidecars \in [Scripts \X Artifacts -> {"absent", "torn", "good"}]
        BY DEF TypeOK
      <3> HIDE DEF sidecar
      <3> QED BY <3>1, <3>2
    <2> QED BY <1>9, <2>1, AdvanceType DEF SidecarFails, Fault, TypeOK
  <1>10. CASE Unlink(r, s)
    <2>1. sources' \in [Scripts -> Artifacts \union {Absent, Torn}]
      BY <1>10 DEF Unlink, TypeOK
    <2> QED BY <1>10, <2>1, AdvanceType DEF Unlink, TypeOK
  <1> QED
    BY <1>1, <1>2, <1>3, <1>4, <1>5, <1>6, <1>7, <1>8, <1>9, <1>10, <1>11 DEF ScriptStep, ScriptFault

LEMMA RunStepType ==
  ASSUME TypeOK, NEW r \in Runs, RunStep(r) \/ RunFault(r) \/ Kill(r)
  PROVE  TypeOK'
  <1> USE DEF settings, disk, analysis, progress, world
  <1>1. CASE Plan(r)
    <2>1. row' \in [Runs -> [Scripts -> Rows]]
      BY <1>1 DEF Plan, TypeOK, Rows
    <2> QED BY <1>1, <2>1, GotoType DEF Plan, Phases
  <1>2. CASE Acquire(r)
    <2>1. phase' \in [Runs -> Phases] /\ lock' = r
      BY <1>2 DEF Acquire, Goto, TypeOK, Phases
    <2>2. \A q \in Runs : lock' = q <=> phase'[q] \notin {"planning", "waiting", "ended"}
      BY <1>2, FolderAssumption DEF Acquire, Goto, TypeOK, Phases
    <2> QED BY <1>2, <2>1, <2>2 DEF Acquire, TypeOK
  <1>3. CASE Check(r)
    BY <1>3, GotoType DEF Check, TypeOK, Phases
  <1>4. CASE DropProvenance(r)
    BY <1>4, GotoType DEF DropProvenance, TypeOK, Phases
  <1>5. CASE DropManifest(r)
    BY <1>5, GotoType DEF DropManifest, TypeOK, Phases
  <1>6. CASE Prepare(r)
    BY <1>6, GotoType DEF Prepare, TypeOK, Phases
  <1>7. CASE Tally(r)
    BY <1>7, GotoType DEF Tally, TypeOK, Phases
  <1>8. CASE PublishProvenance(r)
    BY <1>8, GotoType DEF PublishProvenance, TypeOK, Phases
  <1>9. CASE PublishManifest(r)
    BY <1>9, GotoType DEF PublishManifest, TypeOK, Phases
  <1>10. CASE Exit(r)
    BY <1>10, LeaveType DEF Exit
  <1>11. CASE Refuse(r)
    BY <1>11, LeaveType DEF Refuse, Fault
  <1>12. CASE ProvenanceFails(r)
    BY <1>12, GotoType DEF ProvenanceFails, Fault, TypeOK, Phases
  <1>13. CASE ManifestFails(r)
    BY <1>13, GotoType DEF ManifestFails, Fault, TypeOK, Phases
  <1>14. CASE Kill(r)
    BY <1>14, LeaveType DEF Kill
  <1> QED
    BY <1>1, <1>2, <1>3, <1>4, <1>5, <1>6, <1>7, <1>8, <1>9, <1>10, <1>11, <1>12,
       <1>13, <1>14 DEF RunStep, RunFault

-----------------------------------------------------------------------------
(* What the published analysis says. *)

\* What a run lists depends on its rows and artifacts only.
LEMMA ListingFrame ==
  ASSUME NEW r \in Runs, row'[r] = row[r], artifact'[r] = artifact[r], mode' = mode
  PROVE  /\ Emits(r)' = Emits(r) /\ Exports(r)' = Exports(r)
         /\ Work(r)' = Work(r)
         /\ Provenance(r)' = Provenance(r)
  <1>1. Emits(r)' = Emits(r) /\ Exports(r)' = Exports(r)
    BY DEF Emits, Exports
  <1>2. Work(r)' = Work(r)
    BY DEF Work
  <1>3. \A o : Outcomes(r, o)' = Outcomes(r, o)
    BY <1>2 DEF Outcomes
  <1>4. Records(r)' = Records(r)
    BY <1>3 DEF Records
  <1>5. Entries(r)' = Entries(r)
    BY <1>3 DEF Entries
  <1>6. Failed(r)' = Failed(r)
    BY <1>1, <1>2, <1>3 DEF Failed, Rejected
  <1> QED BY <1>1, <1>2, <1>4, <1>5, <1>6 DEF Provenance, Generation

\* A step of another actor that leaves a run's memory, phase and files alone.
LEMMA OtherRun ==
  ASSUME NEW q \in Runs, RunInv(q),
         row'[q] = row[q], artifact'[q] = artifact[q], phase'[q] = phase[q], mode' = mode,
         UNCHANGED <<sources, sidecars>> \/ phase[q] \in Idling,
         UNCHANGED <<provenance, manifest>> \/ phase[q] \in Idling
  PROVE  RunInv(q)'
  <1>0. /\ Emits(q)' = Emits(q) /\ Exports(q)' = Exports(q)
        /\ Work(q)' = Work(q)
        /\ Provenance(q)' = Provenance(q)
    BY ListingFrame
  <1>1. RowsInPhase(q)' /\ HasArtifact(q)'
    BY DEF RunInv, RowsInPhase, HasArtifact
  <1>2. Written(q)'
    BY <1>0 DEF RunInv, RowsInPhase, Written, Idling, Started, OnDisk
  <1>3. Invalidated(q)'
    BY <1>0 DEF RunInv, Invalidated, Idling
  <1> QED BY <1>1, <1>2, <1>3 DEF RunInv

\* A run that ends remembers nothing.
LEMMA EndedRun ==
  ASSUME TypeOK, NEW r \in Runs, NEW status, Leave(r, status)
  PROVE  RunInv(r)'
  <1>1. phase'[r] = "ended"
    BY DEF Leave, TypeOK
  <1>2. \A s \in Scripts : row'[r][s] = "none"
    BY DEF Leave, Forget, TypeOK
  <1> QED BY <1>1, <1>2 DEF RunInv, RowsInPhase, HasArtifact, Written, Invalidated, Made, OnDisk

\* The lists of a run whose rows are in describe the disk.
LEMMA ListsAreTrue ==
  ASSUME NEW r \in Runs, RunInv(r), Emits(r)
  PROVE  /\ \A s \in DOMAIN Records(r) : sources[s] = Records(r)[s]
         /\ \A s \in DOMAIN Entries(r) : sidecars[<<s, Entries(r)[s]>>] = "good"
  <1>1. ASSUME NEW s \in DOMAIN Records(r)
        PROVE  sources[s] = Records(r)[s]
    <2>1. s \in Scripts /\ row[r][s] \in OnDisk /\ Records(r)[s] = artifact[r][s]
      BY <1>1 DEF Records, Outcomes, Work, OnDisk
    <2> QED BY <2>1 DEF RunInv, Written
  <1>2. ASSUME NEW s \in DOMAIN Entries(r)
        PROVE  sidecars[<<s, Entries(r)[s]>>] = "good"
    <2>1. /\ s \in Scripts /\ row[r][s] = "ok" /\ artifact[r][s][1] = "lift"
          /\ Entries(r)[s] = artifact[r][s]
      BY <1>2 DEF Entries, Outcomes, Work
    <2> QED BY <2>1 DEF RunInv, Written
  <1> QED BY <1>1, <1>2

\* A step of a script: the analysis is gone already, and what the step writes
\* belongs to its own row.
LEMMA ScriptFrame ==
  ASSUME FolderInv, TypeOK', NEW r \in Runs, NEW s \in Scripts,
         NEW from, NEW to, from # "none",
         Advance(r, s, from, to),
         UNCHANGED <<mode, control, analysis>>,
         \A q \in Runs \ {r} : artifact'[q] = artifact[q],
         \A u \in Scripts \ {s} : artifact'[r][u] = artifact[r][u],
         \A u \in Scripts \ {s} : sources'[u] = sources[u],
         \A u \in Scripts \ {s} : \A x \in Artifacts : sidecars'[<<u, x>>] = sidecars[<<u, x>>],
         to \in Made => artifact'[r][s] \in Artifacts,
         to \in OnDisk => sources'[s] = artifact'[r][s],
         to = "ok" /\ Emits(r) /\ artifact'[r][s][1] = "lift"
           => sidecars'[<<s, artifact'[r][s]>>] = "good",
         to = "truncated" => ~Exports(r)
  PROVE  FolderInv'
  <1> USE DEF control, analysis
  <1>1. phase[r] = "working" /\ row[r][s] # "none" /\ s \in Work(r)
    BY DEF Advance, Work
  <1>2. provenance = None /\ manifest = None
    BY <1>1 DEF FolderInv, RunInv, Invalidated
  <1>3. ManifestVouches' /\ ProvenanceIsCurrent'
    BY <1>2 DEF ManifestVouches, ProvenanceIsCurrent
  <1>4. ASSUME NEW q \in Runs \ {r}
        PROVE  RunInv(q)'
    <2>1. phase[q] \in Idling
      BY <1>1, <1>4 DEF FolderInv, TypeOK, Idling
    <2>2. row'[q] = row[q] /\ artifact'[q] = artifact[q]
      BY <1>4 DEF FolderInv, TypeOK, Advance
    <2>3. RunInv(q)
      BY <1>4 DEF FolderInv
    <2> QED BY <2>1, <2>2, <2>3, OtherRun
  <1>5. RunInv(r)'
    <2>1. row'[r][s] = to
      BY DEF FolderInv, TypeOK, Advance
    <2>2. \A u \in Scripts \ {s} : row'[r][u] = row[r][u] /\ artifact'[r][u] = artifact[r][u]
      BY DEF FolderInv, TypeOK, Advance
    <2>3. Emits(r)' = Emits(r) /\ Exports(r)' = Exports(r)
      BY DEF Emits, Exports
    <2>4. RowsInPhase(r)'
      BY <1>1 DEF RowsInPhase, Started
    <2>5. HasArtifact(r) /\ Written(r)
      BY DEF FolderInv, RunInv
    <2>6. HasArtifact(r)'
      BY <2>1, <2>2, <2>5 DEF HasArtifact
    <2>7. Written(r)'
      <3> SUFFICES ASSUME NEW u \in Scripts
                   PROVE  /\ row'[r][u] \in OnDisk => sources'[u] = artifact'[r][u]
                          /\ row'[r][u] = "ok" /\ Emits(r) /\ artifact'[r][u][1] = "lift"
                               => sidecars'[<<u, artifact'[r][u]>>] = "good"
                          /\ row'[r][u] = "truncated" => ~Exports(r)
        BY <2>3 DEF Written
      <3>1. CASE u = s
        BY <2>1, <3>1
      <3>2. CASE u # s
        <4>1. row[r][u] = "ok" => artifact[r][u] \in Artifacts
          BY <2>5 DEF HasArtifact, Made
        <4> QED BY <2>2, <2>5, <3>2, <4>1 DEF Written
      <3> QED BY <3>1, <3>2
    <2>8. Invalidated(r)'
      BY <1>1, <1>2 DEF Invalidated
    <2> QED BY <2>4, <2>6, <2>7, <2>8 DEF RunInv
  <1> QED BY <1>3, <1>4, <1>5 DEF FolderInv

LEMMA ScriptStepSafe ==
  ASSUME FolderInv, NEW r \in Runs, NEW s \in Scripts, ScriptStep(r, s) \/ ScriptFault(r, s)
  PROVE  FolderInv'
  <1> USE DEF settings, disk, analysis, control, world
  <1>1. TypeOK /\ HasArtifact(r) /\ Written(r)
    BY DEF FolderInv, RunInv
  <1>2. TypeOK'
    BY <1>1, ScriptStepType
  <1>3. /\ s \in Scripts /\ s \in DOMAIN sources
        /\ \A u \in Scripts, x \in Artifacts : <<u, x>> \in DOMAIN sidecars
    BY <1>1 DEF TypeOK
  <1>4. row[r][s] \in Made => artifact[r][s] \in Artifacts
    BY <1>1 DEF HasArtifact
  <1>5. CASE GroupRead(r, s)
    BY <1>2, <1>5, ScriptFrame DEF GroupRead, Made, OnDisk
  <1>6. CASE Take(r, s)
    <2>1. PICK from \in {"grouped", "todo"}, to \in {"fail", "writing"}, a \in Artifacts \union {None} :
            /\ Advance(r, s, from, to)
            /\ artifact' = [artifact EXCEPT ![r][s] = a]
            /\ to = "writing" => a \in Artifacts
      BY <1>1, <1>6, TakeMakes
    <2>2. /\ \A q \in Runs \ {r} : artifact'[q] = artifact[q]
          /\ \A u \in Scripts \ {s} : artifact'[r][u] = artifact[r][u]
          /\ artifact'[r][s] = a
      BY <1>1, <2>1 DEF TypeOK
    <2>3. UNCHANGED <<mode, control, analysis, sources, sidecars>>
      BY <1>6 DEF Take
    <2> QED
      BY <1>2, <2>1, <2>2, <2>3, ScriptFrame DEF Made, OnDisk
  <1>7. CASE Publish(r, s)
    <2>1. CASE Advance(r, s, "writing", "fail") /\ UNCHANGED sources
      BY <1>2, <1>7, <2>1, ScriptFrame DEF Publish, Made, OnDisk
    <2>2. CASE /\ Advance(r, s, "writing", AfterSource(r, s))
               /\ sources' = [sources EXCEPT ![s] = artifact[r][s]]
      <3>1. sources'[s] = artifact[r][s] /\ \A u \in Scripts \ {s} : sources'[u] = sources[u]
        BY <1>3, <2>2
      <3>2. AfterSource(r, s) = "ok" => ~(Emits(r) /\ artifact[r][s][1] = "lift")
        BY DEF AfterSource
      <3>3. artifact[r][s] \in Artifacts
        BY <1>4, <2>2 DEF Advance, Made
      <3> QED
        BY <1>2, <1>7, <2>2, <3>1, <3>2, <3>3, AfterSourceType, ScriptFrame
           DEF Publish, Made, OnDisk
    <2> QED BY <1>7, <2>1, <2>2 DEF Publish
  <1>8. CASE Truncate(r, s)
    <2>1. \A u \in Scripts \ {s} : sources'[u] = sources[u]
      BY <1>3, <1>8 DEF Truncate
    <2>2. artifact[r][s] \in Artifacts
      BY <1>4, <1>8 DEF Truncate, Advance, Made
    <2> QED
      BY <1>2, <1>8, <2>1, <2>2, ScriptFrame DEF Truncate, Made, OnDisk
  <1>9. CASE Fill(r, s)
    <2>1. sources'[s] = artifact[r][s] /\ \A u \in Scripts \ {s} : sources'[u] = sources[u]
      BY <1>3, <1>9 DEF Fill
    <2>2. AfterSource(r, s) = "ok" => ~(Emits(r) /\ artifact[r][s][1] = "lift")
      BY DEF AfterSource
    <2>3. artifact[r][s] \in Artifacts
      BY <1>4, <1>9 DEF Fill, Advance, Made
    <2> QED
      BY <1>2, <1>9, <2>1, <2>2, <2>3, AfterSourceType, ScriptFrame
         DEF Fill, Made, OnDisk
  <1>10. CASE WriteSidecar(r, s)
    <2>1. artifact[r][s] \in Artifacts /\ sources[s] = artifact[r][s]
      BY <1>1, <1>4, <1>10 DEF WriteSidecar, Advance, Made, OnDisk, Written
    <2>2. sidecars'[<<s, artifact[r][s]>>] = "good"
      BY <1>3, <1>10, <2>1 DEF WriteSidecar
    <2>3. \A u \in Scripts \ {s}, x \in Artifacts : sidecars'[<<u, x>>] = sidecars[<<u, x>>]
      BY <1>3, <1>10, <2>1 DEF WriteSidecar
    <2> QED
      BY <1>2, <1>10, <2>1, <2>2, <2>3, ScriptFrame
         DEF WriteSidecar, Made, OnDisk
  <1>11. CASE PublishFails(r, s)
    <2>1. \A u \in Scripts \ {s} : sources'[u] = sources[u]
      <3>1. CASE UNCHANGED sources
        BY <3>1
      <3>2. CASE sources' = [sources EXCEPT ![s] = artifact[r][s]]
        BY <1>3, <3>2
      <3> QED BY <1>11, <3>1, <3>2 DEF PublishFails
    <2> QED
      BY <1>2, <1>11, <2>1, ScriptFrame DEF PublishFails, Made, OnDisk
  <1>12. CASE OpenFails(r, s) \/ FillFails(r, s)
    BY <1>2, <1>12, ScriptFrame DEF OpenFails, FillFails, Made, OnDisk
  <1>13. CASE SidecarFails(r, s)
    <2>1. artifact[r][s] \in Artifacts /\ sources[s] = artifact[r][s]
      BY <1>1, <1>4, <1>13 DEF SidecarFails, Advance, Made, OnDisk, Written
    <2>2. \A u \in Scripts \ {s}, x \in Artifacts : sidecars'[<<u, x>>] = sidecars[<<u, x>>]
      BY <1>3, <1>13, <2>1 DEF SidecarFails
    <2>3. /\ Advance(r, s, "siding", "sourced")
          /\ UNCHANGED <<settings, sources, analysis, control, artifact>>
      BY <1>13 DEF SidecarFails
    <2> QED
      BY <1>2, <2>1, <2>2, <2>3, ScriptFrame DEF Made, OnDisk
  <1>14. CASE Unlink(r, s)
    <2>1. \A u \in Scripts \ {s} : sources'[u] = sources[u]
      BY <1>3, <1>14 DEF Unlink
    <2>2. artifact[r][s] \in Artifacts
      BY <1>4, <1>14 DEF Unlink, Advance, Made
    <2> QED
      BY <1>2, <1>14, <2>1, <2>2, ScriptFrame DEF Unlink, Made, OnDisk
  <1> QED
    BY <1>5, <1>6, <1>7, <1>8, <1>9, <1>10, <1>11, <1>12, <1>13, <1>14 DEF ScriptStep, ScriptFault

\* The step of a run r that does not hold the lock, or does not write.
LEMMA RunFrame ==
  ASSUME FolderInv, TypeOK', NEW r \in Runs, RunInv(r)',
         UNCHANGED <<mode, sources, sidecars>>,
         \A q \in Runs \ {r} : row'[q] = row[q] /\ artifact'[q] = artifact[q] /\ phase'[q] = phase[q],
         UNCHANGED <<provenance, manifest>> \/ phase[r] \notin Idling,
         ManifestVouches', ProvenanceIsCurrent'
  PROVE  FolderInv'
  <1>1. ASSUME NEW q \in Runs \ {r}
        PROVE  RunInv(q)'
    <2>1. phase[r] \notin Idling => phase[q] \in Idling
      BY <1>1 DEF FolderInv, TypeOK, Idling
    <2>2. RunInv(q)
      BY <1>1 DEF FolderInv
    <2> QED BY <1>1, <2>1, <2>2, OtherRun
  <1> QED BY <1>1 DEF FolderInv

\* A run moves to its next phase and keeps its rows.
LEMMA MoveRun ==
  ASSUME FolderInv, TypeOK', NEW r \in Runs, NEW from, NEW to, Goto(r, from, to),
         from \in Started => to \in Started,
         UNCHANGED <<mode, sources, sidecars, row, artifact>>,
         UNCHANGED <<provenance, manifest>> \/ from \notin Idling,
         Invalidated(r)', ManifestVouches', ProvenanceIsCurrent'
  PROVE  FolderInv'
  <1>1. /\ phase[r] = from /\ phase'[r] = to
        /\ \A q \in Runs \ {r} : phase'[q] = phase[q]
    BY DEF Goto, FolderInv, TypeOK
  <1>2. RunInv(r)
    BY DEF FolderInv
  <1>3. Emits(r)' = Emits(r) /\ Exports(r)' = Exports(r)
    BY DEF Emits, Exports
  <1>4. RowsInPhase(r)' /\ HasArtifact(r)' /\ Written(r)'
    BY <1>1, <1>2, <1>3 DEF RunInv, RowsInPhase, HasArtifact, Written
  <1>5. RunInv(r)'
    BY <1>4 DEF RunInv
  <1> QED BY <1>1, <1>5, RunFrame

\* A run ends, whatever it was doing; the files stay.
LEMMA LeaveSafe ==
  ASSUME FolderInv, TypeOK', NEW r \in Runs, NEW status, Leave(r, status), UNCHANGED disk
  PROVE  FolderInv'
  <1>1. /\ UNCHANGED <<mode, sources, sidecars, provenance, manifest>>
        /\ \A q \in Runs \ {r} : row'[q] = row[q] /\ artifact'[q] = artifact[q] /\ phase'[q] = phase[q]
    BY DEF FolderInv, TypeOK, Leave, Forget, settings, disk, analysis
  <1>2. RunInv(r)'
    BY EndedRun DEF FolderInv
  <1>3. ManifestVouches' /\ ProvenanceIsCurrent'
    BY <1>1 DEF FolderInv, ManifestVouches, ProvenanceIsCurrent
  <1> QED BY <1>1, <1>2, <1>3, RunFrame

\* The provenance a run publishes lists what it wrote.
LEMMA ProvenanceStep ==
  ASSUME FolderInv, TypeOK', NEW r \in Runs, NEW to \in {"sealing", "failing"},
         Goto(r, "publishing", to),
         provenance' \in {provenance, Provenance(r)},
         to = "sealing" => provenance' = Provenance(r),
         UNCHANGED <<mode, sources, sidecars, manifest, row, artifact>>
  PROVE  FolderInv'
  <1>1. phase[r] = "publishing" /\ phase'[r] = to
    BY DEF Goto, FolderInv, TypeOK
  <1>2. RunInv(r) /\ Emits(r) /\ provenance = None /\ manifest = None
    BY <1>1 DEF FolderInv, RunInv, Invalidated
  <1>3. Emits(r)' = Emits(r) /\ Provenance(r)' = Provenance(r)
    BY ListingFrame
  <1>4. Invalidated(r)'
    BY <1>1, <1>2, <1>3 DEF Invalidated
  <1>5. ManifestVouches'
    BY <1>2 DEF ManifestVouches
  <1>6. ProvenanceIsCurrent'
    <2>1. CASE provenance' = provenance
      BY <1>2, <2>1 DEF ProvenanceIsCurrent
    <2>2. CASE provenance' = Provenance(r)
      <3>1. provenance'.sources = Records(r)
        BY <2>2 DEF Provenance
      <3> QED BY <1>2, <3>1, ListsAreTrue DEF ProvenanceIsCurrent
    <2> QED BY <2>1, <2>2
  <1> QED BY <1>4, <1>5, <1>6, MoveRun DEF Started, Idling

\* The manifest a run publishes lists what it wrote, in the generation of the
\* provenance it published before.
LEMMA ManifestStep ==
  ASSUME FolderInv, TypeOK', NEW r \in Runs, NEW to \in {"exiting", "failing"},
         Goto(r, "sealing", to),
         manifest' \in {manifest, Manifest(r)},
         UNCHANGED <<mode, sources, sidecars, provenance, row, artifact>>
  PROVE  FolderInv'
  <1>1. phase[r] = "sealing" /\ phase'[r] = to
    BY DEF Goto, FolderInv, TypeOK
  <1>2. RunInv(r) /\ Emits(r) /\ provenance = Provenance(r) /\ manifest = None
    BY <1>1 DEF FolderInv, RunInv, Invalidated
  <1>3. Invalidated(r)'
    BY <1>1 DEF Invalidated
  <1>4. CASE manifest' = manifest
    <2>1. ManifestVouches' /\ ProvenanceIsCurrent'
      BY <1>4 DEF FolderInv, ManifestVouches, ProvenanceIsCurrent
    <2> QED BY <1>3, <2>1, MoveRun DEF Started, Idling
  <1>5. CASE manifest' = Manifest(r)
    <2>1. /\ manifest'.sources = Records(r) /\ manifest'.entries = Entries(r)
          /\ manifest'.generation = Generation(r)
      BY <1>5 DEF Manifest
    <2>2. provenance'.sources = Records(r) /\ provenance'.generation = Generation(r)
      BY <1>2 DEF Provenance
    <2>3. ManifestVouches'
      BY <1>2, <2>1, ListsAreTrue DEF ManifestVouches
    <2>4. ProvenanceIsCurrent'
      BY <1>2, <2>1, <2>2, ListsAreTrue DEF ProvenanceIsCurrent
    <2> QED BY <1>3, <2>3, <2>4, MoveRun DEF Started, Idling
  <1> QED BY <1>4, <1>5

LEMMA RunStepSafe ==
  ASSUME FolderInv, NEW r \in Runs, RunStep(r) \/ RunFault(r) \/ Kill(r)
  PROVE  FolderInv'
  <1> USE DEF settings, disk, analysis, progress
  <1>1. TypeOK /\ RunInv(r) /\ ManifestVouches /\ ProvenanceIsCurrent
    BY DEF FolderInv
  <1>2. TypeOK'
    BY <1>1, RunStepType
  <1>3. ASSUME UNCHANGED <<sources, sidecars, provenance, manifest>>
        PROVE  ManifestVouches' /\ ProvenanceIsCurrent'
    BY <1>1, <1>3 DEF ManifestVouches, ProvenanceIsCurrent
  <1>4. CASE Plan(r)
    <2>1. /\ phase'[r] = "waiting"
          /\ \A s \in Scripts : row'[r][s] \in {"none", "todo"}
          /\ \A q \in Runs \ {r} : row'[q] = row[q] /\ phase'[q] = phase[q]
      BY <1>1, <1>4 DEF Plan, Goto, TypeOK
    <2>2. RunInv(r)'
      BY <2>1 DEF RunInv, RowsInPhase, HasArtifact, Written, Invalidated, Made, OnDisk
    <2> QED BY <1>2, <1>3, <1>4, <2>1, <2>2, RunFrame DEF Plan
  <1>5. CASE Acquire(r)
    <2>1. Invalidated(r)'
      BY <1>1, <1>5 DEF Acquire, Goto, TypeOK, Invalidated
    <2> QED BY <1>2, <1>3, <1>5, <2>1, MoveRun DEF Acquire, Started
  <1>6. CASE Check(r)
    <2>1. Emits(r)' = Emits(r) /\ Work(r)' = Work(r)
      BY <1>6, ListingFrame DEF Check
    <2>2. Invalidated(r)'
      BY <1>1, <1>6, <2>1 DEF Check, Goto, TypeOK, Invalidated
    <2> QED BY <1>2, <1>3, <1>6, <2>2, MoveRun DEF Check, Started
  <1>7. CASE DropProvenance(r)
    <2>1. Invalidated(r)' /\ ManifestVouches' /\ ProvenanceIsCurrent'
      BY <1>1, <1>7 DEF DropProvenance, Goto, TypeOK, Invalidated, ManifestVouches, ProvenanceIsCurrent
    <2> QED BY <1>2, <1>7, <2>1, MoveRun DEF DropProvenance, Started, Idling
  <1>8. CASE DropManifest(r)
    <2>1. provenance = None
      BY <1>1, <1>8 DEF DropManifest, Goto, RunInv, Invalidated
    <2>2. Invalidated(r)' /\ ManifestVouches' /\ ProvenanceIsCurrent'
      BY <1>1, <1>8, <2>1 DEF DropManifest, Goto, TypeOK, Invalidated, ManifestVouches, ProvenanceIsCurrent
    <2> QED BY <1>2, <1>8, <2>2, MoveRun DEF DropManifest, Started, Idling
  <1>9. CASE Prepare(r)
    <2>1. Invalidated(r)'
      BY <1>1, <1>9 DEF Prepare, Goto, TypeOK, RunInv, Invalidated
    <2> QED BY <1>2, <1>3, <1>9, <2>1, MoveRun DEF Prepare, Started
  <1>10. CASE Tally(r)
    <2>1. Emits(r)' = Emits(r)
      BY <1>10 DEF Tally, Emits
    <2>2. Invalidated(r)'
      BY <1>1, <1>10, <2>1 DEF Tally, Goto, TypeOK, RunInv, Invalidated
    <2> QED BY <1>2, <1>3, <1>10, <2>2, MoveRun DEF Tally, Started
  <1>11. CASE PublishProvenance(r)
    BY <1>2, <1>11, ProvenanceStep DEF PublishProvenance
  <1>12. CASE PublishManifest(r)
    BY <1>2, <1>12, ManifestStep DEF PublishManifest
  <1>13. CASE ProvenanceFails(r)
    BY <1>2, <1>13, ProvenanceStep DEF ProvenanceFails
  <1>14. CASE ManifestFails(r)
    BY <1>2, <1>14, ManifestStep DEF ManifestFails
  <1>15. CASE Exit(r)
    BY <1>2, <1>15, LeaveSafe DEF Exit
  <1>16. CASE Refuse(r)
    BY <1>2, <1>16, LeaveSafe DEF Refuse
  <1>17. CASE Kill(r)
    BY <1>2, <1>17, LeaveSafe DEF Kill
  <1> QED
    BY <1>4, <1>5, <1>6, <1>7, <1>8, <1>9, <1>10, <1>11, <1>12, <1>13, <1>14, <1>15,
       <1>16, <1>17 DEF RunStep, RunFault

\* Editing an input, and stuttering, change nothing the invariant speaks of.
LEMMA EditSafe ==
  ASSUME FolderInv, UNCHANGED <<settings, disk, control, progress>>,
         input' = input \/ \E s \in Scripts : Edit(s)
  PROVE  FolderInv'
  <1> USE DEF settings, disk, analysis, control, progress
  <1>1. input' \in [Scripts -> Texts]
    <2>1. input \in [Scripts -> Texts]
      BY DEF FolderInv, TypeOK
    <2>2. CASE input' = input
      BY <2>1, <2>2
    <2>3. CASE \E s \in Scripts : Edit(s)
      BY <2>1, <2>3 DEF Edit
    <2> QED BY <2>2, <2>3
  <1>2. TypeOK'
    BY <1>1 DEF FolderInv, TypeOK
  <1>3. ASSUME NEW q \in Runs PROVE RunInv(q)'
    BY <1>3, OtherRun DEF FolderInv
  <1>4. ManifestVouches' /\ ProvenanceIsCurrent'
    BY DEF FolderInv, ManifestVouches, ProvenanceIsCurrent
  <1> QED BY <1>2, <1>3, <1>4 DEF FolderInv

LEMMA InitSafe == Init => FolderInv
  <1> SUFFICES ASSUME Init PROVE FolderInv
    OBVIOUS
  <1>1. ASSUME NEW r \in Runs PROVE RunInv(r)
    BY <1>1 DEF Init, RunInv, RowsInPhase, HasArtifact, Written, Invalidated, Made, OnDisk
  <1>2. ManifestVouches /\ ProvenanceIsCurrent
    BY DEF Init, ManifestVouches, ProvenanceIsCurrent
  <1> QED BY <1>1, <1>2, InitType DEF FolderInv

LEMMA NextSafe == FolderInv /\ [Next]_vars => FolderInv'
  <1> SUFFICES ASSUME FolderInv, [Next]_vars PROVE FolderInv'
    OBVIOUS
  <1>1. CASE \E r \in Runs : RunStep(r) \/ RunFault(r) \/ Kill(r)
    BY <1>1, RunStepSafe
  <1>2. CASE \E r \in Runs, s \in Scripts : ScriptStep(r, s) \/ ScriptFault(r, s)
    BY <1>2, ScriptStepSafe
  <1>3. CASE \E s \in Scripts : Edit(s)
    <2>1. UNCHANGED <<settings, disk, control, progress>>
      BY <1>3 DEF Edit
    <2> QED BY <1>3, <2>1, EditSafe
  <1>4. CASE UNCHANGED vars
    BY <1>4, EditSafe DEF vars, world
  <1> QED BY <1>1, <1>2, <1>3, <1>4 DEF Next

\* A script step of an export run changes a source only where there is none.
LEMMA StepReplaces ==
  ASSUME FolderInv, NEW r \in Runs, NEW s \in Scripts, ScriptStep(r, s) \/ ScriptFault(r, s),
         NEW u \in Scripts, sources'[u] # sources[u], sources[u] # Absent
  PROVE  lock \in Runs /\ ~Exports(lock)
  <1> USE DEF settings, disk, analysis
  <1>1. phase[r] = "working" => lock = r
    BY DEF FolderInv, TypeOK
  <1>2. row[r][s] = "truncated" => ~Exports(r)
    BY DEF FolderInv, RunInv, Written
  <1>3. sources \in [Scripts -> Artifacts \union {Absent, Torn}]
    BY DEF FolderInv, TypeOK
  <1>4. sources' # sources
    OBVIOUS
  <1>5. CASE Publish(r, s)
    <2>1. CASE Exports(r) /\ sources[s] # Absent
      BY <1>4, <1>5, <2>1 DEF Publish
    <2>2. CASE ~(Exports(r) /\ sources[s] # Absent)
      <3>1. phase[r] = "working" /\ sources' = [sources EXCEPT ![s] = artifact[r][s]]
        BY <1>5, <2>2 DEF Publish, Advance
      <3>2. u = s
        BY <1>3, <3>1
      <3> QED BY <1>1, <2>2, <3>1, <3>2
    <2> QED BY <2>1, <2>2
  <1>6. CASE Unlink(r, s) \/ Truncate(r, s)
    BY <1>1, <1>6 DEF Unlink, Truncate, Advance
  <1>7. CASE Fill(r, s)
    BY <1>1, <1>2, <1>7 DEF Fill, Advance
  <1>8. CASE PublishFails(r, s)
    BY <1>1, <1>4, <1>8 DEF PublishFails, Advance
  <1>9. CASE \/ GroupRead(r, s) \/ Take(r, s) \/ WriteSidecar(r, s)
             \/ OpenFails(r, s) \/ FillFails(r, s) \/ SidecarFails(r, s)
    BY <1>4, <1>9 DEF GroupRead, Take, WriteSidecar, OpenFails, FillFails, SidecarFails
  <1> QED BY <1>5, <1>6, <1>7, <1>8, <1>9 DEF ScriptStep, ScriptFault

\* No other step changes a source.
LEMMA OnlyScriptsWrite ==
  ASSUME [Next]_vars, sources' # sources
  PROVE  \E r \in Runs, s \in Scripts : ScriptStep(r, s) \/ ScriptFault(r, s)
  <1> USE DEF disk
  <1>1. ASSUME NEW r \in Runs, RunStep(r) PROVE UNCHANGED sources
    BY <1>1 DEF RunStep, Plan, Acquire, Check, DropProvenance, DropManifest, Prepare, Tally,
                PublishProvenance, PublishManifest, Exit
  <1>2. ASSUME NEW r \in Runs, RunFault(r) \/ Kill(r) PROVE UNCHANGED sources
    BY <1>2 DEF RunFault, Refuse, ProvenanceFails, ManifestFails, Kill
  <1>3. ASSUME NEW s \in Scripts, Edit(s) PROVE UNCHANGED sources
    BY <1>3 DEF Edit
  <1>4. UNCHANGED vars => UNCHANGED sources
    BY DEF vars
  <1> QED BY <1>1, <1>2, <1>3, <1>4 DEF Next

\* FolderInv is an invariant of every folder run.
THEOREM FolderSafe == Spec => []FolderInv
  BY InitSafe, NextSafe, PTL DEF Spec

\* The variables of folder runs keep their shapes, and the output lock belongs
\* to the one run past acquire_output_generation_lock that has not ended.
THEOREM FolderTypeCorrect == Spec => []TypeOK
  <1>1. FolderInv => TypeOK
    BY DEF FolderInv
  <1> QED BY <1>1, FolderSafe, PTL

\* A manifest.json on disk never lists a source or a sidecar that is not there
\* as listed: invalidate_analysis_manifest comes before the first write of
\* every run, and write_analysis_manifest_with_audit after the last.
THEOREM ManifestSafe == Spec => []ManifestVouches
  <1>1. FolderInv => ManifestVouches
    BY DEF FolderInv
  <1> QED BY <1>1, FolderSafe, PTL

\* A source-write-provenance.json on disk describes the sources on disk and
\* belongs to the generation of the manifest beside it.
THEOREM ProvenanceSafe == Spec => []ProvenanceIsCurrent
  <1>1. FolderInv => ProvenanceIsCurrent
    BY DEF FolderInv
  <1> QED BY <1>1, FolderSafe, PTL

\* "A leftover user or untracked file is never silently replaced" by an export
\* run, however late after its own check in build_work_from_export_manifest
\* the file appeared: publish_contained does not replace.
THEOREM ExportSafe == Spec => ExportNeverReplaces
  <1>1. FolderInv /\ [Next]_vars
          => [\A s \in Scripts : sources'[s] # sources[s] /\ sources[s] # Absent =>
                lock \in Runs /\ ~Exports(lock)]_vars
    <2> SUFFICES ASSUME FolderInv, [Next]_vars,
                        NEW u \in Scripts, sources'[u] # sources[u], sources[u] # Absent
                 PROVE  lock \in Runs /\ ~Exports(lock)
      OBVIOUS
    <2>1. PICK r \in Runs, s \in Scripts : ScriptStep(r, s) \/ ScriptFault(r, s)
      BY OnlyScriptsWrite
    <2> QED BY <2>1, StepReplaces
  <1> QED BY <1>1, FolderSafe, PTL DEF Spec, ExportNeverReplaces

-----------------------------------------------------------------------------
(* What the published artifacts were made from. *)

\* Rows from "writing" on hold what their digested bytes decompile to, and so
\* does the memo of a group, for every script that shares it.
Faithful(r) ==
  \A s \in Scripts :
    /\ row[r][s] \in Made =>
         /\ Treatment(r, s, bytes[r][s]) # "fail"
         /\ artifact[r][s] = Output(r, s, bytes[r][s])
    /\ memo[r][s] # None => memo[r][s].artifact = Output(r, s, memo[r][s].bytes)

\* After the parallel phase every row is in, and a run that got to its normal
\* exit has published its analysis.
Settled(r) ==
  /\ phase[r] \in {"publishing", "sealing", "failing", "exiting"}
       => Work(r) = Outcomes(r, Finished)
  /\ phase[r] = "exiting" /\ Emits(r) => manifest = Manifest(r) /\ provenance = Provenance(r)

\* The second inductive invariant, on top of the first.
InputInv ==
  /\ \A r \in Runs : Faithful(r) /\ Settled(r)
  /\ CorpusMatchesSources
  /\ CompleteMeansAll

\* An artifact made of a text says which text.
LEMMA OutputSays ==
  ASSUME NEW r \in Runs, NEW s \in Scripts, NEW text, Treatment(r, s, text) # "fail"
  PROVE  /\ text # None
         /\ \/ Output(r, s, text) = <<"lift", hint[s], text>>
            \/ Output(r, s, text) = <<"report", text>> /\ text \in Messages
            \/ Output(r, s, text) = <<"copy", text>>
            \/ Output(r, s, text) = <<"nothing">> /\ text \in Empty
         /\ Output(r, s, text)[1] = "lift" => Output(r, s, text) = <<"lift", hint[s], text>>
  <1>1. text # None
    BY DEF Treatment
  <1>2. \/ Output(r, s, text) = <<"lift", hint[s], text>>
        \/ Output(r, s, text) = <<"report", text>> /\ text \in Messages
        \/ Output(r, s, text) = <<"copy", text>>
        \/ Output(r, s, text) = <<"nothing">> /\ text \in Empty
    <2>1. CASE Treatment(r, s, text) = "lift"
      BY <2>1 DEF Output
    <2>2. CASE Treatment(r, s, text) = "copy"
      BY <2>2 DEF Output
    <2>4. CASE Treatment(r, s, text) = "report"
      <3>1. text \in Messages
        BY <2>4 DEF Treatment
      <3> QED BY <2>4, <3>1 DEF Output
    <2>3. CASE Treatment(r, s, text) \notin {"lift", "report", "copy"}
      <3>1. Output(r, s, text) = <<"nothing">>
        BY <2>3 DEF Output
      <3>2. text \in Empty
        BY <2>3 DEF Treatment
      <3> QED BY <3>1, <3>2
    <2> QED BY <2>1, <2>2, <2>3, <2>4
  <1>3. <<"report", text>>[1] # "lift" /\ <<"copy", text>>[1] # "lift" /\ <<"nothing">>[1] # "lift"
    OBVIOUS
  <1> QED BY <1>1, <1>2, <1>3

\* What a run lists, with its corpus, depends on its memory only.
LEMMA ManifestFrame ==
  ASSUME NEW r \in Runs, row'[r] = row[r], artifact'[r] = artifact[r],
         bytes'[r] = bytes[r], mode' = mode
  PROVE  /\ Emits(r)' = Emits(r) /\ Work(r)' = Work(r)
         /\ Outcomes(r, Finished)' = Outcomes(r, Finished)
         /\ Provenance(r)' = Provenance(r) /\ Manifest(r)' = Manifest(r)
  <1>1. /\ Emits(r)' = Emits(r) /\ Exports(r)' = Exports(r) /\ Work(r)' = Work(r)
        /\ Provenance(r)' = Provenance(r)
    BY ListingFrame
  <1>2. \A o : Outcomes(r, o)' = Outcomes(r, o)
    BY <1>1 DEF Outcomes
  <1>3. Records(r)' = Records(r) /\ Entries(r)' = Entries(r)
    BY <1>2 DEF Records, Entries
  <1>4. Rejected(r)' = Rejected(r)
    BY <1>1 DEF Rejected
  <1>5. Failed(r)' = Failed(r) /\ Total(r)' = Total(r)
    BY <1>1, <1>2, <1>4 DEF Failed, Total
  <1>6. Status(r)' = Status(r)
    BY <1>2, <1>3, <1>5 DEF Status
  <1>7. Generation(r)' = Generation(r)
    BY <1>3, <1>5 DEF Generation
  <1> QED BY <1>1, <1>2, <1>3, <1>5, <1>6, <1>7 DEF Manifest

\* A run whose memory does not change keeps what it holds, and its published
\* analysis, while nobody else writes one.
LEMMA MemoryFrame ==
  ASSUME InputInv, NEW q \in Runs,
         row'[q] = row[q], artifact'[q] = artifact[q], bytes'[q] = bytes[q],
         memo'[q] = memo[q], UNCHANGED settings
  PROVE  /\ Faithful(q)'
         /\ phase'[q] = phase[q] /\ (phase[q] \in Idling \/ UNCHANGED analysis) => Settled(q)'
  <1>1. Faithful(q)'
    <2>1. \A s \in Scripts : \A t : /\ Treatment(q, s, t)' = Treatment(q, s, t)
                                   /\ Output(q, s, t)' = Output(q, s, t)
      BY DEF Treatment, Output, Exports, settings
    <2> QED BY <2>1 DEF InputInv, Faithful, settings
  <1>2. ASSUME phase'[q] = phase[q], phase[q] \in Idling \/ UNCHANGED analysis
        PROVE  Settled(q)'
    BY <1>2, ManifestFrame DEF InputInv, Settled, settings, analysis, Idling
  <1> QED BY <1>1, <1>2

\* What a worker takes: the text and what it decompiles to, whether it was
\* decompiled here or for another script of the group.
LEMMA TakeFaithful ==
  ASSUME FolderInv, InputInv, NEW r \in Runs, NEW s \in Scripts, Take(r, s)
  PROVE  Faithful(r)'
  <1> DEFINE text  == IF s \in kept[r] THEN seen[r][s] ELSE input[s]
             does  == Treatment(r, s, text)
             share == Grouped(r) /\ Cardinality(Group(r, s)) > 1 /\ does \in {"lift", "report"}
             hit   == share /\ Reusable(memo[r][s], text)
             made  == IF hit THEN memo[r][s].artifact ELSE Output(r, s, text)
  <1>1. made = Output(r, s, text)
    <2>1. CASE hit
      <3>1. memo[r][s] # None /\ memo[r][s].bytes = text
        BY <2>1 DEF Reusable
      <3> QED BY <2>1, <3>1 DEF InputInv, Faithful
    <2> QED BY <2>1
  <1>2. /\ Advance(r, s, IF Grouped(r) THEN "grouped" ELSE "todo",
                         IF does = "fail" THEN "fail" ELSE "writing")
        /\ bytes' = [bytes EXCEPT ![r][s] = text]
        /\ artifact' = [artifact EXCEPT ![r][s] = IF does = "fail" THEN None ELSE made]
        /\ UNCHANGED <<mode, hint>>
    BY DEF Take, settings
  <1>3. memo' = IF share
                THEN [memo EXCEPT ![r] = [u \in Scripts |->
                          IF u \in Group(r, s) THEN [bytes |-> text, artifact |-> made]
                                               ELSE memo[r][u]]]
                ELSE memo
    BY DEF Take, FolderInv, TypeOK
  <1>4. \A u \in Scripts : \A t : /\ Treatment(r, u, t)' = Treatment(r, u, t)
                                 /\ Output(r, u, t)' = Output(r, u, t)
    BY <1>2 DEF Treatment, Output, Exports
  <1>5. ASSUME NEW u \in Group(r, s) PROVE Output(r, u, text) = Output(r, s, text)
    BY DEF Group, SameGroup, Treatment, Output
  <1>6. does = Treatment(r, s, text)
    OBVIOUS
  <1> HIDE DEF text, does, share, hit, made
  <1>7. ASSUME NEW u \in Scripts, row'[r][u] \in Made
        PROVE  /\ Treatment(r, u, bytes'[r][u]) # "fail"
               /\ artifact'[r][u] = Output(r, u, bytes'[r][u])
    <2>1. CASE u = s
      <3>1. /\ row'[r][s] = IF does = "fail" THEN "fail" ELSE "writing"
            /\ bytes'[r][s] = text
            /\ artifact'[r][s] = IF does = "fail" THEN None ELSE made
        BY <1>2 DEF FolderInv, TypeOK, Advance
      <3>2. does # "fail"
        BY <1>7, <2>1, <3>1 DEF Made
      <3> QED BY <1>1, <1>6, <2>1, <3>1, <3>2
    <2>2. CASE u # s
      <3>1. row'[r][u] = row[r][u] /\ bytes'[r][u] = bytes[r][u] /\ artifact'[r][u] = artifact[r][u]
        BY <1>2, <2>2 DEF FolderInv, TypeOK, Advance
      <3> QED BY <1>7, <3>1 DEF InputInv, Faithful
    <2> QED BY <2>1, <2>2
  <1>8. ASSUME NEW u \in Scripts, memo'[r][u] # None
        PROVE  memo'[r][u].artifact = Output(r, u, memo'[r][u].bytes)
    <2>1. CASE share /\ u \in Group(r, s)
      <3>1. memo'[r][u] = [bytes |-> text, artifact |-> made]
        BY <1>3, <2>1 DEF FolderInv, TypeOK
      <3> QED BY <1>1, <1>5, <2>1, <3>1
    <2>2. CASE ~(share /\ u \in Group(r, s))
      <3>1. memo'[r][u] = memo[r][u]
        BY <1>3, <2>2 DEF FolderInv, TypeOK
      <3> QED BY <1>8, <3>1 DEF InputInv, Faithful
    <2> QED BY <2>1, <2>2
  <1> QED BY <1>2, <1>4, <1>7, <1>8 DEF Faithful

\* A script's step: its own row moves on, nothing that is published is there.
LEMMA ScriptInput ==
  ASSUME FolderInv, InputInv, NEW r \in Runs, NEW s \in Scripts,
         ScriptStep(r, s) \/ ScriptFault(r, s)
  PROVE  InputInv'
  <1> DEFINE step == /\ phase[r] = "working" /\ row[r][s] # "none"
                     /\ UNCHANGED <<settings, control, analysis>>
                     /\ \A q \in Runs \ {r} : /\ row'[q] = row[q] /\ artifact'[q] = artifact[q]
                                              /\ bytes'[q] = bytes[q] /\ memo'[q] = memo[q]
  <1>1. ASSUME Take(r, s) PROVE step /\ Faithful(r)'
    <2>1. /\ Advance(r, s, IF Grouped(r) THEN "grouped" ELSE "todo",
                 IF Treatment(r, s, IF s \in kept[r] THEN seen[r][s] ELSE input[s]) = "fail"
                 THEN "fail" ELSE "writing")
          /\ UNCHANGED <<settings, disk, control>>
      BY <1>1 DEF Take
    <2>2. \A q \in Runs \ {r} : row'[q] = row[q]
      BY <2>1 DEF FolderInv, TypeOK, Advance
    <2>3. \A q \in Runs \ {r} : artifact'[q] = artifact[q]
      BY <1>1 DEF FolderInv, TypeOK, Take
    <2>4. \A q \in Runs \ {r} : bytes'[q] = bytes[q] /\ memo'[q] = memo[q]
      BY <1>1 DEF FolderInv, TypeOK, Take
    <2>5. phase[r] = "working" /\ row[r][s] # "none"
      BY <2>1 DEF Advance
    <2>6. UNCHANGED <<settings, control, analysis>>
      BY <2>1 DEF disk
    <2>7. Faithful(r)'
      BY <1>1, TakeFaithful
    <2> QED BY <2>2, <2>3, <2>4, <2>5, <2>6, <2>7
  <1>2. ASSUME ~Take(r, s) PROVE step /\ Faithful(r)'
    <2>1. /\ UNCHANGED <<settings, control, analysis, bytes, artifact, memo>>
          /\ \E from \in {"todo", "writing", "truncated", "siding"},
                to \in {"grouped", "writing", "fail", "truncated", "skip", "siding", "ok", "sourced"} :
               /\ Advance(r, s, from, to)
               /\ to \in Made => from \in Made
      <3> USE AfterSourceType DEF disk, Made
      <3>1. CASE GroupRead(r, s)
        BY <3>1 DEF GroupRead
      <3>2. CASE Publish(r, s)
        BY <3>2 DEF Publish
      <3>3. CASE Truncate(r, s)
        BY <3>3 DEF Truncate
      <3>4. CASE Fill(r, s)
        BY <3>4 DEF Fill
      <3>5. CASE WriteSidecar(r, s)
        BY <3>5 DEF WriteSidecar
      <3>6. CASE PublishFails(r, s)
        BY <3>6 DEF PublishFails
      <3>7. CASE OpenFails(r, s) \/ FillFails(r, s)
        BY <3>7 DEF OpenFails, FillFails
      <3>8. CASE SidecarFails(r, s)
        BY <3>8 DEF SidecarFails
      <3>9. CASE Unlink(r, s)
        BY <3>9 DEF Unlink
      <3> QED BY <1>2, <3>1, <3>2, <3>3, <3>4, <3>5, <3>6, <3>7, <3>8, <3>9
              DEF ScriptStep, ScriptFault
    <2>2. PICK from \in {"todo", "writing", "truncated", "siding"},
               to \in {"grouped", "writing", "fail", "truncated", "skip", "siding", "ok", "sourced"} :
            Advance(r, s, from, to) /\ (to \in Made => from \in Made)
      BY <2>1
    <2>3. /\ row[r][s] = from /\ row'[r][s] = to /\ phase[r] = "working"
          /\ \A u \in Scripts \ {s} : row'[r][u] = row[r][u]
          /\ \A q \in Runs \ {r} : row'[q] = row[q]
      BY <2>2 DEF FolderInv, TypeOK, Advance
    <2>4. \A u \in Scripts : \A t : /\ Treatment(r, u, t)' = Treatment(r, u, t)
                                   /\ Output(r, u, t)' = Output(r, u, t)
      BY <2>1 DEF Treatment, Output, Exports, settings
    <2>5. /\ UNCHANGED <<bytes, artifact, memo, hint>>
          /\ \A u \in Scripts : row'[r][u] \in Made => row[r][u] \in Made
      BY <2>1, <2>2, <2>3 DEF settings
    <2>6. Faithful(r)'
      BY <2>4, <2>5 DEF InputInv, Faithful
    <2>7. row[r][s] # "none"
      BY <2>3
    <2> QED BY <2>1, <2>3, <2>6, <2>7
  <1>3. step /\ Faithful(r)'
    BY <1>1, <1>2
  <1>4. s \in Work(r)
    BY <1>3 DEF Work
  <1>5. manifest' = None
    BY <1>3, <1>4 DEF FolderInv, RunInv, Invalidated, analysis
  <1>6. Settled(r)'
    BY <1>3 DEF Settled, control
  <1>7. ASSUME NEW q \in Runs \ {r} PROVE Faithful(q)' /\ Settled(q)'
    <2>1. phase'[q] = phase[q]
      BY <1>3 DEF control
    <2> QED BY <1>3, <2>1, MemoryFrame
  <1> QED BY <1>3, <1>5, <1>6, <1>7 DEF InputInv, CorpusMatchesSources, CompleteMeansAll

\* A manifest says of every source what it was made from, and is "complete"
\* only when nothing is missing.
LEMMA PublishedInput ==
  ASSUME FolderInv, InputInv, NEW r \in Runs, phase[r] = "sealing",
         manifest' = Manifest(r), UNCHANGED <<settings, sources, sidecars>>
  PROVE  CorpusMatchesSources' /\ CompleteMeansAll'
  <1> USE DEF settings
  <1>1. /\ manifest'.sources = Records(r) /\ manifest'.total = Total(r)
        /\ manifest'.corpus = [s \in Work(r) |-> bytes[r][s]]
        /\ manifest'.status = Status(r)
    BY DEF Manifest
  <1>2. Emits(r) /\ Written(r) /\ Faithful(r)
    BY DEF FolderInv, RunInv, Invalidated, InputInv
  <1>3. ASSUME NEW s \in DOMAIN Records(r)
        PROVE  /\ s \in Work(r) /\ bytes[r][s] # None
               /\ \/ Records(r)[s] = <<"lift", hint[s], bytes[r][s]>>
                  \/ Records(r)[s] = <<"report", bytes[r][s]>> /\ bytes[r][s] \in Messages
                  \/ Records(r)[s] = <<"copy", bytes[r][s]>>
                  \/ Records(r)[s] = <<"nothing">> /\ bytes[r][s] \in Empty
    <2>1. /\ s \in Work(r) /\ s \in Scripts /\ row[r][s] \in Made
          /\ Records(r)[s] = artifact[r][s]
      BY <1>3 DEF Records, Outcomes, Work, Made
    <2>2. Treatment(r, s, bytes[r][s]) # "fail" /\ artifact[r][s] = Output(r, s, bytes[r][s])
      BY <1>2, <2>1 DEF Faithful
    <2> QED BY <2>1, <2>2, OutputSays
  <1>4. CorpusMatchesSources'
    BY <1>1, <1>3 DEF CorpusMatchesSources
  <1>5. ASSUME Status(r) = "complete", NEW s \in Total(r)
        PROVE  /\ s \in Work(r)
               /\ sources[s] = <<"lift", hint[s], bytes[r][s]>>
               /\ sidecars[<<s, sources[s]>>] = "good"
    <2>1. s \in DOMAIN Entries(r)
      BY <1>5 DEF Status
    <2>2. s \in Work(r) /\ s \in Scripts /\ row[r][s] = "ok" /\ artifact[r][s][1] = "lift"
      BY <2>1 DEF Entries, Outcomes, Work
    <2>3. Treatment(r, s, bytes[r][s]) # "fail" /\ artifact[r][s] = Output(r, s, bytes[r][s])
      BY <1>2, <2>2 DEF Faithful, Made
    <2>4. artifact[r][s] = <<"lift", hint[s], bytes[r][s]>>
      BY <2>2, <2>3, OutputSays
    <2>5. sources[s] = artifact[r][s] /\ sidecars[<<s, artifact[r][s]>>] = "good"
      BY <1>2, <2>2 DEF Written, OnDisk
    <2> QED BY <2>2, <2>4, <2>5
  <1>6. CompleteMeansAll'
    BY <1>1, <1>5 DEF CompleteMeansAll
  <1> QED BY <1>4, <1>6

\* What the analysis says stays true while the files it speaks of stay.
LEMMA AnalysisStays ==
  ASSUME InputInv, UNCHANGED <<settings, sources, sidecars>>, manifest' \in {manifest, None}
  PROVE  CorpusMatchesSources' /\ CompleteMeansAll'
  BY DEF InputInv, CorpusMatchesSources, CompleteMeansAll, settings

\* A run goes on to its next phase, keeping what it remembers.
LEMMA MoveInput ==
  ASSUME FolderInv, InputInv, NEW r \in Runs, NEW from, NEW to, Goto(r, from, to),
         UNCHANGED <<settings, row, artifact, bytes, memo>>,
         UNCHANGED analysis \/ from \notin Idling,
         Settled(r)', CorpusMatchesSources', CompleteMeansAll'
  PROVE  InputInv'
  <1>1. /\ phase[r] = from /\ \A q \in Runs \ {r} : phase'[q] = phase[q]
    BY DEF Goto, FolderInv, TypeOK
  <1>2. ASSUME NEW q \in Runs PROVE Faithful(q)'
    BY MemoryFrame
  <1>3. ASSUME NEW q \in Runs \ {r} PROVE Settled(q)'
    <2>1. from \notin Idling => phase[q] \in Idling
      BY <1>1, <1>3 DEF FolderInv, TypeOK, Idling
    <2> QED BY <1>1, <2>1, MemoryFrame
  <1> QED BY <1>2, <1>3 DEF InputInv

\* A run forgets what it was doing; the files stay.
LEMMA LeaveInput ==
  ASSUME FolderInv, InputInv, NEW r \in Runs, NEW status, Leave(r, status), UNCHANGED disk
  PROVE  InputInv'
  <1>1. UNCHANGED settings /\ UNCHANGED <<sources, sidecars, analysis>>
    BY DEF Leave, disk
  <1>2. \A q \in Runs \ {r} : /\ row'[q] = row[q] /\ artifact'[q] = artifact[q]
                              /\ bytes'[q] = bytes[q] /\ memo'[q] = memo[q] /\ phase'[q] = phase[q]
    BY DEF FolderInv, TypeOK, Leave, Forget
  <1>3. ASSUME NEW q \in Runs \ {r} PROVE Faithful(q)' /\ Settled(q)'
    BY <1>1, <1>2, MemoryFrame
  <1>4. /\ phase'[r] = "ended"
        /\ \A s \in Scripts : row'[r][s] = "none" /\ memo'[r][s] = None
    BY DEF FolderInv, TypeOK, Leave, Forget, Idle
  <1>5. Faithful(r)' /\ Settled(r)'
    BY <1>4 DEF Faithful, Settled, Made
  <1>6. CorpusMatchesSources' /\ CompleteMeansAll'
    BY <1>1, AnalysisStays DEF analysis
  <1> QED BY <1>3, <1>5, <1>6 DEF InputInv

LEMMA RunInput ==
  ASSUME FolderInv, InputInv, NEW r \in Runs, RunStep(r) \/ RunFault(r) \/ Kill(r)
  PROVE  InputInv'
  <1> USE DEF disk, progress
  <1>1. TypeOK /\ Settled(r) /\ Invalidated(r)
    BY DEF FolderInv, RunInv, InputInv
  <1>2. CASE Plan(r)
    <2>1. /\ phase'[r] = "waiting"
          /\ \A s \in Scripts : row'[r][s] \in {"none", "todo"}
          /\ \A q \in Runs \ {r} : row'[q] = row[q] /\ phase'[q] = phase[q]
          /\ UNCHANGED <<settings, sources, sidecars, analysis, artifact, bytes, memo>>
      BY <1>1, <1>2 DEF Plan, Goto, TypeOK
    <2>2. ASSUME NEW q \in Runs \ {r} PROVE Faithful(q)' /\ Settled(q)'
      BY <2>1, MemoryFrame
    <2>3. Settled(r)'
      BY <2>1 DEF Settled
    <2>6. \A s \in Scripts : \A t : Output(r, s, t)' = Output(r, s, t)
      BY <2>1 DEF Treatment, Output, Exports, settings
    <2>4. Faithful(r)'
      BY <2>1, <2>6 DEF InputInv, Faithful, Made, settings
    <2>5. CorpusMatchesSources' /\ CompleteMeansAll'
      BY <2>1, AnalysisStays DEF analysis
    <2> QED BY <2>2, <2>3, <2>4, <2>5 DEF InputInv
  <1>3. CASE Acquire(r) \/ Check(r) \/ Prepare(r)
    <2>1. \E from, to \in {"waiting", "checking", "dropping", "preparing", "working"} : Goto(r, from, to)
      BY <1>3 DEF Acquire, Check, Prepare
    <2>2. Settled(r)'
      BY <1>1, <2>1 DEF Goto, TypeOK, Settled
    <2>3. UNCHANGED <<settings, sources, sidecars, analysis, row, artifact, bytes, memo>>
      BY <1>3 DEF Acquire, Check, Prepare
    <2>4. CorpusMatchesSources' /\ CompleteMeansAll'
      BY <2>3, AnalysisStays DEF analysis
    <2> QED BY <2>1, <2>2, <2>3, <2>4, MoveInput
  <1>4. CASE DropProvenance(r) \/ DropManifest(r)
    <2>1. \E from \in {"dropping", "invalidating"}, to \in {"invalidating", "preparing", "working"} :
            Goto(r, from, to)
      BY <1>4 DEF DropProvenance, DropManifest
    <2>2. Settled(r)'
      BY <1>1, <2>1 DEF Goto, TypeOK, Settled
    <2>3. /\ UNCHANGED <<settings, sources, sidecars, row, artifact, bytes, memo>>
          /\ manifest' \in {manifest, None}
      BY <1>4 DEF DropProvenance, DropManifest
    <2>4. CorpusMatchesSources' /\ CompleteMeansAll'
      BY <2>3, AnalysisStays
    <2> QED BY <2>1, <2>2, <2>3, <2>4, MoveInput DEF Idling
  <1>5. CASE Tally(r)
    <2>1. /\ Goto(r, "working", IF Emits(r) THEN "publishing" ELSE "exiting")
          /\ Work(r) = Outcomes(r, Finished)
          /\ UNCHANGED <<settings, sources, sidecars, analysis, row, artifact, bytes, memo>>
      BY <1>5 DEF Tally
    <2>2. Emits(r)' = Emits(r) /\ Work(r)' = Work(r) /\ Outcomes(r, Finished)' = Outcomes(r, Finished)
      BY <2>1, ManifestFrame DEF settings
    <2>3. Settled(r)'
      BY <1>1, <2>1, <2>2 DEF Goto, TypeOK, Settled
    <2>4. CorpusMatchesSources' /\ CompleteMeansAll'
      BY <2>1, AnalysisStays DEF analysis
    <2> QED BY <2>1, <2>3, <2>4, MoveInput
  <1>6. ASSUME NEW from \in {"publishing", "sealing"}, NEW to \in {"sealing", "failing", "exiting"},
               Goto(r, from, to), UNCHANGED <<settings, sources, sidecars, row, artifact, bytes, memo>>,
               to = "exiting" => from = "sealing" /\ manifest' = Manifest(r) /\ UNCHANGED provenance,
               \/ manifest' = manifest
               \/ from = "sealing" /\ manifest' = Manifest(r)
        PROVE  InputInv'
    <2>1. phase[r] = from /\ phase'[r] = to
      BY <1>1, <1>6 DEF Goto, TypeOK
    <2>2. /\ Work(r)' = Work(r) /\ Outcomes(r, Finished)' = Outcomes(r, Finished)
          /\ Provenance(r)' = Provenance(r) /\ Manifest(r)' = Manifest(r)
      BY <1>6, ManifestFrame DEF settings
    <2>3. Settled(r)'
      BY <1>1, <1>6, <2>1, <2>2 DEF Settled, Invalidated
    <2>4. CorpusMatchesSources' /\ CompleteMeansAll'
      <3>1. CASE manifest' = manifest
        BY <1>6, <3>1, AnalysisStays
      <3>2. CASE from = "sealing" /\ manifest' = Manifest(r)
        BY <1>6, <2>1, <3>2, PublishedInput
      <3> QED BY <1>6, <3>1, <3>2
    <2> QED BY <1>6, <2>3, <2>4, MoveInput DEF Idling
  <1>7. CASE PublishProvenance(r)
    <2>1. Goto(r, "publishing", "sealing") /\ manifest' = manifest
      BY <1>7 DEF PublishProvenance
    <2>2. UNCHANGED <<settings, sources, sidecars, row, artifact, bytes, memo>>
      BY <1>7 DEF PublishProvenance
    <2> QED BY <1>6, <2>1, <2>2
  <1>8. CASE PublishManifest(r)
    BY <1>6, <1>8 DEF PublishManifest
  <1>9. CASE ProvenanceFails(r)
    <2>1. Goto(r, "publishing", "failing") /\ manifest' = manifest
      BY <1>9 DEF ProvenanceFails
    <2>2. UNCHANGED <<settings, sources, sidecars, row, artifact, bytes, memo>>
      BY <1>9 DEF ProvenanceFails
    <2> QED BY <1>6, <2>1, <2>2
  <1>10. CASE ManifestFails(r)
    <2>1. Goto(r, "sealing", "failing") /\ (manifest' = manifest \/ manifest' = Manifest(r))
      BY <1>10 DEF ManifestFails
    <2>2. UNCHANGED <<settings, sources, sidecars, row, artifact, bytes, memo>>
      BY <1>10 DEF ManifestFails
    <2> QED BY <1>6, <2>1, <2>2
  <1>11. CASE Exit(r)
    BY <1>11, LeaveInput DEF Exit
  <1>12. CASE Refuse(r)
    BY <1>12, LeaveInput DEF Refuse
  <1>13. CASE Kill(r)
    BY <1>13, LeaveInput DEF Kill
  <1> QED
    BY <1>2, <1>3, <1>4, <1>5, <1>7, <1>8, <1>9, <1>10, <1>11, <1>12, <1>13 DEF RunStep, RunFault

LEMMA InitInput == Init => InputInv
  BY DEF Init, InputInv, Faithful, Settled, CorpusMatchesSources, CompleteMeansAll, Made, Idle

LEMMA NextInput == FolderInv /\ InputInv /\ [Next]_vars => InputInv'
  <1> SUFFICES ASSUME FolderInv, InputInv, [Next]_vars PROVE InputInv'
    OBVIOUS
  <1>1. CASE \E r \in Runs : RunStep(r) \/ RunFault(r) \/ Kill(r)
    BY <1>1, RunInput
  <1>2. CASE \E r \in Runs, s \in Scripts : ScriptStep(r, s) \/ ScriptFault(r, s)
    BY <1>2, ScriptInput
  <1>3. ASSUME UNCHANGED <<settings, disk, control, progress>> PROVE InputInv'
    <2> USE DEF disk, control, progress
    <2>1. ASSUME NEW q \in Runs PROVE Faithful(q)' /\ Settled(q)'
      BY <1>3, MemoryFrame
    <2>2. CorpusMatchesSources' /\ CompleteMeansAll'
      BY <1>3, AnalysisStays DEF analysis
    <2> QED BY <2>1, <2>2 DEF InputInv
  <1>4. CASE \E s \in Scripts : Edit(s)
    BY <1>3, <1>4 DEF Edit
  <1>5. CASE UNCHANGED vars
    BY <1>3, <1>5 DEF vars
  <1> QED BY <1>1, <1>2, <1>4, <1>5 DEF Next

\* Only a run's normal exit gives code 0.
LEMMA OnlyExitGivesZero ==
  ASSUME FolderInv, [Next]_vars, NEW r \in Runs, code[r] = None, code'[r] = 0
  PROVE  Exit(r) /\ phase[r] = "exiting" /\ Failed(r) = {}
  <1>1. None # 0 /\ code' # code
    BY FolderAssumption
  <1>2. ASSUME NEW q \in Runs, NEW status, Leave(q, status) PROVE q = r /\ status = 0
    BY <1>1, <1>2 DEF FolderInv, TypeOK, Leave
  <1>3. ASSUME NEW q \in Runs, NEW s \in Scripts, ScriptStep(q, s) \/ ScriptFault(q, s)
        PROVE  UNCHANGED code
    BY <1>3 DEF ScriptStep, ScriptFault, GroupRead, Take, Publish, Unlink, Truncate, Fill, WriteSidecar,
                PublishFails, OpenFails, FillFails, SidecarFails, control
  <1>4. ASSUME NEW q \in Runs, RunStep(q) \/ RunFault(q) PROVE UNCHANGED code \/ Exit(q) \/ Refuse(q)
    BY <1>4 DEF RunStep, RunFault, Plan, Acquire, Check, DropProvenance, DropManifest, Prepare, Tally,
                PublishProvenance, PublishManifest, ProvenanceFails, ManifestFails
  <1>5. ASSUME NEW s \in Scripts, Edit(s) PROVE UNCHANGED code
    BY <1>5 DEF Edit, control
  <1>6. \A q \in Runs : ~Refuse(q) /\ ~Kill(q)
    BY <1>2 DEF Refuse, Kill
  <1>7. PICK q \in Runs : Exit(q)
    BY <1>1, <1>3, <1>4, <1>5, <1>6 DEF Next, vars, control
  <1>8. q = r /\ (IF phase[q] = "failing" \/ Failed(q) # {} THEN 1 ELSE 0) = 0
    BY <1>2, <1>7 DEF Exit
  <1> QED BY <1>7, <1>8 DEF Exit

\* The second invariant holds in every reachable state.
THEOREM InputSafe == Spec => []InputInv
  BY InitInput, NextInput, FolderSafe, PTL DEF Spec

\* The corpus digest of a manifest is of the very bytes its sources were made
\* from, although inputs are edited, fingerprints collide and artifacts are
\* reused (DuplicateMemo, write_analysis_manifest_with_audit).
THEOREM CorpusSafe == Spec => []CorpusMatchesSources
  <1>1. InputInv => CorpusMatchesSources
    BY DEF InputInv
  <1> QED BY <1>1, InputSafe, PTL

\* A "complete" manifest leaves nothing out, rejected scripts included.
THEOREM CompleteSafe == Spec => []CompleteMeansAll
  <1>1. InputInv => CompleteMeansAll
    BY DEF InputInv
  <1> QED BY <1>1, InputSafe, PTL

\* A run that exits with 0 has written all of its work, and its analysis.
THEOREM ZeroSafe == Spec => ZeroMeansDone
  <1>1. FolderInv /\ InputInv /\ [Next]_vars
          => [\A r \in Runs : code[r] = None /\ code'[r] = 0 =>
                /\ \A s \in Work(r) : sources[s] = Output(r, s, bytes[r][s])
                /\ Emits(r) => manifest = Manifest(r) /\ provenance = Provenance(r)]_vars
    <2> SUFFICES ASSUME FolderInv, InputInv, [Next]_vars, NEW r \in Runs, code[r] = None, code'[r] = 0
                 PROVE  /\ \A s \in Work(r) : sources[s] = Output(r, s, bytes[r][s])
                        /\ Emits(r) => manifest = Manifest(r) /\ provenance = Provenance(r)
      OBVIOUS
    <2>1. phase[r] = "exiting" /\ Failed(r) = {}
      BY OnlyExitGivesZero
    <2>2. Settled(r) /\ Faithful(r) /\ Written(r)
      BY DEF InputInv, FolderInv, RunInv
    <2>3. ASSUME NEW s \in Work(r) PROVE sources[s] = Output(r, s, bytes[r][s])
      <3>1. s \in Scripts /\ row[r][s] \in Finished
        BY <2>1, <2>2 DEF Settled, Outcomes, Work
      <3>2. row[r][s] \notin {"fail", "sourced"}
        BY <2>1 DEF Failed, Outcomes
      <3> QED BY <2>2, <3>1, <3>2 DEF Finished, Faithful, Written, Made, OnDisk
    <2> QED BY <2>1, <2>2, <2>3 DEF Settled
  <1> QED BY <1>1, FolderSafe, InputSafe, PTL DEF Spec, ZeroMeansDone
=============================================================================
