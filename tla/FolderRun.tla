----------------------------- MODULE FolderRun -----------------------------
(***************************************************************************)
(* Folder runs over one output directory (luau-lifter/src/batch.rs and the  *)
(* publication half of decompile_core.rs).                                  *)
(*                                                                         *)
(* Several processes may run decompile-folder on the same output.  Each     *)
(* lists its work, takes the output generation lock, invalidates the        *)
(* analysis of the previous generation, processes its scripts in parallel   *)
(* (duplicates share a memo) and, with --emit-upvalue-analysis, publishes   *)
(* the source provenance and then the manifest.  Inputs may be edited,      *)
(* writes may fail and a process may be killed at any time; the operating   *)
(* system then frees its lock and files keep what was written.              *)
(*                                                                         *)
(* Decompilation is a function of the decoded bytes and the module hint, so *)
(* an output file is represented by what it was made from.  Directories     *)
(* are created, renamed and replaced as on Unix.  The artifact cache only   *)
(* decides here whether inputs are grouped (see ArtifactCache).             *)
(***************************************************************************)
EXTENDS Integers, FiniteSets

CONSTANTS
    Runs,        \* processes, one folder run each
    Modes,       \* command lines runs may have
    Scripts,     \* positions in the sorted work list
    Contents,    \* what an input file may hold
    Garbled,     \* contents that are not base64 of the declared size
    Empty,       \* contents that decode to nothing
    Unliftable,  \* contents the decompiler rejects
    Messages,    \* contents that are a compile error instead of bytecode
    Fallback,    \* scripts an export manifest marks as source fallbacks
    Hints,       \* module hints of script names
    Fingerprint, \* payload_key of each content: collisions are possible
    Preload,     \* PRELOAD_BUDGET, in files
    MaxEdits, MaxFaults, MaxKills,   \* bounds on the environment
    None

ASSUME FolderAssumption ==
    /\ Modes \subseteq [emit : BOOLEAN, export : BOOLEAN, warm : BOOLEAN]
    /\ Scripts \subseteq Nat
    /\ Garbled \subseteq Contents
    /\ Empty \subseteq Contents
    /\ Unliftable \subseteq Contents
    /\ Messages \subseteq Contents
    /\ Fallback \subseteq Scripts
    /\ DOMAIN Fingerprint = Contents
    /\ {Preload, MaxEdits, MaxFaults, MaxKills} \subseteq Nat
    /\ None \notin Contents \union Runs \union {0, 1, 2, 137}

VARIABLES
    mode,        \* command line of each run: analysis, export manifest, warm cache
    hint,        \* module hint of each script
    input,       \* input file of each script, None when missing
    sources,     \* output file of each script: an artifact, Absent or Torn
    sidecars,    \* content-addressed sidecars: "absent", "torn" or "good"
    provenance,  \* source-write-provenance.json
    manifest,    \* manifest.json
    lock,        \* holder of .tovek-output.lock
    phase,       \* where each run is in run_with_cache
    code,        \* exit code of each run
    found,       \* auxiliary: the manifest a run found when it got the lock
    row,         \* progress of each script in each run
    seen,        \* text of the grouping read
    kept,        \* scripts whose grouping text stays in memory
    bytes,       \* text a script was processed from (the corpus digest)
    artifact,    \* what is written for a script
    memo,        \* DuplicateMemo of each script's group
    edits, faults, kills

settings  == <<mode, hint>>
analysis  == <<provenance, manifest>>
disk      == <<sources, sidecars, analysis>>
control   == <<lock, phase, code, found>>
progress  == <<row, seen, kept, bytes, artifact, memo>>
world     == <<input, edits, faults, kills>>
vars      == <<settings, disk, control, progress, world>>

Absent == <<"absent">>
Torn   == <<"torn">>   \* truncated or partly written
Texts  == Contents \union {None}

Phases == { "planning", "waiting", "checking", "dropping", "invalidating",
            "preparing", "working", "publishing", "sealing", "failing",
            "exiting", "ended" }

\* "todo" to "siding" are steps of decode_preloaded; the others are outcomes,
\* "sourced" being a failed sidecar whose source was written.
Finished == {"ok", "skip", "fail", "sourced"}
Rows     == {"none", "todo", "grouped", "writing", "truncated", "siding"} \union Finished

Work(r)     == {s \in Scripts : row[r][s] # "none"}
Emits(r)    == mode[r].emit
Exports(r)  == mode[r].export
Grouped(r)  == ~mode[r].warm

\* decode_preloaded: what a run makes of a text.
Treatment(r, s, text) ==
    IF text \in Garbled \union {None}        THEN "fail"
    ELSE IF Exports(r) /\ s \in Fallback     THEN "copy"
    ELSE IF text \in Empty                   THEN "skip"
    ELSE IF text \in Unliftable              THEN "fail"
    ELSE IF text \in Messages                THEN "report"
    ELSE "lift"

\* The bytes written for a text: the decompiled source depends on the hint too,
\* the report of a compile error and the copy of a source do not.
Output(r, s, text) ==
    IF Treatment(r, s, text) = "lift" THEN <<"lift", hint[s], text>>
    ELSE IF Treatment(r, s, text) \in {"report", "copy"} THEN <<Treatment(r, s, text), text>>
    ELSE <<"nothing">>

Artifacts == ({"lift"} \X Hints \X Contents) \union ({"report", "copy"} \X Contents)
                 \union {<<"nothing">>}

Idle == [s \in Scripts |-> None]

Init ==
    /\ mode \in [Runs -> Modes]
    /\ hint \in [Scripts -> Hints]
    /\ input \in [Scripts -> Contents]
    /\ sources = [s \in Scripts |-> Absent]
    /\ sidecars \in {[n \in Scripts \X Artifacts |-> x] : x \in {"absent", "torn"}}
    /\ provenance = None
    /\ manifest = None
    /\ lock = None
    /\ phase = [r \in Runs |-> "planning"]
    /\ code = [r \in Runs |-> None]
    /\ found = [r \in Runs |-> None]
    /\ row = [r \in Runs |-> [s \in Scripts |-> "none"]]
    /\ seen = [r \in Runs |-> Idle]
    /\ kept = [r \in Runs |-> {}]
    /\ bytes = [r \in Runs |-> Idle]
    /\ artifact = [r \in Runs |-> Idle]
    /\ memo = [r \in Runs |-> Idle]
    /\ edits = 0
    /\ faults = 0
    /\ kills = 0

-----------------------------------------------------------------------------
(* Helpers. *)

Goto(r, from, to) ==
    /\ phase[r] = from
    /\ phase' = [phase EXCEPT ![r] = to]

\* A fault of the file system, up to MaxFaults in a behaviour.
Fault ==
    /\ faults < MaxFaults
    /\ faults' = faults + 1
    /\ UNCHANGED <<input, edits, kills>>

\* The memory of a process is lost when it ends.
Forget(r) ==
    /\ found' = [found EXCEPT ![r] = None]
    /\ row' = [row EXCEPT ![r] = [s \in Scripts |-> "none"]]
    /\ seen' = [seen EXCEPT ![r] = Idle]
    /\ kept' = [kept EXCEPT ![r] = {}]
    /\ bytes' = [bytes EXCEPT ![r] = Idle]
    /\ artifact' = [artifact EXCEPT ![r] = Idle]
    /\ memo' = [memo EXCEPT ![r] = Idle]

\* Mutant of Leave: an ending run leaves the lock taken.
LeaveLocked(r, status) ==
    /\ phase' = [phase EXCEPT ![r] = "ended"]
    /\ code' = [code EXCEPT ![r] = status]
    /\ Forget(r)
    /\ UNCHANGED <<lock, settings>>

\* The process ends; GenerationLock is dropped.
Leave(r, status) ==
    /\ phase' = [phase EXCEPT ![r] = "ended"]
    /\ code' = [code EXCEPT ![r] = status]
    /\ lock' = IF lock = r THEN None ELSE lock
    /\ Forget(r)
    /\ UNCHANGED settings

\* A script of run r moves on in decode_preloaded.
Advance(r, s, from, to) ==
    /\ phase[r] = "working"
    /\ row[r][s] = from
    /\ row' = [row EXCEPT ![r][s] = to]

-----------------------------------------------------------------------------
(* From the work list to the parallel phase. *)

\* build_work_with_extension lists the inputs that exist; an export manifest
\* also rejects scripts whose destination exists.
FolderWork == {s \in Scripts : input[s] # None}
ExportWork == {s \in FolderWork : sources[s] = Absent}

\* The work is listed before the lock is taken.
Plan(r) ==
    /\ Goto(r, "planning", "waiting")
    /\ LET work == IF Exports(r) THEN ExportWork ELSE FolderWork
       IN row' = [row EXCEPT ![r] = [s \in Scripts |-> IF s \in work THEN "todo" ELSE "none"]]
    /\ UNCHANGED <<settings, disk, lock, code, found, seen, kept, bytes, artifact, memo, world>>

\* Mutant of Acquire: the run does not wait for the lock.
AcquireTaken(r) ==
    /\ Goto(r, "waiting", "checking")
    /\ lock' = r
    /\ found' = [found EXCEPT ![r] = manifest]
    /\ UNCHANGED <<settings, disk, code, progress, world>>

\* acquire_output_generation_lock, held to the end of the run.
Acquire(r) ==
    /\ lock = None
    /\ Goto(r, "waiting", "checking")
    /\ lock' = r
    /\ found' = [found EXCEPT ![r] = manifest]
    /\ UNCHANGED <<settings, disk, code, progress, world>>

\* Mutant of Check: a run without analysis keeps the manifest.
CheckEmitOnly(r) ==
    /\ Goto(r, "checking", IF Emits(r) THEN "dropping" ELSE "working")
    /\ UNCHANGED <<settings, disk, lock, code, found, progress, world>>

\* The cache opens and the output directories exist.  Only a run that writes
\* invalidates what is there.
Check(r) ==
    /\ Goto(r, "checking", IF Emits(r) \/ Work(r) # {} THEN "dropping" ELSE "working")
    /\ UNCHANGED <<settings, disk, lock, code, found, progress, world>>

\* invalidate_analysis_manifest, first file.
DropProvenance(r) ==
    /\ Goto(r, "dropping", "invalidating")
    /\ provenance' = None
    /\ UNCHANGED <<settings, sources, sidecars, manifest, lock, code, found, progress, world>>

\* invalidate_analysis_manifest, second file.
DropManifest(r) ==
    /\ Goto(r, "invalidating", IF Emits(r) THEN "preparing" ELSE "working")
    /\ manifest' = None
    /\ UNCHANGED <<settings, sources, sidecars, provenance, lock, code, found, progress, world>>

\* prepare_analysis_root.
Prepare(r) ==
    /\ Goto(r, "preparing", "working")
    /\ UNCHANGED <<settings, disk, lock, code, found, progress, world>>

\* The cache, a directory, a file to remove or the analysis directory refuses.
Refuse(r) ==
    /\ phase[r] \in {"planning", "waiting", "checking", "dropping", "invalidating", "preparing"}
    /\ Leave(r, 2)
    /\ Fault
    /\ UNCHANGED disk

-----------------------------------------------------------------------------
(* The parallel phase. *)

\* The grouping read keeps a text only within PRELOAD_BUDGET.
GroupRead(r, s) ==
    /\ Grouped(r)
    /\ Advance(r, s, "todo", "grouped")
    /\ seen' = [seen EXCEPT ![r][s] = input[s]]
    /\ kept' = IF Cardinality({u \in Work(r) : seen[r][u] # None}) < Preload \/ input[s] = None
               THEN [kept EXCEPT ![r] = @ \union {s}] ELSE kept
    /\ UNCHANGED <<settings, disk, control, bytes, artifact, memo, world>>

\* duplicate_groups: equal fingerprint, kind and module hint.
SameGroup(r, s, u) ==
    \/ s = u
    \/ /\ seen[r][s] # None /\ seen[r][u] # None
       /\ Fingerprint[seen[r][s]] = Fingerprint[seen[r][u]]
       /\ Exports(r) => (s \in Fallback <=> u \in Fallback)
       /\ hint[s] = hint[u]

Group(r, s) == {u \in Work(r) : SameGroup(r, s, u)}

\* Mutant of Reusable: the fingerprint is taken for an equality proof.
ReusableUnchecked(m, text) == m # None

\* DuplicateMemo::get_or_compute reuses an artifact of the very same bytes.
Reusable(m, text) == m # None /\ m.bytes = text

\* A worker takes the next script of a group, reads its text unless it was
\* kept, and decompiles it.
Take(r, s) ==
    LET text  == IF s \in kept[r] THEN seen[r][s] ELSE input[s]
        does  == Treatment(r, s, text)
        share == Grouped(r) /\ Cardinality(Group(r, s)) > 1 /\ does \in {"lift", "report"}
        hit   == share /\ Reusable(memo[r][s], text)
        made  == IF hit THEN memo[r][s].artifact ELSE Output(r, s, text)
    IN /\ IF Grouped(r)
          THEN /\ \A u \in Work(r) : row[r][u] # "todo"
               /\ \A u \in Group(r, s) : u < s => row[r][u] \in Finished
          ELSE TRUE
       /\ Advance(r, s, IF Grouped(r) THEN "grouped" ELSE "todo",
                        IF does = "fail" THEN "fail" ELSE "writing")
       /\ bytes' = [bytes EXCEPT ![r][s] = text]
       /\ artifact' = [artifact EXCEPT ![r][s] = IF does = "fail" THEN None ELSE made]
       /\ memo' = IF share
                  THEN [memo EXCEPT ![r] = [u \in Scripts |->
                            IF u \in Group(r, s) THEN [bytes |-> text, artifact |-> made]
                                                 ELSE @[u]]]
                  ELSE memo
       /\ UNCHANGED <<settings, disk, control, seen, kept, world>>

\* Where a script goes once its source is written.  Only what was lifted has an
\* analysis to write; the report of a compile error is a success without one.
AfterSource(r, s) ==
    IF artifact[r][s] = <<"nothing">> THEN "skip"
    ELSE IF Emits(r) /\ artifact[r][s][1] = "lift" THEN "siding"
    ELSE "ok"

\* Mutant of Publish: the destination was checked when the work was listed.
PublishReplacing(r, s) ==
    /\ Emits(r) \/ Exports(r)
    /\ Advance(r, s, "writing", AfterSource(r, s))
    /\ sources' = [sources EXCEPT ![s] = artifact[r][s]]
    /\ UNCHANGED <<settings, sidecars, analysis, control, seen, kept, bytes, artifact, memo, world>>

\* publish_contained: all or nothing; an export never replaces a file.
Publish(r, s) ==
    /\ Emits(r) \/ Exports(r)
    /\ IF Exports(r) /\ sources[s] # Absent
       THEN Advance(r, s, "writing", "fail") /\ UNCHANGED sources
       ELSE /\ Advance(r, s, "writing", AfterSource(r, s))
            /\ sources' = [sources EXCEPT ![s] = artifact[r][s]]
    /\ UNCHANGED <<settings, sidecars, analysis, control, seen, kept, bytes, artifact, memo, world>>

\* The publication fails, possibly (when it replaces) after the rename.
PublishFails(r, s) ==
    /\ Emits(r) \/ Exports(r)
    /\ Advance(r, s, "writing", "fail")
    /\ \/ UNCHANGED sources
       \/ ~Exports(r) /\ sources' = [sources EXCEPT ![s] = artifact[r][s]]
    /\ Fault
    /\ UNCHANGED <<settings, sidecars, analysis, control, seen, kept, bytes, artifact, memo>>

\* write_fresh: a file that another name shares, or a link, is not written
\* through but removed.
Unlink(r, s) ==
    /\ ~Emits(r) /\ ~Exports(r)
    /\ sources[s] # Absent
    /\ Advance(r, s, "writing", "writing")
    /\ sources' = [sources EXCEPT ![s] = Absent]
    /\ UNCHANGED <<settings, sidecars, analysis, control, seen, kept, bytes, artifact, memo, world>>

\* The file cannot be created, emptied or removed.
OpenFails(r, s) ==
    /\ ~Emits(r) /\ ~Exports(r)
    /\ Advance(r, s, "writing", "fail")
    /\ Fault
    /\ UNCHANGED <<settings, disk, control, seen, kept, bytes, artifact, memo>>

\* write_fresh: a plain run creates or empties the file and then fills it.
Truncate(r, s) ==
    /\ ~Emits(r) /\ ~Exports(r)
    /\ Advance(r, s, "writing", "truncated")
    /\ sources' = [sources EXCEPT ![s] = Torn]
    /\ UNCHANGED <<settings, sidecars, analysis, control, seen, kept, bytes, artifact, memo, world>>

Fill(r, s) ==
    /\ Advance(r, s, "truncated", AfterSource(r, s))
    /\ sources' = [sources EXCEPT ![s] = artifact[r][s]]
    /\ UNCHANGED <<settings, sidecars, analysis, control, seen, kept, bytes, artifact, memo, world>>

FillFails(r, s) ==
    /\ Advance(r, s, "truncated", "fail")
    /\ Fault
    /\ UNCHANGED <<settings, disk, control, seen, kept, bytes, artifact, memo>>

\* Mutant of WriteSidecar: an existing sidecar is trusted by its name.
WriteSidecarByName(r, s) ==
    /\ Advance(r, s, "siding", "ok")
    /\ sidecars' = [sidecars EXCEPT ![<<s, artifact[r][s]>>] = IF @ = "absent" THEN "good" ELSE @]
    /\ UNCHANGED <<settings, sources, analysis, control, seen, kept, bytes, artifact, memo, world>>

\* write_content_addressed_file_contained: an existing sidecar is kept if its
\* bytes are the expected ones and replaced whole otherwise.
WriteSidecar(r, s) ==
    /\ Advance(r, s, "siding", "ok")
    /\ sidecars' = [sidecars EXCEPT ![<<s, artifact[r][s]>>] = "good"]
    /\ UNCHANGED <<settings, sources, analysis, control, seen, kept, bytes, artifact, memo, world>>

\* A new sidecar appears as the last thing that can fail; a torn one is
\* replaced, and then its directory may not sync.
SidecarFails(r, s) ==
    LET sidecar == <<s, artifact[r][s]>>
    IN /\ Advance(r, s, "siding", "sourced")
       /\ \/ UNCHANGED sidecars
          \/ sidecars[sidecar] = "torn" /\ sidecars' = [sidecars EXCEPT ![sidecar] = "good"]
       /\ Fault
       /\ UNCHANGED <<settings, sources, analysis, control, seen, kept, bytes, artifact, memo>>

-----------------------------------------------------------------------------
(* After the parallel phase. *)

Outcomes(r, o) == {s \in Work(r) : row[r][s] \in o}

\* Scripts of the export manifest that never became work count as failed.
Rejected(r) == IF Exports(r) THEN Scripts \ Work(r) ELSE {}
Failed(r)   == Outcomes(r, {"fail", "sourced"}) \union Rejected(r)
Total(r)    == Work(r) \union Rejected(r)

\* GeneratedSourceRecord and AnalysisManifestEntry of each script.
Records(r) == [s \in Outcomes(r, {"ok", "skip", "sourced"}) |-> artifact[r][s]]
Entries(r) == [s \in {u \in Outcomes(r, {"ok"}) : artifact[r][u][1] = "lift"} |-> artifact[r][s]]

\* generation_id: a hash of the results, not of the run.
Generation(r) == [records |-> Records(r), entries |-> Entries(r), failed |-> Failed(r)]

\* Mutant of Status: scripts that never became work are forgotten.
StatusOfWork(r) ==
    LET done == DOMAIN Entries(r)
    IN IF done = {} /\ Work(r) # {} THEN "failed"
       ELSE IF done # Work(r) THEN "partial"
       ELSE "complete"

Status(r) ==
    LET done == DOMAIN Entries(r)
        unavailable == Outcomes(r, {"ok"}) \ done
    IN IF done = {} /\ unavailable = {} /\ Failed(r) # {} THEN "failed"
       ELSE IF done # Total(r) THEN "partial"
       ELSE "complete"

Provenance(r) == [generation |-> Generation(r), sources |-> Records(r)]

\* Mutant of Manifest: the corpus digest reads the inputs again.
ManifestRehashed(r) ==
    [generation |-> Generation(r), sources |-> Records(r), entries |-> Entries(r),
     corpus |-> [s \in Work(r) |-> input[s]], total |-> Total(r), status |-> Status(r)]

\* The corpus digest is of the bytes each worker consumed.
Manifest(r) ==
    [generation |-> Generation(r), sources |-> Records(r), entries |-> Entries(r),
     corpus |-> [s \in Work(r) |-> bytes[r][s]], total |-> Total(r), status |-> Status(r)]

\* All rows are in: the tally.
Tally(r) ==
    /\ Work(r) = Outcomes(r, Finished)
    /\ Goto(r, "working", IF Emits(r) THEN "publishing" ELSE "exiting")
    /\ UNCHANGED <<settings, disk, lock, code, found, progress, world>>

PublishProvenance(r) ==
    /\ Goto(r, "publishing", "sealing")
    /\ provenance' = Provenance(r)
    /\ UNCHANGED <<settings, sources, sidecars, manifest, lock, code, found, progress, world>>

PublishManifest(r) ==
    /\ Goto(r, "sealing", "exiting")
    /\ manifest' = Manifest(r)
    /\ UNCHANGED <<settings, sources, sidecars, provenance, lock, code, found, progress, world>>

\* atomic_write_contained fails before its rename, or after it when the
\* directory cannot be synced.
ProvenanceFails(r) ==
    /\ Goto(r, "publishing", "failing")
    /\ provenance' \in {provenance, Provenance(r)}
    /\ Fault
    /\ UNCHANGED <<settings, sources, sidecars, manifest, lock, code, found, progress>>

ManifestFails(r) ==
    /\ Goto(r, "sealing", "failing")
    /\ manifest' \in {manifest, Manifest(r)}
    /\ Fault
    /\ UNCHANGED <<settings, sources, sidecars, provenance, lock, code, found, progress>>

Exit(r) ==
    /\ phase[r] \in {"exiting", "failing"}
    /\ Leave(r, IF phase[r] = "failing" \/ Failed(r) # {} THEN 1 ELSE 0)
    /\ UNCHANGED <<disk, world>>

-----------------------------------------------------------------------------
(* The environment. *)

\* Somebody edits, removes or restores an input.
Edit(s) ==
    /\ edits < MaxEdits
    /\ \E text \in Texts : input' = [input EXCEPT ![s] = text]
    /\ edits' = edits + 1
    /\ UNCHANGED <<settings, disk, control, progress, faults, kills>>

\* The process is killed between two steps.
Kill(r) ==
    /\ kills < MaxKills
    /\ phase[r] # "ended"
    /\ Leave(r, 137)
    /\ kills' = kills + 1
    /\ UNCHANGED <<disk, input, edits, faults>>

ScriptStep(r, s) ==
    \/ GroupRead(r, s) \/ Take(r, s)
    \/ Publish(r, s) \/ Unlink(r, s) \/ Truncate(r, s) \/ Fill(r, s) \/ WriteSidecar(r, s)

ScriptFault(r, s) ==
    PublishFails(r, s) \/ OpenFails(r, s) \/ FillFails(r, s) \/ SidecarFails(r, s)

RunStep(r) ==
    \/ Plan(r) \/ Acquire(r) \/ Check(r)
    \/ DropProvenance(r) \/ DropManifest(r) \/ Prepare(r)
    \/ Tally(r) \/ PublishProvenance(r) \/ PublishManifest(r) \/ Exit(r)

RunFault(r) == Refuse(r) \/ ProvenanceFails(r) \/ ManifestFails(r)

Next ==
    \/ \E r \in Runs : RunStep(r) \/ RunFault(r) \/ Kill(r)
    \/ \E r \in Runs, s \in Scripts : ScriptStep(r, s) \/ ScriptFault(r, s)
    \/ \E s \in Scripts : Edit(s)

Spec == Init /\ [][Next]_vars

ProcessStep(r) ==
    RunStep(r) \/ RunFault(r) \/ \E s \in Scripts : ScriptStep(r, s) \/ ScriptFault(r, s)

\* A process that is not killed keeps running.
FairSpec == Spec /\ \A r \in Runs : WF_vars(ProcessStep(r))

-----------------------------------------------------------------------------
(* Properties. *)

\* The variables keep their shapes, and the lock belongs to the one run that is
\* past acquire_output_generation_lock and has not ended.
TypeOK ==
    /\ mode \in [Runs -> Modes]
    /\ hint \in [Scripts -> Hints]
    /\ input \in [Scripts -> Texts]
    /\ sources \in [Scripts -> Artifacts \union {Absent, Torn}]
    /\ sidecars \in [Scripts \X Artifacts -> {"absent", "torn", "good"}]
    /\ lock \in Runs \union {None}
    /\ phase \in [Runs -> Phases]
    /\ code \in [Runs -> {None, 0, 1, 2, 137}]
    /\ row \in [Runs -> [Scripts -> Rows]]
    /\ seen \in [Runs -> [Scripts -> Texts]]
    /\ kept \in [Runs -> SUBSET Scripts]
    /\ bytes \in [Runs -> [Scripts -> Texts]]
    /\ artifact \in [Runs -> [Scripts -> Artifacts \union {None}]]
    /\ memo \in [Runs -> [Scripts -> {None} \union [bytes : Texts, artifact : Artifacts]]]
    /\ \A r \in Runs : lock = r <=> phase[r] \notin {"planning", "waiting", "ended"}

\* A manifest on disk vouches only for what is there: every source it lists
\* holds the listed bytes and every sidecar is whole, whatever runs, with or
\* without analysis, came, failed or were killed since.
ManifestVouches ==
    manifest # None =>
        /\ \A s \in DOMAIN manifest.sources : sources[s] = manifest.sources[s]
        /\ \A s \in DOMAIN manifest.entries : sidecars[<<s, manifest.entries[s]>>] = "good"

\* "consumers ... can never mistake old recovery data for the generation that
\* is about to start writing sources": provenance on disk describes the
\* sources on disk, and a manifest beside it is of the same generation.
ProvenanceIsCurrent ==
    provenance # None =>
        /\ \A s \in DOMAIN provenance.sources : sources[s] = provenance.sources[s]
        /\ manifest # None => manifest.generation = provenance.generation

\* The corpus digest of a manifest and its source hashes belong together:
\* each listed source is what the digested bytes decompile to under the name
\* of that script, although inputs change between the two reads, fingerprints
\* collide and artifacts are reused.
CorpusMatchesSources ==
    manifest # None =>
        \A s \in DOMAIN manifest.sources :
            /\ manifest.corpus[s] # None
            /\ \/ manifest.sources[s] = <<"lift", hint[s], manifest.corpus[s]>>
               \/ manifest.sources[s] = <<"report", manifest.corpus[s]>> /\ manifest.corpus[s] \in Messages
               \/ manifest.sources[s] = <<"copy", manifest.corpus[s]>>
               \/ manifest.sources[s] = <<"nothing">> /\ manifest.corpus[s] \in Empty

\* A manifest is "complete" only if every script of the run, the rejected ones
\* of an export included, is on disk as the decompiled form of its digested
\* bytes, with a whole sidecar.
CompleteMeansAll ==
    manifest # None /\ manifest.status = "complete" =>
        \A s \in manifest.total :
            /\ s \in DOMAIN manifest.corpus
            /\ sources[s] = <<"lift", hint[s], manifest.corpus[s]>>
            /\ sidecars[<<s, sources[s]>>] = "good"

\* Atomic publication: "a leftover user or untracked file is never silently
\* replaced" by an export run, although it looked for one before the lock.
ExportNeverReplaces ==
    [][\A s \in Scripts : sources'[s] # sources[s] /\ sources[s] # Absent =>
          lock \in Runs /\ ~Exports(lock)]_vars

\* A run that exits with 0 leaves every script of its work on disk as what its
\* bytes decompile to, and its own manifest if it emits one.
ZeroMeansDone ==
    [][\A r \in Runs : code[r] = None /\ code'[r] = 0 =>
          /\ \A s \in Work(r) : sources[s] = Output(r, s, bytes[r][s])
          /\ Emits(r) => manifest = Manifest(r) /\ provenance = Provenance(r)]_vars

\* Every run ends, also the ones that wait for another run's lock.
EveryRunEnds == <>(\A r \in Runs : phase[r] = "ended")

\* batch.rs: "a refused run leaves it intact" (the previous generation's
\* manifest).
RefusedLeavesManifest ==
    [][\A r \in Runs : code[r] = None /\ code'[r] = 2 =>
          \/ phase[r] \in {"planning", "waiting"}
          \/ manifest' = found[r]]_vars
=============================================================================
