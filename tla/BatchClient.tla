---------------------------- MODULE BatchClient ----------------------------
(***************************************************************************)
(* The two executor clients: the batch client, which sends every readable  *)
(* script up front in chunks, caches the answers by instance and installs  *)
(* a hook that answers from the cache or posts the one script; and the     *)
(* simple client, which is the batch client with nothing to send up front. *)
(*                                                                         *)
(* A request of post() is answered by the server (external) with 503, with *)
(* another refusal, with a body that does not decode, or with the results  *)
(* in the order of the request, as BatchRequest shows of the server.       *)
(***************************************************************************)
EXTENDS Naturals, Sequences, FiniteSets, SequencesExt

CONSTANTS
    Instances,      \* the scripts of the game
    ChunkSize,      \* CHUNK_SIZE
    MaxAttempts,    \* MAX_ATTEMPTS
    Broken          \* the instances whose bytecode the server cannot decompile

ASSUME ClientAssumption ==
    /\ IsFiniteSet(Instances) /\ Broken \subseteq Instances
    /\ ChunkSize \in Nat \ {0} /\ MaxAttempts \in Nat \ {0}

\* What the server says of the bytecode of an instance, and what a client
\* says when it has nothing of the server's to say.
Outcome(i) == [what |-> IF i \in Broken THEN "error" ELSE "source", of |-> {i}]
Refused == [what |-> "refused", of |-> {}]
NoBytecode == [what |-> "no bytecode", of |-> {}]
Missing == [what |-> "missing", of |-> {}]

VARIABLES
    entries,    \* readEntries: the instances with bytecode, in walk order
    first,       \* first entry of the chunk to send
    attempt,    \* attempts made by the post in progress
    asked,      \* the instance a hook call posts, {} before and between calls
    cache,      \* cache[instance]
    answer,     \* what the last hook call for an instance returned
    phase       \* "walk", "chunk", "idle", "single", "ended"

clientVars == <<entries, first, attempt, asked, cache, answer, phase>>

----------------------------------------------------------------------------
\* The pre-walk

ClientInit ==
    /\ entries = <<>>
    /\ first = 1
    /\ attempt = 0
    /\ asked = {}
    /\ cache = [i \in Instances |-> Missing]
    /\ answer = [i \in Instances |-> Missing]
    /\ phase = "walk"

\* Whichever instances have bytecode at this moment, in the order of the walk.
ReadEntries ==
    /\ phase = "walk"
    /\ entries' \in SetToAllKPermutations(Instances)
    /\ phase' = IF entries' = <<>> THEN "idle" ELSE "chunk"
    /\ UNCHANGED <<first, attempt, asked, cache, answer>>

Chunk ==
    LET last == first + ChunkSize - 1
    IN  SubSeq(entries, first, IF last < Len(entries) THEN last ELSE Len(entries))

----------------------------------------------------------------------------
\* post

\* 503, and another attempt is left.
Busy ==
    /\ phase \in {"chunk", "single"}
    /\ attempt + 1 < MaxAttempts
    /\ attempt' = attempt + 1
    /\ UNCHANGED <<entries, first, asked, cache, answer, phase>>

\* The post returns and the next chunk, if any, is up.
ChunkDone ==
    /\ phase = "chunk"
    /\ attempt' = 0
    /\ first' = first + ChunkSize
    /\ phase' = IF first + ChunkSize <= Len(entries) THEN "chunk" ELSE "idle"
    /\ UNCHANGED <<entries, asked, answer>>

\* A refusal, the last 503 or a malformed body: the chunk stays uncached.
ChunkFailed ==
    /\ ChunkDone
    /\ UNCHANGED cache

\* The server's results: one per entry of the request, each with its index.
Results(chunk) == [k \in 1..Len(chunk) |-> [index |-> k - 1, result |-> Outcome(chunk[k])]]

\* Mutant: the index taken as one-based.
EntryOfOneBased(result) == IF result.index = 0 THEN 1 ELSE result.index

\* A result is cached for the entry its index names; an item that failed is
\* cached too, as the failure.
EntryOf(result) == result.index + 1

ChunkAnswered ==
    /\ ChunkDone
    /\ LET results == Results(Chunk)
       IN  cache' = [i \in Instances |->
               IF \E k \in 1..Len(results) :
                    EntryOf(results[k]) \in 1..Len(Chunk) /\ Chunk[EntryOf(results[k])] = i
               THEN results[CHOOSE k \in 1..Len(results) :
                    EntryOf(results[k]) \in 1..Len(Chunk) /\ Chunk[EntryOf(results[k])] = i].result
               ELSE cache[i]]

----------------------------------------------------------------------------
\* getgenv().decompile

\* A hook call answered from the cache.
Hit(i) ==
    /\ phase = "idle"
    /\ cache[i] # Missing
    /\ answer' = [answer EXCEPT ![i] = cache[i]]
    /\ UNCHANGED <<entries, first, attempt, asked, cache, phase>>

\* A miss whose bytecode cannot be read now.
Unreadable(i) ==
    /\ phase = "idle"
    /\ cache[i] = Missing
    /\ answer' = [answer EXCEPT ![i] = NoBytecode]
    /\ UNCHANGED <<entries, first, attempt, asked, cache, phase>>

\* A miss that is posted on its own.
Miss(i) ==
    /\ phase = "idle"
    /\ cache[i] = Missing
    /\ asked' = {i}
    /\ phase' = "single"
    /\ UNCHANGED <<entries, first, attempt, cache, answer>>

\* The post of one script returns: the source, or what the refusal says (the
\* server refuses bytecode it cannot decompile).
SingleDone ==
    /\ phase = "single"
    /\ \E i \in asked, reply \in {"answer", "refusal"} :
          answer' = [answer EXCEPT ![i] = IF reply = "answer" THEN Outcome(i) ELSE Refused]
    /\ asked' = {}
    /\ attempt' = 0
    /\ phase' = "idle"
    /\ UNCHANGED <<entries, first, cache>>

\* The request function itself throws, at any attempt (a refused connection, in
\* executors that raise it); nothing around post catches.  During the walk it
\* ends the client before the hook is installed; under a hook call it ends
\* that call, and the caller gets the error instead of an answer.
Throws ==
    /\ phase \in {"chunk", "single"}
    /\ phase' = IF phase = "chunk" THEN "ended" ELSE "idle"
    /\ attempt' = 0
    /\ asked' = {}
    /\ UNCHANGED <<entries, first, cache, answer>>

\* The simple client lets getscriptbytecode throw as well: such a call leaves
\* everything as it was.
Hook == \E i \in Instances : Hit(i) \/ Unreadable(i) \/ Miss(i)
Returns == Busy \/ ChunkFailed \/ ChunkAnswered \/ SingleDone \/ Throws

ClientNext == ReadEntries \/ Returns \/ Hook

ClientSpec == ClientInit /\ [][ClientNext]_clientVars

----------------------------------------------------------------------------
ClientTypeOK ==
    /\ entries \in Seq(Instances)
    /\ first \in Nat /\ attempt \in 0..(MaxAttempts - 1)
    /\ asked \in SUBSET Instances
    /\ \A i \in Instances :
         /\ cache[i] \in {Missing} \cup {Outcome(j) : j \in Instances}
         /\ answer[i] \in {Missing, Refused, NoBytecode} \cup {Outcome(j) : j \in Instances}
    /\ phase \in {"walk", "chunk", "idle", "single", "ended"}

\* What the hook says of a script is what the server said of that script's
\* bytecode, whichever chunk and index it travelled under, and a script that
\* the server answered in its chunk is never answered with anything else.
OwnAnswer ==
    \A i \in Instances :
        /\ answer[i].of \subseteq {i}
        /\ cache[i] # Missing => answer[i] \in {Missing, cache[i]}

\* A cached answer is never dropped or replaced while the client lives.
CacheStays == [][\A i \in Instances : cache[i] # Missing => cache'[i] = cache[i]]_clientVars

=============================================================================
