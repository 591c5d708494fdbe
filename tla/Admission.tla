----------------------------- MODULE Admission -----------------------------
(***************************************************************************)
(* The admission path of the decompile server (web-server/src/main.rs).    *)
(*                                                                         *)
(* Every request first takes a place (queue_semaphore, Jobs + QueueLimit   *)
(* permits) or is refused, then waits for a job permit (cpu_semaphore,     *)
(* Jobs permits) under a timeout, uploads its body under a deadline, and   *)
(* runs on a blocking thread that owns both permits.  A client may go away *)
(* at any await; the blocking job then goes on alone and keeps its         *)
(* permits.  The last job to finish arms a timer that later returns freed  *)
(* memory to the system.                                                   *)
(*                                                                         *)
(* Tokio's semaphore is modelled from its use here: acquire takes a free   *)
(* permit or joins a FIFO wait list, release hands the permit to the       *)
(* longest waiter.  The wait list is the set `waiting' with, for each      *)
(* waiter, the set `ahead' of the waiters that came before it.             *)
(***************************************************************************)
EXTENDS Integers, FiniteSets

CONSTANTS
    Requests,   \* identities of the requests a client can have in flight
    Jobs,       \* MAX_CONCURRENT_JOBS
    QueueLimit  \* TOVEK_QUEUE_LIMIT; zero means nobody may wait

ASSUME AdmissionAssumption ==
    /\ IsFiniteSet(Requests)
    /\ Jobs \in Nat \ {0}
    /\ QueueLimit \in Nat

VARIABLES
    phase,       \* where each request is in admit_work and its handler
    reply,       \* the status of the answer: last one sent, or one decided
    gone,        \* requests whose client left while their job goes on
    place,       \* holders of a queue_semaphore permit
    job,         \* holders of a cpu_semaphore permit, a granted waiter included
    freePlaces,  \* permits left in queue_semaphore
    freeJobs,    \* permits left in cpu_semaphore
    waiting,     \* requests on the wait list of cpu_semaphore
    ahead,       \* for a waiter, the waiters before it
    runningJobs, \* RUNNING_JOBS
    timer,       \* the idle-release task a finished job left behind
    dirty        \* freed memory is held by some thread's heap

permits == <<place, job, freePlaces, freeJobs, waiting, ahead>>
memory  == <<runningJobs, timer, dirty>>
vars    == <<phase, reply, gone, permits, memory>>

Phases ==
    { "idle",      \* no request of this identity is in the server
      "arrived",   \* admit_work entered, no permit yet
      "placed",    \* place taken, the job permit not yet asked for
      "queued",    \* in the timed wait; granted once it is in `job'
      "expired",   \* the wait elapsed, its Acquire not yet dropped
      "cancelled", \* the client left during the wait
      "admitted",  \* owns an Admission, body being read
      "spawned",   \* handed to spawn_blocking, not started
      "running",   \* the blocking closure runs
      "closing",   \* the last Arc<Admission> is being dropped: _job first
      "leaving",   \* job permit given back, the place still held
      "refused" }  \* unread body being discarded

\* Only 503 is told apart, the status the client scripts retry; "final" stands
\* for 200, 400, 408, 413 and 500.
Statuses == {"none", "final", "503"}

Timers == {"none", "sleeping", "collecting"}

Init ==
    /\ phase = [r \in Requests |-> "idle"]
    /\ reply = [r \in Requests |-> "none"]
    /\ gone = {}
    /\ place = {}
    /\ job = {}
    /\ freePlaces = Jobs + QueueLimit
    /\ freeJobs = Jobs
    /\ waiting = {}
    /\ ahead = [r \in Requests |-> {}]
    /\ runningJobs = 0
    /\ timer = [r \in Requests |-> "none"]
    /\ dirty = FALSE

-----------------------------------------------------------------------------
(* Helpers. *)

Goto(r, from, to) ==
    /\ phase[r] = from
    /\ phase' = [phase EXCEPT ![r] = to]

Decide(r, status) == reply' = [reply EXCEPT ![r] = status]

\* The wait list without w.
Unlink(w) ==
    /\ waiting' = waiting \ {w}
    /\ ahead' = [q \in Requests |-> IF q = w THEN {} ELSE ahead[q] \ {w}]

\* Mutant of ReleaseJob: the permit goes to any waiter.
ReleaseJobAnyWaiter(r) ==
    \/ /\ waiting = {}
       /\ job' = job \ {r}
       /\ freeJobs' = freeJobs + 1
       /\ UNCHANGED <<waiting, ahead>>
    \/ \E w \in waiting :
         /\ job' = (job \ {r}) \union {w}
         /\ Unlink(w)
         /\ UNCHANGED freeJobs

\* Release of a job permit: to the longest waiter, else back to the counter.
ReleaseJob(r) ==
    \/ /\ waiting = {}
       /\ job' = job \ {r}
       /\ freeJobs' = freeJobs + 1
       /\ UNCHANGED <<waiting, ahead>>
    \/ \E w \in waiting :
         /\ ahead[w] = {}
         /\ job' = (job \ {r}) \union {w}
         /\ Unlink(w)
         /\ UNCHANGED freeJobs

-----------------------------------------------------------------------------
(* admit_work. *)

\* A client sends a request.  Bound: one idle timer per request identity.
Arrive(r) ==
    /\ Goto(r, "idle", "arrived")
    /\ timer[r] = "none"
    /\ Decide(r, "none")
    /\ UNCHANGED <<gone, permits, memory>>

\* Mutant of TakePlace: the queue's limit is not looked at.
TakePlaceUnchecked(r) ==
    /\ Goto(r, "arrived", "placed")
    /\ freePlaces' = freePlaces - 1
    /\ place' = place \union {r}
    /\ UNCHANGED <<reply, gone, job, freeJobs, waiting, ahead, memory>>

\* try_acquire_owned on queue_semaphore succeeds.
TakePlace(r) ==
    /\ Goto(r, "arrived", "placed")
    /\ freePlaces > 0
    /\ freePlaces' = freePlaces - 1
    /\ place' = place \union {r}
    /\ UNCHANGED <<reply, gone, job, freeJobs, waiting, ahead, memory>>

\* "decompile queue full".
RefuseFull(r) ==
    /\ Goto(r, "arrived", "refused")
    /\ freePlaces = 0
    /\ UNCHANGED <<reply, gone, permits, memory>>

\* First poll of acquire_owned: a free permit is taken at once ...
TakeJob(r) ==
    /\ Goto(r, "placed", "admitted")
    /\ freeJobs > 0
    /\ freeJobs' = freeJobs - 1
    /\ job' = job \union {r}
    /\ UNCHANGED <<reply, gone, place, freePlaces, waiting, ahead, memory>>

\* Mutant of Enqueue: the request queues without looking at the counter.
EnqueueUnchecked(r) ==
    /\ Goto(r, "placed", "queued")
    /\ waiting' = waiting \union {r}
    /\ ahead' = [ahead EXCEPT ![r] = waiting]
    /\ UNCHANGED <<reply, gone, place, job, freePlaces, freeJobs, memory>>

\* ... otherwise the request joins the end of the wait list.
Enqueue(r) ==
    /\ Goto(r, "placed", "queued")
    /\ freeJobs = 0
    /\ waiting' = waiting \union {r}
    /\ ahead' = [ahead EXCEPT ![r] = waiting]
    /\ UNCHANGED <<reply, gone, place, job, freePlaces, freeJobs, memory>>

\* A later poll finds the permit a release handed over.
TakeGrant(r) ==
    /\ Goto(r, "queued", "admitted")
    /\ r \in job
    /\ UNCHANGED <<reply, gone, permits, memory>>

\* queue_timeout elapsed.  Timeout polls the acquire first, so it was still
\* pending; a grant can yet arrive before the Acquire is dropped.
Expire(r) ==
    /\ Goto(r, "queued", "expired")
    /\ r \notin job
    /\ Decide(r, "503")
    /\ UNCHANGED <<gone, permits, memory>>

\* The client disconnects: hyper drops the future at its await.
CancelWait(r) ==
    /\ Goto(r, "queued", "cancelled")
    /\ UNCHANGED <<reply, gone, permits, memory>>

\* Drop of the Acquire future: off the wait list, or pass the grant on.
DropAcquire(r) ==
    /\ phase[r] \in {"expired", "cancelled"}
    /\ phase' = [phase EXCEPT ![r] = "leaving"]
    /\ \/ /\ r \in job
          /\ ReleaseJob(r)
       \/ /\ r \notin job
          /\ Unlink(r)
          /\ UNCHANGED <<job, freeJobs>>
    /\ UNCHANGED <<reply, gone, place, freePlaces, memory>>

\* Mutant of DropPlace: the permit is forgotten, not dropped.
DropPlaceForgets(r) ==
    /\ Goto(r, "leaving", IF reply[r] = "503" THEN "refused" ELSE "idle")
    /\ place' = place \ {r}
    /\ gone' = gone \ {r}
    /\ UNCHANGED <<reply, job, freePlaces, freeJobs, waiting, ahead, memory>>

\* Drop of the place permit, the last thing a request gives back.  An expired
\* wait still has its body to discard; everything else is over.
DropPlace(r) ==
    /\ Goto(r, "leaving", IF reply[r] = "503" THEN "refused" ELSE "idle")
    /\ place' = place \ {r}
    /\ freePlaces' = freePlaces + 1
    /\ gone' = gone \ {r}
    /\ UNCHANGED <<reply, job, freeJobs, waiting, ahead, memory>>

\* discard_rejected_body ends: drained (503), or broken, oversized or late.
DiscardBody(r) ==
    /\ Goto(r, "refused", "idle")
    /\ \E status \in {"503", "final"} : Decide(r, status)
    /\ UNCHANGED <<gone, permits, memory>>

CancelDiscard(r) ==
    /\ Goto(r, "refused", "idle")
    /\ Decide(r, "none")
    /\ UNCHANGED <<gone, permits, memory>>

-----------------------------------------------------------------------------
(* AdmittedBody and the handlers. *)

\* The upload misses its deadline, is too large or cannot be read, or
\* decompile_raw refuses a header: the handler returns with its Admission.
AbortUpload(r) ==
    /\ Goto(r, "admitted", "closing")
    /\ Decide(r, "final")
    /\ UNCHANGED <<gone, permits, memory>>

\* Mutant of CancelUpload: only the place is given back.
CancelUploadKeepsJob(r) ==
    /\ Goto(r, "admitted", "leaving")
    /\ UNCHANGED <<reply, gone, permits, memory>>

CancelUpload(r) ==
    /\ Goto(r, "admitted", "closing")
    /\ UNCHANGED <<reply, gone, permits, memory>>

\* Mutant of Spawn: the job keeps its slot but not its place in the queue.
SpawnDropsPlace(r) ==
    /\ Goto(r, "admitted", "spawned")
    /\ place' = place \ {r}
    /\ freePlaces' = freePlaces + 1
    /\ UNCHANGED <<reply, gone, job, freeJobs, waiting, ahead, memory>>

\* run_admitted_work: the closure now owns the Admission.
Spawn(r) ==
    /\ Goto(r, "admitted", "spawned")
    /\ UNCHANGED <<reply, gone, permits, memory>>

\* Mutant of Detach: the permit lives in the HTTP future, not in the job.
DetachReleases(r) ==
    /\ phase[r] \in {"spawned", "running"}
    /\ r \in job
    /\ gone' = gone \union {r}
    /\ ReleaseJob(r)
    /\ UNCHANGED <<phase, reply, place, freePlaces, memory>>

\* The client leaves a spawned job: nobody will read its answer.
Detach(r) ==
    /\ phase[r] \in {"spawned", "running"}
    /\ gone' = gone \union {r}
    /\ UNCHANGED <<phase, reply, permits, memory>>

\* RunningJob::start.
StartJob(r) ==
    /\ Goto(r, "spawned", "running")
    /\ runningJobs' = runningJobs + 1
    /\ UNCHANGED <<reply, gone, permits, timer, dirty>>

\* Mutant of FinishJob: the timer is armed one decrement too late.
FinishJobArmsNever(r) ==
    /\ Goto(r, "running", "closing")
    /\ Decide(r, IF r \in gone THEN "none" ELSE "final")
    /\ runningJobs' = runningJobs - 1
    /\ timer' = IF runningJobs = 0 THEN [timer EXCEPT ![r] = "sleeping"] ELSE timer
    /\ dirty' = TRUE
    /\ UNCHANGED <<gone, permits>>

\* work() returns or panics, and RunningJob is dropped: the last one arms the
\* idle timer.
FinishJob(r) ==
    /\ Goto(r, "running", "closing")
    /\ Decide(r, IF r \in gone THEN "none" ELSE "final")
    /\ runningJobs' = runningJobs - 1
    /\ timer' = IF runningJobs = 1 THEN [timer EXCEPT ![r] = "sleeping"] ELSE timer
    /\ dirty' = TRUE
    /\ UNCHANGED <<gone, permits>>

\* Fields drop in declaration order: _job before _place.
DropJob(r) ==
    /\ Goto(r, "closing", "leaving")
    /\ ReleaseJob(r)
    /\ UNCHANGED <<reply, gone, place, freePlaces, memory>>

-----------------------------------------------------------------------------
(* The idle-release task. *)

\* IDLE_RELEASE_DELAY is over: collect only if no job runs now.
TimerFires(t) ==
    /\ timer[t] = "sleeping"
    /\ timer' = [timer EXCEPT ![t] =
                   IF runningJobs = 0 THEN "collecting" ELSE "none"]
    /\ UNCHANGED <<phase, reply, gone, permits, runningJobs, dirty>>

\* release_freed_memory.
Collect(t) ==
    /\ timer[t] = "collecting"
    /\ timer' = [timer EXCEPT ![t] = "none"]
    /\ dirty' = FALSE
    /\ UNCHANGED <<phase, reply, gone, permits, runningJobs>>

-----------------------------------------------------------------------------
Admit(r) == TakePlace(r) \/ RefuseFull(r) \/ TakeJob(r) \/ Enqueue(r)
            \/ TakeGrant(r) \/ DropAcquire(r) \/ DropPlace(r) \/ DiscardBody(r)
Handle(r) == AbortUpload(r) \/ Spawn(r) \/ StartJob(r) \/ FinishJob(r) \/ DropJob(r)
Client(r) == Arrive(r) \/ CancelWait(r) \/ CancelDiscard(r) \/ CancelUpload(r)
             \/ Detach(r)
Idle(t) == TimerFires(t) \/ Collect(t)

Next == \E r \in Requests :
          Admit(r) \/ Handle(r) \/ Client(r) \/ Idle(r) \/ Expire(r)

Spec == Init /\ [][Next]_vars

\* The runtime keeps polling ready tasks, uploads end by their deadline, jobs
\* terminate and timers fire.  Clients owe nothing, and no wait is assumed to
\* time out: progress of the queue must come from the permits alone.
Fairness == \A r \in Requests : WF_vars(Admit(r)) /\ WF_vars(Handle(r))
                                /\ WF_vars(Idle(r))
FairSpec == Spec /\ Fairness

-----------------------------------------------------------------------------
(* Properties. *)

\* The variables keep the shapes admit_work, Admission and RunningJob give them.
TypeOK ==
    /\ phase \in [Requests -> Phases]
    /\ reply \in [Requests -> Statuses]
    /\ gone \subseteq Requests
    /\ place \subseteq Requests
    /\ job \subseteq Requests
    /\ freePlaces \in 0 .. Jobs + QueueLimit
    /\ freeJobs \in 0 .. Jobs
    /\ waiting \subseteq Requests
    /\ ahead \in [Requests -> SUBSET Requests]
    /\ runningJobs \in 0 .. Jobs
    /\ timer \in [Requests -> Timers]
    /\ dirty \in BOOLEAN

\* No path through admit_work, the handlers or a cancelled future loses or
\* duplicates a permit of either semaphore.
PermitsConserved ==
    /\ freeJobs + Cardinality(job) = Jobs
    /\ freePlaces + Cardinality(place) = Jobs + QueueLimit

\* A job permit is never free while a request waits for one, also when a wait
\* expires or is cancelled just as a permit was handed to it.
NoLostWakeup == waiting # {} => freeJobs = 0

\* At most TOVEK_QUEUE_LIMIT requests wait (README).  It rests on the drop
\* order of Admission: every holder of a job permit still holds its place.
QueueBounded == Cardinality(waiting) <= QueueLimit

Running == {r \in Requests : phase[r] = "running"}
Buffering == {r \in Requests : phase[r] \in {"admitted", "spawned", "running"}}

\* Bodies are buffered only by admitted requests: at most Jobs of them are in
\* memory, and RUNNING_JOBS counts the closures that run, detached or not.
BodiesBounded ==
    /\ Cardinality(Buffering) <= Jobs
    /\ runningJobs = Cardinality(Running)

\* Which permits a request holds follows from where it is: in particular a
\* holder of a job permit always holds a place too, and a request in the timed
\* wait is either on the wait list or granted, never both or neither.
HoldersMatchPhase ==
    \A r \in Requests :
      /\ r \in place <=> phase[r] \notin {"idle", "arrived", "refused"}
      /\ r \in job \union waiting <=>
           phase[r] \notin {"idle", "arrived", "refused", "placed", "leaving"}
      /\ r \in waiting => phase[r] \in {"queued", "expired", "cancelled"}
      /\ r \notin job \intersect waiting
      /\ r \in gone => phase[r] \in {"spawned", "running", "closing", "leaving"}

\* When the answer is out every permit is back: a client that sends its next
\* request after reading a response is not refused because of its own past.
AnsweredHoldsNothing ==
    \A r \in Requests : phase[r] \in {"idle", "refused"} =>
        r \notin place \union job \union waiting \union gone

\* The admission path implements the bounded first-come, first-served slot
\* server: a slot is busy from the moment its permit is assigned.
Slots == INSTANCE SlotQueue WITH
            Clients <- Requests, Slots <- Jobs, Room <- QueueLimit, busy <- job
ImplementsSlotQueue == Slots!SlotSpec

\* Every request that enters admit_work comes to an end, although no wait is
\* assumed to time out and clients keep sending: nobody is overtaken forever.
EveryRequestEnds ==
    \A r \in Requests : phase[r] = "arrived" ~> phase[r] = "idle"

\* Memory freed by jobs is returned once the server stays idle: whoever
\* finishes last leaves a timer that nobody can cancel.
FreedMemoryReturned ==
    (dirty /\ runningJobs = 0) ~> (~dirty \/ runningJobs > 0)
=============================================================================
