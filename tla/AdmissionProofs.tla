-------------------------- MODULE AdmissionProofs --------------------------
(***************************************************************************)
(* Safety of the admission path for any finite set of requests, any number *)
(* of job slots and any queue limit.                                       *)
(*                                                                         *)
(* The queue bound is not inductive.  It follows from four facts that are  *)
(* inductive together: both semaphores conserve their permits, no permit   *)
(* is free while somebody waits, and the permits a request holds are       *)
(* determined by its phase, so that holders of job permits and waiters are *)
(* disjoint subsets of the holders of places.                              *)
(***************************************************************************)
EXTENDS Admission, FiniteSetTheorems, TLAPS

IInv ==
    /\ TypeOK
    /\ PermitsConserved
    /\ NoLostWakeup
    /\ HoldersMatchPhase
    /\ runningJobs = Cardinality(Running)

-----------------------------------------------------------------------------
(* Counting subsets of Requests. *)

\* A set of requests is finite, and one request more or less changes its
\* cardinality by one.
LEMMA CountRequests ==
    ASSUME NEW S \in SUBSET Requests, NEW x \in Requests
    PROVE  /\ IsFiniteSet(S)
           /\ Cardinality(S) \in Nat
           /\ x \notin S => Cardinality(S \union {x}) = Cardinality(S) + 1
           /\ x \in S => Cardinality(S \ {x}) = Cardinality(S) - 1
           /\ x \in S => Cardinality(S) > 0
  <1>1. IsFiniteSet(S)
    BY AdmissionAssumption, FS_Subset
  <1>2. Cardinality(S) \in Nat
    BY <1>1, FS_CardinalityType
  <1>3. x \notin S => Cardinality(S \union {x}) = Cardinality(S) + 1
    BY <1>1, FS_AddElement
  <1>4. x \in S => Cardinality(S \ {x}) = Cardinality(S) - 1
    BY <1>1, FS_RemoveElement
  <1>5. x \in S => Cardinality(S) > 0
    <2>1. x \in S => Cardinality(S) # 0
      BY <1>1, FS_EmptySet
    <2> QED BY <2>1, <1>2
  <1> QED BY <1>1, <1>2, <1>3, <1>4, <1>5

\* Disjoint sets of requests inside a third one are together no larger.
LEMMA CountDisjoint ==
    ASSUME NEW S \in SUBSET Requests, NEW T \in SUBSET Requests,
           NEW U \in SUBSET Requests,
           S \intersect T = {}, S \subseteq U, T \subseteq U
    PROVE  Cardinality(S) + Cardinality(T) <= Cardinality(U)
  <1>1. IsFiniteSet(S) /\ IsFiniteSet(T) /\ IsFiniteSet(U)
    BY AdmissionAssumption, FS_Subset
  <1>2. Cardinality(S \union T) = Cardinality(S) + Cardinality(T) - Cardinality(S \intersect T)
    BY <1>1, FS_Union
  <1>3. Cardinality(S \intersect T) = 0
    BY FS_EmptySet
  <1>4. Cardinality(S \union T) <= Cardinality(U)
    <2>1. S \union T \in SUBSET U
      OBVIOUS
    <2> QED BY <1>1, <2>1, FS_Subset
  <1>5. Cardinality(S) \in Nat /\ Cardinality(T) \in Nat
    BY <1>1, FS_CardinalityType
  <1> QED BY <1>2, <1>3, <1>4, <1>5

-----------------------------------------------------------------------------
(* What the helpers do. *)

\* Giving a job permit back conserves permits, leaves no permit free while
\* somebody waits, and moves nobody but the releaser out of `job' and `waiting'.
LEMMA ReleaseJobFacts ==
    ASSUME NEW r \in Requests, IInv, r \in job, ReleaseJob(r)
    PROVE  /\ job' \in SUBSET Requests
           /\ waiting' \in SUBSET waiting
           /\ ahead' \in [Requests -> SUBSET Requests]
           /\ freeJobs' \in 0 .. Jobs
           /\ freeJobs' + Cardinality(job') = Jobs
           /\ waiting' # {} => freeJobs' = 0
           /\ r \notin job' /\ r \notin waiting'
           /\ job' \intersect waiting' = {}
           /\ \A q \in Requests \ {r} :
                q \in job' \union waiting' <=> q \in job \union waiting
  <1> USE DEF IInv, TypeOK, PermitsConserved, NoLostWakeup, HoldersMatchPhase
  <1>1. /\ Cardinality(job) \in Nat
        /\ Cardinality(job \ {r}) = Cardinality(job) - 1
        /\ Cardinality(job) > 0
    BY CountRequests
  <1>2. r \notin waiting
    OBVIOUS
  <1>3. CASE /\ waiting = {}
             /\ job' = job \ {r}
             /\ freeJobs' = freeJobs + 1
             /\ UNCHANGED <<waiting, ahead>>
    BY <1>1, <1>3, AdmissionAssumption
  <1>4. ASSUME NEW w \in waiting,
               job' = (job \ {r}) \union {w}, Unlink(w), freeJobs' = freeJobs
        PROVE  /\ job' \in SUBSET Requests
               /\ waiting' \in SUBSET waiting
               /\ ahead' \in [Requests -> SUBSET Requests]
               /\ freeJobs' \in 0 .. Jobs
               /\ freeJobs' + Cardinality(job') = Jobs
               /\ waiting' # {} => freeJobs' = 0
               /\ r \notin job' /\ r \notin waiting'
               /\ job' \intersect waiting' = {}
               /\ \A q \in Requests \ {r} :
                    q \in job' \union waiting' <=> q \in job \union waiting
    <2>1. w \notin job \ {r} /\ w # r
      BY <1>2
    <2>2. Cardinality(job') = Cardinality(job)
      <3>1. Cardinality((job \ {r}) \union {w}) = Cardinality(job \ {r}) + 1
        BY <2>1, CountRequests
      <3> QED BY <3>1, <1>1, <1>4
    <2>3. ahead' \in [Requests -> SUBSET Requests]
      BY <1>4 DEF Unlink
    <2> QED BY <1>2, <1>4, <2>1, <2>2, <2>3 DEF Unlink
  <1> QED BY <1>3, <1>4 DEF ReleaseJob

\* A step that moves one request between phases neither of which is "running"
\* leaves the running closures alone.
LEMMA RunningUnchanged ==
    ASSUME NEW r \in Requests, NEW to,
           phase \in [Requests -> Phases],
           phase' = [phase EXCEPT ![r] = to],
           phase[r] # "running", to # "running"
    PROVE  Running' = Running
  BY DEF Running

-----------------------------------------------------------------------------
(* The invariant is inductive. *)

\* The initial state satisfies the invariant.
LEMMA InitIInv == Init => IInv
  <1> SUFFICES ASSUME Init PROVE IInv
    OBVIOUS
  <1>1. TypeOK
    <2>1. dirty \in BOOLEAN
      BY Zenon DEF Init
    <2> QED BY <2>1, AdmissionAssumption DEF Init, TypeOK, Phases, Statuses, Timers
  <1>2. PermitsConserved
    BY AdmissionAssumption, FS_EmptySet DEF Init, PermitsConserved
  <1>3. NoLostWakeup /\ HoldersMatchPhase
    BY DEF Init, NoLostWakeup, HoldersMatchPhase
  <1>4. runningJobs = Cardinality(Running)
    <2>1. Running = {}
      BY DEF Init, Running
    <2> QED BY <2>1, FS_EmptySet DEF Init
  <1> QED BY <1>1, <1>2, <1>3, <1>4 DEF IInv

\* Steps that touch neither semaphore nor RUNNING_JOBS: they move a request
\* between phases that hold the same permits.
LEMMA QuietSteps ==
    ASSUME NEW r \in Requests, IInv,
           \/ Arrive(r) \/ RefuseFull(r) \/ TakeGrant(r) \/ Expire(r)
           \/ CancelWait(r) \/ DiscardBody(r) \/ CancelDiscard(r)
           \/ AbortUpload(r) \/ CancelUpload(r) \/ Spawn(r)
    PROVE  IInv'
  <1> USE DEF IInv
  <1>1. TypeOK'
    BY DEF Arrive, RefuseFull, TakeGrant, Expire, CancelWait, DiscardBody,
           CancelDiscard, AbortUpload, CancelUpload, Spawn, Goto, Decide,
           permits, memory, TypeOK, Phases, Statuses
  <1>2. PermitsConserved' /\ NoLostWakeup'
    BY DEF Arrive, RefuseFull, TakeGrant, Expire, CancelWait, DiscardBody,
           CancelDiscard, AbortUpload, CancelUpload, Spawn, permits,
           PermitsConserved, NoLostWakeup
  <1>3. HoldersMatchPhase'
    BY DEF Arrive, RefuseFull, TakeGrant, Expire, CancelWait, DiscardBody,
           CancelDiscard, AbortUpload, CancelUpload, Spawn, Goto, permits,
           TypeOK, HoldersMatchPhase
  <1>4. Running' = Running
    BY DEF Arrive, RefuseFull, TakeGrant, Expire, CancelWait, DiscardBody,
           CancelDiscard, AbortUpload, CancelUpload, Spawn, Goto, TypeOK, Running
  <1>5. runningJobs' = Cardinality(Running')
    BY <1>4 DEF Arrive, RefuseFull, TakeGrant, Expire, CancelWait, DiscardBody,
           CancelDiscard, AbortUpload, CancelUpload, Spawn, memory
  <1> QED BY <1>1, <1>2, <1>3, <1>5

\* TakePlace moves one place permit from the counter to the request.
LEMMA TakePlaceStep ==
    ASSUME NEW r \in Requests, IInv, TakePlace(r)
    PROVE  IInv'
  <1> USE DEF IInv, TakePlace, Goto
  <1>1. TypeOK'
    BY AdmissionAssumption DEF TypeOK, Phases, memory
  <1>2. PermitsConserved'
    <2>1. r \notin place
      BY DEF HoldersMatchPhase, TypeOK
    <2>2. /\ Cardinality(place) \in Nat
          /\ Cardinality(place \union {r}) = Cardinality(place) + 1
      BY <2>1, CountRequests DEF TypeOK
    <2> QED BY <2>2, AdmissionAssumption DEF PermitsConserved, TypeOK
  <1>3. NoLostWakeup' /\ HoldersMatchPhase'
    BY DEF NoLostWakeup, HoldersMatchPhase, TypeOK
  <1>4. runningJobs' = Cardinality(Running')
    BY RunningUnchanged DEF TypeOK, memory
  <1> QED BY <1>1, <1>2, <1>3, <1>4

\* TakeJob moves one job permit from the counter to a request nobody waits with.
LEMMA TakeJobStep ==
    ASSUME NEW r \in Requests, IInv, TakeJob(r)
    PROVE  IInv'
  <1> USE DEF IInv, TakeJob, Goto
  <1>1. TypeOK'
    BY AdmissionAssumption DEF TypeOK, Phases, memory
  <1>2. PermitsConserved'
    <2>1. r \notin job
      BY DEF HoldersMatchPhase, TypeOK
    <2>2. /\ Cardinality(job) \in Nat
          /\ Cardinality(job \union {r}) = Cardinality(job) + 1
      BY <2>1, CountRequests DEF TypeOK
    <2> QED BY <2>2, AdmissionAssumption DEF PermitsConserved, TypeOK
  <1>3. NoLostWakeup' /\ HoldersMatchPhase'
    BY DEF NoLostWakeup, HoldersMatchPhase, TypeOK
  <1>4. runningJobs' = Cardinality(Running')
    BY RunningUnchanged DEF TypeOK, memory
  <1> QED BY <1>1, <1>2, <1>3, <1>4

\* Enqueue adds a waiter only when no job permit is free.
LEMMA EnqueueStep ==
    ASSUME NEW r \in Requests, IInv, Enqueue(r)
    PROVE  IInv'
  <1> USE DEF IInv, Enqueue, Goto
  <1>1. TypeOK'
    BY DEF TypeOK, Phases, memory
  <1>2. PermitsConserved' /\ NoLostWakeup'
    BY DEF PermitsConserved, NoLostWakeup
  <1>3. HoldersMatchPhase'
    BY DEF HoldersMatchPhase, TypeOK
  <1>4. runningJobs' = Cardinality(Running')
    BY RunningUnchanged DEF TypeOK, memory
  <1> QED BY <1>1, <1>2, <1>3, <1>4

\* A dropped Acquire leaves the wait list, or passes a late grant on.
LEMMA DropAcquireStep ==
    ASSUME NEW r \in Requests, IInv, DropAcquire(r)
    PROVE  IInv'
  <1> USE DEF IInv, DropAcquire
  <1>1. runningJobs' = Cardinality(Running')
    BY RunningUnchanged DEF TypeOK, memory
  <1>2. CASE r \in job /\ ReleaseJob(r)
    <2>1. TypeOK'
      BY <1>2, ReleaseJobFacts DEF TypeOK, Phases, memory
    <2>2. PermitsConserved' /\ NoLostWakeup'
      BY <1>2, ReleaseJobFacts DEF PermitsConserved, NoLostWakeup
    <2>3. HoldersMatchPhase'
      BY <1>2, ReleaseJobFacts DEF HoldersMatchPhase, TypeOK
    <2> QED BY <1>1, <2>1, <2>2, <2>3
  <1>3. CASE r \notin job /\ Unlink(r) /\ UNCHANGED <<job, freeJobs>>
    <2>1. TypeOK'
      BY <1>3 DEF Unlink, TypeOK, Phases, memory
    <2>2. PermitsConserved' /\ NoLostWakeup'
      BY <1>3 DEF Unlink, PermitsConserved, NoLostWakeup
    <2>3. HoldersMatchPhase'
      BY <1>3 DEF Unlink, HoldersMatchPhase, TypeOK
    <2> QED BY <1>1, <2>1, <2>2, <2>3
  <1> QED BY <1>2, <1>3

\* The job permit of an Admission is dropped while its place is still held.
LEMMA DropJobStep ==
    ASSUME NEW r \in Requests, IInv, DropJob(r)
    PROVE  IInv'
  <1> USE DEF IInv, DropJob, Goto
  <1>1. r \in job
    BY DEF HoldersMatchPhase, TypeOK
  <1>2. TypeOK'
    BY <1>1, ReleaseJobFacts DEF TypeOK, Phases, memory
  <1>3. PermitsConserved' /\ NoLostWakeup'
    BY <1>1, ReleaseJobFacts DEF PermitsConserved, NoLostWakeup
  <1>4. HoldersMatchPhase'
    BY <1>1, ReleaseJobFacts DEF HoldersMatchPhase, TypeOK
  <1>5. runningJobs' = Cardinality(Running')
    BY RunningUnchanged DEF TypeOK, memory
  <1> QED BY <1>2, <1>3, <1>4, <1>5

\* The place permit goes back to its counter when nothing else is held.
LEMMA DropPlaceStep ==
    ASSUME NEW r \in Requests, IInv, DropPlace(r)
    PROVE  IInv'
  <1> USE DEF IInv, DropPlace, Goto
  <1>1. r \in place
    BY DEF HoldersMatchPhase, TypeOK
  <1>2. /\ Cardinality(place) \in Nat /\ Cardinality(place) > 0
        /\ Cardinality(place \ {r}) = Cardinality(place) - 1
    BY <1>1, CountRequests DEF TypeOK
  <1>3. TypeOK'
    BY <1>2, AdmissionAssumption DEF TypeOK, PermitsConserved, Phases, memory
  <1>4. PermitsConserved'
    BY <1>2, AdmissionAssumption DEF PermitsConserved, TypeOK
  <1>5. NoLostWakeup' /\ HoldersMatchPhase'
    BY DEF NoLostWakeup, HoldersMatchPhase, TypeOK
  <1>6. runningJobs' = Cardinality(Running')
    BY RunningUnchanged DEF TypeOK, memory
  <1> QED BY <1>3, <1>4, <1>5, <1>6

\* Starting and finishing a closure keep RUNNING_JOBS exact; the closures that
\* run hold job permits, so there are at most Jobs of them.
LEMMA RunningSteps ==
    ASSUME NEW r \in Requests, IInv, StartJob(r) \/ FinishJob(r)
    PROVE  IInv'
  <1> USE DEF IInv
  <1>1. PermitsConserved' /\ NoLostWakeup'
    BY DEF StartJob, FinishJob, permits, PermitsConserved, NoLostWakeup
  <1>2. HoldersMatchPhase'
    BY DEF StartJob, FinishJob, Goto, permits, HoldersMatchPhase, TypeOK
  <1>3. runningJobs' = Cardinality(Running')
    <2>0. Running \in SUBSET Requests
      BY DEF Running
    <2>1. CASE StartJob(r)
      <3>1. r \notin Running /\ Running' = Running \union {r}
        BY <2>1 DEF StartJob, Goto, TypeOK, Running
      <3> QED BY <2>0, <2>1, <3>1, CountRequests DEF StartJob
    <2>2. CASE FinishJob(r)
      <3>1. r \in Running /\ Running' = Running \ {r}
        BY <2>2 DEF FinishJob, Goto, TypeOK, Running
      <3> QED BY <2>0, <2>2, <3>1, CountRequests DEF FinishJob
    <2> QED BY <2>1, <2>2
  <1>4. runningJobs' \in 0 .. Jobs
    <2>1. job' = job
      BY DEF StartJob, FinishJob, permits
    <2>2. Running' \in SUBSET job
      BY <1>2, <2>1 DEF Running, HoldersMatchPhase
    <2>3. Cardinality(Running') \in Nat /\ Cardinality(Running') <= Cardinality(job)
      <3>1. IsFiniteSet(job)
        BY CountRequests DEF TypeOK
      <3> QED BY <2>2, <3>1, FS_Subset, FS_CardinalityType
    <2>4. Cardinality(job) \in Nat
      BY CountRequests DEF TypeOK
    <2> QED BY <1>3, <2>3, <2>4, AdmissionAssumption DEF PermitsConserved, TypeOK
  <1>5. TypeOK'
    <2>1. timer' \in [Requests -> Timers]
      BY DEF StartJob, FinishJob, TypeOK, Timers
    <2>2. dirty' \in BOOLEAN
      BY Zenon DEF StartJob, FinishJob, TypeOK
    <2> QED BY <1>4, <2>1, <2>2
            DEF StartJob, FinishJob, Goto, Decide, permits, TypeOK, Phases, Statuses
  <1> QED BY <1>1, <1>2, <1>3, <1>5

\* Detached clients and the idle timer touch no permit and no phase.
LEMMA BystanderSteps ==
    ASSUME NEW r \in Requests, IInv,
           Detach(r) \/ TimerFires(r) \/ Collect(r)
    PROVE  IInv'
  <1> USE DEF IInv
  <1>1. /\ UNCHANGED <<phase, reply, runningJobs>>
        /\ UNCHANGED permits
    BY DEF Detach, TimerFires, Collect, memory
  <1>2. TypeOK'
    <2>1. timer' \in [Requests -> Timers]
      BY DEF Detach, TimerFires, Collect, memory, TypeOK, Timers
    <2>2. dirty' \in BOOLEAN
      BY Zenon DEF Detach, TimerFires, Collect, memory, TypeOK
    <2>3. gone' \subseteq Requests
      BY DEF Detach, TimerFires, Collect, TypeOK
    <2> QED BY <1>1, <2>1, <2>2, <2>3 DEF TypeOK, permits
  <1>3. PermitsConserved' /\ NoLostWakeup' /\ HoldersMatchPhase'
    BY <1>1 DEF permits, PermitsConserved, NoLostWakeup, HoldersMatchPhase,
                Detach, TimerFires, Collect
  <1>4. runningJobs' = Cardinality(Running')
    BY <1>1 DEF Running
  <1> QED BY <1>2, <1>3, <1>4

\* The whole next-state relation, stuttering included.
LEMMA NextIInv == IInv /\ [Next]_vars => IInv'
  <1>1. ASSUME IInv, UNCHANGED vars PROVE IInv'
    <2>1. TypeOK'
      <3>1. dirty' \in BOOLEAN
        BY <1>1, Zenon DEF IInv, TypeOK, vars, memory
      <3> QED BY <1>1, <3>1 DEF IInv, TypeOK, vars, permits, memory
    <2>2. PermitsConserved' /\ NoLostWakeup' /\ HoldersMatchPhase'
      BY <1>1 DEF IInv, vars, permits, PermitsConserved, NoLostWakeup, HoldersMatchPhase
    <2>3. runningJobs' = Cardinality(Running')
      BY <1>1 DEF IInv, vars, memory, Running
    <2> QED BY <2>1, <2>2, <2>3 DEF IInv
  <1>2. ASSUME IInv, NEW r \in Requests, Admit(r) PROVE IInv'
    BY <1>2, TakePlaceStep, TakeJobStep, EnqueueStep, DropAcquireStep,
       DropPlaceStep, QuietSteps DEF Admit
  <1>3. ASSUME IInv, NEW r \in Requests, Handle(r) PROVE IInv'
    BY <1>3, RunningSteps, DropJobStep, QuietSteps DEF Handle
  <1>4. ASSUME IInv, NEW r \in Requests, Client(r) PROVE IInv'
    BY <1>4, QuietSteps, BystanderSteps DEF Client
  <1>5. ASSUME IInv, NEW r \in Requests, Idle(r) PROVE IInv'
    BY <1>5, BystanderSteps DEF Idle
  <1>6. ASSUME IInv, NEW r \in Requests, Expire(r) PROVE IInv'
    BY <1>6, QuietSteps
  <1> QED BY <1>1, <1>2, <1>3, <1>4, <1>5, <1>6 DEF Next

\* The strengthened invariant holds in every reachable state.
THEOREM AdmissionInvariant == Spec => []IInv
  BY InitIInv, NextIInv, PTL DEF Spec

\* Type correctness of the admission path.
THEOREM TypeCorrect == Spec => []TypeOK
  <1>1. IInv => TypeOK
    BY DEF IInv
  <1> QED BY <1>1, AdmissionInvariant, PTL

\* No permit of queue_semaphore or cpu_semaphore is ever lost or duplicated.
THEOREM PermitsSafe == Spec => []PermitsConserved
  <1>1. IInv => PermitsConserved
    BY DEF IInv
  <1> QED BY <1>1, AdmissionInvariant, PTL

\* No permit of cpu_semaphore is free while a request waits for it, whatever
\* waits expire or are cancelled as a permit is handed to them.
THEOREM NoWakeupIsLost == Spec => []NoLostWakeup
  <1>1. IInv => NoLostWakeup
    BY DEF IInv
  <1> QED BY <1>1, AdmissionInvariant, PTL

\* What a request holds is determined by where it is in admit_work, the handler
\* or the job that outlives it.
THEOREM HoldersSafe == Spec => []HoldersMatchPhase
  <1>1. IInv => HoldersMatchPhase
    BY DEF IInv
  <1> QED BY <1>1, AdmissionInvariant, PTL

\* At most QueueLimit requests wait for a job slot.
THEOREM QueueIsBounded == Spec => []QueueBounded
  <1>1. IInv => QueueBounded
    <2> SUFFICES ASSUME IInv PROVE QueueBounded
      OBVIOUS
    <2> USE DEF IInv, TypeOK
    <2>1. CASE waiting = {}
      BY <2>1, FS_EmptySet, AdmissionAssumption DEF QueueBounded
    <2>2. CASE waiting # {}
      <3>1. /\ waiting \in SUBSET Requests /\ job \in SUBSET Requests
            /\ place \in SUBSET Requests
            /\ waiting \intersect job = {}
            /\ waiting \subseteq place /\ job \subseteq place
        BY DEF HoldersMatchPhase
      <3>2. Cardinality(waiting) + Cardinality(job) <= Cardinality(place)
        BY <3>1, CountDisjoint
      <3>3. PICK q \in Requests : q \in waiting
        BY <2>2
      <3>4. /\ Cardinality(waiting) \in Nat /\ Cardinality(job) \in Nat
            /\ Cardinality(place) \in Nat
        BY <3>1, <3>3, CountRequests
      <3>5. freeJobs = 0 /\ Cardinality(job) = Jobs
        BY <2>2, <3>4, AdmissionAssumption DEF NoLostWakeup, PermitsConserved
      <3> QED BY <3>2, <3>4, <3>5, AdmissionAssumption
              DEF PermitsConserved, QueueBounded
    <2> QED BY <2>1, <2>2
  <1> QED BY <1>1, AdmissionInvariant, PTL

\* At most Jobs request bodies are buffered, counting the jobs whose client has
\* gone, and RUNNING_JOBS is exact.
THEOREM BodiesAreBounded == Spec => []BodiesBounded
  <1>1. IInv => BodiesBounded
    <2> SUFFICES ASSUME IInv PROVE BodiesBounded
      OBVIOUS
    <2> USE DEF IInv, TypeOK
    <2>1. Buffering \in SUBSET job
      BY DEF Buffering, HoldersMatchPhase
    <2>2. IsFiniteSet(job) /\ Cardinality(job) \in Nat
      BY AdmissionAssumption, FS_Subset, FS_CardinalityType
    <2>3. Cardinality(Buffering) <= Cardinality(job)
      BY <2>1, <2>2, FS_Subset
    <2>4. Cardinality(Buffering) \in Nat
      BY <2>1, <2>2, FS_Subset, FS_CardinalityType
    <2> QED BY <2>2, <2>3, <2>4, AdmissionAssumption DEF PermitsConserved, BodiesBounded
  <1> QED BY <1>1, AdmissionInvariant, PTL

\* A request that was answered, or is only draining its body, holds no permit
\* and is on no wait list.
THEOREM AnsweredIsFree == Spec => []AnsweredHoldsNothing
  <1>1. IInv => AnsweredHoldsNothing
    BY DEF IInv, HoldersMatchPhase, AnsweredHoldsNothing
  <1> QED BY <1>1, AdmissionInvariant, PTL

-----------------------------------------------------------------------------
(* The admission path implements SlotQueue. *)

\* SlotQueue counts with the same operator.
LEMMA SameCardinality == \A S : Slots!Cardinality(S) = Cardinality(S)
  BY DEF Slots!Cardinality, Cardinality

\* A released job permit is a slot vacated or handed to the longest waiter.
LEMMA ReleaseRefines ==
    ASSUME NEW r \in Requests, IInv, r \in job, ReleaseJob(r)
    PROVE  Slots!Step
  <1>1. CASE /\ waiting = {}
             /\ job' = job \ {r}
             /\ UNCHANGED <<waiting, ahead>>
    BY <1>1 DEF Slots!Step, Slots!Vacate
  <1>2. ASSUME NEW w \in waiting, ahead[w] = {},
               job' = (job \ {r}) \union {w}, Unlink(w)
        PROVE  Slots!Step
    <2>1. w \in Requests
      BY DEF IInv, TypeOK
    <2>2. Slots!HandOver(r, w)
      BY <1>2 DEF Slots!HandOver, Unlink
    <2> QED BY <2>1, <2>2 DEF Slots!Step
  <1> QED BY <1>1, <1>2 DEF ReleaseJob

\* Joining the wait list finds room: the newcomer, the waiters and the holders
\* of job permits all hold different places.
LEMMA EnqueueRefines ==
    ASSUME NEW r \in Requests, IInv, Enqueue(r)
    PROVE  Slots!Join(r)
  <1> USE DEF IInv, TypeOK, Enqueue, Goto
  <1>1. r \notin job \union waiting
    BY DEF HoldersMatchPhase
  <1>2. /\ waiting \union {r} \in SUBSET Requests /\ job \in SUBSET Requests
        /\ place \in SUBSET Requests
        /\ (waiting \union {r}) \intersect job = {}
        /\ waiting \union {r} \subseteq place /\ job \subseteq place
    BY <1>1 DEF HoldersMatchPhase
  <1>3. Cardinality(waiting \union {r}) + Cardinality(job) <= Cardinality(place)
    BY <1>2, CountDisjoint
  <1>4. /\ Cardinality(waiting) \in Nat /\ Cardinality(job) \in Nat
        /\ Cardinality(place) \in Nat
        /\ Cardinality(waiting \union {r}) = Cardinality(waiting) + 1
    BY <1>1, CountRequests
  <1>5. Cardinality(job) = Jobs /\ Cardinality(waiting) < QueueLimit
    BY <1>3, <1>4, AdmissionAssumption DEF PermitsConserved
  <1> QED BY <1>1, <1>5, SameCardinality DEF Slots!Join

\* A permit taken from the counter is a slot nobody waits for.
LEMMA TakeJobRefines ==
    ASSUME NEW r \in Requests, IInv, TakeJob(r)
    PROVE  Slots!Enter(r)
  <1> USE DEF IInv, TypeOK, TakeJob, Goto
  <1>1. r \notin job \union waiting /\ waiting = {}
    BY DEF HoldersMatchPhase, NoLostWakeup
  <1>2. Cardinality(job) \in Nat
    BY CountRequests
  <1>3. Cardinality(job) < Jobs
    BY <1>2, AdmissionAssumption DEF PermitsConserved
  <1> QED BY <1>1, <1>3, SameCardinality DEF Slots!Enter

\* Every step of the admission path is a step of the slot server or leaves it
\* unchanged.
LEMMA StepRefines == IInv /\ [Next]_vars => [Slots!Step]_(Slots!slots)
  <1> SUFFICES ASSUME IInv, [Next]_vars PROVE Slots!Step \/ UNCHANGED Slots!slots
    OBVIOUS
  <1>1. CASE UNCHANGED vars
    BY <1>1 DEF vars, permits, Slots!slots
  <1>2. ASSUME NEW r \in Requests, Admit(r)
        PROVE  Slots!Step \/ UNCHANGED Slots!slots
    <2>1. CASE TakePlace(r) \/ RefuseFull(r) \/ TakeGrant(r) \/ DropPlace(r) \/ DiscardBody(r)
      BY <2>1 DEF TakePlace, RefuseFull, TakeGrant, DropPlace, DiscardBody,
                  permits, Slots!slots
    <2>2. CASE TakeJob(r)
      BY <2>2, TakeJobRefines DEF Slots!Step
    <2>3. CASE Enqueue(r)
      BY <2>3, EnqueueRefines DEF Slots!Step
    <2>4. CASE DropAcquire(r)
      <3>1. CASE r \in job /\ ReleaseJob(r)
        BY <3>1, ReleaseRefines
      <3>2. CASE r \notin job /\ Unlink(r) /\ UNCHANGED <<job, freeJobs>>
        <4>1. r \in waiting
          BY <2>4, <3>2 DEF DropAcquire, IInv, TypeOK, HoldersMatchPhase
        <4>2. Slots!Abandon(r)
          BY <3>2, <4>1 DEF Unlink, Slots!Abandon
        <4> QED BY <4>2 DEF Slots!Step
      <3> QED BY <2>4, <3>1, <3>2 DEF DropAcquire
    <2> QED BY <1>2, <2>1, <2>2, <2>3, <2>4 DEF Admit
  <1>3. ASSUME NEW r \in Requests, Handle(r)
        PROVE  Slots!Step \/ UNCHANGED Slots!slots
    <2>1. CASE AbortUpload(r) \/ Spawn(r) \/ StartJob(r) \/ FinishJob(r)
      BY <2>1 DEF AbortUpload, Spawn, StartJob, FinishJob, permits, Slots!slots
    <2>2. CASE DropJob(r)
      <3>1. r \in job /\ ReleaseJob(r)
        BY <2>2 DEF DropJob, Goto, IInv, TypeOK, HoldersMatchPhase
      <3> QED BY <3>1, ReleaseRefines
    <2> QED BY <1>3, <2>1, <2>2 DEF Handle
  <1>4. ASSUME NEW r \in Requests, Client(r) \/ Idle(r) \/ Expire(r)
        PROVE  UNCHANGED Slots!slots
    BY <1>4 DEF Client, Idle, Expire, Arrive, CancelWait, CancelDiscard,
                CancelUpload, Detach, TimerFires, Collect, permits, Slots!slots
  <1> QED BY <1>1, <1>2, <1>3, <1>4 DEF Next

\* The admission path implements the bounded first-come, first-served slot
\* server.
THEOREM AdmissionImplementsSlotQueue == Spec => ImplementsSlotQueue
  <1>1. Init => Slots!Start
    BY DEF Init, Slots!Start
  <1> QED BY <1>1, StepRefines, AdmissionInvariant, PTL
          DEF Spec, ImplementsSlotQueue, Slots!SlotSpec
=============================================================================
