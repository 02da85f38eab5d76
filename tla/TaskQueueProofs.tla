--------------------------- MODULE TaskQueueProofs ---------------------------
(***************************************************************************)
(* Theorems about TaskQueue, for any tasks, types, workers, slots and      *)
(* budgets.  Type correctness comes first: each Redis command and each SQL *)
(* statement, then the actions that are made of them.  It is followed by   *)
(* what an envelope carries (its attempts, its row, its time) and by where *)
(* an accepted task can be found.                                          *)
(***************************************************************************)
EXTENDS TaskQueue, TLAPS

-----------------------------------------------------------------------------
(* What the Redis commands keep. *)

\* An ordinary record update stays an envelope.
LEMMA EnvelopeUpdate ==
  ASSUME NEW e \in Envelope, NEW n \in Nat
  PROVE  /\ [e EXCEPT !.enqueued_at = n] \in Envelope
         /\ [e EXCEPT !.attempts = n] \in Envelope
         /\ [e EXCEPT !.enqueued_at = n].id = e.id
         /\ [e EXCEPT !.enqueued_at = n].attempts = e.attempts
         /\ [e EXCEPT !.attempts = n].id = e.id
         /\ [e EXCEPT !.attempts = n].attempts = n
BY DEF Envelope

\* The fields of an envelope have their types.
LEMMA EnvelopeFields ==
  ASSUME NEW e \in Envelope
  PROVE  e.id \in Tasks /\ e.attempts \in Nat /\ e.enqueued_at \in Nat
BY DEF Envelope

\* What the API builds from a row is an envelope.
LEMMA NewEnvelopeType ==
  ASSUME NEW t \in Tasks
  PROVE  NewEnvelope(t) \in Envelope
BY DEF NewEnvelope, Envelope

\* A step that leaves Redis alone keeps its type.
LEMMA UnchangedQueue ==
  ASSUME QueueTypeOK, UNCHANGED queueVars
  PROVE  QueueTypeOK'
BY DEF QueueTypeOK, queueVars

\* Enqueue adds an envelope, stamped if it had no time.
LEMMA EnqueueType ==
  ASSUME QueueTypeOK, NEW e \in Envelope, Enqueue(e)
  PROVE  QueueTypeOK'
<1> DEFINE stamped == [e EXCEPT !.enqueued_at = clock + 1]
<1>1. clock \in Nat /\ clock + 1 \in Nat
  BY DEF QueueTypeOK
<1>2. stamped \in Envelope
  BY <1>1, EnvelopeUpdate
<1>3. clock' \in Nat
  BY <1>1 DEF Enqueue
<1>4. queue' \subseteq queue \cup {stamped, e}
  BY DEF Enqueue
<1> HIDE DEF stamped
<1>5. queue' \subseteq Envelope
  BY <1>2, <1>4 DEF QueueTypeOK
<1> QED
  BY <1>3, <1>5 DEF QueueTypeOK, Enqueue

\* EnqueueDelayed adds an envelope that is not due.
LEMMA EnqueueDelayedType ==
  ASSUME QueueTypeOK, NEW e \in Envelope, EnqueueDelayed(e)
  PROVE  QueueTypeOK'
BY DEF QueueTypeOK, EnqueueDelayed

\* The lease script moves a member of the queue to the worker's hash.
LEMMA LeaseType ==
  ASSUME QueueTypeOK, NEW w \in Workers, NEW ty, NEW e \in queue, Lease(ty, w, e)
  PROVE  QueueTypeOK'
BY DEF QueueTypeOK, Lease, HSet

\* Ack and Nack only remove a record from the worker's hash.
LEMMA AckType ==
  ASSUME QueueTypeOK, NEW w \in Workers, NEW t, Ack(w, t)
  PROVE  QueueTypeOK'
BY DEF QueueTypeOK, Ack, HDel

\* DeadLetter adds an entry for a known task.
LEMMA DeadLetterType ==
  ASSUME QueueTypeOK, NEW e \in Envelope, DeadLetter(e)
  PROVE  QueueTypeOK'
BY DEF QueueTypeOK, DeadLetter, Envelope

\* A heartbeat key is set, or runs out.
LEMMA HeartbeatType ==
  ASSUME QueueTypeOK, NEW w \in Workers, Heartbeat(w) \/ HeartbeatExpires(w)
  PROVE  QueueTypeOK'
BY DEF QueueTypeOK, Heartbeat, HeartbeatExpires

\* The DEL of ReclaimInflight empties a hash.
LEMMA DelInflightType ==
  ASSUME QueueTypeOK, NEW w \in Workers, DelInflight(w)
  PROVE  QueueTypeOK'
BY DEF QueueTypeOK, DelInflight

\* PromoteDelayed stamps members and moves them to the ready queue.
LEMMA PromoteType ==
  ASSUME QueueTypeOK, NEW batch \in SUBSET Envelope, NEW now \in Nat,
         Promote(batch, now)
  PROVE  QueueTypeOK'
<1> DEFINE stamped(e) == [e EXCEPT !.enqueued_at = now]
<1>1. \A e \in batch : stamped(e) \in Envelope
  BY EnvelopeUpdate
<1>2. queue' = queue \cup {stamped(e) : e \in batch}
  BY DEF Promote
<1> HIDE DEF stamped
<1>3. queue' \subseteq Envelope
  BY <1>1, <1>2 DEF QueueTypeOK
<1> QED
  BY <1>3 DEF QueueTypeOK, Promote

\* Only a delayed member becomes due.
LEMMA ElapseType ==
  ASSUME QueueTypeOK, NEW e, Elapse(e)
  PROVE  QueueTypeOK'
BY DEF QueueTypeOK, Elapse

\* What ZRANGEBYSCORE returns are delayed members.
LEMMA DueBatchesType ==
  ASSUME QueueTypeOK, NEW ty, NEW b \in DueBatches(ty)
  PROVE  b \in SUBSET Envelope /\ b \subseteq delayed
BY DEF QueueTypeOK, DueBatches, OfType
-----------------------------------------------------------------------------
(* What the SQL statements keep. *)

\* A step that leaves PostgreSQL alone keeps the types of its tables.
LEMMA UnchangedStore ==
  ASSUME StoreTypeOK, UNCHANGED storeVars
  PROVE  StoreTypeOK'
BY DEF StoreTypeOK, storeVars

\* A row is written by one statement: a new status, the attempts and the owner.
LEMMA RowUpdate ==
  ASSUME NEW r \in Row, NEW st \in Statuses, NEW o \in Workers \cup {NoWorker},
         NEW n \in Nat
  PROVE  /\ [r EXCEPT !.status = st] \in Row
         /\ [r EXCEPT !.status = st, !.worker_id = o] \in Row
         /\ [status |-> st, attempts |-> n, worker_id |-> o] \in Row
         /\ r.attempts + 1 \in Nat
<1>1. [r EXCEPT !.status = st] \in Row
  BY DEF Row
<1>2. [r EXCEPT !.status = st, !.worker_id = o] \in Row
  BY DEF Row
<1>3. [status |-> st, attempts |-> n, worker_id |-> o] \in Row
  BY DEF Row
<1>4. r.attempts + 1 \in Nat
  BY DEF Row
<1> QED
  BY <1>1, <1>2, <1>3, <1>4

\* CreateTask inserts a well-formed row.
LEMMA CreateTaskType ==
  ASSUME StoreTypeOK, NEW t \in Tasks, CreateTask(t)
  PROVE  StoreTypeOK'
BY RowUpdate DEF StoreTypeOK, CreateTask, Statuses

\* MarkRunning writes status, owner and one more attempt.
LEMMA MarkRunningType ==
  ASSUME StoreTypeOK, NEW t \in Tasks, NEW w \in Workers, MarkRunning(t, w)
  PROVE  StoreTypeOK'
<1>1. tasks[t] \in Row
  BY DEF StoreTypeOK
<1>2. [status |-> "running", attempts |-> tasks[t].attempts + 1, worker_id |-> w]
        \in Row
  BY <1>1, RowUpdate DEF Statuses
<1> QED
  BY <1>2 DEF StoreTypeOK, MarkRunning

\* MarkSucceeded writes a status.
LEMMA MarkSucceededType ==
  ASSUME StoreTypeOK, NEW t \in Tasks, MarkSucceeded(t)
  PROVE  StoreTypeOK'
BY RowUpdate DEF StoreTypeOK, MarkSucceeded, Statuses

\* MarkRetry writes a status and clears the owner.
LEMMA MarkRetryType ==
  ASSUME StoreTypeOK, NEW t \in Tasks, MarkRetry(t)
  PROVE  StoreTypeOK'
BY RowUpdate DEF StoreTypeOK, MarkRetry, Statuses

\* MarkDead writes a status and adds a dead letter.
LEMMA MarkDeadType ==
  ASSUME StoreTypeOK, NEW t \in Tasks, MarkDead(t)
  PROVE  StoreTypeOK'
<1>1. [tasks[t] EXCEPT !.status = "dead"] \in Row
  BY RowUpdate DEF StoreTypeOK, Statuses
<1> QED
  BY <1>1 DEF StoreTypeOK, MarkDead

\* MarkCanceled writes a status, or finds no row to write.
LEMMA MarkCanceledType ==
  ASSUME StoreTypeOK, NEW t \in Tasks, MarkCanceled(t)
  PROVE  StoreTypeOK'
BY RowUpdate DEF StoreTypeOK, MarkCanceled, Statuses

\* Redrive resets a dead row.
LEMMA RedriveType ==
  ASSUME StoreTypeOK, NEW t \in Tasks, Redrive(t)
  PROVE  StoreTypeOK'
BY RowUpdate DEF StoreTypeOK, Redrive, Statuses

\* RequeueOrphans resets the running rows of one worker.
LEMMA RequeueOrphansType ==
  ASSUME StoreTypeOK, NEW w, RequeueOrphans(w)
  PROVE  StoreTypeOK'
BY RowUpdate DEF StoreTypeOK, RequeueOrphans, Statuses

\* The statements on the workers table write alive or dead.
LEMMA WorkerRowType ==
  ASSUME StoreTypeOK, NEW w \in Workers,
         UpsertWorker(w) \/ TouchWorker(w) \/ MarkWorkerDead(w)
  PROVE  StoreTypeOK'
BY DEF StoreTypeOK, UpsertWorker, TouchWorker, MarkWorkerDead
-----------------------------------------------------------------------------
(* Type correctness: the pieces the actions are made of. *)

\* Spending from the budget leaves a budget.
LEMMA SpendType ==
  ASSUME budget \in [Kinds -> Nat], NEW k \in Kinds, Spend(k)
  PROVE  budget' \in [Kinds -> Nat]
BY DEF Spend

\* A command of a worker costs nothing or one error.
LEMMA CommandBudget ==
  ASSUME budget \in [Kinds -> Nat], NEW w, CommandSucceeds(w) \/ CommandFails(w)
  PROVE  budget' \in [Kinds -> Nat]
BY SpendType DEF CommandSucceeds, CommandFails, Kinds

\* A busy slot holds an envelope.
LEMMA JobEnvelope ==
  ASSUME WorkerTypeOK, NEW w \in Workers, NEW s \in Slots, job[w][s].pc # "idle"
  PROVE  /\ job[w][s].env \in Envelope
         /\ job[w][s].env.id \in Tasks
         /\ job[w][s].env.attempts \in Nat
<1>1. job[w][s] \in Job
  BY DEF WorkerTypeOK
<1>2. job[w][s] # IdleJob
  BY DEF IdleJob
<1>3. job[w][s] \in [pc: JobPC \ {"idle"}, env: Envelope]
  BY <1>1, <1>2 DEF Job
<1>4. job[w][s].env \in Envelope
  BY <1>3
<1> QED
  BY <1>4, EnvelopeFields

\* Filling one slot with a job leaves every slot with a job.
LEMMA SetJobType ==
  ASSUME WorkerTypeOK, NEW w \in Workers, NEW s \in Slots, NEW j \in Job,
         job' = [job EXCEPT ![w][s] = j]
  PROVE  job' \in [Workers -> [Slots -> Job]]
BY DEF WorkerTypeOK

\* A step of execute leaves a busy slot busy with an envelope.
LEMMA StepType ==
  ASSUME WorkerTypeOK, NEW w \in Workers, NEW s \in Slots,
         NEW pc, NEW next \in JobPC \ {"idle"}, NEW e \in Envelope,
         Step(w, s, pc, next, e)
  PROVE  WorkerTypeOK'
<1>1. [pc |-> next, env |-> e] \in Job
  BY DEF Job
<1>2. job' \in [Workers -> [Slots -> Job]]
  BY <1>1, SetJobType DEF Step
<1> QED
  BY <1>2 DEF WorkerTypeOK, Step

\* A finished goroutine frees its slot.
LEMMA FinishType ==
  ASSUME WorkerTypeOK, NEW w \in Workers, NEW s \in Slots, NEW pc, Finish(w, s, pc)
  PROVE  WorkerTypeOK'
<1>1. job' \in [Workers -> [Slots -> Job]]
  BY SetJobType DEF Finish, Job
<1> QED
  BY <1>1 DEF WorkerTypeOK, Finish

\* LeaseAny has a first type to try: Run refuses an empty list of types.
LEMMA FirstPosition == 1 \in 1 .. Len(TaskTypes)
<1>1. TaskTypes \in Seq(Types) /\ TaskTypes # <<>>
  BY WorkerAssumption
<1>2. Len(TaskTypes) \in Nat /\ Len(TaskTypes) > 0
  BY <1>1
<1> QED
  BY <1>2

\* A process that ends frees all its slots.
LEMMA HaltType ==
  ASSUME WorkerTypeOK, NEW w \in Workers, Halt(w)
  PROVE  WorkerTypeOK'
<1>1. job' \in [Workers -> [Slots -> Job]]
  BY DEF WorkerTypeOK, Halt, Job
<1> QED
  BY <1>1, FirstPosition DEF WorkerTypeOK, Halt

\* What a worker holds are tasks.
LEMMA HeldByType ==
  ASSUME WorkerTypeOK, NEW w
  PROVE  w \in Workers => HeldBy(w) \subseteq Tasks
<1>1. ASSUME w \in Workers, NEW s \in Slots, job[w][s].pc \in Holding
      PROVE  job[w][s].env.id \in Tasks
  BY <1>1, JobEnvelope DEF Holding
<1> QED
  BY <1>1 DEF HeldBy

\* The ids of envelopes are tasks.
LEMMA IdsType ==
  ASSUME NEW envs \in SUBSET Envelope
  PROVE  Ids(envs) \subseteq Tasks
BY EnvelopeFields DEF Ids

\* A step of another process keeps the workers' types.
LEMMA UnchangedWorker ==
  ASSUME WorkerTypeOK, UNCHANGED workerVars
  PROVE  WorkerTypeOK'
BY DEF WorkerTypeOK, workerVars

\* A step of another process keeps the coordinator's type.
LEMMA UnchangedCo ==
  ASSUME CoordinatorTypeOK, UNCHANGED co
  PROVE  CoordinatorTypeOK'
BY DEF CoordinatorTypeOK

\* The environment's type, from its parts.
LEMMA EnvironmentStep ==
  ASSUME EnvironmentTypeOK, budget' \in [Kinds -> Nat],
         settled' \subseteq Tasks, dropped' \subseteq Tasks
  PROVE  EnvironmentTypeOK'
BY DEF EnvironmentTypeOK
-----------------------------------------------------------------------------
(* Type correctness: the worker. *)

\* The life of the worker process keeps every type.
LEMMA ProcessType ==
  ASSUME TypeOK, NEW w \in Workers, ProcessStep(w)
  PROVE  EnvironmentTypeOK' /\ QueueTypeOK' /\ StoreTypeOK' /\ WorkerTypeOK'
<1> USE DEF TypeOK
<1>0. EnvironmentTypeOK /\ QueueTypeOK /\ StoreTypeOK /\ WorkerTypeOK
      /\ budget \in [Kinds -> Nat] /\ settled \subseteq Tasks /\ dropped \subseteq Tasks
  BY DEF EnvironmentTypeOK
<1>1. CASE Register(w)
  <2>1. budget' \in [Kinds -> Nat]
    BY <1>0, <1>1, SpendType DEF Register, Kinds
  <2>2. QueueTypeOK' /\ StoreTypeOK'
    BY <1>0, <1>1, UnchangedQueue, WorkerRowType DEF Register
  <2>3. WorkerTypeOK'
    BY <1>0, <1>1 DEF Register, WorkerTypeOK
  <2> QED
    BY <1>0, <1>1, <2>1, <2>2, <2>3, EnvironmentStep DEF Register, ledger
<1>2. CASE FirstHeartbeat(w)
  <2>1. QueueTypeOK' /\ StoreTypeOK'
    BY <1>0, <1>2, HeartbeatType, UnchangedStore DEF FirstHeartbeat
  <2>2. WorkerTypeOK'
    BY <1>0, <1>2 DEF FirstHeartbeat, WorkerTypeOK
  <2> QED
    BY <1>0, <1>2, <2>1, <2>2, EnvironmentStep DEF FirstHeartbeat, ledger
<1>3. CASE StartupError(w)
  <2>1. budget' \in [Kinds -> Nat]
    BY <1>0, <1>3, SpendType DEF StartupError, Kinds
  <2>2. QueueTypeOK' /\ StoreTypeOK'
    BY <1>0, <1>3, UnchangedQueue, UnchangedStore DEF StartupError
  <2>3. WorkerTypeOK'
    BY <1>0, <1>3 DEF StartupError, WorkerTypeOK
  <2> QED
    BY <1>0, <1>3, <2>1, <2>2, <2>3, EnvironmentStep DEF StartupError, ledger
<1>4. CASE BeatTick(w)
  <2>1. budget' \in [Kinds -> Nat]
    BY <1>0, <1>4, CommandBudget DEF BeatTick
  <2>2. QueueTypeOK' /\ StoreTypeOK'
    BY <1>0, <1>4, UnchangedQueue, UnchangedStore, HeartbeatType DEF BeatTick
  <2>3. WorkerTypeOK'
    BY <1>0, <1>4 DEF BeatTick, WorkerTypeOK
  <2> QED
    BY <1>0, <1>4, <2>1, <2>2, <2>3, EnvironmentStep DEF BeatTick, ledger
<1>5. CASE TouchTick(w)
  <2>1. budget' \in [Kinds -> Nat]
    BY <1>0, <1>5, CommandBudget DEF TouchTick
  <2>2. QueueTypeOK' /\ StoreTypeOK'
    BY <1>0, <1>5, UnchangedQueue, UnchangedStore, WorkerRowType DEF TouchTick
  <2>3. WorkerTypeOK'
    BY <1>0, <1>5 DEF TouchTick, WorkerTypeOK
  <2> QED
    BY <1>0, <1>5, <2>1, <2>2, <2>3, EnvironmentStep DEF TouchTick, ledger
<1>6. CASE Sigterm(w)
  <2>1. budget' \in [Kinds -> Nat]
    BY <1>0, <1>6, SpendType DEF Sigterm, Kinds
  <2>2. QueueTypeOK' /\ StoreTypeOK'
    BY <1>0, <1>6, UnchangedQueue, UnchangedStore DEF Sigterm
  <2>3. WorkerTypeOK'
    BY <1>0, <1>6 DEF Sigterm, WorkerTypeOK
  <2> QED
    BY <1>0, <1>6, <2>1, <2>2, <2>3, EnvironmentStep DEF Sigterm, ledger
<1>7. CASE Leave(w)
  <2>1. budget' \in [Kinds -> Nat]
    BY <1>0, <1>7, SpendType DEF Leave, Kinds
  <2>2. QueueTypeOK' /\ StoreTypeOK'
    BY <1>0, <1>7, UnchangedQueue, UnchangedStore, WorkerRowType DEF Leave
  <2>3. WorkerTypeOK'
    BY <1>0, <1>7, HaltType DEF Leave
  <2> QED
    BY <1>0, <1>7, <2>1, <2>2, <2>3, EnvironmentStep DEF Leave, ledger
<1>8. CASE Crash(w)
  <2>1. budget' \in [Kinds -> Nat]
    BY <1>0, <1>8, SpendType DEF Crash, Kinds
  <2>2. QueueTypeOK' /\ StoreTypeOK'
    BY <1>0, <1>8, UnchangedQueue, UnchangedStore DEF Crash
  <2>3. WorkerTypeOK'
    BY <1>0, <1>8, HaltType DEF Crash
  <2>4. dropped' \subseteq Tasks /\ settled' \subseteq Tasks
    BY <1>0, <1>8, HeldByType DEF Crash, Exposed
  <2> QED
    BY <1>0, <2>1, <2>2, <2>3, <2>4, EnvironmentStep
<1> QED
  BY <1>1, <1>2, <1>3, <1>4, <1>5, <1>6, <1>7, <1>8 DEF ProcessStep

\* Leasing keeps every type: what is leased was an envelope of the queue.
LEMMA PollType ==
  ASSUME TypeOK, NEW w \in Workers, NEW s \in Slots, PollStep(w, s)
  PROVE  EnvironmentTypeOK' /\ QueueTypeOK' /\ StoreTypeOK' /\ WorkerTypeOK'
<1> USE DEF TypeOK
<1>0. EnvironmentTypeOK /\ QueueTypeOK /\ StoreTypeOK /\ WorkerTypeOK
      /\ budget \in [Kinds -> Nat] /\ settled \subseteq Tasks /\ dropped \subseteq Tasks
  BY DEF EnvironmentTypeOK
<1>1. CASE LeaseTask(w, s)
  <2>1. budget' \in [Kinds -> Nat]
    BY <1>0, <1>1, CommandBudget DEF LeaseTask
  <2>2. PICK e \in queue :
          /\ Lease(TaskTypes[poll[w]], w, e)
          /\ job' = [job EXCEPT ![w][s] = [pc |-> "leased", env |-> e]]
    BY <1>1 DEF LeaseTask
  <2>3. QueueTypeOK' /\ StoreTypeOK'
    BY <1>0, <1>1, <2>2, LeaseType, UnchangedStore DEF LeaseTask
  <2>4. [pc |-> "leased", env |-> e] \in Job
    BY <1>0 DEF QueueTypeOK, Job, JobPC
  <2>5. job' \in [Workers -> [Slots -> Job]]
    BY <1>0, <2>2, <2>4, SetJobType
  <2>6. WorkerTypeOK'
    BY <1>0, <1>1, <2>5, FirstPosition DEF LeaseTask, FromFirstType, WorkerTypeOK
  <2> QED
    BY <1>0, <1>1, <2>1, <2>3, <2>6, EnvironmentStep DEF LeaseTask, ledger
<1>2. CASE LeaseEmpty(w, s)
  <2>1. budget' \in [Kinds -> Nat]
    BY <1>0, <1>2, CommandBudget DEF LeaseEmpty
  <2>2. QueueTypeOK' /\ StoreTypeOK'
    BY <1>0, <1>2, UnchangedQueue, UnchangedStore DEF LeaseEmpty
  <2>3. Len(TaskTypes) \in Nat
    BY WorkerAssumption
  <2>4. poll' \in [Workers -> 1 .. Len(TaskTypes)]
    BY <1>0, <1>2, <2>3, FirstPosition DEF LeaseEmpty, WorkerTypeOK
  <2>5. WorkerTypeOK'
    BY <1>0, <1>2, <2>4 DEF LeaseEmpty, WorkerTypeOK
  <2> QED
    BY <1>0, <1>2, <2>1, <2>2, <2>5, EnvironmentStep DEF LeaseEmpty, ledger
<1>3. CASE LeaseError(w, s)
  <2>1. budget' \in [Kinds -> Nat]
    BY <1>0, <1>3, CommandBudget DEF LeaseError
  <2>2. QueueTypeOK' /\ StoreTypeOK'
    BY <1>0, <1>3, UnchangedQueue, UnchangedStore, LeaseType DEF LeaseError
  <2>3. WorkerTypeOK'
    BY <1>0, <1>3, FirstPosition DEF LeaseError, FromFirstType, WorkerTypeOK
  <2> QED
    BY <1>0, <1>3, <2>1, <2>2, <2>3, EnvironmentStep DEF LeaseError, ledger
<1> QED
  BY <1>1, <1>2, <1>3 DEF PollStep

\* A job keeps every type from its lease to its outcome.
LEMMA JobType ==
  ASSUME TypeOK, NEW w \in Workers, NEW s \in Slots, JobStep(w, s)
  PROVE  EnvironmentTypeOK' /\ QueueTypeOK' /\ StoreTypeOK' /\ WorkerTypeOK'
<1> USE DEF TypeOK
<1> DEFINE e == job[w][s].env
<1>0. EnvironmentTypeOK /\ QueueTypeOK /\ StoreTypeOK /\ WorkerTypeOK
      /\ budget \in [Kinds -> Nat] /\ settled \subseteq Tasks /\ dropped \subseteq Tasks
  BY DEF EnvironmentTypeOK
<1>e. job[w][s].pc # "idle"
  BY DEF JobStep, Unhandled, Start, Succeed, RecordSuccess, Fail, PushDead,
         RecordDead, Schedule, RecordRetry, Step, Finish
<1>f. e \in Envelope /\ e.id \in Tasks /\ e.attempts \in Nat
  BY <1>0, <1>e, JobEnvelope
<1>b. budget' \in [Kinds -> Nat]
  BY <1>0, CommandBudget
     DEF JobStep, Unhandled, Start, Succeed, RecordSuccess, Fail, PushDead,
         RecordDead, Schedule, RecordRetry
<1>1. CASE Unhandled(w, s)
  <2>1. QueueTypeOK' /\ StoreTypeOK'
    BY <1>0, <1>1, UnchangedQueue, UnchangedStore, AckType DEF Unhandled, Nack
  <2>2. WorkerTypeOK'
    BY <1>0, <1>f, <1>1, StepType DEF Unhandled, JobPC
  <2> QED
    BY <1>0, <1>b, <1>1, <2>1, <2>2, EnvironmentStep DEF Unhandled, ledger
<1>2. CASE Start(w, s)
  <2>1. QueueTypeOK' /\ StoreTypeOK'
    BY <1>0, <1>f, <1>2, UnchangedQueue, UnchangedStore, MarkRunningType DEF Start
  <2>2. WorkerTypeOK'
    BY <1>0, <1>f, <1>2, StepType DEF Start, JobPC
  <2> QED
    BY <1>0, <1>b, <1>2, <2>1, <2>2, EnvironmentStep DEF Start, ledger
<1>3. CASE Succeed(w, s)
  <2>1. QueueTypeOK' /\ StoreTypeOK'
    BY <1>0, <1>3, UnchangedQueue, UnchangedStore, AckType DEF Succeed
  <2>2. WorkerTypeOK'
    BY <1>0, <1>f, <1>3, StepType DEF Succeed, JobPC
  <2> QED
    BY <1>0, <1>b, <1>f, <1>3, <2>1, <2>2, EnvironmentStep DEF Succeed, Settle
<1>4. CASE RecordSuccess(w, s)
  <2>1. QueueTypeOK' /\ StoreTypeOK'
    BY <1>0, <1>f, <1>4, UnchangedQueue, UnchangedStore, MarkSucceededType
       DEF RecordSuccess
  <2>2. WorkerTypeOK'
    BY <1>0, <1>4, FinishType DEF RecordSuccess
  <2> QED
    BY <1>0, <1>b, <1>4, <2>1, <2>2, EnvironmentStep DEF RecordSuccess, ledger
<1>5. CASE Fail(w, s)
  <2>1. QueueTypeOK' /\ StoreTypeOK'
    BY <1>0, <1>5, UnchangedQueue, UnchangedStore, AckType DEF Fail, Nack
  <2>2. [e EXCEPT !.attempts = @ + 1] \in Envelope
    BY <1>f, EnvelopeUpdate, e.attempts + 1 \in Nat
  <2>3. WorkerTypeOK'
    BY <1>0, <1>5, <2>2, StepType DEF Fail, JobPC
  <2> QED
    BY <1>0, <1>b, <1>5, <2>1, <2>3, EnvironmentStep DEF Fail, ledger
<1>6. CASE PushDead(w, s)
  <2>1. QueueTypeOK' /\ StoreTypeOK'
    BY <1>0, <1>f, <1>6, UnchangedQueue, UnchangedStore, DeadLetterType DEF PushDead
  <2>2. WorkerTypeOK'
    BY <1>0, <1>f, <1>6, StepType DEF PushDead, JobPC
  <2>3. settled' \subseteq Tasks /\ dropped' \subseteq Tasks
    BY <1>0, <1>f, <1>6 DEF PushDead, Settle, ledger
  <2> QED
    BY <1>0, <1>b, <2>1, <2>2, <2>3, EnvironmentStep
<1>7. CASE RecordDead(w, s)
  <2>1. QueueTypeOK' /\ StoreTypeOK'
    BY <1>0, <1>f, <1>7, UnchangedQueue, UnchangedStore, MarkDeadType DEF RecordDead
  <2>2. WorkerTypeOK'
    BY <1>0, <1>7, FinishType DEF RecordDead
  <2>3. settled' \subseteq Tasks /\ dropped' \subseteq Tasks
    BY <1>0, <1>f, <1>7 DEF RecordDead, Settle, Abandon
  <2> QED
    BY <1>0, <1>b, <2>1, <2>2, <2>3, EnvironmentStep
<1>8. CASE Schedule(w, s)
  <2>1. QueueTypeOK' /\ StoreTypeOK'
    BY <1>0, <1>f, <1>8, UnchangedQueue, UnchangedStore, EnqueueDelayedType
       DEF Schedule
  <2>2. WorkerTypeOK'
    BY <1>0, <1>f, <1>8, StepType DEF Schedule, JobPC
  <2>3. settled' \subseteq Tasks /\ dropped' \subseteq Tasks
    BY <1>0, <1>f, <1>8 DEF Schedule, Abandon, ledger
  <2> QED
    BY <1>0, <1>b, <2>1, <2>2, <2>3, EnvironmentStep
<1>9. CASE RecordRetry(w, s)
  <2>1. QueueTypeOK' /\ StoreTypeOK'
    BY <1>0, <1>f, <1>9, UnchangedQueue, UnchangedStore, MarkRetryType DEF RecordRetry
  <2>2. WorkerTypeOK'
    BY <1>0, <1>9, FinishType DEF RecordRetry
  <2> QED
    BY <1>0, <1>b, <1>9, <2>1, <2>2, EnvironmentStep DEF RecordRetry, ledger
<1> QED
  BY <1>1, <1>2, <1>3, <1>4, <1>5, <1>6, <1>7, <1>8, <1>9 DEF JobStep
-----------------------------------------------------------------------------
(* Type correctness: the coordinator. *)

\* The keys SCAN finds are those of known types.
LEMMA TypesOfEnvelopes ==
  ASSUME NEW envs \in SUBSET Envelope
  PROVE  {TypeOf(e.id) : e \in envs} \subseteq Types
<1>1. ASSUME NEW e \in envs
      PROVE  TypeOf(e.id) \in Types
  <2>1. e.id \in Tasks
    BY EnvelopeFields
  <2> QED
    BY <2>1, TaskAssumption DEF TypeOf
<1> QED
  BY <1>1

\* Between two ticks the coordinator has nothing under way.
LEMMA CoStartType ==
  /\ CoStart \in [pc: CoPC, types: SUBSET Types, todo: SUBSET Workers,
                  worker: Workers \cup {NoWorker}, batch: SUBSET Envelope,
                  now: Nat, dead: Tasks \cup {NoTask}]
  /\ CoStart.pc = "sleep"
BY DEF CoStart, CoPC

\* Every command of a tick keeps every type.  held is what the worker being
\* reclaimed still holds.
LEMMA CoordinatorType ==
  ASSUME TypeOK, NEW held, CoStep(held) \/ CoCrash
  PROVE  EnvironmentTypeOK' /\ QueueTypeOK' /\ StoreTypeOK' /\ CoordinatorTypeOK'
<1> USE DEF TypeOK
<1>0. EnvironmentTypeOK /\ QueueTypeOK /\ StoreTypeOK /\ CoordinatorTypeOK
      /\ budget \in [Kinds -> Nat] /\ settled \subseteq Tasks /\ dropped \subseteq Tasks
  BY DEF EnvironmentTypeOK
<1>c. /\ co.pc \in CoPC /\ co.types \subseteq Types /\ co.todo \subseteq Workers
      /\ co.worker \in Workers \cup {NoWorker} /\ co.batch \subseteq Envelope
      /\ co.now \in Nat /\ co.dead \in Tasks \cup {NoTask}
  BY <1>0 DEF CoordinatorTypeOK
<1>b. budget' \in [Kinds -> Nat]
  <2>1. UNCHANGED budget \/ Spend("error") \/ Spend("crash")
    BY DEF CoStep, CoCrash, Tick, MoveDue, PromoteDone, ReadDue, ReadWorkers,
           SweepDone, ReadInflight, RequeueDone, CheckAlive, DelHash, Requeue,
           PushExhausted, MarkExhausted, ResetOrphans, FlagDead, Fault
  <2> QED
    BY <1>0, <2>1, SpendType DEF Kinds
<1>1. CASE Tick
  <2>1. ListTypes \subseteq Types /\ DelayedTypes \subseteq Types
    BY <1>0, TypesOfEnvelopes DEF ListTypes, DelayedTypes, QueueTypeOK
  <2>2. CoordinatorTypeOK'
    BY <1>0, <1>1, <2>1 DEF Tick, At, CoordinatorTypeOK, CoPC
  <2> QED
    BY <1>0, <1>b, <1>1, <2>2, EnvironmentStep, UnchangedQueue, UnchangedStore
       DEF Tick, ledger
<1>2. ASSUME NEW ty \in Types, ReadDue(ty)
      PROVE  EnvironmentTypeOK' /\ QueueTypeOK' /\ StoreTypeOK' /\ CoordinatorTypeOK'
  <2>1. clock \in Nat /\ clock + 1 \in Nat
    BY <1>0 DEF QueueTypeOK
  <2>2. QueueTypeOK'
    BY <1>0, <1>2, <2>1 DEF ReadDue, QueueTypeOK
  <2>3. CoordinatorTypeOK'
    <3>1. CASE co' = [co EXCEPT !.types = @ \ {ty}]
      BY <1>0, <1>2, <3>1 DEF ReadDue, At, CoordinatorTypeOK
    <3>2. ASSUME NEW b \in DueBatches(ty),
                 co' = [co EXCEPT !.pc = "exec", !.types = @ \ {ty},
                                  !.batch = b, !.now = clock + 1]
          PROVE  CoordinatorTypeOK'
      <4>1. b \in SUBSET Envelope
        BY <1>0, DueBatchesType
      <4> QED
        BY <1>0, <2>1, <3>2, <4>1 DEF CoordinatorTypeOK, CoPC
    <3> QED
      BY <1>2, <3>1, <3>2 DEF ReadDue
  <2> QED
    BY <1>0, <1>b, <1>2, <2>2, <2>3, EnvironmentStep, UnchangedStore
       DEF ReadDue, ledger
<1>3. CASE MoveDue
  <2>1. CoordinatorTypeOK'
    BY <1>0, <1>3 DEF MoveDue, CoordinatorTypeOK, CoPC
  <2>2. QueueTypeOK'
    BY <1>0, <1>c, <1>3, PromoteType, UnchangedQueue DEF MoveDue
  <2> QED
    BY <1>0, <1>b, <1>3, <2>1, <2>2, EnvironmentStep, UnchangedStore
       DEF MoveDue, ledger
<1>4. CASE PromoteDone
  <2>1. CoordinatorTypeOK'
    BY <1>0, <1>4 DEF PromoteDone, CoordinatorTypeOK, CoPC
  <2> QED
    BY <1>0, <1>b, <1>4, <2>1, EnvironmentStep, UnchangedQueue, UnchangedStore
       DEF PromoteDone, ledger
<1>5. CASE ReadWorkers
  <2>1. CoordinatorTypeOK'
    BY <1>0, <1>5, CoStartType DEF ReadWorkers, ListWorkers, CoordinatorTypeOK, CoPC
  <2> QED
    BY <1>0, <1>b, <1>5, <2>1, EnvironmentStep, UnchangedQueue, UnchangedStore
       DEF ReadWorkers, ledger
<1>6. ASSUME NEW w \in Workers, CheckAlive(w)
      PROVE  EnvironmentTypeOK' /\ QueueTypeOK' /\ StoreTypeOK' /\ CoordinatorTypeOK'
  <2>1. CoordinatorTypeOK'
    BY <1>0, <1>6 DEF CheckAlive, At, CoordinatorTypeOK, CoPC
  <2> QED
    BY <1>0, <1>b, <1>6, <2>1, EnvironmentStep, UnchangedQueue, UnchangedStore
       DEF CheckAlive, ledger
<1>7. CASE SweepDone
  <2>1. CoordinatorTypeOK'
    BY <1>7, CoStartType DEF SweepDone, CoordinatorTypeOK
  <2> QED
    BY <1>0, <1>b, <1>7, <2>1, EnvironmentStep, UnchangedQueue, UnchangedStore
       DEF SweepDone, ledger
<1>8. CASE ReadInflight
  <2>1. inflight[co.worker] \in SUBSET Envelope
    BY <1>0, <1>8 DEF ReadInflight, At, CoordinatorTypeOK, QueueTypeOK
  <2>2. CoordinatorTypeOK'
    BY <1>0, <1>8, <2>1 DEF ReadInflight, At, CoordinatorTypeOK, CoPC
  <2> QED
    BY <1>0, <1>b, <1>8, <2>2, EnvironmentStep, UnchangedQueue, UnchangedStore
       DEF ReadInflight, ledger
<1>9. CASE DelHash(held)
  <2>1. co.worker \in Workers
    BY <1>0, <1>9 DEF DelHash, At, CoordinatorTypeOK
  <2>2. CoordinatorTypeOK'
    BY <1>0, <1>9, <2>1 DEF DelHash, CoordinatorTypeOK, CoPC
  <2>3. QueueTypeOK'
    BY <1>0, <1>9, <2>1, DelInflightType, UnchangedQueue DEF DelHash
  <2>4. Ids(inflight[co.worker]) \subseteq Tasks
    BY <1>0, <2>1, IdsType DEF QueueTypeOK
  <2>5. settled' \subseteq Tasks /\ dropped' \subseteq Tasks
    BY <1>0, <1>9, <2>4 DEF DelHash, CoDrops, ledger
  <2> QED
    BY <1>0, <1>b, <1>9, <2>2, <2>3, <2>5, EnvironmentStep, UnchangedStore DEF DelHash
<1>10. ASSUME NEW e \in co.batch, Requeue(e)
       PROVE  EnvironmentTypeOK' /\ QueueTypeOK' /\ StoreTypeOK' /\ CoordinatorTypeOK'
  <2>1. e \in Envelope /\ e.id \in Tasks /\ e.attempts + 1 \in Nat
    BY <1>c, EnvelopeFields
  <2>2. [e EXCEPT !.attempts = @ + 1] \in Envelope
    BY <2>1, EnvelopeUpdate
  <2>3. CoordinatorTypeOK'
    BY <1>0, <1>10 DEF Requeue, At, CoordinatorTypeOK
  <2>4. QueueTypeOK'
    BY <1>0, <1>10, <2>2, EnqueueType, UnchangedQueue DEF Requeue
  <2>5. settled' \subseteq Tasks /\ dropped' \subseteq Tasks
    BY <1>0, <1>10, <2>1 DEF Requeue, CoDrops, ledger
  <2> QED
    BY <1>0, <1>b, <1>10, <2>3, <2>4, <2>5, EnvironmentStep, UnchangedStore
       DEF Requeue
<1>11. ASSUME NEW e \in co.batch, PushExhausted(e)
       PROVE  EnvironmentTypeOK' /\ QueueTypeOK' /\ StoreTypeOK' /\ CoordinatorTypeOK'
  <2>1. e \in Envelope /\ e.id \in Tasks /\ e.attempts + 1 \in Nat
    BY <1>c, EnvelopeFields
  <2>2. [e EXCEPT !.attempts = @ + 1] \in Envelope
    BY <2>1, EnvelopeUpdate
  <2>3. CoordinatorTypeOK'
    BY <1>0, <1>11, <2>1 DEF PushExhausted, At, CoordinatorTypeOK, CoPC
  <2>4. QueueTypeOK'
    BY <1>0, <1>11, <2>2, DeadLetterType, UnchangedQueue DEF PushExhausted
  <2>5. settled' \subseteq Tasks /\ dropped' \subseteq Tasks
    BY <1>0, <1>11, <2>1 DEF PushExhausted, CoSettles, ledger
  <2> QED
    BY <1>0, <1>b, <1>11, <2>3, <2>4, <2>5, EnvironmentStep, UnchangedStore
       DEF PushExhausted
<1>12. CASE MarkExhausted
  <2>1. co.dead \in Tasks
    BY <1>0, <1>12 DEF MarkExhausted, At, CoordinatorTypeOK
  <2>2. CoordinatorTypeOK'
    BY <1>0, <1>12 DEF MarkExhausted, At, CoordinatorTypeOK, CoPC
  <2>3. StoreTypeOK'
    BY <1>0, <1>12, <2>1, MarkDeadType, UnchangedStore DEF MarkExhausted
  <2>4. settled' \subseteq Tasks /\ dropped' \subseteq Tasks
    BY <1>0, <1>12, <2>1 DEF MarkExhausted, CoSettles, CoDrops
  <2> QED
    BY <1>0, <1>b, <1>12, <2>2, <2>3, <2>4, EnvironmentStep, UnchangedQueue
       DEF MarkExhausted
<1>13. CASE RequeueDone
  <2>1. CoordinatorTypeOK'
    BY <1>0, <1>13 DEF RequeueDone, At, CoordinatorTypeOK, CoPC
  <2> QED
    BY <1>0, <1>b, <1>13, <2>1, EnvironmentStep, UnchangedQueue, UnchangedStore
       DEF RequeueDone, ledger
<1>14. CASE ResetOrphans
  <2>1. CoordinatorTypeOK'
    BY <1>0, <1>14 DEF ResetOrphans, At, CoordinatorTypeOK, CoPC
  <2> QED
    BY <1>0, <1>b, <1>14, <2>1, EnvironmentStep, UnchangedQueue, UnchangedStore,
       RequeueOrphansType DEF ResetOrphans, ledger
<1>15. CASE FlagDead
  <2>1. co.worker \in Workers
    BY <1>0, <1>15 DEF FlagDead, At, CoordinatorTypeOK
  <2>2. CoordinatorTypeOK'
    BY <1>0, <1>15 DEF FlagDead, CoordinatorTypeOK, CoPC
  <2> QED
    BY <1>0, <1>b, <1>15, <2>1, <2>2, EnvironmentStep, UnchangedQueue,
       UnchangedStore, WorkerRowType DEF FlagDead, ledger
<1>16. CASE CoCrash
  <2>1. CoordinatorTypeOK'
    BY <1>16, CoStartType DEF CoCrash, CoordinatorTypeOK
  <2>2. CoHolds \subseteq Tasks
    BY <1>0, <1>c, IdsType DEF CoHolds, CoordinatorTypeOK
  <2>3. settled' \subseteq Tasks /\ dropped' \subseteq Tasks
    BY <1>0, <1>16, <2>2 DEF CoCrash, CoDrops
  <2> QED
    BY <1>0, <1>b, <1>16, <2>1, <2>3, EnvironmentStep, UnchangedQueue, UnchangedStore
       DEF CoCrash
<1> QED
  BY <1>1, <1>2, <1>3, <1>4, <1>5, <1>6, <1>7, <1>8, <1>9, <1>10, <1>11, <1>12,
     <1>13, <1>14, <1>15, <1>16 DEF CoStep
-----------------------------------------------------------------------------
(* Type correctness: the API, and the whole system. *)

\* Every handler keeps every type.
LEMMA ApiType ==
  ASSUME TypeOK, ApiNext
  PROVE  EnvironmentTypeOK' /\ QueueTypeOK' /\ StoreTypeOK' /\ ApiTypeOK'
<1> USE DEF TypeOK
<1>0. EnvironmentTypeOK /\ QueueTypeOK /\ StoreTypeOK /\ ApiTypeOK
      /\ budget \in [Kinds -> Nat] /\ settled \subseteq Tasks /\ dropped \subseteq Tasks
  BY DEF EnvironmentTypeOK
<1>a. PICK t \in Tasks : \/ InsertTask(t) \/ SubmitTask(t) \/ CancelTask(t)
                         \/ RedriveRow(t) \/ RedriveEnvelope(t)
  BY DEF ApiNext
<1>b. budget' \in [Kinds -> Nat]
  <2>1. UNCHANGED budget \/ Spend("error") \/ Spend("cancel") \/ Spend("redrive")
    BY <1>a DEF InsertTask, SubmitTask, CancelTask, RedriveRow, RedriveEnvelope
  <2> QED
    BY <1>0, <2>1, SpendType DEF Kinds
<1>c. ApiTypeOK'
  BY <1>0, <1>a DEF InsertTask, SubmitTask, CancelTask, RedriveRow,
     RedriveEnvelope, Answer, ApiTypeOK, ApiState
<1>d. QueueTypeOK'
  <2>1. UNCHANGED queueVars \/ Enqueue(NewEnvelope(t))
    BY <1>a DEF InsertTask, SubmitTask, CancelTask, RedriveRow, RedriveEnvelope
  <2> QED
    BY <1>0, <2>1, NewEnvelopeType, EnqueueType, UnchangedQueue
<1>e. StoreTypeOK'
  <2>1. UNCHANGED storeVars \/ CreateTask(t) \/ MarkCanceled(t) \/ Redrive(t)
    BY <1>a DEF InsertTask, SubmitTask, CancelTask, RedriveRow, RedriveEnvelope
  <2> QED
    BY <1>0, <2>1, UnchangedStore, CreateTaskType, MarkCanceledType, RedriveType
<1>f. settled' \subseteq Tasks /\ dropped' \subseteq Tasks
  BY <1>0, <1>a DEF InsertTask, SubmitTask, CancelTask, RedriveRow,
     RedriveEnvelope, ledger
<1> QED
  BY <1>0, <1>b, <1>c, <1>d, <1>e, <1>f, EnvironmentStep

\* The initial state is well typed.
LEMMA InitType == Init => TypeOK
<1> SUFFICES ASSUME Init
             PROVE  TypeOK
  OBVIOUS
<1>1. EnvironmentTypeOK
  BY EnvironmentAssumption DEF Init, EnvironmentInit, EnvironmentTypeOK
<1>2. QueueTypeOK
  BY TaskQueueAssumption DEF Init, QueueInit, QueueTypeOK
<1>3. StoreTypeOK
  BY DEF Init, StoreInit, StoreTypeOK, NoRow, Row
<1>4. WorkerTypeOK
  BY FirstPosition DEF Init, WorkerInit, WorkerTypeOK, Job
<1>5. CoordinatorTypeOK
  BY CoStartType DEF Init, CoordinatorTypeOK
<1>6. ApiTypeOK
  BY DEF Init, ApiInit, ApiTypeOK, ApiState
<1> QED
  BY <1>1, <1>2, <1>3, <1>4, <1>5, <1>6 DEF TypeOK

\* Every step keeps the types.
LEMMA NextType == TypeOK /\ [Next]_vars => TypeOK'
<1> SUFFICES ASSUME TypeOK, [Next]_vars
             PROVE  TypeOK'
  OBVIOUS
<1>0. EnvironmentTypeOK /\ QueueTypeOK /\ StoreTypeOK /\ WorkerTypeOK
      /\ CoordinatorTypeOK /\ ApiTypeOK
  BY DEF TypeOK
<1>1. CASE WorkerNext /\ UNCHANGED <<co, api>>
  <2>1. EnvironmentTypeOK' /\ QueueTypeOK' /\ StoreTypeOK' /\ WorkerTypeOK'
    BY <1>1, ProcessType, PollType, JobType DEF WorkerNext
  <2> QED
    BY <1>0, <1>1, <2>1, UnchangedCo DEF TypeOK, ApiTypeOK
<1>2. CASE CoordinatorNext
  <2>1. EnvironmentTypeOK' /\ QueueTypeOK' /\ StoreTypeOK' /\ CoordinatorTypeOK'
    BY <1>2, CoordinatorType DEF CoordinatorNext
  <2> QED
    BY <1>0, <1>2, <2>1, UnchangedWorker DEF CoordinatorNext, TypeOK, ApiTypeOK
<1>3. CASE ApiNext /\ UNCHANGED <<workerVars, co>>
  <2>1. EnvironmentTypeOK' /\ QueueTypeOK' /\ StoreTypeOK' /\ ApiTypeOK'
    BY <1>3, ApiType
  <2> QED
    BY <1>0, <1>3, <2>1, UnchangedWorker, UnchangedCo DEF TypeOK
<1>4. CASE TimePasses
  <2>1. QueueTypeOK'
    BY <1>0, <1>4, ElapseType DEF TimePasses
  <2>2. EnvironmentTypeOK'
    BY <1>0, <1>4 DEF TimePasses, EnvironmentTypeOK, ledger
  <2> QED
    BY <1>0, <1>4, <2>1, <2>2, UnchangedStore, UnchangedWorker, UnchangedCo
       DEF TimePasses, TypeOK, ApiTypeOK
<1>5. ASSUME NEW w \in Workers, Expire(w)
      PROVE  TypeOK'
  <2>1. QueueTypeOK'
    BY <1>0, <1>5, HeartbeatType DEF Expire
  <2>2. budget' \in [Kinds -> Nat]
    BY <1>0, <1>5, SpendType DEF Expire, EnvironmentTypeOK, Kinds
  <2>3. EnvironmentTypeOK'
    BY <1>0, <1>5, <2>2 DEF Expire, EnvironmentTypeOK, ledger
  <2> QED
    BY <1>0, <1>5, <2>1, <2>3, UnchangedStore, UnchangedWorker, UnchangedCo
       DEF Expire, TypeOK, ApiTypeOK
<1>6. CASE UNCHANGED vars
  <2>1. EnvironmentTypeOK'
    BY <1>0, <1>6 DEF vars, EnvironmentTypeOK, ledger
  <2> QED
    BY <1>0, <1>6, <2>1, UnchangedQueue, UnchangedStore, UnchangedWorker, UnchangedCo
       DEF vars, TypeOK, ApiTypeOK
<1> QED
  BY <1>1, <1>2, <1>3, <1>4, <1>5, <1>6 DEF Next

\* Type correctness: in every reachable state every variable has its type,
\* every busy slot holds an envelope, and the coordinator knows whom it
\* reclaims.
THEOREM TypeCorrect == Spec => []TypeOK
<1>1. Init => TypeOK
  BY InitType
<1>2. TypeOK /\ [Next]_vars => TypeOK'
  BY NextType
<1> QED
  BY <1>1, <1>2, PTL DEF Spec
-----------------------------------------------------------------------------
(***************************************************************************)
(* What an envelope carries, for any tasks, workers, slots and budgets: it *)
(* has attempts left (AttemptsLeft), its task has a row                    *)
(* (RowBeforeEnvelope), its time orders it among the ready ones            *)
(* (LeasesMostUrgent), and it is not lost but in known windows (Accounted).*)
(*                                                                         *)
(* With the types, AttemptsLeft is inductive, because it looks at every    *)
(* place an envelope passes through: the Redis structures, the slots and   *)
(* the coordinator's batch.  An envelope enters that circle fresh from the *)
(* API, or past one of the two tests of the attempts, the worker's         *)
(* (Exhausted) and the coordinator's (in Requeue).                         *)
(*                                                                         *)
(* Rows and order follow from one lemma, Provenance: every envelope after a*)
(* step comes from one before it, or from a request whose row is written.  *)
(***************************************************************************)

Fresh(e) == e.attempts < MaxAttempts(e.id)

RedisFresh ==
  /\ \A e \in queue : Fresh(e)
  /\ \A e \in delayed : Fresh(e)
  /\ \A w \in Workers : \A e \in inflight[w] : Fresh(e)

JobsFresh ==
  \A w \in Workers : \A s \in Slots :
    job[w][s].pc \in {"leased", "running"} => Fresh(job[w][s].env)

BatchFresh == \A e \in co.batch : Fresh(e)

\* AttemptsLeft, place by place.
LEMMA AttemptsParts == AttemptsLeft <=> RedisFresh /\ JobsFresh /\ BatchFresh
<1>1. JobsFresh => \A e \in InSlots : Fresh(e)
  BY DEF JobsFresh, InSlots, Busy
<1>2. ASSUME \A e \in InSlots : Fresh(e)
      PROVE  JobsFresh
  <2> SUFFICES ASSUME NEW w \in Workers, NEW s \in Slots,
                      job[w][s].pc \in {"leased", "running"}
               PROVE  Fresh(job[w][s].env)
    BY DEF JobsFresh
  <2>1. <<w, s>> \in Busy
    BY DEF Busy
  <2>2. job[w][s].env \in InSlots
    BY <2>1 DEF InSlots
  <2> QED
    BY <1>2, <2>2
<1>3. (\A w \in Workers : \A e \in inflight[w] : Fresh(e))
        <=> \A e \in InHashes : Fresh(e)
  BY DEF InHashes
<1>4. AttemptsLeft <=> \A e \in Circulating : Fresh(e)
  BY DEF AttemptsLeft, Fresh
<1> QED
  BY <1>1, <1>2, <1>3, <1>4 DEF Circulating, RedisFresh, BatchFresh

\* Every task has at least one attempt: createTask turns a limit that is not
\* positive into three.
LEMMA MaxAttemptsPositive ==
  ASSUME NEW t \in Tasks
  PROVE  MaxAttempts(t) \in Nat /\ MaxAttempts(t) > 0
<1>1. Request[t].max_attempts \in Int
  BY TaskAssumption
<1> QED
  BY <1>1 DEF MaxAttempts

\* The envelope of a new or redriven task is fresh.
LEMMA NewEnvelopeFresh ==
  ASSUME NEW t \in Tasks
  PROVE  Fresh(NewEnvelope(t))
BY MaxAttemptsPositive DEF Fresh, NewEnvelope

\* Stamping an envelope does not touch its attempts.
LEMMA StampFresh ==
  ASSUME NEW e \in Envelope, NEW n \in Nat, Fresh(e)
  PROVE  Fresh([e EXCEPT !.enqueued_at = n])
BY EnvelopeUpdate DEF Fresh

\* Enqueue adds one envelope, stamped or as it is.
LEMMA EnqueueFresh ==
  ASSUME QueueTypeOK, RedisFresh, NEW e \in Envelope, Fresh(e), Enqueue(e)
  PROVE  RedisFresh'
<1> DEFINE stamped == [e EXCEPT !.enqueued_at = clock + 1]
<1>1. clock + 1 \in Nat
  BY DEF QueueTypeOK
<1>2. Fresh(stamped)
  BY <1>1, StampFresh
<1>3. queue' \subseteq queue \cup {stamped, e}
  BY DEF Enqueue
<1> HIDE DEF stamped
<1> QED
  BY <1>2, <1>3 DEF RedisFresh, Enqueue, Fresh

\* PromoteDelayed stamps what it moves.
LEMMA PromoteFresh ==
  ASSUME QueueTypeOK, RedisFresh, BatchFresh, co.batch \subseteq Envelope,
         NEW now \in Nat, Promote(co.batch, now)
  PROVE  RedisFresh'
<1> DEFINE stamped(e) == [e EXCEPT !.enqueued_at = now]
<1>1. \A e \in co.batch : Fresh(stamped(e))
  BY StampFresh DEF BatchFresh
<1>2. queue' = queue \cup {stamped(e) : e \in co.batch}
  BY DEF Promote
<1> HIDE DEF stamped
<1> QED
  BY <1>1, <1>2 DEF RedisFresh, Promote, Fresh

\* The commands that add no envelope to Redis, or move one inside it.
LEMMA MovesFresh ==
  ASSUME QueueTypeOK, RedisFresh,
         \/ UNCHANGED queueVars
         \/ \E w \in Workers, ty \in Types, e \in queue : Lease(ty, w, e)
         \/ \E w \in Workers, t \in Tasks : Ack(w, t)
         \/ \E w \in Workers : Heartbeat(w) \/ HeartbeatExpires(w) \/ DelInflight(w)
         \/ \E e \in Envelope : DeadLetter(e)
         \/ \E e \in delayed : Elapse(e)
  PROVE  RedisFresh'
<1>1. CASE UNCHANGED queueVars
  BY <1>1 DEF queueVars, RedisFresh, Fresh
<1>2. CASE \E w \in Workers, ty \in Types, e \in queue : Lease(ty, w, e)
  BY <1>2 DEF QueueTypeOK, Lease, HSet, RedisFresh, Fresh
<1>3. CASE \E w \in Workers, t \in Tasks : Ack(w, t)
  BY <1>3 DEF QueueTypeOK, Ack, HDel, RedisFresh, Fresh
<1>4. CASE \E w \in Workers : Heartbeat(w) \/ HeartbeatExpires(w) \/ DelInflight(w)
  BY <1>4 DEF QueueTypeOK, Heartbeat, HeartbeatExpires, DelInflight, RedisFresh, Fresh
<1>5. CASE \E e \in Envelope : DeadLetter(e)
  BY <1>5 DEF DeadLetter, RedisFresh, Fresh
<1>6. CASE \E e \in delayed : Elapse(e)
  BY <1>6 DEF Elapse, RedisFresh, Fresh
<1> QED
  BY <1>1, <1>2, <1>3, <1>4, <1>5, <1>6
-----------------------------------------------------------------------------
\* The worker's steps: a retry is scheduled only while attempts are left.
LEMMA WorkerFresh ==
  ASSUME TypeOK, RedisFresh, JobsFresh, WorkerNext
  PROVE  RedisFresh' /\ JobsFresh'
<1>0. QueueTypeOK /\ WorkerTypeOK
  BY DEF TypeOK
<1>w. PICK w \in Workers :
        \/ ProcessStep(w)
        \/ \E s \in Slots : PollStep(w, s) \/ JobStep(w, s)
  BY DEF WorkerNext
<1>1. CASE ProcessStep(w)
  <2>1. RedisFresh'
    <3>1. UNCHANGED queueVars \/ Heartbeat(w)
      BY <1>1 DEF ProcessStep, Register, FirstHeartbeat, StartupError, BeatTick,
                  TouchTick, Sigterm, Leave, Crash
    <3> QED
      BY <1>0, <3>1, MovesFresh
  <2>2. CASE UNCHANGED job
    BY <2>1, <2>2 DEF JobsFresh, Fresh
  <2>3. CASE Halt(w)
    <3>1. \A v \in Workers, s \in Slots : job'[v][s] = job[v][s] \/ job'[v][s].pc = "idle"
      BY <1>0, <2>3 DEF Halt, WorkerTypeOK, IdleJob
    <3> QED
      BY <2>1, <3>1 DEF JobsFresh, Fresh
  <2> QED
    BY <1>1, <2>2, <2>3
       DEF ProcessStep, Register, FirstHeartbeat, StartupError, BeatTick,
           TouchTick, Sigterm, Leave, Crash
<1>2. ASSUME NEW s \in Slots, PollStep(w, s)
      PROVE  RedisFresh' /\ JobsFresh'
  <2>1. TaskTypes[poll[w]] \in Types
    BY <1>0, WorkerAssumption DEF WorkerTypeOK
  <2>2. RedisFresh'
    BY <1>0, <1>2, <2>1, MovesFresh DEF PollStep, LeaseTask, LeaseEmpty, LeaseError
  <2>3. CASE UNCHANGED job
    BY <2>2, <2>3 DEF JobsFresh, Fresh
  <2>4. CASE \E e \in queue : job' = [job EXCEPT ![w][s] = [pc |-> "leased", env |-> e]]
    BY <1>0, <2>2, <2>4 DEF JobsFresh, RedisFresh, Fresh, WorkerTypeOK
  <2> QED
    BY <1>2, <2>3, <2>4 DEF PollStep, LeaseTask, LeaseEmpty, LeaseError
<1>3. ASSUME NEW s \in Slots, JobStep(w, s)
      PROVE  RedisFresh' /\ JobsFresh'
  <2> DEFINE e == job[w][s].env
  <2>1. job[w][s].pc # "idle"
    BY <1>3 DEF JobStep, Unhandled, Start, Succeed, RecordSuccess, Fail, PushDead,
                RecordDead, Schedule, RecordRetry, Step, Finish
  <2>2. e \in Envelope /\ e.id \in Tasks /\ e.attempts \in Nat
    BY <1>0, <2>1, JobEnvelope
  <2>3. RedisFresh'
    <3>1. CASE Schedule(w, s)
      <4>1. Fresh(e)
        BY <2>2, <3>1, MaxAttemptsPositive DEF Schedule, Exhausted, Fresh
      <4>2. UNCHANGED queueVars \/ EnqueueDelayed(e)
        BY <3>1 DEF Schedule
      <4>3. CASE EnqueueDelayed(e)
        BY <4>1, <4>3 DEF EnqueueDelayed, RedisFresh, Fresh
      <4> QED
        BY <1>0, <4>2, <4>3, MovesFresh
    <3>2. CASE Unhandled(w, s) \/ Succeed(w, s)
      BY <1>0, <2>2, <3>2, MovesFresh DEF Unhandled, Nack, Succeed
    <3>3. CASE Fail(w, s)
      <4>1. [e EXCEPT !.attempts = @ + 1].id = e.id
        BY <2>2, EnvelopeUpdate, e.attempts + 1 \in Nat
      <4> QED
        BY <1>0, <2>2, <3>3, <4>1, MovesFresh DEF Fail, Nack
    <3>4. CASE PushDead(w, s)
      BY <1>0, <2>2, <3>4, MovesFresh DEF PushDead
    <3>5. CASE Start(w, s) \/ RecordSuccess(w, s) \/ RecordDead(w, s) \/ RecordRetry(w, s)
      BY <1>0, <3>5, MovesFresh DEF Start, RecordSuccess, RecordDead, RecordRetry
    <3> QED
      BY <1>3, <3>1, <3>2, <3>3, <3>4, <3>5 DEF JobStep
  <2>4. \A v \in Workers, r \in Slots : (v = w /\ r = s) \/ job'[v][r] = job[v][r]
    BY <1>0, <1>3 DEF JobStep, Unhandled, Start, Succeed, RecordSuccess, Fail, PushDead,
                RecordDead, Schedule, RecordRetry, Step, Finish, WorkerTypeOK
  <2>5. \/ job'[w][s].pc \notin {"leased", "running"}
        \/ job[w][s].pc = "leased" /\ job'[w][s].env = job[w][s].env
    BY <1>0, <1>3 DEF JobStep, Unhandled, Start, Succeed, RecordSuccess, Fail, PushDead,
                RecordDead, Schedule, RecordRetry, Step, Finish, IdleJob, WorkerTypeOK
  <2>6. JobsFresh'
    <3> SUFFICES ASSUME NEW v \in Workers, NEW r \in Slots,
                        job'[v][r].pc \in {"leased", "running"}
                 PROVE  job'[v][r].env.attempts < MaxAttempts(job'[v][r].env.id)
      BY DEF JobsFresh, Fresh
    <3>1. CASE v = w /\ r = s
      BY <2>5, <3>1 DEF JobsFresh, Fresh
    <3>2. CASE job'[v][r] = job[v][r]
      BY <3>2 DEF JobsFresh, Fresh
    <3> QED
      BY <2>4, <3>1, <3>2
  <2> QED
    BY <2>3, <2>6
<1> QED
  BY <1>w, <1>1, <1>2, <1>3

\* What the coordinator holds it has held, or has just read from Redis.
LEMMA BatchSource ==
  ASSUME TypeOK, NEW held, CoStep(held) \/ CoCrash
  PROVE  \/ co'.batch \subseteq co.batch
         \/ co'.batch \subseteq delayed
         \/ co.worker \in Workers /\ co'.batch = inflight[co.worker]
<1>0. QueueTypeOK /\ CoordinatorTypeOK
  BY DEF TypeOK, CoordinatorTypeOK
<1>1. ASSUME NEW ty \in Types, ReadDue(ty)
      PROVE  co'.batch \subseteq co.batch \/ co'.batch \subseteq delayed
  <2>1. CASE co' = [co EXCEPT !.types = @ \ {ty}]
    BY <1>0, <2>1 DEF CoordinatorTypeOK
  <2>2. ASSUME NEW b \in DueBatches(ty),
               co' = [co EXCEPT !.pc = "exec", !.types = @ \ {ty},
                                !.batch = b, !.now = clock + 1]
        PROVE  co'.batch \subseteq delayed
    <3>1. co'.batch = b
      BY <1>0, <2>2 DEF CoordinatorTypeOK
    <3> QED
      BY <1>0, <3>1, DueBatchesType
  <2> QED
    BY <1>1, <2>1, <2>2 DEF ReadDue
<1>2. CASE ReadInflight
  BY <1>0, <1>2 DEF ReadInflight, At, CoordinatorTypeOK
<1>3. ASSUME Tick \/ PromoteDone \/ RequeueDone \/ DelHash(held) \/ MarkExhausted
             \/ ResetOrphans \/ FlagDead \/ \E w \in Workers : CheckAlive(w)
      PROVE  co'.batch = co.batch
  <2>1. CASE Tick \/ PromoteDone \/ RequeueDone \/ DelHash(held)
    BY <1>0, <2>1 DEF Tick, PromoteDone, RequeueDone, DelHash, CoordinatorTypeOK
  <2>2. CASE MarkExhausted \/ ResetOrphans \/ FlagDead
    BY <1>0, <2>2 DEF MarkExhausted, ResetOrphans, FlagDead, CoordinatorTypeOK
  <2>3. CASE \E w \in Workers : CheckAlive(w)
    BY <1>0, <2>3 DEF CheckAlive, CoordinatorTypeOK
  <2> QED
    BY <1>3, <2>1, <2>2, <2>3
<1>4. ASSUME MoveDue \/ ReadWorkers \/ SweepDone \/ CoCrash
      PROVE  co'.batch \in {{}, co.batch}
  <2>1. CASE co' = CoStart
    BY <2>1 DEF CoStart
  <2>2. CASE MoveDue
    BY <1>0, <2>2 DEF MoveDue, CoordinatorTypeOK
  <2>3. ASSUME ReadWorkers, co' # CoStart
        PROVE  co'.batch = co.batch
    BY <1>0, <2>3 DEF ReadWorkers, CoordinatorTypeOK
  <2> QED
    BY <1>4, <2>1, <2>2, <2>3 DEF SweepDone, CoCrash
<1>5. ASSUME NEW e \in co.batch, Requeue(e) \/ PushExhausted(e)
      PROVE  co'.batch \subseteq co.batch
  BY <1>0, <1>5 DEF Requeue, PushExhausted, CoordinatorTypeOK
<1> QED
  BY <1>1, <1>2, <1>3, <1>4, <1>5 DEF CoStep

\* The coordinator's steps: what it takes from Redis is fresh, and what it puts
\* back is fresh by its own test, or untouched but for the time.
LEMMA CoordinatorFresh ==
  ASSUME TypeOK, RedisFresh, BatchFresh, NEW held, CoStep(held) \/ CoCrash
  PROVE  RedisFresh' /\ BatchFresh'
<1>0. QueueTypeOK /\ CoordinatorTypeOK /\ co.batch \subseteq Envelope /\ co.now \in Nat
  BY DEF TypeOK, CoordinatorTypeOK
<1>1. RedisFresh'
  <2>1. CASE MoveDue
    BY <1>0, <2>1, PromoteFresh, MovesFresh DEF MoveDue
  <2>2. ASSUME NEW e \in co.batch, Requeue(e)
        PROVE  RedisFresh'
    <3> DEFINE e1 == [e EXCEPT !.attempts = @ + 1]
    <3>1. e \in Envelope /\ e.attempts \in Nat /\ e.attempts + 1 \in Nat
      BY <1>0, EnvelopeFields
    <3>2. e1 \in Envelope /\ e1.id = e.id
      BY <3>1, EnvelopeUpdate
    <3>3. Fresh(e1)
      BY <2>2, <3>2 DEF Requeue, Fresh
    <3>4. UNCHANGED queueVars \/ Enqueue(e1)
      BY <2>2 DEF Requeue
    <3> HIDE DEF e1
    <3> QED
      BY <1>0, <3>2, <3>3, <3>4, EnqueueFresh, MovesFresh
  <2>3. ASSUME NEW e \in co.batch, PushExhausted(e)
        PROVE  RedisFresh'
    <3>1. e \in Envelope /\ e.attempts \in Nat /\ e.attempts + 1 \in Nat
      BY <1>0, EnvelopeFields
    <3>2. [e EXCEPT !.attempts = @ + 1] \in Envelope
      BY <3>1, EnvelopeUpdate
    <3> QED
      BY <1>0, <2>3, <3>2, MovesFresh DEF PushExhausted
  <2>4. CASE DelHash(held)
    BY <1>0, <2>4, MovesFresh DEF DelHash, At, CoordinatorTypeOK
  <2>5. ASSUME NEW ty \in Types, ReadDue(ty)
        PROVE  RedisFresh'
    BY <2>5 DEF ReadDue, RedisFresh, Fresh
  <2>6. CASE UNCHANGED queueVars
    BY <1>0, <2>6, MovesFresh
  <2> QED
    BY <2>1, <2>2, <2>3, <2>4, <2>5, <2>6
       DEF CoStep, CoCrash, Tick, PromoteDone, ReadWorkers, SweepDone, ReadInflight,
           RequeueDone, CheckAlive, MarkExhausted, ResetOrphans, FlagDead
<1>2. BatchFresh'
  <2>1. \/ co'.batch \subseteq co.batch
        \/ co'.batch \subseteq delayed
        \/ co.worker \in Workers /\ co'.batch = inflight[co.worker]
    BY BatchSource
  <2> QED
    BY <2>1 DEF BatchFresh, RedisFresh, Fresh
<1> QED
  BY <1>1, <1>2

\* No envelope that has used up its attempts is left anywhere it could be
\* executed from, however retries, promotions, reclaims and redrives
\* interleave with crashes, stalls and failing commands.
THEOREM AttemptsInvariant == Spec => []AttemptsLeft
<1> DEFINE Inv == TypeOK /\ AttemptsLeft
<1>1. Init => Inv
  <2> SUFFICES ASSUME Init
               PROVE  Inv
    OBVIOUS
  <2>1. RedisFresh /\ JobsFresh /\ BatchFresh
    BY DEF Init, QueueInit, WorkerInit, IdleJob, CoStart, RedisFresh, JobsFresh,
           BatchFresh
  <2> QED
    BY <2>1, InitType, AttemptsParts
<1>2. Inv /\ [Next]_vars => Inv'
  <2> SUFFICES ASSUME TypeOK, AttemptsLeft, [Next]_vars
               PROVE  AttemptsLeft'
    BY NextType
  <2>0. RedisFresh /\ JobsFresh /\ BatchFresh /\ QueueTypeOK
    BY AttemptsParts DEF TypeOK
  <2>1. SUFFICES RedisFresh' /\ JobsFresh' /\ BatchFresh'
    BY AttemptsParts, PTL
  <2>2. CASE WorkerNext /\ UNCHANGED <<co, api>>
    BY <2>0, <2>2, WorkerFresh DEF BatchFresh, Fresh
  <2>3. CASE CoordinatorNext
    <3>1. RedisFresh' /\ BatchFresh'
      BY <2>0, <2>3, CoordinatorFresh DEF CoordinatorNext
    <3> QED
      BY <2>0, <2>3, <3>1 DEF CoordinatorNext, workerVars, JobsFresh, Fresh
  <2>4. CASE ApiNext /\ UNCHANGED <<workerVars, co>>
    <3>1. PICK t \in Tasks : UNCHANGED queueVars \/ Enqueue(NewEnvelope(t))
      BY <2>4 DEF ApiNext, InsertTask, SubmitTask, CancelTask, RedriveRow,
                  RedriveEnvelope
    <3>2. RedisFresh'
      BY <2>0, <3>1, NewEnvelopeType, NewEnvelopeFresh, EnqueueFresh, MovesFresh
    <3> QED
      BY <2>0, <2>4, <3>2 DEF workerVars, JobsFresh, BatchFresh, Fresh
  <2>5. CASE TimePasses \/ \E w \in Workers : Expire(w)
    <3>1. RedisFresh'
      BY <2>0, <2>5, MovesFresh DEF TimePasses, Expire
    <3> QED
      BY <2>0, <2>5, <3>1 DEF TimePasses, Expire, workerVars, JobsFresh, BatchFresh,
                              Fresh
  <2>6. CASE UNCHANGED vars
    BY <2>0, <2>6, MovesFresh DEF vars, workerVars, JobsFresh, BatchFresh, Fresh
  <2> QED
    BY <2>2, <2>3, <2>4, <2>5, <2>6 DEF Next
<1>3. Inv => AttemptsLeft
  OBVIOUS
<1> QED
  BY <1>1, <1>2, <1>3, PTL DEF Spec
-----------------------------------------------------------------------------
(* Where envelopes come from. *)

\* The envelopes of Redis, of the slots and of the coordinator.
InPool(x) ==
  \/ x \in queue
  \/ x \in delayed
  \/ \E w \in Workers : x \in inflight[w]
  \/ \E w \in Workers, s \in Slots : job[w][s].pc # "idle" /\ job[w][s].env = x
  \/ x \in co.batch

\* A request whose row is written and whose envelope is not.
Submitting(t) == api[t] \in {"inserted", "redriven"}

\* In this step, x comes from an envelope of the same task that has been there
\* before, with its time or one read from the clock.
Traced(x) ==
  \E e : /\ InPool(e)
         /\ e.id = x.id
         /\ x.enqueued_at \in {e.enqueued_at, clock', co.now}

\* What is only moved is traced to itself.
LEMMA MovedTraced ==
  ASSUME NEW x, InPool(x)
  PROVE  Traced(x)
BY DEF Traced

\* Whatever is in the pool is an envelope of a known task.
LEMMA PoolType ==
  ASSUME TypeOK, NEW x, InPool(x)
  PROVE  x \in Envelope /\ x.id \in Tasks /\ x.enqueued_at \in Nat
<1>0. QueueTypeOK /\ WorkerTypeOK /\ co.batch \subseteq Envelope
  BY DEF TypeOK, CoordinatorTypeOK
<1>1. \A w \in Workers, s \in Slots : job[w][s].pc # "idle" => job[w][s].env \in Envelope
  BY <1>0, JobEnvelope
<1>2. x \in Envelope
  BY <1>0, <1>1 DEF InPool, QueueTypeOK
<1> QED
  BY <1>2, EnvelopeFields

\* The workers pass envelopes on, and change nothing in them but the attempts.
LEMMA WorkerTraced ==
  ASSUME TypeOK, WorkerNext, UNCHANGED co, NEW x, InPool(x)'
  PROVE  Traced(x)
<1>0. QueueTypeOK /\ WorkerTypeOK
  BY DEF TypeOK
<1>1. SUFFICES ASSUME ~InPool(x)
               PROVE  Traced(x)
  BY MovedTraced
<1>w. PICK w \in Workers :
        \/ ProcessStep(w)
        \/ \E s \in Slots : PollStep(w, s) \/ JobStep(w, s)
  BY DEF WorkerNext
<1>2. CASE ProcessStep(w)
  <2>1. UNCHANGED <<queue, delayed, inflight>>
    BY <1>2 DEF ProcessStep, Register, FirstHeartbeat, StartupError, BeatTick,
                TouchTick, Sigterm, Leave, Crash, Heartbeat, queueVars
  <2>2. \A v \in Workers, r \in Slots : job'[v][r] = job[v][r] \/ job'[v][r].pc = "idle"
    <3>1. UNCHANGED job \/ Halt(w)
      BY <1>2 DEF ProcessStep, Register, FirstHeartbeat, StartupError, BeatTick,
                  TouchTick, Sigterm, Leave, Crash
    <3> QED
      BY <1>0, <3>1 DEF Halt, WorkerTypeOK, IdleJob
  <2> QED
    BY <1>1, <2>1, <2>2 DEF InPool
<1>3. ASSUME NEW s \in Slots, PollStep(w, s)
      PROVE  FALSE
  <2>1. /\ queue' \subseteq queue /\ delayed' = delayed
        /\ \A v \in Workers : inflight'[v] \subseteq inflight[v] \cup queue
    BY <1>0, <1>3 DEF PollStep, LeaseTask, LeaseEmpty, LeaseError, Lease, HSet,
                      queueVars, QueueTypeOK
  <2>2. \A v \in Workers, r \in Slots : job'[v][r] = job[v][r] \/ job'[v][r].env \in queue
    BY <1>0, <1>3 DEF PollStep, LeaseTask, LeaseEmpty, LeaseError, WorkerTypeOK
  <2> QED
    BY <1>1, <2>1, <2>2 DEF InPool
<1>4. ASSUME NEW s \in Slots, JobStep(w, s)
      PROVE  Traced(x)
  <2> DEFINE e == job[w][s].env
             f == [e EXCEPT !.attempts = @ + 1]
  <2>1. job[w][s].pc # "idle"
    BY <1>4 DEF JobStep, Unhandled, Start, Succeed, RecordSuccess, Fail, PushDead,
                RecordDead, Schedule, RecordRetry, Step, Finish
  <2>2. e \in Envelope /\ e.attempts + 1 \in Nat /\ InPool(e)
    BY <1>0, <2>1, JobEnvelope DEF InPool
  <2>3. f.id = e.id /\ f.enqueued_at = e.enqueued_at
    BY <2>2, EnvelopeUpdate DEF Envelope
  <2>4. /\ queue' = queue /\ delayed' \subseteq delayed \cup {e}
        /\ \A v \in Workers : inflight'[v] \subseteq inflight[v]
    <3>1. CASE Unhandled(w, s) \/ Succeed(w, s) \/ Fail(w, s)
      BY <1>0, <3>1 DEF Unhandled, Succeed, Fail, Nack, Ack, HDel, queueVars, QueueTypeOK
    <3>2. CASE Schedule(w, s)
      BY <3>2 DEF Schedule, EnqueueDelayed, queueVars
    <3>3. CASE PushDead(w, s)
      BY <3>3 DEF PushDead, DeadLetter, queueVars
    <3>4. CASE Start(w, s) \/ RecordSuccess(w, s) \/ RecordDead(w, s) \/ RecordRetry(w, s)
      BY <3>4 DEF Start, RecordSuccess, RecordDead, RecordRetry, queueVars
    <3> QED
      BY <1>4, <3>1, <3>2, <3>3, <3>4 DEF JobStep
  <2>5. \A v \in Workers, r \in Slots :
          \/ job'[v][r] = job[v][r] \/ job'[v][r].pc = "idle"
          \/ job'[v][r].env \in {e, f}
    <3>1. CASE \E pc : Finish(w, s, pc)
      BY <1>0, <3>1 DEF Finish, WorkerTypeOK, IdleJob
    <3>2. ASSUME NEW pc, NEW next, NEW y \in {e, f}, Step(w, s, pc, next, y)
          PROVE  \A v \in Workers, r \in Slots :
                   job'[v][r] = job[v][r] \/ job'[v][r].env \in {e, f}
      <4>1. job' = [job EXCEPT ![w][s] = [pc |-> next, env |-> y]]
        BY <3>2 DEF Step
      <4> HIDE DEF e, f
      <4> QED
        BY <1>0, <4>1 DEF WorkerTypeOK
    <3>3. CASE Unhandled(w, s) \/ Start(w, s) \/ Succeed(w, s) \/ PushDead(w, s)
               \/ Schedule(w, s)
      <4>1. \E pc, next : Step(w, s, pc, next, e)
        BY <3>3 DEF Unhandled, Start, Succeed, PushDead, Schedule
      <4> HIDE DEF e, f
      <4> QED
        BY <3>2, <4>1
    <3>4. CASE Fail(w, s)
      <4>1. Step(w, s, "running", "nacked", f)
        BY <3>4 DEF Fail
      <4> HIDE DEF e, f
      <4> QED
        BY <3>2, <4>1
    <3> HIDE DEF e, f
    <3>5. CASE RecordSuccess(w, s) \/ RecordDead(w, s) \/ RecordRetry(w, s)
      BY <3>1, <3>5 DEF RecordSuccess, RecordDead, RecordRetry
    <3> QED
      BY <1>4, <3>3, <3>4, <3>5 DEF JobStep
  <2> HIDE DEF e, f
  <2>6. x = f
    BY <1>1, <2>2, <2>4, <2>5 DEF InPool
  <2> QED
    BY <2>2, <2>3, <2>6 DEF Traced
<1> QED
  BY <1>w, <1>2, <1>3, <1>4

\* The coordinator puts back what it took, stamped with the time it read.
LEMMA CoordinatorTraced ==
  ASSUME TypeOK, CoordinatorNext, NEW x, InPool(x)'
  PROVE  Traced(x)
<1>0. QueueTypeOK /\ CoordinatorTypeOK /\ co.batch \subseteq Envelope /\ co.now \in Nat
  BY DEF TypeOK, CoordinatorTypeOK
<1>1. SUFFICES ASSUME ~InPool(x)
               PROVE  Traced(x)
  BY MovedTraced
<1>2. UNCHANGED job
  BY DEF CoordinatorNext, workerVars
<1>3. x \notin co'.batch
  BY <1>1, BatchSource DEF CoordinatorNext, InPool
<1>4. CASE /\ queue' = queue /\ delayed' = delayed
           /\ \A v \in Workers : inflight'[v] \subseteq inflight[v]
  BY <1>1, <1>2, <1>3, <1>4 DEF InPool
<1>5. CASE MoveDue
  <2>1. CASE Promote(co.batch, co.now)
    <3>1. delayed' \subseteq delayed /\ inflight' = inflight
      BY <2>1 DEF Promote
    <3>2. x \in queue' /\ x \notin queue
      BY <1>1, <1>2, <1>3, <3>1 DEF InPool
    <3>3. PICK e \in co.batch : x = [e EXCEPT !.enqueued_at = co.now]
      BY <2>1, <3>2 DEF Promote
    <3>4. x.id = e.id /\ x.enqueued_at = co.now
      BY <1>0, <3>3, EnvelopeUpdate DEF Envelope
    <3> QED
      BY <3>4 DEF Traced, InPool
  <2> QED
    BY <1>4, <1>5, <2>1 DEF MoveDue, queueVars
<1>6. ASSUME NEW e \in co.batch, Requeue(e)
      PROVE  Traced(x)
  <2> DEFINE e1 == [e EXCEPT !.attempts = @ + 1]
             e2 == [e1 EXCEPT !.enqueued_at = clock + 1]
  <2>1. e \in Envelope /\ e.attempts + 1 \in Nat /\ clock + 1 \in Nat
    BY <1>0, EnvelopeFields DEF QueueTypeOK
  <2>2. e1 \in Envelope /\ e1.id = e.id /\ e1.enqueued_at = e.enqueued_at
    BY <2>1, EnvelopeUpdate DEF Envelope
  <2>3. e2.id = e.id /\ e2.enqueued_at = clock + 1
    BY <2>1, <2>2, EnvelopeUpdate DEF Envelope
  <2>4. CASE Enqueue(e1)
    <3>1. \/ queue' = queue \cup {e1}
          \/ queue' = queue \cup {e2} /\ clock' = clock + 1
      BY <2>4 DEF Enqueue
    <3>2. delayed' = delayed /\ inflight' = inflight
      BY <2>4 DEF Enqueue
    <3> HIDE DEF e1, e2
    <3>3. x \in queue' /\ x \notin queue
      BY <1>1, <1>2, <1>3, <3>2 DEF InPool
    <3>4. InPool(e)
      BY DEF InPool
    <3> QED
      BY <2>2, <2>3, <3>1, <3>3, <3>4 DEF Traced
  <2> QED
    BY <1>4, <1>6, <2>4 DEF Requeue, queueVars
<1>7. ASSUME NEW e \in co.batch, PushExhausted(e)
      PROVE  Traced(x)
  BY <1>4, <1>7 DEF PushExhausted, DeadLetter, queueVars
<1>8. CASE DelHash(HeldBy(co.worker))
  BY <1>0, <1>4, <1>8 DEF DelHash, DelInflight, queueVars, QueueTypeOK
<1>9. ASSUME NEW ty \in Types, ReadDue(ty)
      PROVE  Traced(x)
  BY <1>4, <1>9 DEF ReadDue
<1>10. CASE UNCHANGED queueVars
  BY <1>4, <1>10 DEF queueVars
<1> QED
  BY <1>5, <1>6, <1>7, <1>8, <1>9, <1>10
     DEF CoordinatorNext, CoStep, CoCrash, Tick, PromoteDone, ReadWorkers, SweepDone,
         ReadInflight, RequeueDone, CheckAlive, MarkExhausted, ResetOrphans, FlagDead

\* A new or redriven envelope is written after its row, and stamped.
LEMMA ApiTraced ==
  ASSUME TypeOK, ApiNext, UNCHANGED <<workerVars, co>>, NEW x, InPool(x)'
  PROVE  Traced(x) \/ (x.id \in Tasks /\ Submitting(x.id) /\ x.enqueued_at = clock')
<1>0. QueueTypeOK
  BY DEF TypeOK
<1>1. SUFFICES ASSUME ~InPool(x)
               PROVE  x.id \in Tasks /\ Submitting(x.id) /\ x.enqueued_at = clock'
  BY MovedTraced
<1>2. PICK t \in Tasks : \/ UNCHANGED queueVars
                         \/ Enqueue(NewEnvelope(t)) /\ Submitting(t)
  BY DEF ApiNext, InsertTask, SubmitTask, CancelTask, RedriveRow, RedriveEnvelope,
         Submitting
<1>3. ~UNCHANGED queueVars
  BY <1>1 DEF InPool, queueVars, workerVars
<1>4. delayed' = delayed /\ inflight' = inflight
  BY <1>2, <1>3 DEF Enqueue
<1>5. x \in queue' /\ x \notin queue
  BY <1>1, <1>4 DEF InPool, workerVars
<1>6. NewEnvelope(t).enqueued_at = 0 /\ NewEnvelope(t) \in Envelope /\ NewEnvelope(t).id = t
  BY NewEnvelopeType DEF NewEnvelope
<1>7. x = [NewEnvelope(t) EXCEPT !.enqueued_at = clock + 1] /\ clock' = clock + 1
  BY <1>2, <1>3, <1>5, <1>6 DEF Enqueue
<1>8. x.id = t /\ x.enqueued_at = clock + 1
  BY <1>0, <1>6, <1>7, EnvelopeUpdate DEF Envelope, QueueTypeOK
<1> QED
  BY <1>2, <1>3, <1>7, <1>8

\* Every envelope after a step comes from one before it, or from a request
\* whose row is written.
LEMMA Provenance ==
  ASSUME TypeOK, [Next]_vars, NEW x, InPool(x)'
  PROVE  Traced(x) \/ (x.id \in Tasks /\ Submitting(x.id) /\ x.enqueued_at = clock')
<1>1. CASE TimePasses \/ \E w \in Workers : Expire(w)
  <2>1. UNCHANGED <<queue, delayed, inflight, job, co>>
    BY <1>1 DEF TimePasses, Elapse, Expire, HeartbeatExpires, workerVars
  <2> QED
    BY <2>1, MovedTraced DEF InPool
<1>2. CASE UNCHANGED vars
  <2>1. UNCHANGED <<queue, delayed, inflight, job, co>>
    BY <1>2 DEF vars, queueVars, workerVars
  <2> QED
    BY <2>1, MovedTraced DEF InPool
<1> QED
  BY <1>1, <1>2, WorkerTraced, CoordinatorTraced, ApiTraced DEF Next
-----------------------------------------------------------------------------
(* The row comes first. *)

HasRow(t) == tasks[t].status # "absent"

\* The statements that write no outcome make no row dead.
LEMMA NoneDies ==
  ASSUME StoreTypeOK, NEW t \in Tasks,
         \/ tasks' = tasks
         \/ MarkSucceeded(t) \/ MarkRetry(t) \/ MarkCanceled(t) \/ CreateTask(t) \/ Redrive(t)
         \/ \E w \in Workers : RequeueOrphans(w) \/ MarkRunning(t, w)
  PROVE  \A u \in Tasks : tasks'[u].status = "dead" => tasks[u].status = "dead"
<1>1. SUFFICES ASSUME NEW u \in Tasks
               PROVE  tasks'[u] = tasks[u] \/ tasks'[u].status # "dead"
  BY <1>1
<1>2. tasks[u] \in Row
  BY DEF StoreTypeOK
<1>3. /\ [tasks[u] EXCEPT !.status = "queued"].status # "dead"
      /\ [tasks[u] EXCEPT !.status = "canceled"].status # "dead"
      /\ [tasks[u] EXCEPT !.status = "succeeded"].status # "dead"
      /\ [tasks[u] EXCEPT !.status = "queued", !.worker_id = NoWorker].status # "dead"
  BY <1>2 DEF Row
<1>4. CASE MarkRetry(t)
  BY <1>2, <1>4 DEF MarkRetry, StoreTypeOK, Row
<1>5. ASSUME NEW w \in Workers, RequeueOrphans(w)
      PROVE  tasks'[u] = tasks[u] \/ tasks'[u].status # "dead"
  BY <1>3, <1>5 DEF RequeueOrphans
<1>6. CASE MarkSucceeded(t) \/ MarkCanceled(t) \/ CreateTask(t)
  BY <1>3, <1>6 DEF MarkSucceeded, MarkCanceled, CreateTask, StoreTypeOK
<1>7. ASSUME NEW w \in Workers, MarkRunning(t, w)
      PROVE  tasks'[u] = tasks[u] \/ tasks'[u].status # "dead"
  BY <1>7 DEF MarkRunning, StoreTypeOK
<1>8. CASE Redrive(t)
  BY <1>8 DEF Redrive, StoreTypeOK
<1> QED
  BY <1>4, <1>5, <1>6, <1>7, <1>8

\* No statement removes a row.
LEMMA RowsStay ==
  ASSUME TypeOK, [Next]_vars
  PROVE  \A t \in Tasks : HasRow(t) => HasRow(t)'
<1>0. StoreTypeOK /\ WorkerTypeOK /\ CoordinatorTypeOK
  BY DEF TypeOK
<1>1. CASE UNCHANGED tasks
  BY <1>1 DEF HasRow
<1>2. ASSUME NEW x \in Tasks, NEW r, tasks' = [tasks EXCEPT ![x] = r], r.status # "absent"
      PROVE  \A t \in Tasks : HasRow(t) => HasRow(t)'
  BY <1>0, <1>2 DEF StoreTypeOK, HasRow
<1>3. ASSUME NEW x \in Tasks,
             \/ CreateTask(x) \/ MarkSucceeded(x) \/ MarkRetry(x) \/ MarkDead(x)
             \/ MarkCanceled(x) \/ Redrive(x) \/ \E w \in Workers : MarkRunning(x, w)
      PROVE  \A t \in Tasks : HasRow(t) => HasRow(t)'
  <2>1. tasks[x] \in Row
    BY <1>0 DEF StoreTypeOK
  <2>2. \A st : /\ [tasks[x] EXCEPT !.status = st].status = st
                /\ [tasks[x] EXCEPT !.status = st, !.worker_id = NoWorker].status = st
    BY <2>1 DEF Row
  <2>3. CASE CreateTask(x)
    BY <1>2, <2>2, <2>3 DEF CreateTask
  <2>4. CASE MarkSucceeded(x) \/ MarkDead(x)
    BY <1>2, <2>2, <2>4 DEF MarkSucceeded, MarkDead
  <2>5. CASE MarkRetry(x)
    <3>1. tasks' = [tasks EXCEPT ![x] = [tasks[x] EXCEPT !.status = "retrying",
                                                         !.worker_id = NoWorker]]
      BY <1>0, <2>5 DEF MarkRetry, StoreTypeOK
    <3> QED
      BY <1>2, <2>2, <3>1
  <2>6. CASE MarkCanceled(x)
    BY <1>1, <1>2, <2>2, <2>6 DEF MarkCanceled
  <2>7. CASE Redrive(x)
    BY <1>0, <2>7 DEF Redrive, StoreTypeOK, HasRow
  <2>8. CASE \E w \in Workers : MarkRunning(x, w)
    BY <1>0, <2>8 DEF MarkRunning, StoreTypeOK, HasRow
  <2> QED
    BY <1>3, <2>3, <2>4, <2>5, <2>6, <2>7, <2>8
<1>4. ASSUME NEW w \in Workers, RequeueOrphans(w)
      PROVE  \A t \in Tasks : HasRow(t) => HasRow(t)'
  BY <1>0, <1>4 DEF RequeueOrphans, StoreTypeOK, Row, HasRow
<1>5. CASE WorkerNext
  <2>1. PICK w \in Workers :
          \/ ProcessStep(w)
          \/ \E s \in Slots : PollStep(w, s) \/ JobStep(w, s)
    BY <1>5 DEF WorkerNext
  <2>2. CASE ProcessStep(w)
    BY <1>1, <2>2 DEF ProcessStep, Register, FirstHeartbeat, StartupError, BeatTick,
                      TouchTick, Sigterm, Leave, Crash, UpsertWorker, TouchWorker,
                      MarkWorkerDead, storeVars
  <2>3. ASSUME NEW s \in Slots, PollStep(w, s)
        PROVE  UNCHANGED tasks
    BY <2>3 DEF PollStep, LeaseTask, LeaseEmpty, LeaseError, storeVars
  <2>4. ASSUME NEW s \in Slots, JobStep(w, s)
        PROVE  \A t \in Tasks : HasRow(t) => HasRow(t)'
    <3>1. job[w][s].env.id \in Tasks
      BY <1>0, <2>4, JobEnvelope
         DEF JobStep, Unhandled, Start, Succeed, RecordSuccess, Fail, PushDead,
             RecordDead, Schedule, RecordRetry, Step, Finish
    <3> QED
      BY <1>1, <1>3, <2>4, <3>1
         DEF JobStep, Unhandled, Start, Succeed, RecordSuccess, Fail, PushDead,
             RecordDead, Schedule, RecordRetry, storeVars
  <2> QED
    BY <1>1, <2>1, <2>2, <2>3, <2>4
<1>6. CASE CoordinatorNext
  <2>1. CASE MarkExhausted
    <3>1. co.dead \in Tasks
      BY <1>0, <2>1 DEF MarkExhausted, At, CoordinatorTypeOK
    <3> QED
      BY <1>1, <1>3, <2>1, <3>1 DEF MarkExhausted, storeVars
  <2>2. CASE ResetOrphans
    <3>1. co.worker \in Workers
      BY <1>0, <2>2 DEF ResetOrphans, At, CoordinatorTypeOK
    <3> QED
      BY <1>1, <1>4, <2>2, <3>1 DEF ResetOrphans, storeVars
  <2>3. CASE FlagDead
    BY <1>1, <2>3 DEF FlagDead, MarkWorkerDead, storeVars
  <2> QED
    BY <1>1, <1>6, <2>1, <2>2, <2>3
       DEF CoordinatorNext, CoStep, CoCrash, Tick, MoveDue, PromoteDone, ReadDue,
           ReadWorkers, SweepDone, ReadInflight, RequeueDone, CheckAlive, DelHash,
           Requeue, PushExhausted, storeVars
<1>7. CASE ApiNext
  BY <1>1, <1>3, <1>7 DEF ApiNext, InsertTask, SubmitTask, CancelTask, RedriveRow,
                          RedriveEnvelope, storeVars
<1>8. CASE TimePasses \/ (\E w \in Workers : Expire(w)) \/ UNCHANGED vars
  BY <1>1, <1>8 DEF TimePasses, Expire, storeVars, vars
<1> QED
  BY <1>5, <1>6, <1>7, <1>8 DEF Next

\* Every envelope, the task the coordinator buries, and every request between
\* its two commands has a row.
Rows ==
  /\ \A x : InPool(x) => HasRow(x.id)
  /\ co.pc = "mark" => HasRow(co.dead)
  /\ \A t \in Tasks : Submitting(t) => HasRow(t)

\* The task the coordinator buries was in its batch.
LEMMA BuriedFromBatch ==
  ASSUME TypeOK, [Next]_vars, co'.pc = "mark"
  PROVE  (co.pc = "mark" /\ co'.dead = co.dead) \/ co'.dead \in Ids(co.batch)
<1>0. CoordinatorTypeOK
  BY DEF TypeOK
<1>1. CASE UNCHANGED co
  BY <1>1
<1>2. ASSUME CoordinatorNext, co' # co
      PROVE  co'.dead \in Ids(co.batch)
  <2>1. ASSUME NEW e \in co.batch, PushExhausted(e)
        PROVE  co'.dead \in Ids(co.batch)
    BY <1>0, <2>1 DEF PushExhausted, CoordinatorTypeOK, Ids
  <2>2. ASSUME NEW e \in co.batch, Requeue(e)
        PROVE  FALSE
    BY <1>0, <2>2 DEF Requeue, At, CoordinatorTypeOK
  <2>3. ~(Tick \/ MoveDue \/ PromoteDone \/ RequeueDone)
    BY <1>0 DEF Tick, MoveDue, PromoteDone, RequeueDone, CoordinatorTypeOK
  <2>4. ~(DelHash(HeldBy(co.worker)) \/ MarkExhausted \/ ResetOrphans \/ FlagDead)
    BY <1>0 DEF DelHash, MarkExhausted, ResetOrphans, FlagDead, CoordinatorTypeOK
  <2>5. ~(\E ty \in Types : ReadDue(ty))
    BY <1>0 DEF ReadDue, At, CoordinatorTypeOK
  <2>6. ~(\E w \in Workers : CheckAlive(w)) /\ ~ReadInflight
    BY <1>0 DEF CheckAlive, ReadInflight, At, CoordinatorTypeOK
  <2>7. ~(ReadWorkers \/ SweepDone \/ CoCrash)
    <3>1. co' # CoStart
      BY DEF CoStart
    <3>2. ~ReadWorkers
      BY <1>0, <3>1 DEF ReadWorkers, CoordinatorTypeOK
    <3> QED
      BY <3>1, <3>2 DEF SweepDone, CoCrash
  <2> QED
    BY <1>2, <2>1, <2>2, <2>3, <2>4, <2>5, <2>6, <2>7 DEF CoordinatorNext, CoStep
<1> QED
  BY <1>1, <1>2 DEF Next, TimePasses, Expire, vars

\* Every step keeps a row for every envelope: rows are never deleted.
LEMMA RowsStep ==
  ASSUME TypeOK, Rows, [Next]_vars
  PROVE  Rows'
<1>0. ApiTypeOK /\ StoreTypeOK /\ CoordinatorTypeOK
  BY DEF TypeOK
<1>1. ASSUME NEW x, InPool(x)'
      PROVE  HasRow(x.id)'
  <2>1. x.id \in Tasks
    BY <1>1, Provenance, PoolType DEF Traced
  <2>2. HasRow(x.id)
    BY <1>1, <2>1, Provenance DEF Traced, Rows
  <2> QED
    BY <2>1, <2>2, RowsStay
<1>2. ASSUME co'.pc = "mark"
      PROVE  tasks'[co'.dead].status # "absent"
  <2>1. tasks[co'.dead].status # "absent"
    BY <1>2, BuriedFromBatch DEF Rows, InPool, Ids, HasRow
  <2>2. co'.dead \in Tasks
    <3>1. CoordinatorTypeOK'
      BY NextType DEF TypeOK
    <3> QED
      BY <1>2, <3>1 DEF CoordinatorTypeOK
  <2> QED
    BY <2>1, <2>2, RowsStay DEF HasRow
<1>3. ASSUME NEW t \in Tasks, Submitting(t)'
      PROVE  HasRow(t)'
  <2>1. CASE Submitting(t)
    BY <2>1, RowsStay DEF Rows
  <2>2. CASE ApiNext
    <3>1. PICK x \in Tasks : \/ InsertTask(x) \/ SubmitTask(x) \/ CancelTask(x)
                             \/ RedriveRow(x) \/ RedriveEnvelope(x)
      BY <2>2 DEF ApiNext
    <3>2. SUFFICES ASSUME ~Submitting(t)
                   PROVE  HasRow(t)'
      BY <2>1
    <3>3. x = t /\ (InsertTask(x) \/ RedriveRow(x))
      BY <1>0, <1>3, <3>1, <3>2
         DEF InsertTask, SubmitTask, CancelTask, RedriveRow, RedriveEnvelope, Answer,
             Submitting, ApiTypeOK
    <3>4. CASE InsertTask(x)
      <4>1. CreateTask(t)
        BY <1>0, <1>3, <3>3, <3>4 DEF InsertTask, Answer, Submitting, ApiTypeOK
      <4>2. tasks[t] \in Row
        BY <1>0 DEF StoreTypeOK
      <4> QED
        BY <1>0, <4>1, <4>2 DEF CreateTask, HasRow, StoreTypeOK, Row
    <3>5. CASE RedriveRow(x)
      BY <1>0, <3>3, <3>5 DEF RedriveRow, Redrive, HasRow, StoreTypeOK
    <3> QED
      BY <3>3, <3>4, <3>5
  <2>3. CASE UNCHANGED api
    BY <1>3, <2>1, <2>3 DEF Submitting
  <2> QED
    BY <2>2, <2>3 DEF Next, CoordinatorNext, TimePasses, Expire, vars
<1> QED
  BY <1>1, <1>2, <1>3 DEF Rows, HasRow

\* A task is persisted before it is enqueued: no envelope is anywhere, in any
\* process or in Redis, without the row the statements of its worker update.
THEOREM RowsFirst == Spec => []RowBeforeEnvelope
<1> DEFINE Inv == TypeOK /\ Rows
<1>1. Init => Inv
  <2> SUFFICES ASSUME Init
               PROVE  Rows
    BY InitType
  <2> QED
    BY DEF Init, QueueInit, WorkerInit, IdleJob, CoStart, ApiInit, Rows, InPool,
           Submitting
<1>2. Inv /\ [Next]_vars => Inv'
  BY NextType, RowsStep
<1>3. Inv => RowBeforeEnvelope
  <2> SUFFICES ASSUME TypeOK, Rows, NEW t \in Tasks, InRedis(t) \/ InHand(t)
               PROVE  HasRow(t)
    BY DEF RowBeforeEnvelope, HasRow, NoRow
  <2>1. CASE InRedis(t)
    BY <2>1 DEF InRedis, Ids, Rows, InPool
  <2>2. CASE \E w \in Workers : t \in HeldBy(w)
    BY <2>2 DEF HeldBy, Holding, Rows, InPool
  <2>3. CASE t \in CoHolds
    <3>1. t \in Ids(co.batch) \/ (co.pc = "mark" /\ t = co.dead)
      BY <2>3 DEF CoHolds
    <3> QED
      BY <3>1 DEF Ids, Rows, InPool
  <2> QED
    BY <2>1, <2>2, <2>3 DEF InHand
<1> QED
  BY <1>1, <1>2, <1>3, PTL DEF Spec
-----------------------------------------------------------------------------
(* The order of leases. *)

\* The band a priority is clamped to.
Band(e) ==
  LET p == Request[e.id].priority
  IN IF p \in 0 .. 9 THEN p ELSE IF p < 0 THEN 0 ELSE 9

\* The score packs the clamped priority and the stamp (priorityScore, queue.go 82).
LEMMA BandScore ==
  ASSUME NEW e \in Envelope
  PROVE  /\ Band(e) \in 0 .. 9
         /\ Score(e) = Band(e) * ScoreWeight + e.enqueued_at
<1>1. Request[e.id].priority \in Int
  BY TaskAssumption, EnvelopeFields
<1> QED
  BY <1>1 DEF Band, Score, priorityScore

\* While the time is smaller than the distance between two priorities, the
\* packed score orders envelopes like the pair it packs.
LEMMA ScoreOrders ==
  ASSUME NEW x \in Envelope, NEW e \in Envelope, x.enqueued_at < ScoreWeight,
         MoreUrgent(x, e)
  PROVE  Score(x) < Score(e)
<1>1. ScoreWeight \in Nat /\ x.enqueued_at \in Nat /\ e.enqueued_at \in Nat
  BY QueueAssumption, EnvelopeFields
<1>2. \/ Band(x) < Band(e)
      \/ Band(x) = Band(e) /\ x.enqueued_at < e.enqueued_at
  BY DEF MoreUrgent, Band
<1>3. PICK i \in 0 .. 9 : i = Band(x) /\ Score(x) = i * ScoreWeight + x.enqueued_at
  BY BandScore
<1>4. PICK j \in 0 .. 9 : j = Band(e) /\ Score(e) = j * ScoreWeight + e.enqueued_at
  BY BandScore
<1>5. CASE i < j
  <2>1. (i + 1) * ScoreWeight <= j * ScoreWeight
    BY <1>1, <1>5
  <2>2. (i + 1) * ScoreWeight = i * ScoreWeight + ScoreWeight
    BY <1>1
  <2> QED
    BY <1>1, <1>3, <1>4, <2>1, <2>2
<1>6. CASE i = j /\ x.enqueued_at < e.enqueued_at
  BY <1>1, <1>3, <1>4, <1>6
<1> QED
  BY <1>2, <1>3, <1>4, <1>5, <1>6

\* No time lies in the future.
Stamped ==
  /\ \A x : InPool(x) => x.enqueued_at <= clock
  /\ co.now <= clock

\* The clock does not go back, and the time the coordinator keeps was read
\* from it.
LEMMA ClockAdvances ==
  ASSUME TypeOK, co.now <= clock, [Next]_vars
  PROVE  clock <= clock' /\ co'.now <= clock'
<1>0. clock \in Nat /\ CoordinatorTypeOK /\ co.now \in Nat
  BY DEF TypeOK, QueueTypeOK, CoordinatorTypeOK
<1>1. CASE UNCHANGED <<clock, co>>
  BY <1>0, <1>1
<1>2. CASE WorkerNext /\ UNCHANGED <<co, api>>
  <2>1. UNCHANGED clock
    <3>1. ASSUME NEW w \in Workers, ProcessStep(w)
          PROVE  UNCHANGED clock
      BY <3>1 DEF ProcessStep, Register, FirstHeartbeat, StartupError, BeatTick,
                  TouchTick, Sigterm, Leave, Crash, Heartbeat, queueVars
    <3>2. ASSUME NEW w \in Workers, NEW s \in Slots, PollStep(w, s)
          PROVE  UNCHANGED clock
      BY <3>2 DEF PollStep, LeaseTask, LeaseEmpty, LeaseError, Lease, queueVars
    <3>3. ASSUME NEW w \in Workers, NEW s \in Slots, JobStep(w, s)
          PROVE  UNCHANGED clock
      BY <3>3 DEF JobStep, Unhandled, Start, Succeed, RecordSuccess, Fail, PushDead,
                  RecordDead, Schedule, RecordRetry, Ack, Nack, DeadLetter,
                  EnqueueDelayed, queueVars
    <3> QED
      BY <1>2, <3>1, <3>2, <3>3 DEF WorkerNext
  <2> QED
    BY <1>1, <1>2, <2>1
<1>3. CASE ApiNext /\ UNCHANGED <<workerVars, co>>
  <2>1. clock' \in {clock, clock + 1}
    BY <1>3 DEF ApiNext, InsertTask, SubmitTask, CancelTask, RedriveRow, RedriveEnvelope,
                Enqueue, queueVars
  <2> QED
    BY <1>0, <1>3, <2>1
<1>4. CASE CoordinatorNext
  <2>1. ASSUME NEW ty \in Types, ReadDue(ty)
        PROVE  clock <= clock' /\ co'.now <= clock'
    <3>1. CASE UNCHANGED clock /\ co' = [co EXCEPT !.types = @ \ {ty}]
      BY <1>0, <3>1 DEF CoordinatorTypeOK
    <3>2. CASE \E b : /\ clock' = clock + 1
                      /\ co' = [co EXCEPT !.pc = "exec", !.types = @ \ {ty},
                                          !.batch = b, !.now = clock + 1]
      <4>1. co'.now = clock + 1
        BY <1>0, <3>2 DEF CoordinatorTypeOK
      <4> QED
        BY <1>0, <3>2, <4>1
    <3> QED
      BY <2>1, <3>1, <3>2 DEF ReadDue
  <2>2. ASSUME NEW e \in co.batch, Requeue(e)
        PROVE  clock <= clock' /\ co'.now <= clock'
    <3>1. co'.now = co.now
      BY <1>0, <2>2 DEF Requeue, CoordinatorTypeOK
    <3>2. clock' \in {clock, clock + 1}
      BY <2>2 DEF Requeue, Enqueue, queueVars
    <3> QED
      BY <1>0, <3>1, <3>2
  <2>3. ASSUME UNCHANGED clock, co'.now \in {0, co.now}
        PROVE  clock <= clock' /\ co'.now <= clock'
    BY <1>0, <2>3
  <2>4. CASE MoveDue
    BY <1>0, <2>3, <2>4 DEF MoveDue, Promote, queueVars, CoordinatorTypeOK
  <2>5. CASE Tick \/ PromoteDone \/ RequeueDone \/ DelHash(HeldBy(co.worker))
    BY <1>0, <2>3, <2>5 DEF Tick, PromoteDone, RequeueDone, DelHash, DelInflight, queueVars,
                            CoordinatorTypeOK
  <2>6. CASE MarkExhausted \/ ResetOrphans \/ FlagDead \/ ReadInflight
    BY <1>0, <2>3, <2>6 DEF MarkExhausted, ResetOrphans, FlagDead, ReadInflight, queueVars,
                            CoordinatorTypeOK
  <2>7. CASE \E w \in Workers : CheckAlive(w)
    BY <1>0, <2>3, <2>7 DEF CheckAlive, queueVars, CoordinatorTypeOK
  <2>8. CASE co' = CoStart /\ UNCHANGED clock
    BY <2>3, <2>8 DEF CoStart
  <2>9. CASE ReadWorkers
    <3>1. CASE co' = [co EXCEPT !.pc = "sweep",
                                !.todo = {w \in ListWorkers : workers[w] # "dead"}]
      BY <1>0, <2>3, <2>9, <3>1 DEF ReadWorkers, queueVars, CoordinatorTypeOK
    <3> QED
      BY <2>8, <2>9, <3>1 DEF ReadWorkers, queueVars
  <2>10. ASSUME NEW e \in co.batch, PushExhausted(e)
         PROVE  clock <= clock' /\ co'.now <= clock'
    BY <1>0, <2>3, <2>10 DEF PushExhausted, DeadLetter, queueVars, CoordinatorTypeOK
  <2> QED
    BY <1>4, <2>1, <2>2, <2>4, <2>5, <2>6, <2>7, <2>8, <2>9, <2>10
       DEF CoordinatorNext, CoStep, SweepDone, CoCrash, queueVars
<1>5. CASE TimePasses \/ (\E w \in Workers : Expire(w)) \/ UNCHANGED vars
  BY <1>1, <1>5 DEF TimePasses, Elapse, Expire, HeartbeatExpires, vars, queueVars
<1> QED
  BY <1>2, <1>3, <1>4, <1>5 DEF Next

\* No step makes a stamp that is later than the clock.
LEMMA StampedStep ==
  ASSUME TypeOK, Stamped, [Next]_vars
  PROVE  Stamped'
<1>0. clock \in Nat /\ co.now \in Nat
  BY DEF TypeOK, QueueTypeOK, CoordinatorTypeOK
<1>1. clock' \in Nat
  BY NextType DEF TypeOK, QueueTypeOK
<1>2. clock <= clock' /\ co'.now <= clock'
  BY ClockAdvances DEF Stamped
<1>3. ASSUME NEW x, InPool(x)'
      PROVE  x.enqueued_at <= clock'
  <2>1. CASE Traced(x)
    <3>1. PICK e : /\ InPool(e)
                   /\ x.enqueued_at \in {e.enqueued_at, clock', co.now}
      BY <2>1 DEF Traced
    <3>2. e.enqueued_at \in Nat /\ e.enqueued_at <= clock /\ co.now <= clock
      BY <3>1, PoolType DEF Stamped
    <3> QED
      BY <1>0, <1>1, <1>2, <3>1, <3>2
  <2> QED
    BY <1>1, <1>3, <2>1, Provenance
<1> QED
  BY <1>2, <1>3 DEF Stamped

\* Only the lease script moves a member of the queue into a hash, and it takes
\* one with the lowest score of its type.
LEMMA LeaseTakesMin ==
  ASSUME TypeOK, [Next]_vars, NEW w \in Workers, NEW e \in inflight'[w],
         e \notin inflight[w]
  PROVE  \E ty : e \in PopMin(ty)
<1>0. QueueTypeOK /\ WorkerTypeOK /\ CoordinatorTypeOK
  BY DEF TypeOK
<1>1. ASSUME \A v \in Workers : inflight'[v] \subseteq inflight[v]
      PROVE  FALSE
  BY <1>1
<1>2. ASSUME NEW v \in Workers, NEW s \in Slots, PollStep(v, s)
      PROVE  \E ty : e \in PopMin(ty)
  <2>1. CASE UNCHANGED queueVars
    BY <1>1, <2>1 DEF queueVars
  <2>2. ASSUME NEW ty, NEW f \in queue, Lease(ty, v, f)
        PROVE  e \in PopMin(ty)
    <3>1. inflight'[w] \subseteq inflight[w] \cup {f}
      BY <1>0, <2>2 DEF Lease, HSet, QueueTypeOK
    <3> QED
      BY <2>2, <3>1 DEF Lease
  <2> QED
    BY <1>2, <2>1, <2>2 DEF PollStep, LeaseTask, LeaseEmpty, LeaseError
<1>3. ASSUME NEW v \in Workers, NEW s \in Slots, JobStep(v, s)
      PROVE  FALSE
  <2>1. CASE Unhandled(v, s) \/ Succeed(v, s) \/ Fail(v, s)
    BY <1>0, <1>1, <2>1 DEF Unhandled, Succeed, Fail, Nack, Ack, HDel, queueVars,
                            QueueTypeOK
  <2>2. CASE UNCHANGED inflight
    BY <1>1, <2>2
  <2> QED
    BY <1>3, <2>1, <2>2
       DEF JobStep, Start, RecordSuccess, PushDead, RecordDead, Schedule, RecordRetry,
           EnqueueDelayed, DeadLetter, queueVars
<1>4. ASSUME NEW v \in Workers, ProcessStep(v)
      PROVE  FALSE
  BY <1>1, <1>4 DEF ProcessStep, Register, FirstHeartbeat, StartupError, BeatTick,
                    TouchTick, Sigterm, Leave, Crash, Heartbeat, queueVars
<1>5. CASE CoordinatorNext
  <2>1. CASE DelHash(HeldBy(co.worker))
    BY <1>0, <1>1, <2>1 DEF DelHash, DelInflight, queueVars, QueueTypeOK
  <2>2. UNCHANGED inflight \/ DelHash(HeldBy(co.worker))
    BY <1>5 DEF CoordinatorNext, CoStep, CoCrash, Tick, MoveDue, PromoteDone, ReadDue,
                ReadWorkers, SweepDone, ReadInflight, RequeueDone, CheckAlive,
                Requeue, PushExhausted, MarkExhausted, ResetOrphans, FlagDead,
                Promote, Enqueue, DeadLetter, queueVars
  <2> QED
    BY <1>1, <2>1, <2>2
<1>6. CASE ApiNext
  BY <1>1, <1>6 DEF ApiNext, InsertTask, SubmitTask, CancelTask, RedriveRow,
                    RedriveEnvelope, Enqueue, queueVars
<1>7. CASE TimePasses \/ (\E v \in Workers : Expire(v)) \/ UNCHANGED vars
  BY <1>1, <1>7 DEF TimePasses, Elapse, Expire, HeartbeatExpires, vars, queueVars
<1> QED
  BY <1>2, <1>3, <1>4, <1>5, <1>6, <1>7 DEF Next, WorkerNext

\* As long as the clock is smaller than the weight of a priority (10^13 ms in
\* the code, the year 2286), a lease takes the most urgent ready task of its
\* type, whatever retries, promotions, reclaims and redrives came before.
THEOREM LeaseOrder == Spec /\ [](clock < ScoreWeight) => LeasesMostUrgent
<1> DEFINE Inv == TypeOK /\ Stamped
           Urgent == \A w \in Workers : \A e \in (inflight'[w] \ inflight[w]) \cap queue :
                       ~\E x \in OfType(queue, TypeOf(e.id)) : MoreUrgent(x, e)
<1>1. Init => Inv
  <2> SUFFICES ASSUME Init
               PROVE  Stamped
    BY InitType
  <2> QED
    BY DEF Init, QueueInit, WorkerInit, IdleJob, CoStart, Stamped, InPool
<1>2. Inv /\ [Next]_vars => Inv'
  BY NextType, StampedStep
<1>3. Inv /\ clock < ScoreWeight /\ [Next]_vars => [Urgent]_vars
  <2> SUFFICES ASSUME TypeOK, Stamped, clock < ScoreWeight, [Next]_vars,
                      NEW w \in Workers, NEW e \in (inflight'[w] \ inflight[w]) \cap queue,
                      NEW x \in OfType(queue, TypeOf(e.id)), MoreUrgent(x, e)
               PROVE  FALSE
    OBVIOUS
  <2>1. PICK ty : e \in PopMin(ty)
    BY LeaseTakesMin
  <2>2. x \in queue /\ Score(e) <= Score(x)
    BY <2>1 DEF PopMin, OfType
  <2>3. x \in Envelope /\ e \in Envelope /\ clock \in Nat /\ ScoreWeight \in Nat
    BY <2>2, QueueAssumption DEF TypeOK, QueueTypeOK
  <2>4. x.enqueued_at \in Nat /\ x.enqueued_at <= clock
    BY <2>2, <2>3, EnvelopeFields DEF Stamped, InPool
  <2>5. Score(x) < Score(e)
    BY <2>3, <2>4, ScoreOrders
  <2>6. Score(x) \in Int /\ Score(e) \in Int
    BY <2>3, BandScore, EnvelopeFields
  <2> QED
    BY <2>2, <2>5, <2>6
<1> QED
  BY <1>1, <1>2, <1>3, PTL DEF Spec, LeasesMostUrgent
-----------------------------------------------------------------------------
(***************************************************************************)
(* Delivery: Accounted.  A task leaves the places where it is safe (an     *)
(* outcome, Redis, the hands of a live process) only through one of the    *)
(* windows in which a process lets go of it.                               *)
(*                                                                         *)
(* No step but a redrive takes a task out of Safe: each command that       *)
(* removes a copy is sent by a process that has put another one elsewhere, *)
(* holds one itself, or is recorded in dropped.                            *)
(***************************************************************************)

Safe(t) == t \in settled \/ t \in dropped \/ InRedis(t) \/ InHand(t)

\* A task is in Ids(S) exactly when an element of S carries its id.
LEMMA IdsElement ==
  ASSUME NEW S, NEW t
  PROVE  t \in Ids(S) <=> \E e \in S : e.id = t
BY DEF Ids
-----------------------------------------------------------------------------
(* Redis commands. *)

\* Enqueue removes no copy of any task, and adds one.
LEMMA EnqueueKeeps ==
  ASSUME QueueTypeOK, NEW e \in Envelope, Enqueue(e)
  PROVE  /\ \A t : InRedis(t) => InRedis(t)'
         /\ InRedis(e.id)'
<1> DEFINE stamped == [e EXCEPT !.enqueued_at = clock + 1]
<1>1. clock + 1 \in Nat
  BY DEF QueueTypeOK
<1>2. stamped.id = e.id
  BY <1>1, EnvelopeUpdate
<1>3. queue \subseteq queue' /\ (stamped \in queue' \/ e \in queue')
  BY DEF Enqueue
<1> HIDE DEF stamped
<1>4. e.id \in Ids(queue')
  BY <1>2, <1>3 DEF Ids
<1>5. Ids(queue) \subseteq Ids(queue')
  BY <1>3 DEF Ids
<1> QED
  BY <1>4, <1>5 DEF InRedis, Ids, Enqueue

\* EnqueueDelayed removes no copy, and adds one.
LEMMA EnqueueDelayedKeeps ==
  ASSUME NEW e, EnqueueDelayed(e)
  PROVE  /\ \A t : InRedis(t) => InRedis(t)'
         /\ InRedis(e.id)'
BY DEF EnqueueDelayed, InRedis, Ids

\* The lease moves a copy into the hash, over an older one of the same task.
LEMMA LeaseKeeps ==
  ASSUME QueueTypeOK, NEW ty, NEW w \in Workers, NEW e \in queue, Lease(ty, w, e)
  PROVE  \A t : InRedis(t) => InRedis(t)'
<1>1. inflight'[w] = {x \in inflight[w] : x.id # e.id} \cup {e}
  BY DEF QueueTypeOK, Lease, HSet
<1>2. \A v \in Workers : v # w => inflight'[v] = inflight[v]
  BY DEF QueueTypeOK, Lease
<1>3. Ids(inflight[w]) \subseteq Ids(inflight'[w]) /\ e.id \in Ids(inflight'[w])
  BY <1>1 DEF Ids
<1>4. ASSUME NEW t \in Ids(queue)
      PROVE  t \in Ids(queue') \/ t = e.id
  BY DEF Ids, Lease
<1>5. delayed' = delayed
  BY DEF Lease
<1> QED
  BY <1>2, <1>3, <1>4, <1>5 DEF InRedis

\* Ack and Nack remove no copy but that of the task they name.
LEMMA AckKeeps ==
  ASSUME QueueTypeOK, NEW w \in Workers, NEW x, Ack(w, x)
  PROVE  \A t : InRedis(t) /\ t # x => InRedis(t)'
<1>1. inflight'[w] = {y \in inflight[w] : y.id # x}
  BY DEF QueueTypeOK, Ack, HDel
<1>2. \A v \in Workers : v # w => inflight'[v] = inflight[v]
  BY DEF QueueTypeOK, Ack
<1>3. \A t : t \in Ids(inflight[w]) /\ t # x => t \in Ids(inflight'[w])
  BY <1>1 DEF Ids
<1>4. delayed' = delayed /\ queue' = queue
  BY DEF Ack
<1> QED
  BY <1>2, <1>3, <1>4 DEF InRedis

\* The DEL removes no copy but those in the hash it deletes.
LEMMA DelInflightKeeps ==
  ASSUME QueueTypeOK, NEW w \in Workers, DelInflight(w)
  PROVE  \A t : InRedis(t) => InRedis(t)' \/ t \in Ids(inflight[w])
<1>1. \A v \in Workers : v # w => inflight'[v] = inflight[v]
  BY DEF QueueTypeOK, DelInflight
<1>2. delayed' = delayed /\ queue' = queue
  BY DEF DelInflight
<1> QED
  BY <1>1, <1>2 DEF InRedis

\* PromoteDelayed replaces each copy it removes.
LEMMA PromoteKeeps ==
  ASSUME QueueTypeOK, NEW batch \in SUBSET Envelope, NEW now \in Nat,
         Promote(batch, now)
  PROVE  \A t : InRedis(t) => InRedis(t)'
<1> DEFINE stamped(e) == [e EXCEPT !.enqueued_at = now]
<1>1. \A e \in batch : stamped(e).id = e.id
  BY EnvelopeUpdate
<1>2. queue' = queue \cup {stamped(e) : e \in batch}
  BY DEF Promote
<1> HIDE DEF stamped
<1>3. \A e \in batch : e.id \in Ids(queue')
  BY <1>1, <1>2 DEF Ids
<1>4. Ids(queue) \subseteq Ids(queue')
  BY <1>2 DEF Ids
<1>5. \A t : t \in Ids(delayed) => t \in Ids(delayed') \/ t \in Ids(queue')
  BY <1>3 DEF Promote, Ids
<1>6. inflight' = inflight
  BY DEF Promote
<1> QED
  BY <1>4, <1>5, <1>6 DEF InRedis

\* The other commands remove no copy.
LEMMA OthersKeep ==
  ASSUME \/ UNCHANGED queueVars
         \/ \E w \in Workers : Heartbeat(w) \/ HeartbeatExpires(w)
         \/ \E e \in Envelope : DeadLetter(e)
         \/ \E e \in delayed : Elapse(e)
  PROVE  \A t : InRedis(t) => InRedis(t)'
<1>1. queue' = queue /\ delayed' = delayed /\ inflight' = inflight
  BY DEF queueVars, Heartbeat, HeartbeatExpires, DeadLetter, Elapse
<1> QED
  BY <1>1 DEF InRedis
-----------------------------------------------------------------------------
(* What the workers hold. *)

\* What it means for a worker to hold a task.
LEMMA HeldByElement ==
  ASSUME NEW w, NEW t
  PROVE  t \in HeldBy(w) <=> \E s \in Slots : job[w][s].pc \in Holding
                                              /\ job[w][s].env.id = t
BY DEF HeldBy

\* Changing one slot loses at most the task of that slot, and not even that
\* one if the job goes on holding it.
LEMMA SetJobHolds ==
  ASSUME WorkerTypeOK, NEW w \in Workers, NEW s \in Slots, NEW j,
         job' = [job EXCEPT ![w][s] = j]
  PROVE  /\ \A v \in Workers : \A t \in HeldBy(v) :
              \/ t \in HeldBy(v)'
              \/ v = w /\ t = job[w][s].env.id /\ job[w][s].pc \in Holding
         /\ j.pc \in Holding => j.env.id \in HeldBy(w)'
<1>1. \A v \in Workers, r \in Slots : job'[v][r] = IF v = w /\ r = s THEN j ELSE job[v][r]
  BY DEF WorkerTypeOK
<1> QED
  BY <1>1 DEF HeldBy

\* The end of one process takes nothing out of the hands of another.
LEMMA HaltHolds ==
  ASSUME WorkerTypeOK, NEW w \in Workers, Halt(w)
  PROVE  \A v \in Workers : v # w => HeldBy(v)' = HeldBy(v)
<1>1. \A v \in Workers : v # w => job'[v] = job[v]
  BY DEF WorkerTypeOK, Halt
<1> QED
  BY <1>1 DEF HeldBy

\* The step of a job: what becomes of the task in its slot decides.
LEMMA JobKeeps ==
  ASSUME TypeOK, NEW w \in Workers, NEW s \in Slots, JobStep(w, s), UNCHANGED co
  PROVE  \A t : Safe(t) => Safe(t)'
<1>x. PICK x : x = job[w][s].env.id
  OBVIOUS
<1> USE <1>x
<1>0. QueueTypeOK /\ WorkerTypeOK
  BY DEF TypeOK
<1>a. job[w][s].pc # "idle"
  BY DEF JobStep, Unhandled, Start, Succeed, RecordSuccess, Fail, PushDead,
         RecordDead, Schedule, RecordRetry, Step, Finish
<1>b. job[w][s].env \in Envelope /\ job[w][s].env.attempts + 1 \in Nat
  BY <1>0, <1>a, JobEnvelope
<1>c. CoHolds' = CoHolds
  BY DEF CoHolds
<1>d. \A t : t \in settled \/ t \in dropped => t \in settled' \/ t \in dropped'
  BY DEF JobStep, Unhandled, Start, Succeed, RecordSuccess, Fail, PushDead,
         RecordDead, Schedule, RecordRetry, Settle, Abandon, ledger
\* Only the task of the slot is in question.
<1>e. PICK j : job' = [job EXCEPT ![w][s] = j]
  BY DEF JobStep, Unhandled, Start, Succeed, RecordSuccess, Fail, PushDead,
         RecordDead, Schedule, RecordRetry, Step, Finish
<1>i. /\ \A v \in Workers : \A t \in HeldBy(v) :
           \/ t \in HeldBy(v)'
           \/ v = w /\ t = job[w][s].env.id /\ job[w][s].pc \in Holding
      /\ j.pc \in Holding => j.env.id \in HeldBy(w)'
  BY <1>0, <1>e, SetJobHolds
<1>f. \A t : InHand(t) /\ t # x => InHand(t)'
  BY <1>0, <1>c, <1>e, SetJobHolds DEF InHand
<1>g. \A t : InRedis(t) /\ t # x => InRedis(t)'
  <2>1. CASE Unhandled(w, s) \/ Succeed(w, s)
    BY <1>0, <2>1, AckKeeps, OthersKeep DEF Unhandled, Succeed, Nack
  <2>2. CASE Fail(w, s)
    <3>1. [job[w][s].env EXCEPT !.attempts = @ + 1].id = x
      BY <1>b, EnvelopeUpdate
    <3> QED
      BY <1>0, <2>2, <3>1, AckKeeps, OthersKeep DEF Fail, Nack
  <2>3. CASE PushDead(w, s)
    BY <1>b, <2>3, OthersKeep DEF PushDead
  <2>4. CASE Schedule(w, s)
    BY <2>4, EnqueueDelayedKeeps, OthersKeep DEF Schedule
  <2>5. CASE Start(w, s) \/ RecordSuccess(w, s) \/ RecordDead(w, s) \/ RecordRetry(w, s)
    BY <2>5, OthersKeep DEF Start, RecordSuccess, RecordDead, RecordRetry
  <2> QED
    BY <2>1, <2>2, <2>3, <2>4, <2>5 DEF JobStep
<1>h. Safe(x) => Safe(x)'
  <2>1. ASSUME NEW pc, NEW next \in Holding, NEW e, e.id = x, Step(w, s, pc, next, e)
        PROVE  Safe(x)'
    <3>1. job' = [job EXCEPT ![w][s] = [pc |-> next, env |-> e]]
      BY <2>1 DEF Step
    <3>2. j = [pc |-> next, env |-> e]
      BY <1>0, <1>e, <3>1 DEF WorkerTypeOK
    <3>3. x \in HeldBy(w)'
      BY <1>i, <2>1, <3>2
    <3> QED
      BY <3>3 DEF Safe, InHand
  <2>2. CASE Unhandled(w, s) \/ Start(w, s) \/ PushDead(w, s)
    BY <2>1, <2>2 DEF Unhandled, Start, PushDead, Holding
  <2>3. CASE Fail(w, s)
    <3>1. [job[w][s].env EXCEPT !.attempts = @ + 1].id = x
      BY <1>b, EnvelopeUpdate
    <3> QED
      BY <2>1, <2>3, <3>1 DEF Fail, Holding
  <2>4. CASE Succeed(w, s)
    BY <2>4 DEF Succeed, Settle, Safe
  <2>5. CASE RecordDead(w, s)
    <3>1. CASE Settle(x)
      BY <3>1 DEF Settle, Safe
    <3>2. CASE Abandon(w, x)
      <4>1. inflight' = inflight
        BY <2>5 DEF RecordDead, queueVars
      <4>2. x \in Ids(inflight[w]) => InRedis(x)'
        BY <4>1 DEF InRedis
      <4> QED
        BY <3>2, <4>2 DEF Abandon, Safe
    <3> QED
      BY <2>5, <3>1, <3>2 DEF RecordDead
  <2>6. CASE Schedule(w, s)
    <3>1. CASE EnqueueDelayed(job[w][s].env)
      BY <3>1, EnqueueDelayedKeeps DEF Safe
    <3>2. CASE UNCHANGED queueVars /\ Abandon(w, x)
      <4>1. x \in Ids(inflight[w]) => InRedis(x)'
        BY <3>2 DEF InRedis, queueVars
      <4> QED
        BY <3>2, <4>1 DEF Abandon, Safe
    <3> QED
      BY <2>6, <3>1, <3>2 DEF Schedule
  <2>7. CASE RecordSuccess(w, s) \/ RecordRetry(w, s)
    <3>1. job[w][s].pc \notin Holding
      BY <2>7 DEF RecordSuccess, RecordRetry, Finish, Holding
    <3>2. InHand(x) => InHand(x)'
      <4>1. \A v \in Workers : x \in HeldBy(v) => x \in HeldBy(v)'
        BY <1>i, <3>1
      <4> QED
        BY <1>c, <4>1 DEF InHand
    <3>3. InRedis(x) => InRedis(x)'
      BY <2>7, OthersKeep DEF RecordSuccess, RecordRetry
    <3> QED
      BY <1>d, <3>2, <3>3 DEF Safe
  <2> QED
    BY <2>2, <2>3, <2>4, <2>5, <2>6, <2>7 DEF JobStep
<1> QED
  BY <1>d, <1>f, <1>g, <1>h DEF Safe

\* The main loop: a lease only moves a task, into a slot that was free.
LEMMA PollKeeps ==
  ASSUME TypeOK, NEW w \in Workers, NEW s \in Slots, PollStep(w, s), UNCHANGED co
  PROVE  \A t : Safe(t) => Safe(t)'
<1>0. QueueTypeOK /\ WorkerTypeOK
  BY DEF TypeOK
<1>1. CoHolds' = CoHolds
  BY DEF CoHolds
<1>2. UNCHANGED <<settled, dropped>>
  BY DEF PollStep, LeaseTask, LeaseEmpty, LeaseError, ledger
<1>3. \A t : InRedis(t) => InRedis(t)'
  BY <1>0, LeaseKeeps, OthersKeep DEF PollStep, LeaseTask, LeaseEmpty, LeaseError
<1>4. \A t : InHand(t) => InHand(t)'
  <2>1. CASE UNCHANGED job
    BY <1>1, <2>1 DEF InHand, HeldBy
  <2>2. CASE LeaseTask(w, s)
    <3>1. PICK j : job' = [job EXCEPT ![w][s] = j]
      BY <2>2 DEF LeaseTask
    <3>2. job[w][s].pc \notin Holding
      BY <2>2 DEF LeaseTask, CanPoll, Holding
    <3> QED
      BY <1>0, <1>1, <3>1, <3>2, SetJobHolds DEF InHand
  <2> QED
    BY <2>1, <2>2 DEF PollStep, LeaseEmpty, LeaseError
<1> QED
  BY <1>2, <1>3, <1>4 DEF Safe

\* The life of the process: a worker that leaves holds nothing, and what a
\* crash takes with it is recorded.
LEMMA ProcessKeeps ==
  ASSUME TypeOK, NEW w \in Workers, ProcessStep(w), UNCHANGED co
  PROVE  \A t : Safe(t) => Safe(t)'
<1>0. QueueTypeOK /\ WorkerTypeOK
  BY DEF TypeOK
<1>1. CoHolds' = CoHolds
  BY DEF CoHolds
<1>2. \A t : InRedis(t) => InRedis(t)'
  <2>1. UNCHANGED queueVars \/ Heartbeat(w)
    BY DEF ProcessStep, Register, FirstHeartbeat, StartupError, BeatTick,
           TouchTick, Sigterm, Leave, Crash
  <2> QED
    BY <2>1, OthersKeep
<1>3. CASE UNCHANGED job /\ UNCHANGED ledger
  BY <1>1, <1>2, <1>3 DEF Safe, InHand, HeldBy, ledger
<1>4. CASE Leave(w)
  <2>1. HeldBy(w) = {}
    BY <1>4 DEF Leave, HeldBy, Holding
  <2>2. \A t : InHand(t) => InHand(t)'
    BY <1>0, <1>1, <1>4, <2>1, HaltHolds DEF Leave, InHand
  <2> QED
    BY <1>2, <1>4, <2>2 DEF Leave, Safe, ledger
<1>5. CASE Crash(w)
  <2>1. \A t : InHand(t) => InHand(t)' \/ t \in HeldBy(w)
    BY <1>0, <1>1, <1>5, HaltHolds DEF Crash, InHand
  <2>2. inflight' = inflight
    BY <1>5 DEF Crash, queueVars
  <2>3. \A t : t \in HeldBy(w) => t \in settled' \/ t \in dropped' \/ InRedis(t)'
    BY <1>5, <2>2 DEF Crash, Exposed, InRedis
  <2> QED
    BY <1>2, <1>5, <2>1, <2>3 DEF Crash, Safe
<1> QED
  BY <1>3, <1>4, <1>5
     DEF ProcessStep, Register, FirstHeartbeat, StartupError, BeatTick, TouchTick,
         Sigterm
-----------------------------------------------------------------------------
(* The coordinator. *)

\* What only the coordinator holds, while it requeues and while it buries.
LEMMA CoHoldsParts ==
  /\ co.pc = "requeue" => CoHolds = Ids(co.batch)
  /\ co.pc = "mark" => CoHolds = Ids(co.batch) \cup {co.dead}
  /\ co.pc \notin {"requeue", "mark"} => CoHolds = {}
BY DEF CoHolds

\* Every command of a tick passes a task on, gives it its outcome, or records
\* that it is dropped.  A DEL may wipe the record of a task that the worker
\* itself still holds.
LEMMA CoordinatorKeeps ==
  ASSUME TypeOK, CoordinatorNext
  PROVE  \A t : Safe(t) => Safe(t)'
<1>0. QueueTypeOK /\ CoordinatorTypeOK /\ co.batch \subseteq Envelope /\ co.now \in Nat
  BY DEF TypeOK, CoordinatorTypeOK
<1>1. \A v : HeldBy(v)' = HeldBy(v)
  BY DEF CoordinatorNext, workerVars, HeldBy
<1>2. SUFFICES ASSUME NEW t, Safe(t)
               PROVE  \/ t \in settled' \/ t \in dropped' \/ InRedis(t)'
                      \/ t \in CoHolds'
                      \/ \E v \in Workers : t \in HeldBy(v)
  BY <1>1 DEF Safe, InHand
<1>3. \/ t \in settled \/ t \in dropped \/ InRedis(t) \/ t \in CoHolds
      \/ \E v \in Workers : t \in HeldBy(v)
  BY <1>2 DEF Safe, InHand
<1>4. CASE /\ UNCHANGED <<queueVars, ledger>>
           /\ co.pc \notin {"requeue", "mark"}
  <2>1. t \notin CoHolds
    BY <1>4, CoHoldsParts
  <2> QED
    BY <1>3, <1>4, <2>1, OthersKeep DEF ledger
<1>5. CASE Tick \/ PromoteDone \/ ReadWorkers \/ SweepDone \/ ReadInflight
           \/ ResetOrphans \/ FlagDead \/ \E w \in Workers : CheckAlive(w)
  BY <1>4, <1>5 DEF Tick, PromoteDone, ReadWorkers, SweepDone, ReadInflight,
                    ResetOrphans, FlagDead, CheckAlive, At
<1>6. ASSUME NEW ty \in Types, ReadDue(ty)
      PROVE  t \in settled' \/ t \in dropped' \/ InRedis(t)'
             \/ \E v \in Workers : t \in HeldBy(v)
  <2>1. t \notin CoHolds
    BY <1>6, CoHoldsParts DEF ReadDue, At
  <2>2. InRedis(t) => InRedis(t)'
    BY <1>6 DEF ReadDue, InRedis
  <2> QED
    BY <1>3, <1>6, <2>1, <2>2 DEF ReadDue, ledger
<1>7. CASE MoveDue
  <2>1. t \notin CoHolds
    BY <1>7, CoHoldsParts DEF MoveDue, At
  <2>2. InRedis(t) => InRedis(t)'
    BY <1>0, <1>7, PromoteKeeps, OthersKeep DEF MoveDue
  <2> QED
    BY <1>3, <1>7, <2>1, <2>2 DEF MoveDue, ledger
<1>8. CASE DelHash(HeldBy(co.worker))
  <2>1. co.worker \in Workers /\ t \notin CoHolds
    BY <1>0, <1>8, CoHoldsParts DEF DelHash, At, CoordinatorTypeOK
  <2>2. co'.pc = "requeue" /\ co'.batch = co.batch
    BY <1>0, <1>8 DEF DelHash, CoordinatorTypeOK
  <2>3. CoHolds' = Ids(co.batch)
    BY <2>2 DEF CoHolds, Ids
  <2>4. CASE UNCHANGED <<queueVars, ledger>>
    BY <1>3, <2>1, <2>4, OthersKeep DEF ledger
  <2>5. CASE /\ DelInflight(co.worker)
             /\ CoDrops(Ids(inflight[co.worker])
                          \ (Ids(co.batch) \cup HeldBy(co.worker)))
    <3>1. InRedis(t) => InRedis(t)' \/ t \in Ids(inflight[co.worker])
      BY <1>0, <2>1, <2>5, DelInflightKeeps
    <3>2. t \in Ids(inflight[co.worker])
            => \/ t \in Ids(co.batch) \/ t \in HeldBy(co.worker)
               \/ t \in settled' \/ t \in dropped'
      BY <2>5 DEF CoDrops
    <3> QED
      BY <1>3, <2>1, <2>3, <2>5, <3>1, <3>2 DEF CoDrops
  <2> QED
    BY <1>8, <2>4, <2>5 DEF DelHash
<1>9. ASSUME NEW e \in co.batch, Requeue(e)
      PROVE  t \in settled' \/ t \in dropped' \/ InRedis(t)' \/ t \in CoHolds'
             \/ \E v \in Workers : t \in HeldBy(v)
  <2> DEFINE e1 == [e EXCEPT !.attempts = @ + 1]
  <2>1. e \in Envelope /\ e.attempts + 1 \in Nat
    BY <1>0, EnvelopeFields
  <2>2. e1 \in Envelope /\ e1.id = e.id
    BY <2>1, EnvelopeUpdate
  <2>3. co.pc = "requeue" /\ co'.pc = "requeue" /\ co'.batch = co.batch \ {e}
    BY <1>0, <1>9 DEF Requeue, At, CoordinatorTypeOK
  <2>4. CoHolds = Ids(co.batch) /\ CoHolds' = Ids(co.batch \ {e})
    BY <2>3 DEF CoHolds, Ids
  <2>5. t \in CoHolds => t \in CoHolds' \/ t = e.id
    BY <2>4 DEF Ids
  <2>6. CASE Enqueue(e1) /\ UNCHANGED ledger
    <3> HIDE DEF e1
    <3> QED
      BY <1>0, <1>3, <2>2, <2>5, <2>6, EnqueueKeeps DEF ledger
  <2>7. CASE UNCHANGED queueVars /\ CoDrops({e.id})
    BY <1>3, <2>5, <2>7, OthersKeep DEF CoDrops
  <2> QED
    BY <1>9, <2>6, <2>7 DEF Requeue
<1>10. ASSUME NEW e \in co.batch, PushExhausted(e)
       PROVE  t \in settled' \/ t \in dropped' \/ InRedis(t)' \/ t \in CoHolds'
              \/ \E v \in Workers : t \in HeldBy(v)
  <2>1. e \in Envelope /\ e.attempts + 1 \in Nat
    BY <1>0, EnvelopeFields
  <2>2. [e EXCEPT !.attempts = @ + 1] \in Envelope
    BY <2>1, EnvelopeUpdate
  <2>3. /\ co.pc = "requeue" /\ co'.pc = "mark"
        /\ co'.batch = co.batch \ {e} /\ co'.dead = e.id
    BY <1>0, <1>10 DEF PushExhausted, At, CoordinatorTypeOK
  <2>4. CoHolds = Ids(co.batch) /\ CoHolds' = Ids(co.batch \ {e}) \cup {e.id}
    BY <2>3 DEF CoHolds, Ids
  <2>5. t \in CoHolds => t \in CoHolds'
    BY <2>4 DEF Ids
  <2>6. InRedis(t) => InRedis(t)'
    BY <1>10, <2>2, OthersKeep DEF PushExhausted
  <2> QED
    BY <1>3, <1>10, <2>5, <2>6 DEF PushExhausted, CoSettles, ledger
<1>11. CASE MarkExhausted
  <2>1. /\ co.pc = "mark" /\ co'.pc = "requeue" /\ co'.batch = co.batch
    BY <1>0, <1>11 DEF MarkExhausted, At, CoordinatorTypeOK
  <2>2. CoHolds = Ids(co.batch) \cup {co.dead} /\ CoHolds' = Ids(co.batch)
    BY <2>1 DEF CoHolds, Ids
  <2>3. InRedis(t) => InRedis(t)'
    BY <1>11, OthersKeep DEF MarkExhausted
  <2>4. CASE CoSettles(co.dead)
    BY <1>3, <2>2, <2>3, <2>4 DEF CoSettles
  <2>5. CASE CoDrops({co.dead})
    BY <1>3, <2>2, <2>3, <2>5 DEF CoDrops
  <2> QED
    BY <1>11, <2>4, <2>5 DEF MarkExhausted
<1>12. CASE RequeueDone
  <2>1. t \notin CoHolds
    BY <1>12, CoHoldsParts DEF RequeueDone, At, Ids
  <2> QED
    BY <1>3, <1>12, <2>1, OthersKeep DEF RequeueDone, ledger
<1>13. CASE CoCrash
  BY <1>3, <1>13, OthersKeep DEF CoCrash, CoDrops
<1> QED
  BY <1>5, <1>6, <1>7, <1>8, <1>9, <1>10, <1>11, <1>12, <1>13
     DEF CoordinatorNext, CoStep
-----------------------------------------------------------------------------
\* Every accepted task has an outcome, is in Redis or in the hands of a live
\* process, or was let go of by a process in one of the windows that dropped
\* records (a crash, a failing command, a DEL racing a lease).
THEOREM AccountedInvariant == Spec => []Accounted
<1> DEFINE Inv == TypeOK /\ Accounted
<1>1. Init => Inv
  <2> SUFFICES ASSUME Init
               PROVE  Accounted
    BY InitType
  <2> QED
    BY DEF Init, ApiInit, Accounted
<1>2. Inv /\ [Next]_vars => Inv'
  <2> SUFFICES ASSUME TypeOK, Accounted, [Next]_vars
               PROVE  Accounted'
    BY NextType
  <2>0. QueueTypeOK /\ ApiTypeOK
    BY DEF TypeOK
  <2>1. \A t \in Tasks : api[t] = "accepted" => Safe(t)
    BY DEF Accounted, Safe
  <2>2. SUFFICES ASSUME NEW t \in Tasks, api'[t] = "accepted"
                 PROVE  Safe(t)'
    BY DEF Accounted, Safe
  <2>3. CASE WorkerNext /\ UNCHANGED <<co, api>>
    <3>1. Safe(t)
      BY <2>1, <2>2, <2>3
    <3> QED
      BY <2>3, <3>1, ProcessKeeps, PollKeeps, JobKeeps DEF WorkerNext
  <2>4. CASE CoordinatorNext
    <3>1. Safe(t)
      BY <2>1, <2>2, <2>4 DEF CoordinatorNext
    <3> QED
      BY <2>4, <3>1, CoordinatorKeeps
  <2>5. ASSUME NEW x \in Tasks, UNCHANGED <<workerVars, co>>,
               \/ InsertTask(x) \/ SubmitTask(x) \/ CancelTask(x)
               \/ RedriveRow(x) \/ RedriveEnvelope(x)
        PROVE  Safe(t)'
    <3>1. CoHolds' = CoHolds /\ \A v : HeldBy(v)' = HeldBy(v)
      BY <2>5 DEF workerVars, CoHolds, HeldBy
    <3>2. InHand(t) => InHand(t)'
      BY <3>1 DEF InHand
    <3>3. NewEnvelope(x) \in Envelope /\ NewEnvelope(x).id = x
      BY NewEnvelopeType DEF NewEnvelope
    <3>4. InRedis(t) => InRedis(t)'
      BY <2>0, <2>5, <3>3, EnqueueKeeps, OthersKeep
         DEF InsertTask, SubmitTask, CancelTask, RedriveRow, RedriveEnvelope
    <3>5. CASE t # x \/ CancelTask(x)
      <4>1. api'[t] = api[t]
        BY <2>0, <2>5, <3>5
           DEF ApiTypeOK, InsertTask, SubmitTask, CancelTask, RedriveRow,
               RedriveEnvelope, Answer
      <4>2. Safe(t)
        BY <2>1, <2>2, <4>1
      <4>3. t \in settled \/ t \in dropped => t \in settled' \/ t \in dropped'
        BY <2>5, <3>5 DEF InsertTask, SubmitTask, CancelTask, RedriveRow,
                          RedriveEnvelope, ledger
      <4> QED
        BY <3>2, <3>4, <4>2, <4>3 DEF Safe
    <3>6. ASSUME t = x, ~CancelTask(x)
          PROVE  Safe(t)'
      <4>1. Enqueue(NewEnvelope(x)) \/ x \in dropped'
        BY <2>0, <2>2, <2>5, <3>6
           DEF ApiTypeOK, InsertTask, SubmitTask, RedriveRow, RedriveEnvelope, Answer
      <4>2. CASE Enqueue(NewEnvelope(x))
        BY <2>0, <3>3, <3>6, <4>2, EnqueueKeeps DEF Safe
      <4> QED
        BY <3>6, <4>1, <4>2 DEF Safe
    <3> QED
      BY <3>5, <3>6
  <2>6. CASE TimePasses \/ \E w \in Workers : Expire(w)
    <3>1. Safe(t)
      BY <2>1, <2>2, <2>6 DEF TimePasses, Expire
    <3>2. InRedis(t) => InRedis(t)'
      BY <2>6, OthersKeep DEF TimePasses, Expire
    <3>3. UNCHANGED <<co, workerVars, ledger>>
      BY <2>6 DEF TimePasses, Expire
    <3> QED
      BY <3>1, <3>2, <3>3 DEF Safe, InHand, HeldBy, CoHolds, workerVars, ledger
  <2>7. CASE UNCHANGED vars
    <3>1. Safe(t)
      BY <2>1, <2>2, <2>7 DEF vars
    <3>2. InRedis(t) => InRedis(t)'
      BY <2>7, OthersKeep DEF vars
    <3> QED
      BY <2>7, <3>1, <3>2 DEF Safe, InHand, HeldBy, CoHolds, vars, workerVars, ledger
  <2> QED
    BY <2>3, <2>4, <2>5, <2>6, <2>7 DEF Next, ApiNext
<1>3. Inv => Accounted
  OBVIOUS
<1> QED
  BY <1>1, <1>2, <1>3, PTL DEF Spec
=============================================================================
