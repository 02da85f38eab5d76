-------------------------- MODULE LifecycleProofs ---------------------------
(***************************************************************************)
(* What the single copy of a task carries, and what is written about it:   *)
(* the executions a row counts, the dead letters, and the phases of        *)
(* TaskLifecycle, all under the conditions of SingleCopyProofs.            *)
(***************************************************************************)
EXTENDS SingleCopyProofs
-----------------------------------------------------------------------------
(* Attempts: the row counts the executions that started, an envelope those  *)
(* that ended.  They differ by the one that is under way.                   *)

Count(t) == tasks[t].attempts

Within(e, n) == e \in Envelope /\ Count(e.id) <= e.attempts + n

\* The count of a row, by the envelope of the task and the place it is in.
AttemptsCounted ==
  /\ ExecutionsBounded
  /\ \A e \in queue : Within(e, 0)
  /\ \A e \in delayed : Within(e, 0)
  /\ \A w \in Workers : \A e \in inflight[w] : Within(e, 1)
  /\ \A w \in Workers, s \in Slots :
       job[w][s].pc \in {"leased", "nacked"} => Within(job[w][s].env, 0)
  /\ co.pc \in {"requeue", "mark"} => \A e \in co.batch : Within(e, 1)
  /\ \A t \in Tasks : Submitting(t) => Count(t) = 0

\* Only a goroutine that starts its task counts an execution.
LEMMA CountsKept ==
  ASSUME StoreTypeOK, NEW t \in Tasks,
         \/ tasks' = tasks
         \/ MarkSucceeded(t) \/ MarkRetry(t) \/ MarkDead(t) \/ MarkCanceled(t)
         \/ CreateTask(t) \/ \E w \in Workers : RequeueOrphans(w)
  PROVE  \A u \in Tasks : Count(u)' = Count(u)
<1>1. SUFFICES ASSUME NEW u \in Tasks
               PROVE  Count(u)' = Count(u)
  OBVIOUS
<1>2. tasks[u] \in Row
  BY DEF StoreTypeOK
<1>3. /\ [tasks[u] EXCEPT !.status = "queued"].attempts = tasks[u].attempts
      /\ [tasks[u] EXCEPT !.status = "dead"].attempts = tasks[u].attempts
      /\ [tasks[u] EXCEPT !.status = "canceled"].attempts = tasks[u].attempts
      /\ [tasks[u] EXCEPT !.status = "succeeded"].attempts = tasks[u].attempts
      /\ [tasks[u] EXCEPT !.status = "queued", !.worker_id = NoWorker].attempts
           = tasks[u].attempts
  BY <1>2 DEF Row
<1>4. CASE MarkRetry(t)
  BY <1>2, <1>4 DEF MarkRetry, StoreTypeOK, Row, Count
<1>5. ASSUME NEW w \in Workers, RequeueOrphans(w)
      PROVE  Count(u)' = Count(u)
  BY <1>3, <1>5 DEF RequeueOrphans, Count
<1>6. CASE MarkSucceeded(t) \/ MarkDead(t) \/ MarkCanceled(t) \/ CreateTask(t)
  BY <1>3, <1>6 DEF MarkSucceeded, MarkDead, MarkCanceled, CreateTask, StoreTypeOK, Count
<1>7. CASE tasks' = tasks
  BY <1>7 DEF Count
<1> QED
  BY <1>4, <1>5, <1>6, <1>7

\* A step that counts no execution, and what it leaves in each place.
LEMMA CountedFrame ==
  ASSUME \A u \in Tasks : Count(u)' = Count(u), ExecutionsBounded,
         \A e \in queue' : Within(e, 0),
         \A e \in delayed' : Within(e, 0),
         \A v \in Workers : \A e \in inflight'[v] : Within(e, 1),
         \A v \in Workers, r \in Slots :
           job'[v][r].pc \in {"leased", "nacked"} => Within(job'[v][r].env, 0),
         co'.pc \in {"requeue", "mark"} => \A e \in co'.batch : Within(e, 1),
         \A t \in Tasks : Submitting(t)' => Count(t) = 0
  PROVE  AttemptsCounted'
<1>1. ASSUME NEW e \in Envelope
      PROVE  Count(e.id)' = Count(e.id)
  BY EnvelopeFields
<1>2. ExecutionsBounded'
  BY DEF ExecutionsBounded, Count
<1>3. \A e \in queue' : Within(e, 0)'
  BY <1>1 DEF Within
<1>4. \A e \in delayed' : Within(e, 0)'
  BY <1>1 DEF Within
<1>5. \A v \in Workers : \A e \in inflight'[v] : Within(e, 1)'
  BY <1>1 DEF Within
<1>6. \A v \in Workers, r \in Slots :
           job'[v][r].pc \in {"leased", "nacked"} => Within(job[v][r].env, 0)'
  BY <1>1 DEF Within, Count
<1>7. co'.pc \in {"requeue", "mark"} => \A e \in co'.batch : Within(e, 1)'
  BY <1>1 DEF Within
<1>8. \A t \in Tasks : Submitting(t)' => Count(t)' = 0
  OBVIOUS
<1> QED
  BY <1>2, <1>3, <1>4, <1>5, <1>6, <1>7, <1>8 DEF AttemptsCounted

\* The start of an execution: the row counts it, the only copy of the task is
\* the one in the goroutine's hands and in its worker's hash.
LEMMA StartCounted ==
  ASSUME TypeOK, Placed, AttemptsLeft, AttemptsCounted, NEW w \in Workers, NEW s \in Slots,
         job[w][s].pc = "leased", NEW e, e = job[w][s].env, MarkRunning(e.id, w),
         job' = [job EXCEPT ![w][s] = [pc |-> "running", env |-> e]],
         UNCHANGED <<queue, delayed, inflight, co, api>>
  PROVE  AttemptsCounted'
<1>0. QueueTypeOK /\ StoreTypeOK /\ WorkerTypeOK
  BY DEF TypeOK
<1>1. e \in inflight[w] /\ Within(e, 0) /\ e \in Envelope
  BY DEF Placed, Tied, AttemptsCounted, Within
<1>2. e.id \in Tasks /\ e.attempts \in Nat /\ Count(e.id) \in Nat
  BY <1>0, <1>1, EnvelopeFields DEF StoreTypeOK, Row, Count
<1>3. Recorded(e.id)
  BY <1>1 DEF Recorded, Has
<1>4. ~Ready(e.id) /\ ~Waiting(e.id) /\ ~Owed(e.id) /\ ~Reclaimed(e.id) /\ ~Submitting(e.id)
  BY <1>2, <1>3, Exclusive
<1>5. Count(e.id)' = Count(e.id) + 1
  BY <1>0, <1>2 DEF MarkRunning, StoreTypeOK, Count
<1>6. \A u \in Tasks : u # e.id => Count(u)' = Count(u)
  BY <1>0 DEF MarkRunning, StoreTypeOK, Count
<1>7. ASSUME NEW x, NEW n, Within(x, n), x.id # e.id
      PROVE  Within(x, n)'
  BY <1>6, <1>7, EnvelopeFields DEF Within
<1>8. ExecutionsBounded'
  <2>1. Fresh(e)
    BY <1>1, AttemptsParts DEF RedisFresh
  <2>2. e.attempts < MaxAttempts(e.id) /\ MaxAttempts(e.id) \in Nat
    BY <1>2, <2>1, MaxAttemptsPositive DEF Fresh
  <2>3. Count(e.id)' <= MaxAttempts(e.id)
    BY <1>1, <1>2, <1>5, <2>2 DEF Within
  <2> QED
    BY <1>6, <2>3 DEF ExecutionsBounded, Count, AttemptsCounted
<1>9. \A x \in queue : Within(x, 0)'
  BY <1>4, <1>7 DEF Ready, Has, AttemptsCounted
<1>10. \A x \in delayed : Within(x, 0)'
  BY <1>4, <1>7 DEF Waiting, Has, AttemptsCounted
<1>11. ASSUME NEW v \in Workers, NEW x \in inflight[v]
       PROVE  Within(x, 1)'
  <2>1. CASE x.id = e.id
    <3>1. x = e
      BY <1>1, <2>1 DEF Placed, OneCopy
    <3>2. Within(e, 1)'
      BY <1>1, <1>2, <1>5 DEF Within
    <3> QED
      BY <3>1, <3>2
  <2>2. CASE x.id # e.id
    BY <1>7, <2>2 DEF AttemptsCounted
  <2> QED
    BY <2>1, <2>2
<1>12. ASSUME NEW v \in Workers, NEW r \in Slots, job'[v][r].pc \in {"leased", "nacked"}
       PROVE  Within(job[v][r].env, 0)'
  <2>1. job'[v][r] = job[v][r] /\ ~(v = w /\ r = s)
    BY <1>0, <1>12 DEF WorkerTypeOK
  <2>2. job[v][r].env.id # e.id
    <3>1. CASE job[v][r].pc = "nacked"
      BY <1>4, <3>1 DEF Owed, InSlot, Owing
    <3>2. CASE job[v][r].pc = "leased"
      <4>1. job[v][r].env \in inflight[v]
        BY <3>2 DEF Placed, Tied
      <4>2. job[v][r].env.id = e.id => v = w
        BY <1>1, <4>1 DEF Placed, OneCopy
      <4> QED
        BY <2>1, <3>2, <4>2 DEF Placed, Tied
    <3> QED
      BY <1>12, <2>1, <3>1, <3>2
  <2>3. Within(job[v][r].env, 0)
    BY <1>12, <2>1 DEF AttemptsCounted
  <2> QED
    BY <1>6, <2>1, <2>2, <2>3, EnvelopeFields DEF Within, Count
<1>13. co.pc \in {"requeue", "mark"} => \A x \in co.batch : Within(x, 1)'
  BY <1>4, <1>7 DEF Reclaimed, Has, AttemptsCounted
<1>14. \A t \in Tasks : Submitting(t)' => Count(t)' = 0
  BY <1>4, <1>6 DEF Submitting, AttemptsCounted
<1> QED
  BY <1>8, <1>9, <1>10, <1>11, <1>12, <1>13, <1>14 DEF AttemptsCounted

\* A step of a slot that starts nothing.
LEMMA SlotCounted ==
  ASSUME TypeOK, AttemptsCounted, NEW w \in Workers, NEW s \in Slots, tasks' = tasks
           \/ MarkSucceeded(job[w][s].env.id) \/ MarkRetry(job[w][s].env.id)
           \/ MarkDead(job[w][s].env.id),
         job[w][s].pc # "idle",
         job'[w][s].pc \in {"leased", "nacked"} => Within(job'[w][s].env, 0),
         \A v \in Workers, r \in Slots : ~(v = w /\ r = s) => job'[v][r] = job[v][r],
         queue' = queue, \A e \in delayed' : e \in delayed \/ Within(e, 0),
         \A v \in Workers : inflight'[v] \subseteq inflight[v],
         UNCHANGED <<co, api>>
  PROVE  AttemptsCounted'
<1>1. job[w][s].env.id \in Tasks
  BY JobEnvelope, EnvelopeFields DEF TypeOK
<1>2. \A u \in Tasks : Count(u)' = Count(u)
  BY <1>1, CountsKept DEF TypeOK
<1>3. \A v \in Workers, r \in Slots :
        job'[v][r].pc \in {"leased", "nacked"} => Within(job'[v][r].env, 0)
  BY DEF AttemptsCounted
<1>4. \A v \in Workers : \A e \in inflight'[v] : Within(e, 1)
  BY DEF AttemptsCounted
<1>5. \A e \in queue' : Within(e, 0)
  BY DEF AttemptsCounted
<1>6. \A e \in delayed' : Within(e, 0)
  BY DEF AttemptsCounted
<1>7. co'.pc \in {"requeue", "mark"} => \A e \in co'.batch : Within(e, 1)
  BY DEF AttemptsCounted
<1>8. ExecutionsBounded /\ \A t \in Tasks : Submitting(t)' => Count(t) = 0
  BY DEF AttemptsCounted, Submitting
<1> QED
  BY <1>2, <1>3, <1>4, <1>5, <1>6, <1>7, <1>8, CountedFrame

\* Every step of a worker.
LEMMA WorkerCounted ==
  ASSUME TypeOK, Steady, Placed, AttemptsLeft, AttemptsCounted, WorkerNext,
         UNCHANGED <<co, api>>
  PROVE  AttemptsCounted'
<1>0. QueueTypeOK /\ StoreTypeOK /\ WorkerTypeOK /\ CoordinatorTypeOK
  BY DEF TypeOK
<1>w. PICK w \in Workers :
        \/ ProcessStep(w)
        \/ \E s \in Slots : PollStep(w, s) \/ JobStep(w, s)
  BY DEF WorkerNext
<1>f. ~CommandFails(w)
  BY NoFaults
<1>q. ASSUME tasks' = tasks,
             \A e \in queue' : Within(e, 0), delayed' = delayed,
             \A v \in Workers : \A e \in inflight'[v] : Within(e, 1),
             \A v \in Workers, r \in Slots :
               job'[v][r].pc \in {"leased", "nacked"} => Within(job'[v][r].env, 0)
      PROVE  AttemptsCounted'
  <2>1. \A u \in Tasks : Count(u)' = Count(u)
    BY <1>q DEF Count
  <2>2. co'.pc \in {"requeue", "mark"} => \A e \in co'.batch : Within(e, 1)
    BY DEF AttemptsCounted
  <2>3. ExecutionsBounded /\ \A t \in Tasks : Submitting(t)' => Count(t) = 0
    BY DEF AttemptsCounted, Submitting
  <2>4. \A e \in delayed' : Within(e, 0)
    BY <1>q DEF AttemptsCounted
  <2> QED
    BY <1>q, <2>1, <2>2, <2>3, <2>4, CountedFrame
<1>1. CASE ProcessStep(w)
  <2>1. UNCHANGED <<queue, delayed, inflight, tasks>>
    BY <1>f, <1>1, CalmProcess DEF BeatTick, TouchTick, Heartbeat, TouchWorker, Crash,
                                   queueVars, storeVars
  <2>2. \A v \in Workers, r \in Slots : job'[v][r].pc = "idle" \/ job'[v][r] = job[v][r]
    <3>1. CASE Crash(w)
      BY <1>0, <3>1 DEF Crash, Halt, WorkerTypeOK, IdleJob
    <3>2. CASE BeatTick(w) \/ TouchTick(w)
      BY <3>2 DEF BeatTick, TouchTick
    <3> QED
      BY <1>1, <3>1, <3>2, CalmProcess
  <2>3. \A v \in Workers, r \in Slots :
          job'[v][r].pc \in {"leased", "nacked"} => Within(job'[v][r].env, 0)
    BY <2>2 DEF AttemptsCounted
  <2>4. /\ \A e \in queue' : Within(e, 0)
        /\ \A v \in Workers : \A e \in inflight'[v] : Within(e, 1)
    BY <2>1 DEF AttemptsCounted
  <2> QED
    BY <1>q, <2>1, <2>3, <2>4
<1>2. ASSUME NEW s \in Slots, PollStep(w, s)
      PROVE  AttemptsCounted'
  <2>1. CASE LeaseTask(w, s)
    <3>1. PICK e \in queue : /\ Lease(TaskTypes[poll[w]], w, e)
                             /\ job' = [job EXCEPT ![w][s] = [pc |-> "leased", env |-> e]]
      BY <2>1 DEF LeaseTask
    <3>2. Within(e, 0) /\ Within(e, 1)
      <4>1. Within(e, 0)
        BY DEF AttemptsCounted
      <4>2. e.attempts \in Nat /\ Count(e.id) \in Nat
        BY <1>0, <4>1, EnvelopeFields DEF Within, Count, StoreTypeOK, Row
      <4> QED
        BY <4>1, <4>2 DEF Within
    <3>3. \A v \in Workers : \A x \in inflight'[v] : x = e \/ x \in inflight[v]
      BY <1>0, <3>1 DEF Lease, HSet, QueueTypeOK
    <3>4. queue' \subseteq queue /\ delayed' = delayed /\ tasks' = tasks
      BY <2>1, <3>1 DEF LeaseTask, Lease, storeVars
    <3>5. \A v \in Workers, r \in Slots :
            job'[v][r] = [pc |-> "leased", env |-> e] \/ job'[v][r] = job[v][r]
      BY <1>0, <3>1 DEF WorkerTypeOK
    <3>6. \A v \in Workers, r \in Slots :
            job'[v][r].pc \in {"leased", "nacked"} => Within(job'[v][r].env, 0)
      BY <3>2, <3>5 DEF AttemptsCounted
    <3>7. /\ \A x \in queue' : Within(x, 0)
          /\ \A v \in Workers : \A x \in inflight'[v] : Within(x, 1)
      BY <3>2, <3>3, <3>4 DEF AttemptsCounted
    <3> QED
      BY <1>q, <3>4, <3>6, <3>7
  <2>2. CASE LeaseEmpty(w, s)
    <3>1. UNCHANGED <<queue, delayed, inflight, tasks, job>>
      BY <2>2 DEF LeaseEmpty, queueVars, storeVars
    <3> QED
      BY <1>q, <3>1 DEF AttemptsCounted
  <2> QED
    BY <1>f, <1>2, <2>1, <2>2 DEF PollStep, LeaseError
<1>3. ASSUME NEW s \in Slots, JobStep(w, s)
      PROVE  AttemptsCounted'
  <2> DEFINE e == job[w][s].env
             e1 == [e EXCEPT !.attempts = @ + 1]
  <2>1. CASE Start(w, s)
    <3>1. /\ job[w][s].pc = "leased" /\ job' = [job EXCEPT ![w][s] = [pc |-> "running", env |-> e]]
          /\ MarkRunning(e.id, w) /\ UNCHANGED <<queue, delayed, inflight>>
      BY <1>f, <2>1 DEF Start, Step, queueVars
    <3> QED
      BY <3>1, StartCounted
  <2>2. ASSUME ~Start(w, s)
        PROVE  AttemptsCounted'
    <3>1. /\ \A v \in Workers, r \in Slots : ~(v = w /\ r = s) => job'[v][r] = job[v][r]
          /\ job[w][s].pc # "idle"
      BY <1>0, <1>3, <2>2 DEF JobStep, Unhandled, Succeed, RecordSuccess, Fail, PushDead,
           RecordDead, Schedule, RecordRetry, Step, Finish, WorkerTypeOK
    <3>2. tasks' = tasks \/ MarkSucceeded(e.id) \/ MarkRetry(e.id) \/ MarkDead(e.id)
      BY <1>f, <1>3, <2>2 DEF JobStep, Unhandled, Succeed, RecordSuccess, Fail, PushDead,
           RecordDead, Schedule, RecordRetry, storeVars
    <3>3. queue' = queue /\ \A v \in Workers : inflight'[v] \subseteq inflight[v]
      BY <1>0, <1>f, <1>3, <2>2 DEF JobStep, Unhandled, Succeed, RecordSuccess, Fail, PushDead,
           RecordDead, Schedule, RecordRetry, Nack, Ack, HDel, DeadLetter, EnqueueDelayed,
           queueVars, QueueTypeOK
    <3>4. \A x \in delayed' : x \in delayed \/ Within(x, 0)
      <4>1. CASE Schedule(w, s)
        <5>1. Within(e, 0) /\ delayed' = delayed \cup {e}
          BY <1>f, <4>1 DEF Schedule, Step, EnqueueDelayed, AttemptsCounted
        <5> QED
          BY <5>1
      <4>2. CASE ~Schedule(w, s)
        BY <1>f, <1>3, <2>2, <4>2
           DEF JobStep, Unhandled, Succeed, RecordSuccess, Fail, PushDead,
               RecordDead, RecordRetry, Nack, Ack, DeadLetter, queueVars
      <4> QED
        BY <4>1, <4>2
    <3>5. job'[w][s].pc \in {"leased", "nacked"} => Within(job'[w][s].env, 0)
      <4>1. CASE Unhandled(w, s)
        <5>1. Within(e, 0) /\ job'[w][s].env = e
          BY <1>0, <4>1 DEF Unhandled, Step, AttemptsCounted, WorkerTypeOK
        <5> QED
          BY <5>1
      <4>2. CASE Fail(w, s)
        <5>1. job[w][s].pc = "running" /\ job'[w][s].env = e1
          BY <1>0, <4>2 DEF Fail, Step, WorkerTypeOK
        <5>2. e \in Envelope /\ Within(e, 1)
          BY <5>1 DEF Placed, Tied, AttemptsCounted, Within
        <5>3. /\ e.attempts \in Nat /\ Count(e.id) \in Nat
              /\ e1 \in Envelope /\ e1.id = e.id /\ e1.attempts = e.attempts + 1
          <6>1. e.id \in Tasks /\ e.attempts \in Nat
            BY <5>2, EnvelopeFields
          <6>2. e1 \in Envelope /\ e1.id = e.id /\ e1.attempts = e.attempts + 1
            BY <5>2 DEF Envelope
          <6> QED
            BY <1>0, <6>1, <6>2 DEF StoreTypeOK, Row, Count
        <5>4. Within(e1, 0)
          BY <5>2, <5>3 DEF Within
        <5> QED
          BY <5>1, <5>4
      <4>3. CASE ~Unhandled(w, s) /\ ~Fail(w, s)
        BY <1>0, <1>3, <2>2, <4>3 DEF JobStep, Succeed, RecordSuccess, PushDead,
             RecordDead, Schedule, RecordRetry, Step, Finish, IdleJob, WorkerTypeOK
      <4> QED
        BY <4>1, <4>2, <4>3
    <3> QED
      BY <3>1, <3>2, <3>3, <3>4, <3>5, SlotCounted
  <2> QED
    BY <2>1, <2>2
<1> QED
  BY <1>w, <1>1, <1>2, <1>3

\* What one more attempt, or a stamp, makes of the bound of an envelope.
LEMMA WithinMoved ==
  ASSUME TypeOK, NEW e \in Envelope, NEW n \in Nat
  PROVE  /\ Within(e, 0) => Within(e, 1)
         /\ Within(e, 1) => Within([e EXCEPT !.attempts = @ + 1], 0)
         /\ Within(e, 0) => Within([e EXCEPT !.enqueued_at = n], 0)
<1>1. e.id \in Tasks /\ e.attempts \in Nat
  BY EnvelopeFields
<1>2. Count(e.id) \in Nat
  BY <1>1 DEF TypeOK, StoreTypeOK, Row, Count
<1>3. Within(e, 0) => Within(e, 1)
  BY <1>1, <1>2 DEF Within
<1>4. /\ [e EXCEPT !.attempts = @ + 1] \in Envelope
      /\ [e EXCEPT !.attempts = @ + 1].id = e.id
      /\ [e EXCEPT !.attempts = @ + 1].attempts = e.attempts + 1
  BY DEF Envelope
<1>5. Within(e, 1) => Within([e EXCEPT !.attempts = @ + 1], 0)
  BY <1>1, <1>2, <1>4 DEF Within
<1>6. Within(e, 0) => Within([e EXCEPT !.enqueued_at = n], 0)
  BY EnvelopeUpdate DEF Within
<1> QED
  BY <1>3, <1>5, <1>6

\* Enqueue keeps the attempts of what it adds.
LEMMA EnqueueWithin ==
  ASSUME TypeOK, NEW e \in Envelope, Within(e, 0), Enqueue(e)
  PROVE  \A x \in queue' : x \in queue \/ Within(x, 0)
<1>1. clock + 1 \in Nat
  BY DEF TypeOK, QueueTypeOK
<1>2. Within([e EXCEPT !.enqueued_at = clock + 1], 0)
  BY <1>1, WithinMoved
<1>3. \A x \in queue' : x \in queue \/ x = e \/ x = [e EXCEPT !.enqueued_at = clock + 1]
  BY DEF Enqueue
<1> QED
  BY <1>2, <1>3

\* Every step of the coordinator.
LEMMA CoordinatorCounted ==
  ASSUME TypeOK, Steady, Placed, AttemptsCounted, CoordinatorNext
  PROVE  AttemptsCounted'
<1>0. QueueTypeOK /\ StoreTypeOK /\ CoordinatorTypeOK /\ co.batch \subseteq Envelope
      /\ co.now \in Nat
  BY DEF TypeOK, CoordinatorTypeOK
<1>1. UNCHANGED <<job, api>>
  BY DEF CoordinatorNext, workerVars
<1>2. \A u \in Tasks : Count(u)' = Count(u)
  <2>1. CASE MarkExhausted
    <3>1. MarkDead(co.dead) /\ co.dead \in Tasks
      BY <1>0, <2>1, NoFaults DEF MarkExhausted, At, CoordinatorTypeOK
    <3> QED
      BY <1>0, <3>1, CountsKept
  <2>2. CASE ResetOrphans
    <3>1. RequeueOrphans(co.worker) /\ co.worker \in Workers
      BY <1>0, <2>2, NoFaults DEF ResetOrphans, At, CoordinatorTypeOK
    <3> QED
      BY <1>0, <3>1, CountsKept
  <2>3. CASE ~MarkExhausted /\ ~ResetOrphans
    <3>1. tasks' = tasks
      BY <2>3 DEF CoordinatorNext, CoStep, CoCrash, Tick, MoveDue, PromoteDone, ReadDue,
           ReadWorkers, SweepDone, ReadInflight, RequeueDone, CheckAlive, DelHash,
           Requeue, PushExhausted, FlagDead, MarkWorkerDead, storeVars
    <3> QED
      BY <3>1 DEF Count
  <2> QED
    BY <2>1, <2>2, <2>3
<1>3. \A v \in Workers : inflight'[v] \subseteq inflight[v]
  <2>1. CASE DelHash(HeldBy(co.worker))
    BY <1>0, <2>1 DEF DelHash, DelInflight, QueueTypeOK, queueVars
  <2>2. CASE ~DelHash(HeldBy(co.worker))
    BY <2>2 DEF CoordinatorNext, CoStep, CoCrash, Tick, MoveDue, PromoteDone, ReadDue,
         ReadWorkers, SweepDone, ReadInflight, RequeueDone, CheckAlive,
         Requeue, PushExhausted, MarkExhausted, ResetOrphans, FlagDead,
         Promote, Enqueue, DeadLetter, queueVars
  <2> QED
    BY <2>1, <2>2
<1>4. delayed' \subseteq delayed
  BY DEF CoordinatorNext, CoStep, CoCrash, Tick, MoveDue, PromoteDone, ReadDue,
         ReadWorkers, SweepDone, ReadInflight, RequeueDone, CheckAlive, DelHash,
         Requeue, PushExhausted, MarkExhausted, ResetOrphans, FlagDead, DelInflight,
         Promote, Enqueue, DeadLetter, queueVars
<1>5. \A x \in queue' : x \in queue \/ Within(x, 0)
  <2>1. CASE MoveDue
    <3>1. ASSUME NEW e \in co.batch
          PROVE  Within([e EXCEPT !.enqueued_at = co.now], 0)
      <4>1. e \in delayed /\ Within(e, 0)
        BY <2>1 DEF MoveDue, At, Placed, Tied, AttemptsCounted
      <4> QED
        BY <1>0, <4>1, WithinMoved
    <3>2. queue' = queue \cup {[e EXCEPT !.enqueued_at = co.now] : e \in co.batch}
      BY <2>1, NoFaults DEF MoveDue, Promote
    <3> QED
      BY <3>1, <3>2
  <2>2. ASSUME NEW e \in co.batch, Requeue(e)
        PROVE  \A x \in queue' : x \in queue \/ Within(x, 0)
    <3> DEFINE e1 == [e EXCEPT !.attempts = @ + 1]
    <3>1. Enqueue(e1)
      BY <2>2, NoFaults DEF Requeue
    <3>2. Within(e, 1) /\ e \in Envelope
      BY <1>0, <2>2 DEF Requeue, At, AttemptsCounted
    <3>3. Within(e1, 0) /\ e1 \in Envelope
      BY <3>2, WithinMoved DEF Within
    <3> HIDE DEF e1
    <3> QED
      BY <3>1, <3>3, EnqueueWithin
  <2>3. CASE ~MoveDue /\ ~\E e \in co.batch : Requeue(e)
    BY <2>3 DEF CoordinatorNext, CoStep, CoCrash, Tick, PromoteDone, ReadDue,
         ReadWorkers, SweepDone, ReadInflight, RequeueDone, CheckAlive, DelHash,
         PushExhausted, MarkExhausted, ResetOrphans, FlagDead, DelInflight,
         DeadLetter, queueVars
  <2> QED
    BY <2>1, <2>2, <2>3
<1>6. ASSUME co'.pc \in {"requeue", "mark"}
      PROVE  \A e \in co'.batch : Within(e, 1)
  <2>1. CASE DelHash(HeldBy(co.worker))
    <3>1. /\ co.worker \in Workers /\ co.batch = inflight[co.worker]
          /\ co'.batch = co.batch
      BY <1>0, <2>1 DEF DelHash, At, CoordinatorTypeOK, Placed, Tied
    <3> QED
      BY <3>1 DEF AttemptsCounted
  <2>2. CASE ~DelHash(HeldBy(co.worker))
    <3>1. co.pc \in {"requeue", "mark"} /\ co'.batch \subseteq co.batch
      <4>1. CASE MarkExhausted \/ RequeueDone \/ \E e \in co.batch : Requeue(e) \/ PushExhausted(e)
        BY <1>0, <4>1 DEF MarkExhausted, RequeueDone, Requeue, PushExhausted, At,
                          CoordinatorTypeOK
      <4>2. CASE ~(\/ MarkExhausted \/ RequeueDone
                   \/ \E e \in co.batch : Requeue(e) \/ PushExhausted(e))
        <5>1. ~SweepDone /\ ~CoCrash /\ ~ReadWorkers
          <6>1. co' # CoStart
            BY <1>6 DEF CoStart
          <6>2. ~ReadWorkers
            BY <1>0, <1>6, <6>1 DEF ReadWorkers, CoordinatorTypeOK
          <6> QED
            BY <6>1, <6>2 DEF SweepDone, CoCrash
        <5>2. ~Tick /\ ~MoveDue /\ ~PromoteDone /\ ~ResetOrphans /\ ~FlagDead
          BY <1>0, <1>6 DEF Tick, MoveDue, PromoteDone, ResetOrphans, FlagDead,
                            CoordinatorTypeOK
        <5>3. ~ReadInflight /\ ~(\E w \in Workers : CheckAlive(w))
          BY <1>0, <1>6, NoFaults DEF ReadInflight, CheckAlive, At, CoordinatorTypeOK
        <5>4. ~(\E ty \in Types : ReadDue(ty))
          BY <1>0, <1>6 DEF ReadDue, At, CoordinatorTypeOK
        <5> QED
          BY <2>2, <4>2, <5>1, <5>2, <5>3, <5>4 DEF CoordinatorNext, CoStep
      <4> QED
        BY <4>1, <4>2
    <3> QED
      BY <3>1 DEF AttemptsCounted
  <2> QED
    BY <2>1, <2>2
<1>7. /\ ExecutionsBounded
      /\ \A t \in Tasks : Submitting(t)' => Count(t) = 0
      /\ \A v \in Workers, r \in Slots :
           job'[v][r].pc \in {"leased", "nacked"} => Within(job'[v][r].env, 0)
      /\ \A e \in delayed' : Within(e, 0)
      /\ \A v \in Workers : \A e \in inflight'[v] : Within(e, 1)
      /\ \A e \in queue' : Within(e, 0)
  BY <1>1, <1>3, <1>4, <1>5 DEF AttemptsCounted, Submitting
<1> QED
  BY <1>2, <1>6, <1>7, CountedFrame

\* Every request; a redrive starts the count again.
LEMMA ApiCounted ==
  ASSUME TypeOK, Steady, Placed, AttemptsCounted, ApiNext, UNCHANGED <<workerVars, co>>
  PROVE  AttemptsCounted'
<1>0. QueueTypeOK /\ StoreTypeOK /\ ApiTypeOK /\ job' = job
  BY DEF TypeOK, workerVars
<1>t. PICK t \in Tasks : \/ InsertTask(t) \/ SubmitTask(t) \/ CancelTask(t)
                         \/ RedriveRow(t) \/ RedriveEnvelope(t)
  BY DEF ApiNext
<1>q. ASSUME \A u \in Tasks : Count(u)' = Count(u),
             \A x \in queue' : x \in queue \/ Within(x, 0),
             UNCHANGED <<delayed, inflight>>,
             \A u \in Tasks : Submitting(u)' => Count(u) = 0
      PROVE  AttemptsCounted'
  <2>1. /\ ExecutionsBounded
        /\ \A e \in queue' : Within(e, 0)
        /\ \A e \in delayed' : Within(e, 0)
        /\ \A v \in Workers : \A e \in inflight'[v] : Within(e, 1)
        /\ \A v \in Workers, r \in Slots :
             job'[v][r].pc \in {"leased", "nacked"} => Within(job'[v][r].env, 0)
        /\ co'.pc \in {"requeue", "mark"} => \A e \in co'.batch : Within(e, 1)
    BY <1>0, <1>q DEF AttemptsCounted
  <2> QED
    BY <1>q, <2>1, CountedFrame
<1>1. CASE InsertTask(t)
  <2>1. CreateTask(t) /\ Answer(t, "inserted") /\ UNCHANGED <<queue, delayed, inflight>>
    BY <1>1, NoFaults DEF InsertTask, queueVars
  <2>2. \A u \in Tasks : Count(u)' = Count(u)
    BY <1>0, <2>1, CountsKept
  <2>3. Count(t) = 0
    BY <2>1 DEF CreateTask, NoRow, Count
  <2>4. \A u \in Tasks : Submitting(u)' => Count(u) = 0
    BY <1>0, <2>1, <2>3 DEF Answer, ApiTypeOK, Submitting, AttemptsCounted
  <2> QED
    BY <1>q, <2>1, <2>2, <2>4
<1>2. CASE CancelTask(t)
  <2>1. MarkCanceled(t) /\ UNCHANGED <<api, queue, delayed, inflight>>
    BY <1>2 DEF CancelTask, queueVars
  <2>2. \A u \in Tasks : Count(u)' = Count(u)
    BY <1>0, <2>1, CountsKept
  <2>3. \A u \in Tasks : Submitting(u)' => Count(u) = 0
    BY <2>1 DEF Submitting, AttemptsCounted
  <2> QED
    BY <1>q, <2>1, <2>2, <2>3
<1>3. CASE SubmitTask(t) \/ RedriveEnvelope(t)
  <2>1. /\ Submitting(t) /\ Enqueue(NewEnvelope(t)) /\ Answer(t, "accepted")
        /\ UNCHANGED tasks
    BY <1>3, NoFaults DEF SubmitTask, RedriveEnvelope, Submitting, storeVars
  <2>2. NewEnvelope(t) \in Envelope /\ Within(NewEnvelope(t), 0)
    <3>1. Count(t) = 0
      BY <2>1 DEF AttemptsCounted
    <3>2. NewEnvelope(t).id = t /\ NewEnvelope(t).attempts = 0
      BY DEF NewEnvelope
    <3> QED
      BY <3>1, <3>2, NewEnvelopeType DEF Within
  <2>3. \A x \in queue' : x \in queue \/ Within(x, 0)
    BY <2>1, <2>2, EnqueueWithin
  <2>4. \A u \in Tasks : Submitting(u)' => Count(u) = 0
    BY <1>0, <2>1 DEF Answer, ApiTypeOK, Submitting, AttemptsCounted
  <2>5. UNCHANGED <<delayed, inflight>> /\ \A u \in Tasks : Count(u)' = Count(u)
    BY <2>1 DEF Enqueue, Count
  <2> QED
    BY <1>q, <2>3, <2>4, <2>5
<1>4. CASE RedriveRow(t)
  <2>1. Redrive(t) /\ Answer(t, "redriven") /\ UNCHANGED <<queue, delayed, inflight>>
    BY <1>4 DEF RedriveRow, queueVars
  <2>2. Count(t)' = 0 /\ \A u \in Tasks : u # t => Count(u)' = Count(u)
    BY <1>0, <2>1 DEF Redrive, StoreTypeOK, Count
  <2>3. ASSUME NEW e, NEW n \in Nat, Within(e, n)
        PROVE  Within(e, n)'
    BY <2>2, <2>3, EnvelopeFields DEF Within
  <2>4. ExecutionsBounded'
    BY <2>2, MaxAttemptsPositive DEF AttemptsCounted, ExecutionsBounded, Count
  <2>5. \A u \in Tasks : Submitting(u)' => Count(u)' = 0
    BY <1>0, <2>1, <2>2 DEF Answer, ApiTypeOK, Submitting, AttemptsCounted
  <2>6. \A v \in Workers, r \in Slots :
          job[v][r].pc \in {"leased", "nacked"} => Within(job[v][r].env, 0)'
    BY <1>0, <2>2, EnvelopeFields DEF AttemptsCounted, Within, Count
  <2>7. /\ \A e \in queue : Within(e, 0)'
        /\ \A e \in delayed : Within(e, 0)'
        /\ \A v \in Workers : \A e \in inflight[v] : Within(e, 1)'
        /\ co.pc \in {"requeue", "mark"} => \A e \in co.batch : Within(e, 1)'
    BY <2>3 DEF AttemptsCounted
  <2> QED
    BY <1>0, <2>1, <2>4, <2>5, <2>6, <2>7 DEF AttemptsCounted
<1> QED
  BY <1>t, <1>1, <1>2, <1>3, <1>4

\* At the start nothing has been executed.
LEMMA CountedInit ==
  ASSUME Init
  PROVE  AttemptsCounted
<1>1. /\ queue = {} /\ delayed = {} /\ inflight = [w \in Workers |-> {}]
      /\ co.pc = "sleep" /\ api = [t \in Tasks |-> "none"]
      /\ \A w \in Workers, s \in Slots : job[w][s].pc = "idle"
      /\ tasks = [t \in Tasks |-> NoRow]
  BY DEF Init, QueueInit, StoreInit, WorkerInit, IdleJob, CoStart, ApiInit
<1>2. ExecutionsBounded
  <2>1. \A t \in Tasks : tasks[t].attempts = 0
    BY <1>1 DEF NoRow
  <2>2. ASSUME NEW t \in Tasks
        PROVE  0 <= MaxAttempts(t)
    <3>1. MaxAttempts(t) \in Nat
      BY MaxAttemptsPositive
    <3> QED
      BY <3>1
  <2> QED
    BY <2>1, <2>2 DEF ExecutionsBounded
<1> QED
  BY <1>1, <1>2 DEF AttemptsCounted, Submitting

\* Every step of the system keeps the counts.
LEMMA CountedStep ==
  ASSUME TypeOK, Steady, Placed, AttemptsLeft, AttemptsCounted, [Next]_vars
  PROVE  AttemptsCounted'
<1>1. CASE TimePasses \/ (\E w \in Workers : Expire(w)) \/ UNCHANGED vars
  <2>1. UNCHANGED <<queue, delayed, inflight, job, tasks, co, api>>
    BY <1>1 DEF TimePasses, Elapse, Expire, HeartbeatExpires, vars, queueVars, storeVars,
                workerVars
  <2>2. \A u \in Tasks : Count(u)' = Count(u)
    BY <2>1 DEF Count
  <2>3. /\ ExecutionsBounded
        /\ \A e \in queue' : Within(e, 0)
        /\ \A e \in delayed' : Within(e, 0)
        /\ \A v \in Workers : \A e \in inflight'[v] : Within(e, 1)
        /\ \A v \in Workers, r \in Slots :
             job'[v][r].pc \in {"leased", "nacked"} => Within(job'[v][r].env, 0)
        /\ co'.pc \in {"requeue", "mark"} => \A e \in co'.batch : Within(e, 1)
        /\ \A t \in Tasks : Submitting(t)' => Count(t) = 0
    BY <2>1 DEF AttemptsCounted, Submitting
  <2> QED
    BY <2>2, <2>3, CountedFrame
<1> QED
  BY <1>1, WorkerCounted, CoordinatorCounted, ApiCounted DEF Next

\* In calm conditions the row of a task counts at most max_attempts executions
\* since its last redrive, however retries and reclaims alternate: what is
\* executed carries fewer attempts than the limit (AttemptsInvariant), and the
\* row counts at most one more than the only copy of the task carries.
THEOREM ExecutionLimit == Calm /\ Spec => []ExecutionsBounded
<1>1. Calm /\ Init => AttemptsCounted
  BY CountedInit
<1>2. /\ TypeOK /\ Steady /\ Placed /\ AttemptsLeft /\ AttemptsCounted /\ [Next]_vars
      => AttemptsCounted'
  BY CountedStep
<1>3. AttemptsCounted => ExecutionsBounded
  BY DEF AttemptsCounted
<1> QED
  BY <1>1, <1>2, <1>3, PlacedReachable, AttemptsInvariant, PTL DEF Spec

-----------------------------------------------------------------------------
(* Dead letters: the list in Redis is ahead of the table by the entries     *)
(* whose row somebody has still to write.                                   *)

\* Somebody has pushed the dead letter of a task and has not written its row.
Pushed(t) == InSlot({"pushed"}, t) \/ Burying(t)

Lettered ==
  /\ DeadLettersRecorded
  /\ \A t \in Tasks : Pushed(t) => dead_letters[t] < dlq[t]

\* Steps that write no dead letter.
LEMMA LetteredFrame ==
  ASSUME Lettered, UNCHANGED <<dlq, dead_letters>>,
         \A t \in Tasks : tasks'[t].status = "dead" => tasks[t].status = "dead",
         \A t \in Tasks : Pushed(t)' => Pushed(t)
  PROVE  Lettered'
BY DEF Lettered, DeadLettersRecorded

\* The push: DeadLetter, and whoever pushed has to write the row.
LEMMA PushLettered ==
  ASSUME TypeOK, Lettered, NEW e \in Envelope, DeadLetter(e), UNCHANGED storeVars,
         \A t \in Tasks : Pushed(t)' => Pushed(t) \/ t = e.id
  PROVE  Lettered'
<1>0. e.id \in Tasks /\ dlq \in [Tasks -> Nat] /\ dead_letters \in [Tasks -> Nat]
  BY EnvelopeFields DEF TypeOK, QueueTypeOK, StoreTypeOK
<1>1. \A t \in Tasks : dlq'[t] = IF t = e.id THEN dlq[t] + 1 ELSE dlq[t]
  BY <1>0 DEF DeadLetter
<1>2. UNCHANGED <<tasks, dead_letters>>
  BY DEF storeVars
<1>3. DeadLettersRecorded'
  BY <1>0, <1>1, <1>2 DEF Lettered, DeadLettersRecorded
<1>4. ASSUME NEW t \in Tasks, Pushed(t)'
      PROVE  dead_letters'[t] < dlq'[t]
  <2>1. CASE t = e.id
    BY <1>0, <1>1, <1>2, <2>1 DEF Lettered, DeadLettersRecorded
  <2>2. CASE t # e.id
    BY <1>1, <1>2, <1>4, <2>2 DEF Lettered
  <2> QED
    BY <2>1, <2>2
<1> QED
  BY <1>3, <1>4 DEF Lettered

\* The row: MarkDead, by the only one who had pushed.
LEMMA BuryLettered ==
  ASSUME TypeOK, Lettered, NEW d \in Tasks, Pushed(d), MarkDead(d), dlq' = dlq,
         \A t \in Tasks : Pushed(t)' => Pushed(t) /\ t # d
  PROVE  Lettered'
<1>0. /\ dlq \in [Tasks -> Nat] /\ dead_letters \in [Tasks -> Nat]
      /\ tasks \in [Tasks -> Row]
  BY DEF TypeOK, QueueTypeOK, StoreTypeOK
<1>1. \A t \in Tasks :
        dead_letters'[t] = IF t = d THEN dead_letters[t] + 1 ELSE dead_letters[t]
  BY <1>0 DEF MarkDead
<1>2. \A t \in Tasks : t # d => tasks'[t] = tasks[t]
  BY <1>0 DEF MarkDead
<1>3. dead_letters[d] < dlq[d]
  BY DEF Lettered
<1>4. ASSUME NEW t \in Tasks
      PROVE  /\ tasks'[t].status = "dead" => dead_letters'[t] > 0
             /\ dead_letters'[t] <= dlq'[t]
  <2>1. CASE t = d
    BY <1>0, <1>1, <1>3, <2>1
  <2>2. CASE t # d
    BY <1>1, <1>2, <2>2 DEF Lettered, DeadLettersRecorded
  <2> QED
    BY <2>1, <2>2
<1>5. ASSUME NEW t \in Tasks, Pushed(t)'
      PROVE  dead_letters'[t] < dlq'[t]
  BY <1>1, <1>5 DEF Lettered
<1> QED
  BY <1>4, <1>5 DEF Lettered, DeadLettersRecorded

\* Every step of a worker.
LEMMA WorkerLettered ==
  ASSUME TypeOK, Steady, Placed, Lettered, WorkerNext, UNCHANGED <<co, api>>
  PROVE  Lettered'
<1>0. QueueTypeOK /\ StoreTypeOK /\ WorkerTypeOK
  BY DEF TypeOK
<1>w. PICK w \in Workers :
        \/ ProcessStep(w)
        \/ \E s \in Slots : PollStep(w, s) \/ JobStep(w, s)
  BY DEF WorkerNext
<1>f. ~CommandFails(w)
  BY NoFaults
<1>b. \A t : Burying(t)' <=> Burying(t)
  BY Frames
<1>1. CASE ProcessStep(w)
  <2>1. UNCHANGED <<dlq, dead_letters, tasks>>
    BY <1>f, <1>1, CalmProcess DEF BeatTick, TouchTick, Heartbeat, TouchWorker, Crash,
                                   queueVars, storeVars
  <2>2. \A v \in Workers, r \in Slots : job'[v][r].pc = "idle" \/ job'[v][r] = job[v][r]
    <3>1. CASE Crash(w)
      BY <1>0, <3>1 DEF Crash, Halt, WorkerTypeOK, IdleJob
    <3>2. CASE BeatTick(w) \/ TouchTick(w)
      BY <3>2 DEF BeatTick, TouchTick
    <3> QED
      BY <1>1, <3>1, <3>2, CalmProcess
  <2>3. \A t \in Tasks : Pushed(t)' => Pushed(t)
    BY <1>b, <2>2 DEF Pushed, InSlot
  <2> QED
    BY <2>1, <2>3, LetteredFrame
<1>2. ASSUME NEW s \in Slots, PollStep(w, s)
      PROVE  Lettered'
  <2>1. UNCHANGED <<dlq, dead_letters, tasks>>
    BY <1>2 DEF PollStep, LeaseTask, LeaseEmpty, LeaseError, Lease, queueVars, storeVars
  <2>2. \A v \in Workers, r \in Slots : job'[v][r].pc = "pushed" => job'[v][r] = job[v][r]
    BY <1>0, <1>2 DEF PollStep, LeaseTask, LeaseEmpty, LeaseError, WorkerTypeOK
  <2>3. \A t \in Tasks : Pushed(t)' => Pushed(t)
    BY <1>b, <2>2 DEF Pushed, InSlot
  <2> QED
    BY <2>1, <2>3, LetteredFrame
<1>3. ASSUME NEW s \in Slots, JobStep(w, s)
      PROVE  Lettered'
  <2> DEFINE e == job[w][s].env
  <2>0. e \in Envelope /\ e.id \in Tasks
    <3>1. job[w][s].pc # "idle"
      BY <1>3 DEF JobStep, Unhandled, Start, Succeed, RecordSuccess, Fail, PushDead,
                  RecordDead, Schedule, RecordRetry, Step, Finish
    <3>2. e \in Envelope
      BY <1>0, <3>1, JobEnvelope
    <3> QED
      BY <3>2, EnvelopeFields
  <2>1. \A v \in Workers, r \in Slots : ~(v = w /\ r = s) => job'[v][r] = job[v][r]
    BY <1>0, <1>3 DEF JobStep, Unhandled, Start, Succeed, RecordSuccess, Fail, PushDead,
         RecordDead, Schedule, RecordRetry, Step, Finish, WorkerTypeOK
  <2>2. CASE PushDead(w, s)
    <3>1. DeadLetter(e) /\ UNCHANGED storeVars
      BY <1>f, <2>2 DEF PushDead
    <3>2. job'[w][s].env = e
      BY <1>0, <2>2 DEF PushDead, Step, WorkerTypeOK
    <3>3. \A t \in Tasks : Pushed(t)' => Pushed(t) \/ t = e.id
      BY <1>b, <2>1, <3>2 DEF Pushed, InSlot
    <3> QED
      BY <2>0, <3>1, <3>3, PushLettered
  <2>3. CASE RecordDead(w, s)
    <3>1. /\ MarkDead(e.id) /\ dlq' = dlq /\ job[w][s].pc = "pushed"
          /\ job'[w][s].pc = "idle"
      BY <1>0, <1>f, <2>3 DEF RecordDead, Finish, IdleJob, WorkerTypeOK, queueVars
    <3>2. Pushed(e.id) /\ Owed(e.id)
      BY <3>1 DEF Pushed, InSlot, Owed, Owing
    <3>3. ~Burying(e.id)
      BY <2>0, <3>2, Exclusive
    <3>4. \A t \in Tasks : InSlot({"pushed"}, t)' => InSlot({"pushed"}, t) /\ t # e.id
      <4>1. SUFFICES ASSUME NEW t \in Tasks, InSlot({"pushed"}, t)'
                     PROVE  InSlot({"pushed"}, t) /\ t # e.id
        OBVIOUS
      <4>2. PICK v \in Workers, r \in Slots :
              job'[v][r].pc = "pushed" /\ job'[v][r].env.id = t
        BY <4>1 DEF InSlot
      <4>3. job'[v][r] = job[v][r] /\ ~(v = w /\ r = s)
        BY <2>1, <3>1, <4>2
      <4> QED
        BY <3>1, <4>2, <4>3 DEF InSlot, Placed, OneCopy, Owing
    <3>5. \A t \in Tasks : Pushed(t)' => Pushed(t) /\ t # e.id
      BY <1>b, <3>3, <3>4 DEF Pushed
    <3> QED
      BY <2>0, <3>1, <3>2, <3>5, BuryLettered
  <2>4. CASE ~PushDead(w, s) /\ ~RecordDead(w, s)
    <3>1. UNCHANGED <<dlq, dead_letters>>
      BY <1>f, <1>3, <2>4 DEF JobStep, Unhandled, Start, Succeed, RecordSuccess, Fail,
           Schedule, RecordRetry, MarkRunning, MarkSucceeded, MarkRetry, Nack, Ack,
           EnqueueDelayed, queueVars, storeVars
    <3>2. \/ tasks' = tasks \/ MarkSucceeded(e.id) \/ MarkRetry(e.id)
          \/ MarkRunning(e.id, w)
      BY <1>f, <1>3, <2>4 DEF JobStep, Unhandled, Start, Succeed, RecordSuccess, Fail,
           Schedule, RecordRetry, storeVars
    <3>3. job'[w][s].pc # "pushed"
      BY <1>0, <1>3, <2>4 DEF JobStep, Unhandled, Start, Succeed, RecordSuccess, Fail,
           Schedule, RecordRetry, Step, Finish, IdleJob, WorkerTypeOK
    <3>4. \A t \in Tasks : Pushed(t)' => Pushed(t)
      BY <1>b, <2>1, <3>3 DEF Pushed, InSlot
    <3>5. \A t \in Tasks : tasks'[t].status = "dead" => tasks[t].status = "dead"
      BY <1>0, <2>0, <3>2, NoneDies
    <3> QED
      BY <3>1, <3>4, <3>5, LetteredFrame
  <2> QED
    BY <2>2, <2>3, <2>4
<1> QED
  BY <1>w, <1>1, <1>2, <1>3

\* Every step of the coordinator.
LEMMA CoordinatorLettered ==
  ASSUME TypeOK, Steady, Placed, Lettered, CoordinatorNext
  PROVE  Lettered'
<1>0. CoordinatorTypeOK /\ StoreTypeOK
  BY DEF TypeOK
<1>1. \A t : InSlot({"pushed"}, t)' <=> InSlot({"pushed"}, t)
  BY DEF CoordinatorNext, workerVars, InSlot
<1>2. ASSUME NEW e \in co.batch, PushExhausted(e)
      PROVE  Lettered'
  <2> DEFINE e1 == [e EXCEPT !.attempts = @ + 1]
  <2>1. e1 \in Envelope /\ e1.id = e.id
    BY <1>0 DEF CoordinatorTypeOK, Envelope
  <2>2. DeadLetter(e1) /\ UNCHANGED storeVars /\ co'.dead = e.id
    BY <1>0, <1>2, NoFaults DEF PushExhausted, CoordinatorTypeOK
  <2> HIDE DEF e1
  <2>3. \A t \in Tasks : Pushed(t)' => Pushed(t) \/ t = e1.id
    BY <1>1, <2>1, <2>2 DEF Pushed, Burying
  <2> QED
    BY <2>1, <2>2, <2>3, PushLettered
<1>3. CASE MarkExhausted
  <2>1. /\ co.pc = "mark" /\ co.dead \in Tasks /\ MarkDead(co.dead) /\ dlq' = dlq
        /\ co'.pc = "requeue"
    BY <1>0, <1>3, NoFaults DEF MarkExhausted, At, CoordinatorTypeOK, queueVars
  <2>2. Burying(co.dead) /\ Pushed(co.dead)
    BY <2>1 DEF Burying, Pushed
  <2>3. ~Owed(co.dead)
    BY <2>1, <2>2, Exclusive
  <2>4. ~InSlot({"pushed"}, co.dead)
    BY <2>3 DEF Owed, InSlot, Owing
  <2>5. \A t \in Tasks : Pushed(t)' => Pushed(t) /\ t # co.dead
    BY <1>1, <2>1, <2>4 DEF Pushed, Burying
  <2> QED
    BY <2>1, <2>2, <2>5, BuryLettered
<1>4. CASE ~MarkExhausted /\ ~\E e \in co.batch : PushExhausted(e)
  <2>1. UNCHANGED <<dlq, dead_letters>>
    BY <1>4 DEF CoordinatorNext, CoStep, CoCrash, Tick, MoveDue, PromoteDone, ReadDue,
         ReadWorkers, SweepDone, ReadInflight, RequeueDone, CheckAlive, DelHash,
         Requeue, ResetOrphans, FlagDead, DelInflight,
         Promote, Enqueue, RequeueOrphans, MarkWorkerDead, queueVars, storeVars
  <2>2. \A t \in Tasks : tasks'[t].status = "dead" => tasks[t].status = "dead"
    <3>1. CASE ResetOrphans
      <4>1. RequeueOrphans(co.worker) /\ co.worker \in Workers
        BY <1>0, <3>1, NoFaults DEF ResetOrphans, At, CoordinatorTypeOK
      <4> QED
        BY <1>0, <4>1, NoneDies
    <3>2. CASE ~ResetOrphans
      BY <1>4, <3>2 DEF CoordinatorNext, CoStep, CoCrash, Tick, MoveDue, PromoteDone, ReadDue,
           ReadWorkers, SweepDone, ReadInflight, RequeueDone, CheckAlive, DelHash,
           Requeue, FlagDead, MarkWorkerDead, storeVars
    <3> QED
      BY <3>1, <3>2
  <2>3. co'.pc # "mark"
    <3>1. SUFFICES ASSUME co'.pc = "mark"
                   PROVE  FALSE
      OBVIOUS
    <3>2. ~\E e \in co.batch : Requeue(e)
      BY <1>0, <3>1 DEF Requeue, At, CoordinatorTypeOK
    <3>3. ~(Tick \/ MoveDue \/ PromoteDone \/ RequeueDone)
      BY <1>0, <3>1 DEF Tick, MoveDue, PromoteDone, RequeueDone, CoordinatorTypeOK
    <3>4. ~(DelHash(HeldBy(co.worker)) \/ ResetOrphans \/ FlagDead)
      BY <1>0, <3>1 DEF DelHash, ResetOrphans, FlagDead, CoordinatorTypeOK
    <3>5. ~(\E ty \in Types : ReadDue(ty))
      BY <1>0, <3>1 DEF ReadDue, At, CoordinatorTypeOK
    <3>6. ~(\E w \in Workers : CheckAlive(w)) /\ ~ReadInflight
      BY <1>0, <3>1 DEF CheckAlive, ReadInflight, At, CoordinatorTypeOK
    <3>7. co' # CoStart
      BY <3>1 DEF CoStart
    <3>8. ~ReadWorkers
      BY <1>0, <3>1, <3>7 DEF ReadWorkers, CoordinatorTypeOK
    <3> QED
      BY <1>4, <3>2, <3>3, <3>4, <3>5, <3>6, <3>7, <3>8
         DEF CoordinatorNext, CoStep, SweepDone, CoCrash
  <2>4. \A t \in Tasks : Pushed(t)' => Pushed(t)
    BY <1>1, <2>3 DEF Pushed, Burying
  <2> QED
    BY <2>1, <2>2, <2>4, LetteredFrame
<1> QED
  BY <1>2, <1>3, <1>4

\* Every request: none writes a dead letter.
LEMMA ApiLettered ==
  ASSUME TypeOK, Steady, Lettered, ApiNext, UNCHANGED <<workerVars, co>>
  PROVE  Lettered'
<1>0. StoreTypeOK
  BY DEF TypeOK
<1>1. PICK t \in Tasks : \/ InsertTask(t) \/ SubmitTask(t) \/ CancelTask(t)
                         \/ RedriveRow(t) \/ RedriveEnvelope(t)
  BY DEF ApiNext
<1>2. UNCHANGED <<dlq, dead_letters>>
  BY <1>1, NoFaults DEF InsertTask, SubmitTask, CancelTask, RedriveRow, RedriveEnvelope,
       CreateTask, Enqueue, MarkCanceled, Redrive, queueVars, storeVars
<1>3. tasks' = tasks \/ CreateTask(t) \/ MarkCanceled(t) \/ Redrive(t)
  BY <1>1, NoFaults DEF InsertTask, SubmitTask, CancelTask, RedriveRow, RedriveEnvelope,
       storeVars
<1>4. \A u \in Tasks : tasks'[u].status = "dead" => tasks[u].status = "dead"
  BY <1>0, <1>3, NoneDies
<1>5. \A u \in Tasks : Pushed(u)' => Pushed(u)
  BY DEF Pushed, InSlot, Burying, workerVars
<1> QED
  BY <1>2, <1>4, <1>5, LetteredFrame

\* At the start there are no dead letters.
LEMMA LetteredInit ==
  ASSUME Init
  PROVE  Lettered
<1>1. /\ co.pc = "sleep" /\ tasks = [t \in Tasks |-> NoRow]
      /\ \A w \in Workers, s \in Slots : job[w][s].pc = "idle"
      /\ dlq = [t \in Tasks |-> 0] /\ dead_letters = [t \in Tasks |-> 0]
  BY DEF Init, QueueInit, StoreInit, WorkerInit, IdleJob, CoStart
<1>2. \A t \in Tasks : tasks[t].status = "absent" /\ dead_letters[t] = 0 /\ dlq[t] = 0
  BY <1>1 DEF NoRow
<1>3. \A t \in Tasks : ~Pushed(t)
  BY <1>1 DEF Pushed, InSlot, Burying
<1> QED
  BY <1>2, <1>3 DEF Lettered, DeadLettersRecorded

\* Every step of the system keeps the list ahead of the table.
LEMMA LetteredStep ==
  ASSUME TypeOK, Steady, Placed, Lettered, [Next]_vars
  PROVE  Lettered'
<1>1. CASE TimePasses \/ (\E w \in Workers : Expire(w)) \/ UNCHANGED vars
  <2>1. UNCHANGED <<dlq, dead_letters, tasks, job, co>>
    BY <1>1 DEF TimePasses, Elapse, Expire, HeartbeatExpires, vars, queueVars, storeVars,
                workerVars
  <2>2. \A u \in Tasks : Pushed(u)' => Pushed(u)
    BY <2>1 DEF Pushed, InSlot, Burying
  <2> QED
    BY <2>1, <2>2, LetteredFrame
<1> QED
  BY <1>1, WorkerLettered, CoordinatorLettered, ApiLettered DEF Next

\* In calm conditions a row that says dead has its dead letters, in the table
\* and in the Redis list, whichever of the worker and the coordinator wrote
\* them and wherever a crash cut in: the list is written first, by the one
\* who holds the only copy of the task.
THEOREM DeadLettersKept == Calm /\ Spec => []DeadLettersRecorded
<1>1. Calm /\ Init => Lettered
  BY LetteredInit
<1>2. TypeOK /\ Steady /\ Placed /\ Lettered /\ [Next]_vars => Lettered'
  BY LetteredStep
<1>3. Lettered => DeadLettersRecorded
  BY DEF Lettered
<1> QED
  BY <1>1, <1>2, <1>3, PlacedReachable, PTL DEF Spec

-----------------------------------------------------------------------------
(* TaskLifecycle: the places and the ledger determine the phase of a task,  *)
(* the copy its attempts.                                                   *)

Nacked(t) == InSlot({"nacked"}, t)

Held(t) == Recorded(t) \/ Reclaimed(t)

\* Its backoff has passed.
Ripe(t) == Has(due, t)

\* There is a copy to be executed, or there will be one.
Alive(t) == Ready(t) \/ Waiting(t) \/ Nacked(t) \/ Held(t) \/ Submitting(t)

\* The outcome is known and the row has still to be written.
Ended(t) == InSlot({"acked", "pushed"}, t) \/ Burying(t)

\* The ledger agrees with the places and with the row.
Clear(t) ==
  /\ t \in settled => ~Alive(t)
  /\ t \in dropped => ~Alive(t) /\ ~Ended(t) /\ t \notin settled /\ ~Over(t)
  /\ Ended(t) \/ tasks[t].status = "dead" => t \in settled
  /\ tasks[t].status = "absent" => t \notin settled

\* A handler runs only if there is one.
HandlersFound ==
  \A w \in Workers, s \in Slots : job[w][s].pc = "running" => Lookup(TypeOf(job[w][s].env.id))

Decided == HandlersFound /\ \A t \in Tasks : Clear(t)

IsCopy(e) ==
  \/ e \in queue
  \/ e \in delayed
  \/ \E w \in Workers : e \in inflight[w]
  \/ \E w \in Workers, s \in Slots : job[w][s].pc = "nacked" /\ job[w][s].env = e
  \/ co.pc \in {"requeue", "mark"} /\ e \in co.batch

\* What is to be executed is in one place, which is where its phase says it is.
PhaseIsPlace(t) ==
  /\ Ready(t) => PhaseOf(t) = "ready"
  /\ Ripe(t) => PhaseOf(t) = "ripe"
  /\ Waiting(t) /\ ~Ripe(t) => PhaseOf(t) = "waiting"
  /\ Nacked(t) => PhaseOf(t) = "failed"
  /\ Held(t) => PhaseOf(t) = "taken"
  /\ t \in settled => PhaseOf(t) = "settled"
  /\ t \in dropped => PhaseOf(t) = "lost"
  /\ Submitting(t) => PhaseOf(t) = "persisted"
  /\ ~Alive(t) /\ t \notin settled /\ t \notin dropped => PhaseOf(t) = "none"

\* A task has one copy or none, and the copy carries its attempts.
AttemptsAreCarried(t) ==
  /\ \A e : IsCopy(e) /\ e.id = t => AttemptsOf(t) = e.attempts
  /\ ~(\E e : IsCopy(e) /\ e.id = t) => AttemptsOf(t) = 0
  /\ (\E e : IsCopy(e) /\ e.id = t) <=> Ready(t) \/ Waiting(t) \/ Nacked(t) \/ Held(t)

\* What is due is in the delayed set.
LEMMA RipeWaits ==
  ASSUME TypeOK, NEW t, Ripe(t)
  PROVE  Waiting(t)
BY DEF TypeOK, QueueTypeOK, Ripe, Waiting, Has

\* The places exclude each other, so the refinement mapping reads the phase off
\* the one a task is in.
LEMMA Phases == TypeOK /\ Placed /\ Decided => \A t \in Tasks : PhaseIsPlace(t)
<1> SUFFICES ASSUME TypeOK, Placed, Decided, NEW t \in Tasks
               PROVE  PhaseIsPlace(t)
  OBVIOUS
<1>2. InSlot({"leased", "running"}, t) => Recorded(t)
  BY DEF Placed, Tied, InSlot, Recorded, Has
<1>3. Taken(t) <=> Held(t)
  BY <1>2 DEF Taken, Held, Recorded, Reclaimed
<1>4. Nacked(t) => Owed(t)
  BY DEF Nacked, Owed, InSlot, Owing
<1>5. Clear(t)
  BY DEF Decided
<1>6. /\ Ready(t) => ~Waiting(t) /\ ~Nacked(t) /\ ~Held(t) /\ ~Submitting(t)
      /\ Waiting(t) => ~Nacked(t) /\ ~Held(t) /\ ~Submitting(t)
      /\ Nacked(t) => ~Held(t) /\ ~Submitting(t)
      /\ Held(t) => ~Submitting(t)
  BY <1>4, Exclusive DEF Held
<1>7. /\ t \in settled => ~Alive(t) /\ t \notin dropped
      /\ t \in dropped => ~Alive(t)
  BY <1>5 DEF Clear
<1>8. PhaseOf(t) =
        CASE Ready(t) -> "ready"
          [] Ripe(t) -> "ripe"
          [] Waiting(t) /\ ~Ripe(t) -> "waiting"
          [] Nacked(t) -> "failed"
          [] Held(t) -> "taken"
          [] t \in settled -> "settled"
          [] t \in dropped -> "lost"
          [] Submitting(t) -> "persisted"
          [] OTHER -> "none"
  <2>1. Has(delayed \ due, t) <=> Waiting(t) /\ ~Ripe(t)
    BY DEF TypeOK, QueueTypeOK, Waiting, Ripe, Has, Placed, OneCopy, Unique
  <2> QED
    BY <1>3, <2>1 DEF PhaseOf, Ready, Ripe, Nacked, Submitting
<1>9. Ripe(t) => Waiting(t)
  BY RipeWaits
<1>10. /\ Ready(t) => PhaseOf(t) = "ready"
       /\ Ripe(t) => PhaseOf(t) = "ripe"
       /\ Waiting(t) /\ ~Ripe(t) => PhaseOf(t) = "waiting"
       /\ Nacked(t) => PhaseOf(t) = "failed"
       /\ Held(t) => PhaseOf(t) = "taken"
  BY <1>6, <1>7, <1>8, <1>9 DEF Alive
<1>11. CASE ~(Ready(t) \/ Waiting(t) \/ Nacked(t) \/ Held(t))
  <2>1. PhaseOf(t) = CASE t \in settled -> "settled"
                       [] t \in dropped -> "lost"
                       [] Submitting(t) -> "persisted"
                       [] OTHER -> "none"
    BY <1>8, <1>9, <1>11
  <2> QED
    BY <1>7, <1>9, <1>11, <2>1 DEF Alive, PhaseIsPlace
<1>12. CASE Ready(t) \/ Waiting(t) \/ Nacked(t) \/ Held(t)
  BY <1>6, <1>7, <1>10, <1>12 DEF Alive, PhaseIsPlace
<1> QED
  BY <1>11, <1>12

\* There are no two copies, so the one the mapping chooses is the copy.
LEMMA Carried == TypeOK /\ Placed => \A t \in Tasks : AttemptsAreCarried(t)
<1> SUFFICES ASSUME TypeOK, Placed, NEW t \in Tasks
               PROVE  AttemptsAreCarried(t)
  OBVIOUS
<1>2. ASSUME NEW e
      PROVE  e \in Copies <=> IsCopy(e)
  <2> DEFINE Jobs == {x \in Workers \X Slots :
                        job[x[1]][x[2]].pc \in {"leased", "running", "nacked"}}
             slots == {job[p[1]][p[2]].env : p \in Jobs}
  <2>1. ASSUME NEW p \in Jobs, e = job[p[1]][p[2]].env
        PROVE  IsCopy(e)
    <3>1. /\ p[1] \in Workers /\ p[2] \in Slots
          /\ job[p[1]][p[2]].pc \in {"leased", "running", "nacked"}
      OBVIOUS
    <3> QED
      BY <2>1, <3>1 DEF IsCopy, Placed, Tied
  <2>2. ASSUME NEW w \in Workers, NEW s \in Slots, job[w][s].pc = "nacked",
               job[w][s].env = e
        PROVE  e \in slots
    <3>1. <<w, s>> \in Jobs /\ <<w, s>>[1] = w /\ <<w, s>>[2] = s
      BY <2>2
    <3> QED
      BY <2>2, <3>1
  <2>3. e \in InHashes <=> \E w \in Workers : e \in inflight[w]
    BY DEF InHashes
  <2>4. Copies = queue \cup delayed \cup InHashes \cup slots
                  \cup (IF co.pc \in {"requeue", "mark"} THEN co.batch ELSE {})
    BY DEF Copies
  <2> HIDE DEF Jobs
  <2>5. e \in slots => IsCopy(e)
    BY <2>1
  <2> HIDE DEF slots
  <2> QED
    BY <2>2, <2>3, <2>4, <2>5 DEF IsCopy
<1>3. (\E e : IsCopy(e) /\ e.id = t) <=> Ready(t) \/ Waiting(t) \/ Nacked(t) \/ Held(t)
  BY DEF IsCopy, Ready, Waiting, Nacked, Held, Recorded, Reclaimed, Has, InSlot
<1>4. ASSUME NEW e, NEW f, IsCopy(e), IsCopy(f), e.id = t, f.id = t
      PROVE  e = f
  <2> DEFINE At1(x) == \E w \in Workers : x \in inflight[w]
             At2(x) == \E w \in Workers, s \in Slots :
                         job[w][s].pc = "nacked" /\ job[w][s].env = x
             At3(x) == co.pc \in {"requeue", "mark"} /\ x \in co.batch
  <2>1. \A x : x.id = t =>
          /\ x \in queue => Ready(t)
          /\ x \in delayed => Waiting(t)
          /\ At1(x) => Recorded(t)
          /\ At2(x) => Owed(t)
          /\ At3(x) => Reclaimed(t)
    BY DEF Ready, Waiting, Recorded, Owed, InSlot, Owing, Reclaimed, Has
  <2>2. At1(e) /\ At1(f) => e = f
    BY <1>4 DEF Placed, OneCopy
  <2>3. At2(e) /\ At2(f) => e = f
    BY <1>4 DEF Placed, OneCopy, Owing
  <2>4. /\ e \in queue /\ f \in queue => e = f
        /\ e \in delayed /\ f \in delayed => e = f
        /\ At3(e) /\ At3(f) => e = f
    BY <1>4 DEF Placed, OneCopy, Unique
  <2>5. /\ e \in queue \/ e \in delayed \/ At1(e) \/ At2(e) \/ At3(e)
        /\ f \in queue \/ f \in delayed \/ At1(f) \/ At2(f) \/ At3(f)
    BY <1>4 DEF IsCopy
  <2> HIDE DEF At1, At2, At3
  <2>6. /\ Ready(t) => ~Waiting(t) /\ ~Recorded(t) /\ ~Owed(t) /\ ~Reclaimed(t)
        /\ Waiting(t) => ~Recorded(t) /\ ~Owed(t) /\ ~Reclaimed(t)
        /\ Recorded(t) => ~Owed(t) /\ ~Reclaimed(t)
        /\ Owed(t) => ~Reclaimed(t)
    BY Exclusive
  <2> QED
    BY <1>4, <2>1, <2>2, <2>3, <2>4, <2>5, <2>6
<1>5. ASSUME NEW e, IsCopy(e), e.id = t
      PROVE  AttemptsOf(t) = e.attempts
  <2>1. Has(Copies, t)
    BY <1>2, <1>5 DEF Has
  <2>2. (CHOOSE x \in Copies : x.id = t) = e
    BY <1>2, <1>4, <1>5
  <2> QED
    BY <2>1, <2>2 DEF AttemptsOf
<1>6. ~(\E e : IsCopy(e) /\ e.id = t) => AttemptsOf(t) = 0
  BY <1>2 DEF AttemptsOf, Has
<1> QED
  BY <1>3, <1>5, <1>6 DEF AttemptsAreCarried

-----------------------------------------------------------------------------
(* A step leaves a task alone if it leaves its copy, its request, its      *)
(* place in the ledger and the outcome in its row alone.                   *)

QueueKept(u) == \A e : e.id = u => (e \in queue' <=> e \in queue)
DelayedKept(u) ==
  \A e : e.id = u => (e \in delayed' <=> e \in delayed) /\ (e \in due' <=> e \in due)

HashKept(u) ==
  \A v \in Workers : \A e : e.id = u => (e \in inflight'[v] <=> e \in inflight[v])

\* A slot may finish what it has to report.
SlotKept(u) ==
  /\ \A v \in Workers, r \in Slots :
       job'[v][r].pc \in Owing /\ job'[v][r].env.id = u => job'[v][r] = job[v][r]
  /\ \A v \in Workers, r \in Slots :
       job[v][r].pc = "nacked" /\ job[v][r].env.id = u => job'[v][r] = job[v][r]

BatchKept(u) ==
  /\ \A e : e.id = u =>
       (co'.pc \in {"requeue", "mark"} /\ e \in co'.batch
          <=> co.pc \in {"requeue", "mark"} /\ e \in co.batch)
  /\ Burying(u)' => Burying(u)

LedgerKept(u) == (u \in settled' <=> u \in settled) /\ (u \in dropped' <=> u \in dropped)

\* The row may be updated, and may tell an outcome that is known already.
RowKept(u) ==
  tasks'[u].status \in {"absent", "succeeded", "dead"} =>
    tasks'[u].status = tasks[u].status \/ (u \in settled /\ tasks'[u].status # "absent")

\* What follows for the places, the copies and the ledger.
Kept(u) ==
  /\ Ready(u)' <=> Ready(u)
  /\ Waiting(u)' <=> Waiting(u)
  /\ Ripe(u)' <=> Ripe(u)
  /\ Nacked(u)' <=> Nacked(u)
  /\ Held(u)' <=> Held(u)
  /\ Submitting(u)' <=> Submitting(u)
  /\ Ended(u)' => Ended(u)
  /\ LedgerKept(u)
  /\ RowKept(u)
  /\ \A e : IsCopy(e)' /\ e.id = u => \E f : IsCopy(f) /\ f.id = u /\ f.attempts = e.attempts

\* Place by place.
LEMMA KeptPlaces ==
  ASSUME NEW u, QueueKept(u), DelayedKept(u), HashKept(u), SlotKept(u), BatchKept(u),
         LedgerKept(u), RowKept(u), Submitting(u)' <=> Submitting(u)
  PROVE  Kept(u)
<1>1. (Ready(u)' <=> Ready(u)) /\ (Waiting(u)' <=> Waiting(u)) /\ (Ripe(u)' <=> Ripe(u))
  BY DEF QueueKept, DelayedKept, Ready, Waiting, Ripe, Has
<1>2. Nacked(u)' <=> Nacked(u)
  BY DEF SlotKept, Nacked, InSlot, Owing
<1>3. Held(u)' <=> Held(u)
  BY DEF HashKept, BatchKept, Held, Recorded, Reclaimed, Has
<1>4. Ended(u)' => Ended(u)
  BY DEF SlotKept, BatchKept, Ended, InSlot, Owing
<1>5. ASSUME NEW e, IsCopy(e)', e.id = u
      PROVE  IsCopy(e)
  <2>1. e \in queue' => e \in queue
    BY <1>5 DEF QueueKept
  <2>2. e \in delayed' => e \in delayed
    BY <1>5 DEF DelayedKept
  <2>3. (\E w \in Workers : e \in inflight'[w]) => \E w \in Workers : e \in inflight[w]
    BY <1>5 DEF HashKept
  <2>4. (\E w \in Workers, s \in Slots : job'[w][s].pc = "nacked" /\ job'[w][s].env = e)
          => \E w \in Workers, s \in Slots : job[w][s].pc = "nacked" /\ job[w][s].env = e
    BY <1>5 DEF SlotKept, Owing
  <2>5. co'.pc \in {"requeue", "mark"} /\ e \in co'.batch
          => co.pc \in {"requeue", "mark"} /\ e \in co.batch
    BY <1>5 DEF BatchKept
  <2> QED
    BY <1>5, <2>1, <2>2, <2>3, <2>4, <2>5 DEF IsCopy
<1> QED
  BY <1>1, <1>2, <1>3, <1>4, <1>5 DEF Kept

\* What does not change keeps every task.
LEMMA KeptFrames ==
  ASSUME NEW u
  PROVE  /\ UNCHANGED queue => QueueKept(u)
         /\ UNCHANGED <<delayed, due>> => DelayedKept(u)
         /\ UNCHANGED inflight => HashKept(u)
         /\ UNCHANGED job => SlotKept(u)
         /\ UNCHANGED co => BatchKept(u)
         /\ UNCHANGED <<settled, dropped>> => LedgerKept(u)
         /\ tasks'[u] = tasks[u] => RowKept(u)
         /\ UNCHANGED api => (Submitting(u)' <=> Submitting(u))
BY DEF QueueKept, DelayedKept, HashKept, SlotKept, BatchKept, LedgerKept, RowKept,
       Submitting, Burying

\* The ledger still agrees.
LEMMA KeptClear ==
  ASSUME NEW u, Clear(u), Kept(u)
  PROVE  Clear(u)'
BY DEF Clear, Kept, Alive, LedgerKept, RowKept, Over

\* A task with a copy, or a request, that is in nobody's books.
LEMMA AliveClear ==
  Placed => \A t \in Tasks : Alive(t) /\ t \notin settled /\ t \notin dropped => Clear(t)
<1> SUFFICES ASSUME Placed, NEW t \in Tasks, Alive(t), t \notin settled, t \notin dropped
               PROVE  Clear(t)
  OBVIOUS
<1>1. Nacked(t) => Owed(t)
  BY DEF Nacked, Owed, InSlot, Owing
<1>2. Ended(t) => Owed(t) \/ Burying(t)
  BY DEF Ended, Owed, InSlot, Owing
<1>3. Ended(t) => ~Nacked(t)
  <2>1. Nacked(t) => ~InSlot({"acked", "pushed"}, t)
    BY DEF Nacked, InSlot, Placed, OneCopy, Owing
  <2>2. Nacked(t) => ~Burying(t)
    BY <1>1, Exclusive
  <2> QED
    BY <2>1, <2>2 DEF Ended
<1>4. ~Ended(t) /\ ~Over(t)
  BY <1>1, <1>2, <1>3, Exclusive DEF Alive, Held
<1> QED
  BY <1>4 DEF Clear, Over

\* A task whose outcome has still to be written to its row.
LEMMA EndedClear ==
  Placed => \A t \in Tasks : Ended(t) /\ t \in settled /\ t \notin dropped
                               => Clear(t) /\ ~Alive(t)
<1> SUFFICES ASSUME Placed, NEW t \in Tasks, Ended(t), t \in settled, t \notin dropped
               PROVE  Clear(t) /\ ~Alive(t)
  OBVIOUS
<1>1. Owed(t) \/ Burying(t)
  BY DEF Ended, Owed, InSlot, Owing
<1>2. ~Nacked(t)
  <2>1. Nacked(t) => Owed(t)
    BY DEF Nacked, Owed, InSlot, Owing
  <2>2. Nacked(t) => ~InSlot({"acked", "pushed"}, t)
    BY DEF Nacked, InSlot, Placed, OneCopy, Owing
  <2> QED
    BY <2>1, <2>2, Exclusive DEF Ended
<1>3. ~Alive(t) /\ ~Over(t)
  BY <1>1, <1>2, Exclusive DEF Alive, Held
<1> QED
  BY <1>3 DEF Clear, Over

-----------------------------------------------------------------------------
(* From places to steps of TaskLifecycle. *)

\* Before and after a step.
Both == TypeOK /\ Placed /\ Decided /\ TypeOK' /\ Placed' /\ Decided'

\* The same of the next state.
LEMMA PhasesNext == (TypeOK /\ Placed /\ Decided => \A t \in Tasks : PhaseIsPlace(t))'
BY Phases, PTL

\* The same of the next state.
LEMMA CarriedNext == (TypeOK /\ Placed => \A t \in Tasks : AttemptsAreCarried(t))'
BY Carried, PTL

\* The same of the next state: a task that is alive and not in the ledger is clear.
LEMMA AliveNext ==
  (Placed => \A t \in Tasks : Alive(t) /\ t \notin settled /\ t \notin dropped => Clear(t))'
BY AliveClear, PTL

\* The same of the next state: a settled task that ended is clear and has no copy.
LEMMA EndedNext ==
  (Placed => \A t \in Tasks : Ended(t) /\ t \in settled /\ t \notin dropped
                                => Clear(t) /\ ~Alive(t))'
BY EndedClear, PTL

\* The phase of a task after a step, by the place of its copy.
LEMMA PhasesAfter ==
  ASSUME TypeOK', Placed', Decided', NEW t \in Tasks
  PROVE  /\ Ready(t)' => PhaseOf(t)' = "ready"
         /\ Ripe(t)' => PhaseOf(t)' = "ripe"
         /\ Waiting(t)' /\ ~Ripe(t)' => PhaseOf(t)' = "waiting"
         /\ Nacked(t)' => PhaseOf(t)' = "failed"
         /\ Held(t)' => PhaseOf(t)' = "taken"
         /\ t \in settled' => PhaseOf(t)' = "settled"
         /\ t \in dropped' => PhaseOf(t)' = "lost"
         /\ Submitting(t)' => PhaseOf(t)' = "persisted"
BY PhasesNext DEF PhaseIsPlace

\* A task that has no copy and is not in the ledger was never accepted.
LEMMA PhaseNone ==
  ASSUME TypeOK', Placed', Decided', NEW t \in Tasks, ~Alive(t)', t \notin settled',
         t \notin dropped'
  PROVE  PhaseOf(t)' = "none"
BY PhasesNext DEF PhaseIsPlace

\* The attempts of a task after a step are those of whichever copy there is.
LEMMA CarriedAfter ==
  ASSUME TypeOK', Placed', NEW t \in Tasks
  PROVE  /\ \A e : IsCopy(e)' /\ e.id = t => AttemptsOf(t)' = e.attempts
         /\ ~(\E e : IsCopy(e)' /\ e.id = t) => AttemptsOf(t)' = 0
         /\ (\E e : IsCopy(e)' /\ e.id = t)
              <=> Ready(t)' \/ Waiting(t)' \/ Nacked(t)' \/ Held(t)'
BY CarriedNext DEF AttemptsAreCarried

\* The two ways for the ledger to agree after a step that moves a task.
LEMMA ClearAfter ==
  ASSUME Placed', NEW t \in Tasks, t \notin dropped'
  PROVE  /\ Alive(t)' /\ t \notin settled' => Clear(t)'
         /\ Ended(t)' /\ t \in settled' => Clear(t)' /\ ~Alive(t)'
BY AliveNext, EndedNext

\* A task that is left alone has the same phase and the same attempts.
LEMMA KeptSame ==
  ASSUME Both, NEW u \in Tasks, Kept(u)
  PROVE  PhaseOf(u)' = PhaseOf(u) /\ AttemptsOf(u)' = AttemptsOf(u)
<1>0. TypeOK /\ Placed /\ Decided /\ TypeOK' /\ Placed' /\ Decided'
  BY DEF Both
<1>1. PhaseOf(u)' = PhaseOf(u)
  <2>1. Alive(u)' <=> Alive(u)
    BY DEF Alive, Kept
  <2>2. CASE Alive(u)
    BY <1>0, <2>2, Phases, PhasesAfter DEF Alive, Kept, PhaseIsPlace
  <2>3. CASE ~Alive(u)
    BY <1>0, <2>1, <2>3, Phases, PhasesAfter, PhaseNone DEF Kept, LedgerKept, PhaseIsPlace
  <2> QED
    BY <2>2, <2>3
<1>2. AttemptsOf(u)' = AttemptsOf(u)
  <2>1. CASE \E e : IsCopy(e)' /\ e.id = u
    <3>1. PICK e : IsCopy(e)' /\ e.id = u
      BY <2>1
    <3>2. PICK f : IsCopy(f) /\ f.id = u /\ f.attempts = e.attempts
      BY <3>1 DEF Kept
    <3>3. AttemptsOf(u)' = e.attempts
      BY <1>0, <3>1, CarriedAfter
    <3>4. AttemptsOf(u) = f.attempts
      BY <1>0, <3>2, Carried DEF AttemptsAreCarried
    <3> QED
      BY <3>2, <3>3, <3>4
  <2>2. CASE ~\E e : IsCopy(e)' /\ e.id = u
    <3>1. ~(Ready(u)' \/ Waiting(u)' \/ Nacked(u)' \/ Held(u)')
      BY <1>0, <2>2, CarriedAfter
    <3>2. ~(Ready(u) \/ Waiting(u) \/ Nacked(u) \/ Held(u))
      BY <3>1 DEF Kept
    <3>3. AttemptsOf(u) = 0
      BY <1>0, <3>2, Carried DEF AttemptsAreCarried
    <3>4. AttemptsOf(u)' = 0
      BY <1>0, <2>2, CarriedAfter
    <3> QED
      BY <3>3, <3>4
  <2> QED
    BY <2>1, <2>2
<1> QED
  BY <1>1, <1>2

\* All tasks are left alone: the abstract system stutters.
LEMMA AllKept ==
  ASSUME Both, \A u \in Tasks : Kept(u)
  PROVE  UNCHANGED Lifecycle!vars
<1>1. \A u \in Tasks : PhaseOf(u)' = PhaseOf(u) /\ AttemptsOf(u)' = AttemptsOf(u)
  BY KeptSame
<1> QED
  BY <1>1 DEF Lifecycle!vars

\* One task moves, the others are left alone.
LEMMA OneMoves ==
  ASSUME Both, NEW t \in Tasks, \A u \in Tasks : u # t => Kept(u),
         NEW from, NEW to, NEW n, from # to,
         PhaseOf(t) = from, PhaseOf(t)' = to, AttemptsOf(t)' = n
  PROVE  Lifecycle!Move(t, from, to, n) /\ t \in Lifecycle!Moved
<1>1. \A u \in Tasks : u # t => PhaseOf(u)' = PhaseOf(u) /\ AttemptsOf(u)' = AttemptsOf(u)
  BY KeptSame
<1>2. Lifecycle!Move(t, from, to, n)
  BY <1>1 DEF Lifecycle!Move, Lifecycle!MoveAll
<1>3. t \in Lifecycle!Moved
  BY DEF Lifecycle!Moved
<1> QED
  BY <1>2, <1>3

\* Several tasks are lost together, the others are left alone.
LEMMA SomeLost ==
  ASSUME Both,
         \A u \in Tasks : Kept(u) \/ ((Held(u) \/ Nacked(u)) /\ u \in dropped')
  PROVE  Lifecycle!Lose(Lifecycle!Moved)
<1>0. TypeOK /\ Placed /\ Decided /\ TypeOK' /\ Placed' /\ Decided'
  BY DEF Both
<1>1. ASSUME NEW u \in Tasks
      PROVE  \/ PhaseOf(u)' = PhaseOf(u) /\ AttemptsOf(u)' = AttemptsOf(u)
             \/ /\ PhaseOf(u) \in {"taken", "failed"} /\ PhaseOf(u)' = "lost"
                /\ AttemptsOf(u)' = 0
  <2>1. CASE Kept(u)
    BY <2>1, KeptSame
  <2>2. CASE (Held(u) \/ Nacked(u)) /\ u \in dropped'
    <3>1. PhaseOf(u) \in {"taken", "failed"} /\ PhaseOf(u)' = "lost"
      BY <1>0, <2>2, Phases, PhasesAfter DEF PhaseIsPlace
    <3>2. ~Alive(u)'
      <4>1. Clear(u)'
        BY <1>0 DEF Decided
      <4> QED
        BY <2>2, <4>1 DEF Clear
    <3>3. AttemptsOf(u)' = 0
      BY <1>0, <3>2, CarriedAfter DEF Alive
    <3> QED
      BY <3>1, <3>3
  <2> QED
    BY <1>1, <2>1, <2>2
<1> DEFINE M == Lifecycle!Moved
<1>2. \A u \in Tasks : u \in M <=> PhaseOf(u)' # PhaseOf(u)
  BY DEF Lifecycle!Moved
<1>3. M \subseteq Tasks
  BY DEF Lifecycle!Moved
<1> HIDE DEF M
<1>4. Lifecycle!MoveAll(M, {"taken", "failed"}, "lost")
  BY <1>1, <1>2, <1>3 DEF Lifecycle!MoveAll
<1>5. [t \in Tasks |-> AttemptsOf(t)]' =
        [t \in Tasks |-> IF t \in M THEN 0 ELSE [s \in Tasks |-> AttemptsOf(s)][t]]
  BY <1>1, <1>2, <1>3
<1>6. Lifecycle!Lose(M)
  BY <1>4, <1>5 DEF Lifecycle!Lose
<1> QED
  BY <1>6 DEF M

\* Several tasks become ready together, the others are left alone.
LEMMA SomePromoted ==
  ASSUME Both,
         \A u \in Tasks : \/ Kept(u)
                          \/ /\ Ripe(u) /\ Ready(u)'
                             /\ AttemptsOf(u)' = AttemptsOf(u)
  PROVE  Lifecycle!Promote(Lifecycle!Moved)
<1>0. TypeOK /\ Placed /\ Decided /\ TypeOK' /\ Placed' /\ Decided'
  BY DEF Both
<1>1. ASSUME NEW u \in Tasks
      PROVE  /\ \/ PhaseOf(u)' = PhaseOf(u)
                \/ PhaseOf(u) = "ripe" /\ PhaseOf(u)' = "ready"
             /\ AttemptsOf(u)' = AttemptsOf(u)
  <2>1. CASE Kept(u)
    BY <2>1, KeptSame
  <2>2. CASE Ripe(u) /\ Ready(u)' /\ AttemptsOf(u)' = AttemptsOf(u)
    BY <1>0, <2>2, Phases, PhasesAfter DEF PhaseIsPlace
  <2> QED
    BY <1>1, <2>1, <2>2
<1> DEFINE M == Lifecycle!Moved
<1>2. \A u \in Tasks : u \in M <=> PhaseOf(u)' # PhaseOf(u)
  BY DEF Lifecycle!Moved
<1>3. M \subseteq Tasks
  BY DEF Lifecycle!Moved
<1> HIDE DEF M
<1>4. Lifecycle!MoveAll(M, {"ripe"}, "ready")
  BY <1>1, <1>2, <1>3 DEF Lifecycle!MoveAll
<1>5. [t \in Tasks |-> AttemptsOf(t)]' = [t \in Tasks |-> AttemptsOf(t)]
  BY <1>1
<1>6. Lifecycle!Promote(M)
  BY <1>4, <1>5 DEF Lifecycle!Promote
<1> QED
  BY <1>6 DEF M

-----------------------------------------------------------------------------
(* The steps that TaskLifecycle does not see. *)

\* No handler is started.
LEMMA HandlersKept ==
  ASSUME Decided,
         \A v \in Workers, r \in Slots : job'[v][r].pc = "running" =>
           job[v][r].pc = "running" /\ job'[v][r].env = job[v][r].env
  PROVE  HandlersFound'
BY DEF Decided, HandlersFound

\* The ledger agrees after a step that moves no task.
LEMMA KeptDecided ==
  ASSUME Decided, HandlersFound', \A u \in Tasks : Kept(u)
  PROVE  Decided'
<1>1. \A u \in Tasks : Clear(u)'
  BY KeptClear DEF Decided
<1> QED
  BY <1>1 DEF Decided

\* The ledger agrees after a step that moves one.
LEMMA MovedDecided ==
  ASSUME Decided, HandlersFound', NEW t \in Tasks, Clear(t)',
         \A u \in Tasks : u # t => Kept(u)
  PROVE  Decided'
<1>1. \A u \in Tasks : Clear(u)'
  BY KeptClear DEF Decided
<1> QED
  BY <1>1 DEF Decided

\* What the proof of the refinement has to show of a step.
Refines == Decided' /\ [Lifecycle!Next]_(Lifecycle!vars)

\* A step that leaves all tasks alone.
LEMMA Stutters ==
  ASSUME TypeOK, Placed, Decided, TypeOK', Placed', HandlersFound',
         \A u \in Tasks : Kept(u)
  PROVE  Refines
<1>1. Decided'
  BY KeptDecided
<1> QED
  BY <1>1, AllKept DEF Refines, Both

\* Heartbeats, empty polls, passing time: nothing of any task changes.
LEMMA QuietRefines ==
  ASSUME TypeOK, Placed, Decided, TypeOK', Placed',
         UNCHANGED <<queue, delayed, due, inflight, job, tasks, co, api, settled, dropped>>
  PROVE  Refines
<1>1. HandlersFound'
  BY HandlersKept
<1>2. \A u \in Tasks : Kept(u)
  BY KeptFrames, KeptPlaces
<1> QED
  BY <1>1, <1>2, Stutters

\* A goroutine writes to the row of its task: a start, a success, a dead letter
\* or a retry.  An outcome it writes is in the ledger.
LEMMA WriteRefines ==
  ASSUME TypeOK, Placed, Decided, TypeOK', Placed', HandlersFound',
         NEW w \in Workers, NEW s \in Slots,
         UNCHANGED <<queue, delayed, due, inflight, co, api>>,
         \A v \in Workers, r \in Slots : ~(v = w /\ r = s) => job'[v][r] = job[v][r],
         job[w][s].pc # "nacked", job'[w][s].pc \notin Owing,
         \A u \in Tasks : LedgerKept(u) /\ RowKept(u)
  PROVE  Refines
<1>1. ASSUME NEW u \in Tasks
      PROVE  Kept(u)
  <2>1. SlotKept(u)
    BY DEF SlotKept
  <2> QED
    BY <2>1, KeptFrames, KeptPlaces
<1> QED
  BY <1>1, Stutters

\* Start, RecordSuccess, RecordDead and RecordRetry.
LEMMA ReportRefines ==
  ASSUME TypeOK, Steady, Placed, Decided, TypeOK', Placed', NEW w \in Workers,
         NEW s \in Slots, UNCHANGED <<co, api>>,
         Start(w, s) \/ RecordSuccess(w, s) \/ RecordDead(w, s) \/ RecordRetry(w, s)
  PROVE  Refines
<1> DEFINE t == job[w][s].env.id
<1>0. WorkerTypeOK /\ StoreTypeOK
  BY DEF TypeOK
<1>f. ~CommandFails(w)
  BY NoFaults
<1>1. /\ UNCHANGED <<queue, delayed, due, inflight>>
      /\ job[w][s].pc # "nacked" /\ job[w][s].pc # "idle"
  BY <1>f DEF Start, RecordSuccess, RecordDead, RecordRetry, Step, Finish, queueVars
<1>2. /\ \A v \in Workers, r \in Slots : ~(v = w /\ r = s) => job'[v][r] = job[v][r]
      /\ job'[w][s].pc \in {"idle", "running"}
      /\ job'[w][s].pc = "running" => Lookup(TypeOf(t)) /\ job'[w][s].env = job[w][s].env
  BY <1>0 DEF Start, RecordSuccess, RecordDead, RecordRetry, Step, Finish, IdleJob,
              WorkerTypeOK
<1>3. t \in Tasks
  BY <1>0, <1>1, JobEnvelope, EnvelopeFields
<1>4. Clear(t)
  BY <1>3 DEF Decided
<1>5. job[w][s].pc \in {"acked", "pushed"} => t \in settled
  BY <1>4 DEF Clear, Ended, InSlot
<1>6. \A u \in Tasks : LedgerKept(u)
  BY <1>f, <1>5 DEF Start, RecordSuccess, RecordDead, RecordRetry, Finish, Settle,
                    ledger, LedgerKept
<1>7. ASSUME NEW u \in Tasks
      PROVE  RowKept(u)
  <2>1. tasks[u] \in Row
    BY <1>0 DEF StoreTypeOK
  <2>2. CASE u # t
    <3>1. tasks'[u] = tasks[u]
      BY <1>0, <1>f, <2>2
         DEF Start, RecordSuccess, RecordDead, RecordRetry, MarkRunning, MarkSucceeded,
             MarkDead, MarkRetry, StoreTypeOK
    <3> QED
      BY <3>1, KeptFrames
  <2>3. CASE u = t
    <3>1. CASE Start(w, s)
      <4>1. tasks'[u].status = "running"
        BY <1>0, <1>f, <2>3, <3>1 DEF Start, MarkRunning, StoreTypeOK
      <4> QED
        BY <4>1 DEF RowKept
    <3>2. CASE RecordRetry(w, s)
      <4>1. tasks'[u].status = "retrying"
        BY <1>0, <1>f, <2>1, <2>3, <3>2 DEF RecordRetry, MarkRetry, StoreTypeOK, Row
      <4> QED
        BY <4>1 DEF RowKept
    <3>3. CASE RecordSuccess(w, s) \/ RecordDead(w, s)
      <4>1. tasks'[u].status \in {"succeeded", "dead"}
        BY <1>0, <1>f, <2>1, <2>3, <3>3
           DEF RecordSuccess, RecordDead, MarkSucceeded, MarkDead, StoreTypeOK, Row
      <4>2. u \in settled
        BY <1>5, <2>3, <3>3 DEF RecordSuccess, RecordDead, Finish
      <4> QED
        BY <4>1, <4>2 DEF RowKept
    <3> QED
      BY <3>1, <3>2, <3>3
  <2> QED
    BY <2>2, <2>3
<1>8. HandlersFound'
  <2>1. HandlersFound
    BY DEF Decided
  <2> QED
    BY <1>2, <2>1 DEF HandlersFound
<1>9. job'[w][s].pc \notin Owing
  BY <1>2 DEF Owing
<1> QED
  BY <1>1, <1>2, <1>6, <1>7, <1>8, <1>9, WriteRefines

-----------------------------------------------------------------------------
(* The worker. *)

\* A task with a copy is in nobody's books.
LEMMA LiveUnsettled ==
  ASSUME Decided, NEW t \in Tasks, Alive(t)
  PROVE  t \notin settled /\ t \notin dropped
BY DEF Decided, Clear

\* The attempts before the step are those of the copy.
LEMMA AttemptsBefore ==
  ASSUME TypeOK, Placed, NEW e, IsCopy(e), e.id \in Tasks
  PROVE  AttemptsOf(e.id) = e.attempts
BY Carried DEF AttemptsAreCarried

\* The phase before the step is the place.
LEMMA PhaseBefore ==
  ASSUME TypeOK, Placed, Decided, NEW t \in Tasks
  PROVE  PhaseIsPlace(t)
BY Phases

\* A lease takes the task.
LEMMA LeaseRefines ==
  ASSUME TypeOK, Placed, Decided, TypeOK', Placed', NEW w \in Workers, NEW s \in Slots,
         LeaseTask(w, s), UNCHANGED <<co, api>>
  PROVE  Refines
<1>0. QueueTypeOK /\ WorkerTypeOK
  BY DEF TypeOK
<1>1. PICK e \in queue : /\ Lease(TaskTypes[poll[w]], w, e)
                         /\ job' = [job EXCEPT ![w][s] = [pc |-> "leased", env |-> e]]
  BY DEF LeaseTask
<1>2. /\ queue' = queue \ {e} /\ UNCHANGED <<delayed, due>> /\ tasks' = tasks
      /\ inflight'[w] = {x \in inflight[w] : x.id # e.id} \cup {e}
      /\ \A v \in Workers : v # w => inflight'[v] = inflight[v]
      /\ UNCHANGED <<settled, dropped>>
  BY <1>0, <1>1 DEF Lease, HSet, QueueTypeOK, LeaseTask, storeVars, ledger
<1>3. e.id \in Tasks /\ Ready(e.id) /\ Alive(e.id)
  BY <1>0, EnvelopeFields DEF QueueTypeOK, Ready, Has, Alive
<1>4. /\ job[w][s].pc = "idle"
      /\ \A v \in Workers, r \in Slots :
        job'[v][r] = IF v = w /\ r = s THEN [pc |-> "leased", env |-> e] ELSE job[v][r]
  BY <1>0, <1>1 DEF WorkerTypeOK, LeaseTask, CanPoll
<1>5. Held(e.id)' /\ Alive(e.id)'
  BY <1>2 DEF Held, Recorded, Has, Alive
<1>6. IsCopy(e) /\ IsCopy(e)'
  BY <1>2 DEF IsCopy
<1>7. ASSUME NEW u \in Tasks, u # e.id
      PROVE  Kept(u)
  <2>1. QueueKept(u)
    BY <1>2, <1>7 DEF QueueKept
  <2>2. HashKept(u)
    BY <1>2, <1>7 DEF HashKept
  <2>3. SlotKept(u)
    BY <1>4 DEF SlotKept, Owing
  <2> QED
    BY <1>2, <2>1, <2>2, <2>3, KeptFrames, KeptPlaces
<1>8. Decided'
  <2>1. e.id \notin settled' /\ e.id \notin dropped'
    BY <1>2, <1>3, LiveUnsettled
  <2>2. Clear(e.id)'
    BY <1>3, <1>5, <2>1, ClearAfter
  <2>3. HandlersFound'
    BY <1>4, HandlersKept
  <2> QED
    BY <1>3, <1>7, <2>2, <2>3, MovedDecided
<1>9. Lifecycle!Move(e.id, "ready", "taken", AttemptsOf(e.id)) /\ e.id \in Lifecycle!Moved
  <2>1. PhaseOf(e.id) = "ready"
    BY <1>3, PhaseBefore DEF PhaseIsPlace
  <2>2. PhaseOf(e.id)' = "taken"
    BY <1>3, <1>5, <1>8, PhasesAfter
  <2>3. AttemptsOf(e.id)' = AttemptsOf(e.id)
    <3>1. AttemptsOf(e.id)' = e.attempts
      BY <1>3, <1>6, CarriedAfter
    <3>2. AttemptsOf(e.id) = e.attempts
      BY <1>3, <1>6, AttemptsBefore
    <3> QED
      BY <3>1, <3>2
  <2>4. Both
    BY <1>8 DEF Both
  <2> HIDE DEF Both
  <2> QED
    BY <1>3, <1>7, <2>1, <2>2, <2>3, <2>4, OneMoves
<1>10. Lifecycle!Take(e.id)
  BY <1>3, <1>9 DEF Lifecycle!Take
<1> QED
  BY <1>8, <1>9, <1>10 DEF Refines, Lifecycle!Next

\* A handler that has returned gives up its record: no other task is concerned.
LEMMA GiveUpKeeps ==
  ASSUME TypeOK, Placed, NEW w \in Workers, NEW s \in Slots,
         job[w][s].pc \in {"leased", "running"}, job'[w][s].env.id = job[w][s].env.id,
         \A v \in Workers, r \in Slots : ~(v = w /\ r = s) => job'[v][r] = job[v][r],
         Ack(w, job[w][s].env.id), UNCHANGED <<tasks, co, api, dropped>>,
         \A u \in Tasks : u # job[w][s].env.id => (u \in settled' <=> u \in settled)
  PROVE  /\ job[w][s].env \in Envelope /\ job[w][s].env.id \in Tasks
         /\ IsCopy(job[w][s].env)
         /\ Held(job[w][s].env.id)
         /\ \A u \in Tasks : u # job[w][s].env.id => Kept(u)
<1> DEFINE e == job[w][s].env
<1>0. QueueTypeOK /\ WorkerTypeOK
  BY DEF TypeOK
<1>1. /\ queue' = queue /\ UNCHANGED <<delayed, due>>
      /\ inflight'[w] = {x \in inflight[w] : x.id # e.id}
      /\ \A v \in Workers : v # w => inflight'[v] = inflight[v]
  BY <1>0 DEF Ack, HDel, QueueTypeOK
<1>2. e \in inflight[w]
  BY DEF Placed, Tied
<1>3. e \in Envelope
  BY <1>0, <1>2 DEF QueueTypeOK
<1>4. e.id \in Tasks
  BY <1>3, EnvelopeFields
<1>5. IsCopy(e) /\ Held(e.id)
  BY <1>2 DEF IsCopy, Held, Recorded, Has
<1>6. ASSUME NEW u \in Tasks, u # e.id
      PROVE  Kept(u)
  <2>1. HashKept(u)
    BY <1>1, <1>6 DEF HashKept
  <2>2. SlotKept(u)
    BY <1>6 DEF SlotKept
  <2>3. LedgerKept(u)
    BY <1>6 DEF LedgerKept
  <2> QED
    BY <1>1, <2>1, <2>2, <2>3, KeptFrames, KeptPlaces
<1> QED
  BY <1>3, <1>4, <1>5, <1>6

\* A task moves to a phase of its own, the ledger agrees.
LEMMA MoveRefines ==
  ASSUME TypeOK, Placed, Decided, TypeOK', Placed', HandlersFound',
         NEW t \in Tasks, Clear(t)', \A u \in Tasks : u # t => Kept(u)
  PROVE  Decided' /\ Both
<1>1. Decided'
  BY MovedDecided
<1> QED
  BY <1>1 DEF Both

\* A failing handler, or a missing one: the attempt has failed.
LEMMA FailRefines ==
  ASSUME TypeOK, Steady, Placed, Decided, TypeOK', Placed', NEW w \in Workers,
         NEW s \in Slots, UNCHANGED <<co, api>>, Unhandled(w, s) \/ Fail(w, s)
  PROVE  Refines
<1> SUFFICES ASSUME NEW e, e = job[w][s].env
             PROVE  Refines
  OBVIOUS
<1> DEFINE t == e.id
           e1 == [e EXCEPT !.attempts = @ + 1]
<1>0. WorkerTypeOK
  BY DEF TypeOK
<1>f. ~CommandFails(w)
  BY NoFaults
<1>e. job[w][s].pc # "idle" =>
        e \in Envelope /\ e1.id = t /\ e1.attempts = e.attempts + 1 /\ e.attempts \in Nat
  <2>1. ASSUME job[w][s].pc # "idle"
        PROVE  e \in Envelope
    BY <1>0, <2>1, JobEnvelope
  <2>2. ASSUME e \in Envelope
        PROVE  e1.id = t /\ e1.attempts = e.attempts + 1 /\ e.attempts \in Nat
    BY <2>2 DEF Envelope
  <2> QED
    BY <2>1, <2>2
<1>1. /\ job[w][s].pc \in {"leased", "running"} /\ tasks' = tasks
      /\ UNCHANGED <<settled, dropped>>
      /\ \A v \in Workers, r \in Slots : ~(v = w /\ r = s) => job'[v][r] = job[v][r]
      /\ job'[w][s].pc = "nacked"
  BY <1>0 DEF Unhandled, Fail, Step, storeVars, ledger, WorkerTypeOK
<1>2. \/ /\ ~Lookup(TypeOf(t)) /\ job'[w][s].env = e /\ Ack(w, t)
      \/ /\ job[w][s].pc = "running" /\ job'[w][s].env = e1 /\ Ack(w, e1.id)
  <2>1. CASE Unhandled(w, s)
    BY <1>0, <1>f, <2>1 DEF Unhandled, Step, Nack, WorkerTypeOK
  <2>2. CASE Fail(w, s)
    <3>1. /\ job' = [job EXCEPT ![w][s] = [pc |-> "nacked", env |-> e1]]
          /\ job[w][s].pc = "running" /\ Ack(w, e1.id)
      BY <1>f, <2>2 DEF Fail, Step, Nack
    <3> HIDE DEF e1
    <3> QED
      BY <1>0, <3>1 DEF WorkerTypeOK
  <2> QED
    BY <2>1, <2>2
<1> HIDE DEF e1
<1>3. job'[w][s].env.id = t /\ Ack(w, t)
  BY <1>1, <1>2, <1>e
<1>4. /\ t \in Tasks /\ IsCopy(e) /\ Held(t) /\ \A u \in Tasks : u # t => Kept(u)
  BY <1>1, <1>3, GiveUpKeeps
<1>5. Nacked(t)' /\ Alive(t)'
  BY <1>1, <1>3 DEF Nacked, InSlot, Alive
<1>6. t \notin settled' /\ t \notin dropped'
  BY <1>1, <1>4, LiveUnsettled DEF Alive
<1>7. Decided' /\ Both
  <2>1. HandlersFound'
    BY <1>1, HandlersKept
  <2>2. Clear(t)'
    BY <1>4, <1>5, <1>6, ClearAfter
  <2> QED
    BY <1>4, <2>1, <2>2, MoveRefines
<1>8. AttemptsOf(t) = e.attempts
  BY <1>4, AttemptsBefore
<1>9. AttemptsOf(t)' = job'[w][s].env.attempts
  <2>1. SUFFICES ASSUME NEW f, f = job'[w][s].env
                 PROVE  AttemptsOf(t)' = f.attempts
    OBVIOUS
  <2>2. IsCopy(f)'
    BY <1>1, <2>1 DEF IsCopy
  <2> QED
    BY <1>3, <1>4, <2>1, <2>2, CarriedAfter
<1>10. AttemptsOf(t)' = AttemptsOf(t) + IF Lookup(TypeOf(t)) THEN 1 ELSE 0
  <2>1. job[w][s].pc = "running" => Lookup(TypeOf(t))
    BY DEF Decided, HandlersFound
  <2> QED
    BY <1>1, <1>2, <1>8, <1>9, <1>e, <2>1
<1>11. PhaseOf(t) = "taken" /\ PhaseOf(t)' = "failed"
  BY <1>4, <1>5, <1>7, PhaseBefore, PhasesAfter DEF PhaseIsPlace
<1>12. /\ Lifecycle!Move(t, "taken", "failed", AttemptsOf(t) + IF Lookup(TypeOf(t)) THEN 1 ELSE 0)
       /\ t \in Lifecycle!Moved
  BY <1>4, <1>7, <1>10, <1>11, OneMoves
<1>13. Lifecycle!Fail(t)
  BY <1>4, <1>12 DEF Lifecycle!Fail
<1> QED
  BY <1>7, <1>12, <1>13 DEF Refines, Lifecycle!Next

\* A handler that returns without an error settles its task.
LEMMA SucceedRefines ==
  ASSUME TypeOK, Steady, Placed, Decided, TypeOK', Placed', NEW w \in Workers,
         NEW s \in Slots, UNCHANGED <<co, api>>, Succeed(w, s)
  PROVE  Refines
<1> SUFFICES ASSUME NEW e, e = job[w][s].env
             PROVE  Refines
  OBVIOUS
<1> DEFINE t == e.id
<1>0. WorkerTypeOK
  BY DEF TypeOK
<1>f. ~CommandFails(w)
  BY NoFaults
<1>1. /\ job[w][s].pc = "running" /\ tasks' = tasks
      /\ settled' = settled \cup {t} /\ dropped' = dropped
      /\ \A v \in Workers, r \in Slots : ~(v = w /\ r = s) => job'[v][r] = job[v][r]
      /\ job'[w][s].pc = "acked" /\ job'[w][s].env = e /\ Ack(w, t)
  BY <1>0, <1>f DEF Succeed, Step, Settle, storeVars, WorkerTypeOK
<1>2. /\ t \in Tasks /\ IsCopy(e) /\ Held(t) /\ \A u \in Tasks : u # t => Kept(u)
  BY <1>1, GiveUpKeeps
<1>3. Ended(t)' /\ t \in settled' /\ t \notin dropped'
  <2>1. Ended(t)'
    BY <1>1 DEF Ended, InSlot
  <2> QED
    BY <1>1, <1>2, <2>1, LiveUnsettled DEF Alive
<1>4. Clear(t)' /\ ~Alive(t)'
  BY <1>2, <1>3, ClearAfter
<1>5. Decided' /\ Both
  <2>1. HandlersFound'
    BY <1>1, HandlersKept
  <2> QED
    BY <1>2, <1>4, <2>1, MoveRefines
<1>6. AttemptsOf(t)' = 0
  BY <1>2, <1>4, CarriedAfter DEF Alive
<1>7. PhaseOf(t) = "taken" /\ PhaseOf(t)' = "settled"
  BY <1>2, <1>3, <1>5, PhaseBefore, PhasesAfter DEF PhaseIsPlace
<1>8. Lifecycle!Move(t, "taken", "settled", 0) /\ t \in Lifecycle!Moved
  BY <1>2, <1>5, <1>6, <1>7, OneMoves
<1>9. Lookup(TypeOf(t))
  BY <1>1 DEF Decided, HandlersFound
<1>10. Lifecycle!Succeed(t)
  BY <1>2, <1>8, <1>9 DEF Lifecycle!Succeed
<1> QED
  BY <1>5, <1>8, <1>10 DEF Refines, Lifecycle!Next

\* A nacked task leaves its slot: no other task is concerned.
LEMMA PassOnKeeps ==
  ASSUME TypeOK, Placed, NEW w \in Workers, NEW s \in Slots, job[w][s].pc = "nacked",
         job'[w][s].env.id = job[w][s].env.id,
         \A v \in Workers, r \in Slots : ~(v = w /\ r = s) => job'[v][r] = job[v][r],
         UNCHANGED <<queue, inflight, tasks, co, api, dropped>>,
         \A e : e.id # job[w][s].env.id =>
           (e \in delayed' <=> e \in delayed) /\ (e \in due' <=> e \in due),
         \A u \in Tasks : u # job[w][s].env.id => (u \in settled' <=> u \in settled)
  PROVE  /\ job[w][s].env \in Envelope /\ job[w][s].env.id \in Tasks
         /\ IsCopy(job[w][s].env)
         /\ Nacked(job[w][s].env.id)
         /\ \A u \in Tasks : u # job[w][s].env.id => Kept(u)
<1>0. WorkerTypeOK
  BY DEF TypeOK
<1>1. job[w][s].env \in Envelope
  BY <1>0, JobEnvelope
<1>2. job[w][s].env.id \in Tasks
  BY <1>1, EnvelopeFields
<1>3. IsCopy(job[w][s].env) /\ Nacked(job[w][s].env.id)
  BY DEF IsCopy, Nacked, InSlot
<1>4. ASSUME NEW u \in Tasks, u # job[w][s].env.id
      PROVE  Kept(u)
  <2>1. DelayedKept(u)
    BY <1>4 DEF DelayedKept
  <2>2. SlotKept(u)
    BY <1>4 DEF SlotKept
  <2>3. LedgerKept(u)
    BY <1>4 DEF LedgerKept
  <2> QED
    BY <2>1, <2>2, <2>3, KeptFrames, KeptPlaces
<1> QED
  BY <1>1, <1>2, <1>3, <1>4

\* A nacked task whose attempts are used up, or that has no handler, is buried.
LEMMA PushDeadRefines ==
  ASSUME TypeOK, Steady, Placed, Decided, TypeOK', Placed', NEW w \in Workers,
         NEW s \in Slots, UNCHANGED <<co, api>>, PushDead(w, s)
  PROVE  Refines
<1> SUFFICES ASSUME NEW e, e = job[w][s].env
             PROVE  Refines
  OBVIOUS
<1> DEFINE t == e.id
<1>0. WorkerTypeOK
  BY DEF TypeOK
<1>f. ~CommandFails(w)
  BY NoFaults
<1>1. /\ job[w][s].pc = "nacked" /\ Exhausted(e) /\ UNCHANGED <<queue, delayed, due, inflight, tasks>>
      /\ settled' = settled \cup {t} /\ dropped' = dropped
      /\ \A v \in Workers, r \in Slots : ~(v = w /\ r = s) => job'[v][r] = job[v][r]
      /\ job'[w][s].pc = "pushed" /\ job'[w][s].env = e
  BY <1>0, <1>f DEF PushDead, Step, Settle, DeadLetter, storeVars, WorkerTypeOK
<1>2. t \in Tasks /\ IsCopy(e) /\ Nacked(t) /\ \A u \in Tasks : u # t => Kept(u)
  BY <1>1, PassOnKeeps
<1>3. Ended(t)' /\ t \in settled' /\ t \notin dropped'
  <2>1. Ended(t)'
    BY <1>1 DEF Ended, InSlot
  <2> QED
    BY <1>1, <1>2, <2>1, LiveUnsettled DEF Alive
<1>4. Clear(t)' /\ ~Alive(t)'
  BY <1>2, <1>3, ClearAfter
<1>5. Decided' /\ Both
  <2>1. HandlersFound'
    BY <1>1, HandlersKept
  <2> QED
    BY <1>2, <1>4, <2>1, MoveRefines
<1>6. AttemptsOf(t)' = 0
  BY <1>2, <1>4, CarriedAfter DEF Alive
<1>7. PhaseOf(t) = "failed" /\ PhaseOf(t)' = "settled"
  BY <1>2, <1>3, <1>5, PhaseBefore, PhasesAfter DEF PhaseIsPlace
<1>8. Lifecycle!Move(t, "failed", "settled", 0) /\ t \in Lifecycle!Moved
  BY <1>2, <1>5, <1>6, <1>7, OneMoves
<1>9. ~Lookup(TypeOf(t)) \/ AttemptsOf(t) >= MaxAttempts(t)
  BY <1>1, <1>2, AttemptsBefore DEF Exhausted
<1>10. Lifecycle!Bury(t)
  BY <1>2, <1>8, <1>9 DEF Lifecycle!Bury
<1> QED
  BY <1>5, <1>8, <1>10 DEF Refines, Lifecycle!Next

\* A nacked task that has attempts left waits for its retry.
LEMMA ScheduleRefines ==
  ASSUME TypeOK, Steady, Placed, Decided, TypeOK', Placed', NEW w \in Workers,
         NEW s \in Slots, UNCHANGED <<co, api>>, Schedule(w, s)
  PROVE  Refines
<1> SUFFICES ASSUME NEW e, e = job[w][s].env
             PROVE  Refines
  OBVIOUS
<1> DEFINE t == e.id
<1>0. WorkerTypeOK
  BY DEF TypeOK
<1>f. ~CommandFails(w)
  BY NoFaults
<1>1. /\ job[w][s].pc = "nacked" /\ ~Exhausted(e) /\ UNCHANGED <<queue, inflight, tasks>>
      /\ delayed' = delayed \cup {e} /\ due' = due \ {e}
      /\ UNCHANGED <<settled, dropped>>
      /\ \A v \in Workers, r \in Slots : ~(v = w /\ r = s) => job'[v][r] = job[v][r]
      /\ job'[w][s].pc = "scheduled" /\ job'[w][s].env = e
  BY <1>0, <1>f DEF Schedule, Step, EnqueueDelayed, ledger, storeVars, WorkerTypeOK
<1>2. e \in Envelope /\ t \in Tasks /\ IsCopy(e) /\ Nacked(t)
      /\ \A u \in Tasks : u # t => Kept(u)
  BY <1>1, PassOnKeeps
<1>3. Waiting(t)' /\ Alive(t)' /\ IsCopy(e)'
  BY <1>1 DEF Waiting, Has, Alive, IsCopy
<1>r. ~Ripe(t)'
  <2>1. Owed(t)
    BY <1>2 DEF Nacked, Owed, InSlot, Owing
  <2>2. ~Ripe(t)
    BY <1>2, <2>1, RipeWaits, Exclusive
  <2> QED
    BY <1>1, <2>2 DEF Ripe, Has
<1>4. t \notin settled' /\ t \notin dropped'
  BY <1>1, <1>2, LiveUnsettled DEF Alive
<1>5. Decided' /\ Both
  <2>1. HandlersFound'
    BY <1>1, HandlersKept
  <2>2. Clear(t)'
    BY <1>2, <1>3, <1>4, ClearAfter
  <2> QED
    BY <1>2, <2>1, <2>2, MoveRefines
<1>6. AttemptsOf(t) = e.attempts
  BY <1>2, AttemptsBefore
<1>7. AttemptsOf(t)' = e.attempts
  BY <1>2, <1>3, CarriedAfter
<1>8. PhaseOf(t) = "failed" /\ PhaseOf(t)' = "waiting"
  BY <1>2, <1>3, <1>r, <1>5, PhaseBefore, PhasesAfter DEF PhaseIsPlace
<1>9. Lifecycle!Move(t, "failed", "waiting", AttemptsOf(t)) /\ t \in Lifecycle!Moved
  BY <1>2, <1>5, <1>6, <1>7, <1>8, OneMoves
<1>10. Lookup(TypeOf(t)) /\ AttemptsOf(t) < MaxAttempts(t)
  <2>1. e.attempts \in Nat
    BY <1>2 DEF Envelope
  <2>2. MaxAttempts(t) \in Int
    BY <1>2, TaskAssumption DEF MaxAttempts
  <2> QED
    BY <1>1, <1>6, <2>1, <2>2 DEF Exhausted
<1>11. Lifecycle!Retry(t)
  BY <1>2, <1>9, <1>10 DEF Lifecycle!Retry
<1> QED
  BY <1>5, <1>9, <1>11 DEF Refines, Lifecycle!Next

\* A killed worker takes the nacked tasks with it that are nowhere else.  The
\* others are in its hash, or settled.
LEMMA CrashRefines ==
  ASSUME TypeOK, Placed, Decided, TypeOK', Placed', NEW w \in Workers, Crash(w),
         UNCHANGED <<co, api>>
  PROVE  Refines
<1>0. WorkerTypeOK
  BY DEF TypeOK
<1>1. /\ UNCHANGED <<queue, delayed, due, inflight, tasks, settled>>
      /\ dropped' = dropped \cup (Exposed(w) \ settled)
  BY DEF Crash, queueVars, storeVars
<1>2. \A v \in Workers, r \in Slots :
        IF v = w THEN job'[v][r].pc = "idle" ELSE job'[v][r] = job[v][r]
  BY <1>0 DEF Crash, Halt, WorkerTypeOK, IdleJob
<1>3. ASSUME NEW u \in Tasks, NEW s \in Slots, job[w][s].pc = "nacked", job[w][s].env.id = u
      PROVE  Nacked(u) /\ u \in dropped' /\ Clear(u)'
  <2>1. Nacked(u) /\ Owed(u)
    BY <1>3 DEF Nacked, Owed, InSlot, Owing
  <2>2. /\ ~Ready(u) /\ ~Waiting(u) /\ ~Recorded(u) /\ ~Reclaimed(u)
        /\ ~Burying(u) /\ ~Submitting(u) /\ ~Over(u)
    BY <2>1, Exclusive
  <2>3. u \notin settled
    BY <2>1, LiveUnsettled DEF Alive
  <2>4. u \in HeldBy(w)
    BY <1>3 DEF HeldBy, Holding
  <2>5. u \notin Ids(inflight[w])
    BY <2>2 DEF Recorded, Has, Ids
  <2>6. u \in dropped' /\ u \notin settled'
    BY <1>1, <2>3, <2>4, <2>5 DEF Exposed
  <2>7. ~Owed(u)'
    <3>1. \A v \in Workers, r \in Slots :
            job'[v][r].pc \in Owing /\ job'[v][r].env.id = u => v # w /\ job'[v][r] = job[v][r]
      BY <1>2 DEF Owing
    <3>2. \A v \in Workers, r \in Slots :
            job[v][r].pc \in Owing /\ job[v][r].env.id = u => v = w
      BY <1>3 DEF Placed, OneCopy, Owing
    <3> QED
      BY <3>1, <3>2 DEF Owed, InSlot
  <2>8. ~Nacked(u)' /\ ~InSlot({"acked", "pushed"}, u)'
    BY <2>7 DEF Owed, Nacked, InSlot, Owing
  <2>9. /\ ~Ready(u)' /\ ~Waiting(u)' /\ ~Recorded(u)' /\ ~Reclaimed(u)'
        /\ ~Burying(u)' /\ ~Submitting(u)' /\ ~Over(u)'
    BY <1>1, <2>2, Frames
  <2>10. ~Alive(u)' /\ ~Ended(u)'
    BY <2>8, <2>9 DEF Alive, Ended, Held
  <2>11. tasks'[u].status # "dead" /\ tasks'[u].status # "absent"
    BY <2>9 DEF Over
  <2> QED
    BY <2>1, <2>6, <2>9, <2>10, <2>11 DEF Clear
<1>4. ASSUME NEW u \in Tasks, ~\E s \in Slots : job[w][s].pc = "nacked" /\ job[w][s].env.id = u
      PROVE  Kept(u)
  <2>1. SlotKept(u)
    BY <1>2, <1>4 DEF SlotKept, Owing
  <2>2. u \notin Exposed(w) \ settled
    <3>1. SUFFICES ASSUME u \in Exposed(w)
                   PROVE  u \in settled
      OBVIOUS
    <3>2. PICK s \in Slots : job[w][s].pc \in Holding /\ job[w][s].env.id = u
      BY <3>1 DEF Exposed, HeldBy
    <3>3. job[w][s].pc \notin {"leased", "running"}
      BY <3>1, <3>2 DEF Exposed, Ids, Placed, Tied
    <3>4. job[w][s].pc = "pushed"
      BY <1>4, <3>2, <3>3 DEF Holding
    <3>5. Ended(u)
      BY <3>2, <3>4 DEF Ended, InSlot
    <3> QED
      BY <3>5 DEF Decided, Clear
  <2>3. LedgerKept(u)
    BY <1>1, <2>2 DEF LedgerKept
  <2> QED
    BY <1>1, <2>1, <2>3, KeptFrames, KeptPlaces
<1>5. Decided'
  <2>1. HandlersFound'
    BY <1>2, HandlersKept
  <2>2. ASSUME NEW u \in Tasks
        PROVE  Clear(u)'
    BY <1>3, <1>4, KeptClear DEF Decided
  <2> QED
    BY <2>1, <2>2 DEF Decided
<1>6. Both
  BY <1>5 DEF Both
<1>7. ASSUME NEW u \in Tasks
      PROVE  Kept(u) \/ ((Held(u) \/ Nacked(u)) /\ u \in dropped')
  <2>1. CASE \E s \in Slots : job[w][s].pc = "nacked" /\ job[w][s].env.id = u
    <3>1. Nacked(u) /\ u \in dropped'
      BY <1>3, <2>1
    <3> QED
      BY <3>1
  <2>2. CASE ~\E s \in Slots : job[w][s].pc = "nacked" /\ job[w][s].env.id = u
    <3>1. Kept(u)
      BY <1>4, <2>2
    <3> QED
      BY <3>1
  <2> QED
    BY <2>1, <2>2
<1>8. Lifecycle!Lose(Lifecycle!Moved)
  BY <1>6, <1>7, SomeLost
<1> QED
  BY <1>5, <1>8 DEF Refines, Lifecycle!Next

\* Every step of a worker.
LEMMA WorkerRefines ==
  ASSUME TypeOK, Steady, Placed, Decided, TypeOK', Placed', WorkerNext,
         UNCHANGED <<co, api>>
  PROVE  Refines
<1>w. PICK w \in Workers :
        \/ ProcessStep(w)
        \/ \E s \in Slots : PollStep(w, s) \/ JobStep(w, s)
  BY DEF WorkerNext
<1>f. ~CommandFails(w)
  BY NoFaults
<1>1. CASE ProcessStep(w)
  <2>1. CASE (BeatTick(w) /\ Heartbeat(w)) \/ TouchTick(w)
    <3>1. UNCHANGED <<queue, delayed, due, inflight, job, tasks, settled, dropped>>
      BY <1>f, <2>1 DEF BeatTick, TouchTick, Heartbeat, TouchWorker, queueVars, storeVars,
                        ledger
    <3> QED
      BY <3>1, QuietRefines
  <2>2. CASE Crash(w)
    BY <2>2, CrashRefines
  <2> QED
    BY <1>1, <2>1, <2>2, CalmProcess
<1>2. ASSUME NEW s \in Slots, PollStep(w, s)
      PROVE  Refines
  <2>1. CASE LeaseTask(w, s)
    BY <2>1, LeaseRefines
  <2>2. CASE LeaseEmpty(w, s)
    <3>1. UNCHANGED <<queue, delayed, due, inflight, job, tasks, settled, dropped>>
      BY <2>2 DEF LeaseEmpty, queueVars, storeVars, ledger
    <3> QED
      BY <3>1, QuietRefines
  <2> QED
    BY <1>f, <1>2, <2>1, <2>2 DEF PollStep, LeaseError
<1>3. ASSUME NEW s \in Slots, JobStep(w, s)
      PROVE  Refines
  BY <1>3, FailRefines, SucceedRefines, PushDeadRefines, ScheduleRefines, ReportRefines
     DEF JobStep
<1> QED
  BY <1>w, <1>1, <1>2, <1>3
-----------------------------------------------------------------------------
(* The coordinator. *)

\* The coordinator goes on with nothing in its hands, or takes note of what is
\* in a set or a hash.
LEMMA BookkeepingRefines ==
  ASSUME TypeOK, Placed, Decided, TypeOK', Placed',
         UNCHANGED <<queue, delayed, due, inflight, job, api, settled, dropped>>,
         co.pc \notin {"requeue", "mark"} \/ (co.pc = "requeue" /\ co.batch = {}),
         co'.pc \notin {"requeue", "mark"}, \A u \in Tasks : RowKept(u)
  PROVE  Refines
<1>1. HandlersFound'
  BY HandlersKept
<1>2. ASSUME NEW u \in Tasks
      PROVE  Kept(u)
  <2>1. BatchKept(u)
    BY DEF BatchKept, Burying
  <2> QED
    BY <2>1, KeptFrames, KeptPlaces
<1> QED
  BY <1>1, <1>2, Stutters

\* The members a promotion has read stay due until it moves them: nobody else
\* takes them out of the delayed set or gives them a new score.
Ripened == co.pc = "exec" => co.batch \subseteq due

\* Only a retry, which is about another task, and the promotion itself make a
\* member not due.
LEMMA RipenedStep ==
  ASSUME TypeOK, Steady, Placed, Ripened, [Next]_vars
  PROVE  Ripened'
<1>0. CoordinatorTypeOK /\ due \subseteq delayed
  BY DEF TypeOK, QueueTypeOK
<1>1. CASE UNCHANGED co /\ due \subseteq due'
  BY <1>1 DEF Ripened
<1>2. CASE CoordinatorNext
  <2>1. ASSUME NEW ty \in Types, ReadDue(ty)
        PROVE  Ripened'
    <3>1. \A b \in DueBatches(ty) : b \subseteq due
      BY DEF DueBatches, OfType
    <3>2. UNCHANGED due /\ co.pc = "promote"
      BY <2>1 DEF ReadDue, At
    <3>3. co'.pc = "promote" \/ \E b \in DueBatches(ty) : co'.batch = b
      BY <1>0, <2>1 DEF ReadDue, At, CoordinatorTypeOK
    <3> QED
      BY <3>1, <3>2, <3>3 DEF Ripened
  <2>2. CASE ~\E ty \in Types : ReadDue(ty)
    <3>1. CASE Tick \/ MoveDue \/ PromoteDone \/ ReadWorkers \/ SweepDone \/ CoCrash
      <4>1. CoStart.pc # "exec"
        BY DEF CoStart
      <4>2. CASE co' = CoStart
        BY <4>1, <4>2 DEF Ripened
      <4>3. CASE Tick \/ MoveDue \/ PromoteDone
        <5>1. co'.pc # "exec"
          BY <1>0, <4>3 DEF Tick, MoveDue, PromoteDone, CoordinatorTypeOK
        <5> QED
          BY <5>1 DEF Ripened
      <4>4. CASE ReadWorkers
        <5>1. co' = CoStart \/ co'.pc # "exec"
          BY <1>0, <4>4 DEF ReadWorkers, CoordinatorTypeOK
        <5> QED
          BY <4>2, <5>1 DEF Ripened
      <4> QED
        BY <3>1, <4>2, <4>3, <4>4 DEF SweepDone, CoCrash
    <3>5. CASE ReadInflight \/ RequeueDone \/ MarkExhausted \/ ResetOrphans \/ FlagDead
      <4>1. co'.pc # "exec"
        BY <1>0, <3>5 DEF ReadInflight, RequeueDone, MarkExhausted, ResetOrphans, FlagDead,
             At, CoordinatorTypeOK
      <4> QED
        BY <4>1 DEF Ripened
    <3>2. ASSUME NEW w \in Workers, CheckAlive(w)
          PROVE  Ripened'
      BY <1>0, <3>2 DEF CheckAlive, At, CoordinatorTypeOK, Ripened
    <3>3. ASSUME NEW e \in co.batch, Requeue(e) \/ PushExhausted(e)
          PROVE  Ripened'
      BY <1>0, <3>3 DEF Requeue, PushExhausted, At, CoordinatorTypeOK, Ripened
    <3>4. ASSUME NEW held, DelHash(held)
          PROVE  Ripened'
      BY <1>0, <3>4 DEF DelHash, At, CoordinatorTypeOK, Ripened
    <3> QED
      BY <1>2, <2>2, <3>1, <3>2, <3>3, <3>4, <3>5 DEF CoordinatorNext, CoStep
  <2> QED
    BY <2>1, <2>2
<1>3. CASE WorkerNext /\ UNCHANGED co
  <2>1. PICK w \in Workers :
          ProcessStep(w) \/ \E s \in Slots : PollStep(w, s) \/ JobStep(w, s)
    BY <1>3 DEF WorkerNext
  <2>2. CASE ProcessStep(w)
    <3>1. UNCHANGED due
      BY <2>2 DEF ProcessStep, Register, FirstHeartbeat, StartupError, BeatTick, TouchTick,
           Sigterm, Leave, Crash, Heartbeat, queueVars
    <3> QED
      BY <1>1, <1>3, <3>1
  <2>3. ASSUME NEW s \in Slots, PollStep(w, s)
        PROVE  Ripened'
    <3>1. UNCHANGED due
      BY <2>3 DEF PollStep, LeaseTask, LeaseEmpty, LeaseError, Lease, queueVars
    <3> QED
      BY <1>1, <1>3, <3>1
  <2>4. ASSUME NEW s \in Slots, JobStep(w, s)
        PROVE  Ripened'
    <3>1. CASE Schedule(w, s)
      <4>1. job[w][s].pc = "nacked" /\ (UNCHANGED due \/ due' = due \ {job[w][s].env})
        BY <3>1 DEF Schedule, Step, EnqueueDelayed, queueVars
      <4>2. job[w][s].env.id \in Tasks
        BY <4>1, JobEnvelope DEF TypeOK
      <4>3. Owed(job[w][s].env.id)
        BY <4>1 DEF Owed, InSlot, Owing
      <4>4. ~Waiting(job[w][s].env.id)
        BY <4>2, <4>3, Exclusive
      <4>5. job[w][s].env \notin due
        BY <1>0, <4>4 DEF Waiting, Has
      <4> QED
        BY <1>1, <1>3, <4>1, <4>5
    <3>2. CASE ~Schedule(w, s)
      <4>1. UNCHANGED due
        BY <2>4, <3>2 DEF JobStep, Unhandled, Start, Succeed, RecordSuccess, Fail, PushDead,
             RecordDead, RecordRetry, Ack, Nack, DeadLetter, queueVars
      <4> QED
        BY <1>1, <1>3, <4>1
    <3> QED
      BY <3>1, <3>2
  <2> QED
    BY <2>1, <2>2, <2>3, <2>4
<1>4. CASE ApiNext /\ UNCHANGED co
  <2>1. UNCHANGED due
    BY <1>4 DEF ApiNext, InsertTask, SubmitTask, CancelTask, RedriveRow, RedriveEnvelope,
         Enqueue, queueVars
  <2> QED
    BY <1>1, <1>4, <2>1
<1>5. CASE TimePasses \/ (\E w \in Workers : Expire(w)) \/ UNCHANGED vars
  <2>1. UNCHANGED co /\ due \subseteq due'
    BY <1>5 DEF TimePasses, Elapse, Expire, HeartbeatExpires, vars, queueVars
  <2> QED
    BY <1>1, <2>1
<1> QED
  BY <1>2, <1>3, <1>4, <1>5 DEF Next

\* A promotion makes the members of its batch ready.
LEMMA MoveDueRefines ==
  ASSUME TypeOK, Steady, Placed, Decided, Ripened, TypeOK', Placed', MoveDue,
         UNCHANGED <<job, api>>
  PROVE  Refines
<1> DEFINE stamped(e) == [e EXCEPT !.enqueued_at = co.now]
<1>0. CoordinatorTypeOK /\ co.batch \subseteq Envelope /\ co.now \in Nat
  BY DEF TypeOK, CoordinatorTypeOK
<1>1. /\ delayed' = delayed \ co.batch /\ due' = due \ co.batch
      /\ queue' = queue \cup {stamped(e) : e \in co.batch}
      /\ UNCHANGED <<inflight, tasks, settled, dropped>>
      /\ co.pc = "exec" /\ co'.pc = "promote"
  BY <1>0, NoFaults DEF MoveDue, Promote, storeVars, ledger, At, CoordinatorTypeOK
<1>2. \A e \in co.batch : /\ stamped(e).id = e.id /\ stamped(e).attempts = e.attempts
                          /\ e \in delayed /\ e \in due
  <2>1. \A e \in co.batch : stamped(e).id = e.id /\ stamped(e).attempts = e.attempts
    BY <1>0, EnvelopeUpdate
  <2>2. co.batch \subseteq due /\ due \subseteq delayed
    BY <1>1 DEF Ripened, TypeOK, QueueTypeOK
  <2> QED
    BY <2>1, <2>2
<1>3. ASSUME NEW u \in Tasks, NEW e \in co.batch, e.id = u
      PROVE  Ripe(u) /\ Ready(u)' /\ AttemptsOf(u)' = AttemptsOf(u) /\ Clear(u)'
  <2>1. SUFFICES ASSUME NEW f, f = stamped(e)
                 PROVE  Ripe(u) /\ Ready(u)' /\ AttemptsOf(u)' = AttemptsOf(u) /\ Clear(u)'
    OBVIOUS
  <2>2. e \in delayed /\ f \in queue' /\ f.id = u /\ f.attempts = e.attempts
    BY <1>1, <1>2, <1>3, <2>1
  <2>3. Ripe(u) /\ Waiting(u) /\ Ready(u)' /\ IsCopy(e) /\ IsCopy(f)'
    BY <1>2, <1>3, <2>2 DEF Ripe, Waiting, Ready, Has, IsCopy
  <2>4. AttemptsOf(u) = e.attempts
    BY <1>3, <2>3, AttemptsBefore
  <2>5. AttemptsOf(u)' = f.attempts
    BY <2>2, <2>3, CarriedAfter
  <2>6. u \notin settled' /\ u \notin dropped'
    BY <1>1, <2>3, LiveUnsettled DEF Alive
  <2>7. Clear(u)'
    BY <2>3, <2>6, ClearAfter DEF Alive
  <2> QED
    BY <2>2, <2>3, <2>4, <2>5, <2>7
<1>4. ASSUME NEW u \in Tasks, ~Has(co.batch, u)
      PROVE  Kept(u)
  <2>1. QueueKept(u)
    <3>1. \A e \in co.batch : stamped(e).id # u
      BY <1>2, <1>4 DEF Has
    <3> HIDE DEF stamped
    <3> QED
      BY <1>1, <3>1 DEF QueueKept
  <2>2. DelayedKept(u)
    BY <1>1, <1>4 DEF DelayedKept, Has
  <2>3. BatchKept(u)
    BY <1>1 DEF BatchKept, Burying
  <2> QED
    BY <1>1, <2>1, <2>2, <2>3, KeptFrames, KeptPlaces
<1>5. Decided'
  <2>1. HandlersFound'
    BY HandlersKept
  <2>2. ASSUME NEW u \in Tasks
        PROVE  Clear(u)'
    BY <1>3, <1>4, KeptClear DEF Decided, Has
  <2> QED
    BY <2>1, <2>2 DEF Decided
<1>6. Both
  BY <1>5 DEF Both
<1>7. ASSUME NEW u \in Tasks
      PROVE  Kept(u) \/ (Ripe(u) /\ Ready(u)' /\ AttemptsOf(u)' = AttemptsOf(u))
  <2>1. CASE Has(co.batch, u)
    <3>1. PICK e \in co.batch : e.id = u
      BY <2>1 DEF Has
    <3> QED
      BY <1>3, <3>1
  <2>2. CASE ~Has(co.batch, u)
    BY <1>4, <2>2
  <2> QED
    BY <2>1, <2>2
<1>8. Lifecycle!Promote(Lifecycle!Moved)
  BY <1>6, <1>7, SomePromoted
<1> QED
  BY <1>5, <1>8 DEF Refines, Lifecycle!Next

\* The DEL of a dead worker's hash: its tasks are in the batch, and are taken
\* as before.
LEMMA DelHashRefines ==
  ASSUME TypeOK, Steady, Placed, Decided, TypeOK', Placed', NEW held, DelHash(held),
         UNCHANGED <<job, api>>
  PROVE  Refines
<1>0. QueueTypeOK /\ CoordinatorTypeOK
  BY DEF TypeOK
<1>1. /\ co.pc = "del" /\ co'.pc = "requeue" /\ co'.batch = co.batch
      /\ co.worker \in Workers /\ co.batch = inflight[co.worker]
  BY <1>0 DEF DelHash, At, CoordinatorTypeOK, Placed, Tied
<1>2. /\ UNCHANGED <<queue, delayed, due, tasks>>
      /\ inflight'[co.worker] = {}
      /\ \A v \in Workers : v # co.worker => inflight'[v] = inflight[v]
  BY <1>0, <1>1, NoFaults DEF DelHash, DelInflight, QueueTypeOK, storeVars
<1>3. UNCHANGED <<settled, dropped>>
  <2>1. CoDrops(Ids(inflight[co.worker]) \ (Ids(co.batch) \cup held))
    BY NoFaults DEF DelHash
  <2>2. Ids(inflight[co.worker]) \ (Ids(co.batch) \cup held) = {}
    BY <1>1
  <2> QED
    BY <2>1, <2>2 DEF CoDrops
<1>4. ASSUME NEW e, IsCopy(e)'
      PROVE  IsCopy(e)
  <2>1. (\E v \in Workers : e \in inflight'[v]) => \E v \in Workers : e \in inflight[v]
    BY <1>2
  <2>2. co'.pc \in {"requeue", "mark"} /\ e \in co'.batch => \E v \in Workers : e \in inflight[v]
    BY <1>1
  <2> QED
    BY <1>2, <1>4, <2>1, <2>2 DEF IsCopy
<1>5. ASSUME NEW u \in Tasks
      PROVE  Kept(u)
  <2>1. /\ Ready(u)' <=> Ready(u)
        /\ Waiting(u)' <=> Waiting(u)
        /\ Submitting(u)' <=> Submitting(u)
    BY <1>2, Frames
  <2>r. Ripe(u)' <=> Ripe(u)
    BY <1>2 DEF Ripe, Has
  <2>2. Nacked(u)' <=> Nacked(u)
    BY DEF Nacked, InSlot
  <2>3. Held(u)' <=> Held(u)
    BY <1>1, <1>2 DEF Held, Recorded, Reclaimed, Has
  <2>4. Ended(u)' => Ended(u)
    BY <1>1 DEF Ended, InSlot, Burying
  <2>5. LedgerKept(u) /\ RowKept(u)
    BY <1>2, <1>3, KeptFrames
  <2> QED
    BY <1>4, <2>1, <2>r, <2>2, <2>3, <2>4, <2>5 DEF Kept
<1>6. HandlersFound'
  BY HandlersKept
<1> QED
  BY <1>5, <1>6, Stutters

\* An envelope that is enqueued has one copy, with its attempts.
LEMMA EnqueueLands ==
  ASSUME QueueTypeOK, NEW e \in Envelope, Enqueue(e)
  PROVE  \E x : queue' = queue \cup {x} /\ x.id = e.id /\ x.attempts = e.attempts
<1>1. clock + 1 \in Nat
  BY DEF QueueTypeOK
<1>2. /\ [e EXCEPT !.enqueued_at = clock + 1].id = e.id
      /\ [e EXCEPT !.enqueued_at = clock + 1].attempts = e.attempts
  BY <1>1, EnvelopeUpdate
<1> QED
  BY <1>2 DEF Enqueue

\* The envelope the coordinator works on: no other task is concerned.
LEMMA BatchStepKeeps ==
  ASSUME TypeOK, NEW e \in co.batch, co.pc = "requeue",
         co'.pc \in {"requeue", "mark"}, co'.batch = co.batch \ {e},
         co'.pc = "mark" => co'.dead = e.id,
         UNCHANGED <<delayed, due, inflight, job, api, tasks, dropped>>,
         \A x : x.id # e.id => (x \in queue' <=> x \in queue),
         \A u \in Tasks : u # e.id => (u \in settled' <=> u \in settled)
  PROVE  /\ e \in Envelope /\ e.id \in Tasks /\ IsCopy(e) /\ Held(e.id)
         /\ \A u \in Tasks : u # e.id => Kept(u)
<1>1. e \in Envelope /\ e.id \in Tasks
  BY EnvelopeFields DEF TypeOK, CoordinatorTypeOK
<1>2. IsCopy(e) /\ Held(e.id)
  BY DEF IsCopy, Held, Reclaimed, Has
<1>3. ASSUME NEW u \in Tasks, u # e.id
      PROVE  Kept(u)
  <2>1. QueueKept(u)
    BY <1>3 DEF QueueKept
  <2>2. BatchKept(u)
    BY <1>3 DEF BatchKept, Burying
  <2>3. LedgerKept(u)
    BY <1>3 DEF LedgerKept
  <2> QED
    BY <2>1, <2>2, <2>3, KeptFrames, KeptPlaces
<1> QED
  BY <1>1, <1>2, <1>3

\* A dead worker's task goes back to the queue, one attempt poorer.
LEMMA RequeueRefines ==
  ASSUME TypeOK, Steady, Placed, Decided, TypeOK', Placed', NEW e \in co.batch,
         Requeue(e), UNCHANGED <<job, api>>
  PROVE  Refines
<1> DEFINE e1 == [e EXCEPT !.attempts = @ + 1]
<1>0. QueueTypeOK /\ CoordinatorTypeOK /\ e \in Envelope
  BY DEF TypeOK, CoordinatorTypeOK
<1>1. /\ e1 \in Envelope /\ e1.id = e.id /\ e1.attempts = e.attempts + 1
  BY <1>0 DEF Envelope
<1>2. /\ Enqueue(e1) /\ tasks' = tasks /\ UNCHANGED <<settled, dropped>>
      /\ e1.attempts < MaxAttempts(e.id)
  BY NoFaults DEF Requeue, storeVars, ledger
<1> HIDE DEF e1
<1>3. co.pc = "requeue" /\ co'.pc = "requeue" /\ co'.batch = co.batch \ {e}
  BY <1>0 DEF Requeue, At, CoordinatorTypeOK
<1>4. PICK x : queue' = queue \cup {x} /\ x.id = e.id /\ x.attempts = e.attempts + 1
  BY <1>0, <1>1, <1>2, EnqueueLands
<1>5. UNCHANGED <<delayed, due, inflight>>
  BY <1>2 DEF Enqueue
<1>6. e.id \in Tasks /\ IsCopy(e) /\ Held(e.id) /\ \A u \in Tasks : u # e.id => Kept(u)
  BY <1>2, <1>3, <1>4, <1>5, BatchStepKeeps
<1>7. Ready(e.id)' /\ Alive(e.id)' /\ IsCopy(x)'
  BY <1>4 DEF Ready, Has, Alive, IsCopy
<1>8. e.id \notin settled' /\ e.id \notin dropped'
  BY <1>2, <1>6, LiveUnsettled DEF Alive
<1>9. Decided' /\ Both
  <2>1. HandlersFound'
    BY HandlersKept
  <2>2. Clear(e.id)'
    BY <1>6, <1>7, <1>8, ClearAfter
  <2> QED
    BY <1>6, <2>1, <2>2, MoveRefines
<1>10. AttemptsOf(e.id) = e.attempts
  BY <1>6, AttemptsBefore
<1>11. AttemptsOf(e.id)' = AttemptsOf(e.id) + 1
  BY <1>4, <1>6, <1>7, <1>10, CarriedAfter
<1>12. PhaseOf(e.id) = "taken" /\ PhaseOf(e.id)' = "ready"
  BY <1>6, <1>7, <1>9, PhaseBefore, PhasesAfter DEF PhaseIsPlace
<1>13. /\ Lifecycle!Move(e.id, "taken", "ready", AttemptsOf(e.id) + 1)
       /\ e.id \in Lifecycle!Moved
  BY <1>6, <1>9, <1>11, <1>12, OneMoves
<1>14. AttemptsOf(e.id) + 1 < MaxAttempts(e.id)
  BY <1>1, <1>2, <1>10
<1>15. Lifecycle!Reassign(e.id)
  BY <1>6, <1>13, <1>14 DEF Lifecycle!Reassign
<1> QED
  BY <1>9, <1>13, <1>15 DEF Refines, Lifecycle!Next

\* ... or is buried, if that was its last attempt.
LEMMA PushExhaustedRefines ==
  ASSUME TypeOK, Steady, Placed, Decided, TypeOK', Placed', NEW e \in co.batch,
         PushExhausted(e), UNCHANGED <<job, api>>
  PROVE  Refines
<1> DEFINE e1 == [e EXCEPT !.attempts = @ + 1]
<1>0. CoordinatorTypeOK /\ e \in Envelope
  BY DEF TypeOK, CoordinatorTypeOK
<1>1. e1.attempts = e.attempts + 1 /\ e.attempts \in Nat
  BY <1>0 DEF Envelope
<1>2. /\ UNCHANGED <<queue, delayed, due, inflight, tasks>>
      /\ settled' = settled \cup {e.id} /\ dropped' = dropped
      /\ e1.attempts >= MaxAttempts(e.id)
  BY NoFaults DEF PushExhausted, DeadLetter, CoSettles, storeVars
<1> HIDE DEF e1
<1>3. /\ co.pc = "requeue" /\ co'.pc = "mark" /\ co'.batch = co.batch \ {e}
      /\ co'.dead = e.id
  BY <1>0 DEF PushExhausted, At, CoordinatorTypeOK
<1>4. e.id \in Tasks /\ IsCopy(e) /\ Held(e.id) /\ \A u \in Tasks : u # e.id => Kept(u)
  BY <1>2, <1>3, BatchStepKeeps
<1>5. Ended(e.id)' /\ e.id \in settled' /\ e.id \notin dropped'
  <2>1. Ended(e.id)'
    BY <1>3 DEF Ended, Burying
  <2> QED
    BY <1>2, <1>4, <2>1, LiveUnsettled DEF Alive
<1>6. Clear(e.id)' /\ ~Alive(e.id)'
  BY <1>4, <1>5, ClearAfter
<1>7. Decided' /\ Both
  <2>1. HandlersFound'
    BY HandlersKept
  <2> QED
    BY <1>4, <1>6, <2>1, MoveRefines
<1>8. AttemptsOf(e.id)' = 0
  BY <1>4, <1>6, CarriedAfter DEF Alive
<1>9. PhaseOf(e.id) = "taken" /\ PhaseOf(e.id)' = "settled"
  BY <1>4, <1>5, <1>7, PhaseBefore, PhasesAfter DEF PhaseIsPlace
<1>10. Lifecycle!Move(e.id, "taken", "settled", 0) /\ e.id \in Lifecycle!Moved
  BY <1>4, <1>7, <1>8, <1>9, OneMoves
<1>11. ~(AttemptsOf(e.id) + 1 < MaxAttempts(e.id))
  <2>1. AttemptsOf(e.id) = e.attempts
    BY <1>4, AttemptsBefore
  <2>2. MaxAttempts(e.id) \in Int
    BY <1>4, TaskAssumption DEF MaxAttempts
  <2> QED
    BY <1>1, <1>2, <2>1, <2>2
<1>12. Lifecycle!Reassign(e.id)
  BY <1>4, <1>10, <1>11 DEF Lifecycle!Reassign
<1> QED
  BY <1>7, <1>10, <1>12 DEF Refines, Lifecycle!Next

\* The row of the buried task follows.
LEMMA MarkExhaustedRefines ==
  ASSUME TypeOK, Steady, Placed, Decided, TypeOK', Placed', MarkExhausted,
         UNCHANGED <<job, api>>
  PROVE  Refines
<1>0. CoordinatorTypeOK /\ StoreTypeOK
  BY DEF TypeOK
<1>1. /\ co.pc = "mark" /\ co'.pc = "requeue" /\ co'.batch = co.batch
      /\ co.dead \in Tasks
  BY <1>0 DEF MarkExhausted, At, CoordinatorTypeOK
<1>2. /\ UNCHANGED <<queue, delayed, due, inflight, dropped>>
      /\ settled' = settled \cup {co.dead} /\ MarkDead(co.dead)
  BY NoFaults DEF MarkExhausted, CoSettles, queueVars
<1>3. co.dead \in settled
  BY <1>1 DEF Decided, Clear, Ended, Burying
<1>4. ASSUME NEW u \in Tasks
      PROVE  Kept(u)
  <2>1. BatchKept(u)
    BY <1>1 DEF BatchKept, Burying
  <2>2. LedgerKept(u)
    BY <1>2, <1>3 DEF LedgerKept
  <2>3. RowKept(u)
    <3>1. CASE u # co.dead
      <4>1. tasks'[u] = tasks[u]
        BY <1>0, <1>2, <3>1 DEF MarkDead, StoreTypeOK
      <4> QED
        BY <4>1, KeptFrames
    <3>2. CASE u = co.dead
      <4>1. tasks[u] \in Row
        BY <1>0 DEF StoreTypeOK
      <4>2. tasks'[u].status = "dead"
        BY <1>0, <1>2, <3>2, <4>1 DEF MarkDead, StoreTypeOK, Row
      <4> QED
        BY <1>3, <3>2, <4>2 DEF RowKept
    <3> QED
      BY <3>1, <3>2
  <2> QED
    BY <1>2, <2>1, <2>2, <2>3, KeptFrames, KeptPlaces
<1>5. HandlersFound'
  BY HandlersKept
<1> QED
  BY <1>4, <1>5, Stutters

\* A killed coordinator takes its batch with it, after the DEL.
LEMMA CoCrashRefines ==
  ASSUME TypeOK, Placed, Decided, TypeOK', Placed', CoCrash, UNCHANGED <<job, api>>
  PROVE  Refines
<1>0. CoordinatorTypeOK
  BY DEF TypeOK
<1>1. /\ UNCHANGED <<queue, delayed, due, inflight, tasks, settled>>
      /\ dropped' = dropped \cup (CoHolds \ settled)
      /\ co'.pc = "sleep" /\ co'.batch = {}
  BY DEF CoCrash, CoDrops, CoStart, queueVars, storeVars
<1>2. ASSUME NEW u \in Tasks, Reclaimed(u)
      PROVE  Held(u) /\ u \in dropped' /\ Clear(u)'
  <2>1. u \in CoHolds
    BY <1>2 DEF Reclaimed, Has, CoHolds, Ids
  <2>2. /\ ~Ready(u) /\ ~Waiting(u) /\ ~Recorded(u) /\ ~Owed(u)
        /\ ~Submitting(u) /\ ~Over(u)
    BY <1>2, Exclusive
  <2>3. u \notin settled
    BY <1>2, LiveUnsettled DEF Alive, Held
  <2>4. u \in dropped' /\ u \notin settled'
    BY <1>1, <2>1, <2>3
  <2>5. /\ ~Ready(u)' /\ ~Waiting(u)' /\ ~Recorded(u)' /\ ~Owed(u)'
        /\ ~Submitting(u)' /\ ~Over(u)'
    BY <1>1, <2>2, Frames
  <2>6. ~Reclaimed(u)' /\ ~Burying(u)'
    BY <1>1 DEF Reclaimed, Burying
  <2>7. ~Nacked(u)' /\ ~InSlot({"acked", "pushed"}, u)'
    BY <2>5 DEF Owed, Nacked, InSlot, Owing
  <2>8. ~Alive(u)' /\ ~Ended(u)'
    BY <2>5, <2>6, <2>7 DEF Alive, Ended, Held
  <2>9. tasks'[u].status # "dead" /\ tasks'[u].status # "absent"
    BY <2>5 DEF Over
  <2> QED
    BY <1>2, <2>4, <2>5, <2>8, <2>9 DEF Clear, Held
<1>3. ASSUME NEW u \in Tasks, ~Reclaimed(u)
      PROVE  Kept(u)
  <2>1. BatchKept(u)
    BY <1>1, <1>3 DEF BatchKept, Burying, Reclaimed, Has
  <2>2. u \notin CoHolds \ settled
    <3>1. co.pc = "mark" => co.dead \in settled
      BY <1>0 DEF CoordinatorTypeOK, Decided, Clear, Ended, Burying
    <3>2. co.pc \in {"requeue", "mark"} => u \notin Ids(co.batch)
      BY <1>3 DEF Reclaimed, Has, Ids
    <3> QED
      BY <3>1, <3>2 DEF CoHolds
  <2>3. LedgerKept(u)
    BY <1>1, <2>2 DEF LedgerKept
  <2> QED
    BY <1>1, <2>1, <2>3, KeptFrames, KeptPlaces
<1>4. Decided'
  <2>1. HandlersFound'
    BY HandlersKept
  <2>2. ASSUME NEW u \in Tasks
        PROVE  Clear(u)'
    BY <1>2, <1>3, KeptClear DEF Decided
  <2> QED
    BY <2>1, <2>2 DEF Decided
<1>5. Both
  BY <1>4 DEF Both
<1>6. ASSUME NEW u \in Tasks
      PROVE  Kept(u) \/ ((Held(u) \/ Nacked(u)) /\ u \in dropped')
  BY <1>2, <1>3
<1>7. Lifecycle!Lose(Lifecycle!Moved)
  BY <1>5, <1>6, SomeLost
<1> QED
  BY <1>4, <1>7 DEF Refines, Lifecycle!Next

\* Every step of the coordinator.
LEMMA CoordinatorRefines ==
  ASSUME TypeOK, Steady, Placed, Decided, Ripened, TypeOK', Placed',
         CoordinatorNext
  PROVE  Refines
<1>0. CoordinatorTypeOK /\ StoreTypeOK
  BY DEF TypeOK
<1>1. UNCHANGED <<job, api>>
  BY DEF CoordinatorNext, workerVars
<1>2. ASSUME \/ Tick \/ PromoteDone \/ ReadWorkers \/ SweepDone \/ RequeueDone
             \/ ReadInflight \/ ResetOrphans \/ FlagDead
             \/ \E w \in Workers : CheckAlive(w)
             \/ \E ty \in Types : ReadDue(ty)
      PROVE  Refines
  <2>1. UNCHANGED <<queue, delayed, due, inflight, settled, dropped>>
    BY <1>2 DEF Tick, PromoteDone, ReadWorkers, SweepDone, RequeueDone, ReadInflight,
                ResetOrphans, FlagDead, CheckAlive, ReadDue, queueVars, ledger
  <2>2. co.pc \notin {"requeue", "mark"} \/ (co.pc = "requeue" /\ co.batch = {})
    BY <1>2 DEF Tick, PromoteDone, ReadWorkers, SweepDone, RequeueDone, ReadInflight,
                ResetOrphans, FlagDead, CheckAlive, ReadDue, At
  <2>3. co'.pc \notin {"requeue", "mark"}
    <3>1. CASE SweepDone
      BY <3>1 DEF SweepDone, CoStart
    <3>2. CASE Tick \/ PromoteDone \/ RequeueDone \/ ReadInflight \/ ResetOrphans \/ FlagDead
      BY <1>0, <3>2 DEF Tick, PromoteDone, RequeueDone, ReadInflight, ResetOrphans,
                        FlagDead, CoordinatorTypeOK
    <3>3. CASE ReadWorkers
      BY <1>0, <3>3, NoFaults DEF ReadWorkers, CoordinatorTypeOK
    <3>4. ASSUME NEW w \in Workers, CheckAlive(w)
          PROVE  co'.pc \notin {"requeue", "mark"}
      BY <1>0, <3>4 DEF CheckAlive, At, CoordinatorTypeOK
    <3>5. ASSUME NEW ty \in Types, ReadDue(ty)
          PROVE  co'.pc \notin {"requeue", "mark"}
      BY <1>0, <3>5 DEF ReadDue, At, CoordinatorTypeOK
    <3> QED
      BY <1>2, <3>1, <3>2, <3>3, <3>4, <3>5
  <2>4. ASSUME NEW u \in Tasks
        PROVE  RowKept(u)
    <3>1. CASE ResetOrphans
      <4>1. RequeueOrphans(co.worker)
        BY <3>1, NoFaults DEF ResetOrphans
      <4>2. tasks'[u] = tasks[u] \/ tasks'[u].status = "queued"
        <5>1. tasks[u] \in Row
          BY <1>0 DEF StoreTypeOK
        <5>2. [tasks[u] EXCEPT !.status = "queued", !.worker_id = NoWorker].status = "queued"
          BY <5>1 DEF Row
        <5> QED
          BY <4>1, <5>2 DEF RequeueOrphans
      <4> QED
        BY <4>2 DEF RowKept
    <3>2. CASE ~ResetOrphans
      <4>1. tasks' = tasks
        BY <1>2, <3>2, NoFaults
           DEF Tick, PromoteDone, ReadWorkers, SweepDone, RequeueDone, ReadInflight,
               FlagDead, CheckAlive, ReadDue, MarkWorkerDead, storeVars
      <4> QED
        BY <4>1, KeptFrames
    <3> QED
      BY <3>1, <3>2
  <2> QED
    BY <1>1, <2>1, <2>2, <2>3, <2>4, BookkeepingRefines
<1>3. ASSUME NEW e \in co.batch, Requeue(e) \/ PushExhausted(e)
      PROVE  Refines
  BY <1>1, <1>3, RequeueRefines, PushExhaustedRefines
<1>4. CASE DelHash(HeldBy(co.worker)) \/ MoveDue \/ MarkExhausted \/ CoCrash
  BY <1>1, <1>4, DelHashRefines, MoveDueRefines, MarkExhaustedRefines, CoCrashRefines
<1> QED
  BY <1>2, <1>3, <1>4 DEF CoordinatorNext, CoStep
-----------------------------------------------------------------------------
(* The API. *)

\* A request about one task: no other task is concerned.
LEMMA ApiKeeps ==
  ASSUME NEW t \in Tasks, UNCHANGED <<delayed, due, inflight, job, co, dropped>>,
         \A e : e.id # t => (e \in queue' <=> e \in queue),
         \A u \in Tasks : u # t => /\ tasks'[u] = tasks[u] /\ api'[u] = api[u]
                                   /\ u \in settled' <=> u \in settled
  PROVE  \A u \in Tasks : u # t => Kept(u)
<1>1. ASSUME NEW u \in Tasks, u # t
      PROVE  Kept(u)
  <2>1. QueueKept(u)
    BY <1>1 DEF QueueKept
  <2>2. LedgerKept(u)
    BY <1>1 DEF LedgerKept
  <2>3. Submitting(u)' <=> Submitting(u)
    BY <1>1 DEF Submitting
  <2> QED
    BY <1>1, <2>1, <2>2, <2>3, KeptFrames, KeptPlaces
<1> QED
  BY <1>1

\* A row is written: the task is on its way to the queue.
LEMMA ApiRowRefines ==
  ASSUME TypeOK, Placed, Decided, TypeOK', Placed', NEW t \in Tasks,
         UNCHANGED <<queue, delayed, due, inflight, job, co, dropped>>,
         Over(t), Submitting(t)', t \notin dropped, t \notin settled',
         \A u \in Tasks : u # t => /\ tasks'[u] = tasks[u] /\ api'[u] = api[u]
                                   /\ u \in settled' <=> u \in settled,
         NEW from, from # "persisted", PhaseOf(t) = from
  PROVE  /\ Decided'
         /\ Lifecycle!Move(t, from, "persisted", 0)
         /\ t \in Lifecycle!Moved
<1>1. \A u \in Tasks : u # t => Kept(u)
  BY ApiKeeps
<1>2. Decided' /\ Both
  <2>1. HandlersFound'
    BY HandlersKept
  <2>2. Clear(t)'
    BY ClearAfter DEF Alive
  <2> QED
    BY <1>1, <2>1, <2>2, MoveRefines
<1>3. AttemptsOf(t)' = 0
  <2>1. /\ ~Ready(t) /\ ~Waiting(t) /\ ~Recorded(t) /\ ~Owed(t) /\ ~Reclaimed(t)
    BY Exclusive
  <2>2. /\ ~Ready(t)' /\ ~Waiting(t)' /\ ~Recorded(t)' /\ ~Owed(t)' /\ ~Reclaimed(t)'
    BY <2>1, Frames
  <2>3. ~Nacked(t)'
    BY <2>2 DEF Nacked, Owed, InSlot, Owing
  <2> QED
    BY <2>2, <2>3, CarriedAfter DEF Held
<1>4. PhaseOf(t)' = "persisted"
  BY <1>2, PhasesAfter
<1> QED
  BY <1>1, <1>2, <1>3, <1>4, OneMoves

\* Its envelope is enqueued: it is ready, with all its attempts.
LEMMA ApiEnqueueRefines ==
  ASSUME TypeOK, Placed, Decided, TypeOK', Placed', NEW t \in Tasks, Submitting(t),
         Enqueue(NewEnvelope(t)), Answer(t, "accepted"),
         UNCHANGED <<tasks, job, co, settled, dropped>>
  PROVE  Refines
<1>0. QueueTypeOK /\ ApiTypeOK /\ NewEnvelope(t) \in Envelope
  BY NewEnvelopeType DEF TypeOK
<1>1. PICK x : queue' = queue \cup {x} /\ x.id = t /\ x.attempts = 0
  <2>1. NewEnvelope(t).id = t /\ NewEnvelope(t).attempts = 0
    BY DEF NewEnvelope
  <2> QED
    BY <1>0, <2>1, EnqueueLands
<1>2. UNCHANGED <<delayed, due, inflight>>
  BY DEF Enqueue
<1>3. \A u \in Tasks : u # t => Kept(u)
  <2>1. \A u \in Tasks : u # t => api'[u] = api[u]
    BY <1>0 DEF Answer, ApiTypeOK
  <2> QED
    BY <1>1, <1>2, <2>1, ApiKeeps
<1>4. Ready(t)' /\ Alive(t)' /\ IsCopy(x)'
  BY <1>1 DEF Ready, Has, Alive, IsCopy
<1>5. Decided' /\ Both
  <2>1. HandlersFound'
    BY HandlersKept
  <2>2. t \notin settled' /\ t \notin dropped'
    BY LiveUnsettled DEF Alive
  <2>3. Clear(t)'
    BY <1>4, <2>2, ClearAfter
  <2> QED
    BY <1>3, <2>1, <2>3, MoveRefines
<1>6. AttemptsOf(t)' = 0
  BY <1>1, <1>4, CarriedAfter
<1>7. PhaseOf(t) = "persisted" /\ PhaseOf(t)' = "ready"
  BY <1>4, <1>5, PhaseBefore, PhasesAfter DEF PhaseIsPlace
<1>8. Lifecycle!Move(t, "persisted", "ready", 0) /\ t \in Lifecycle!Moved
  BY <1>3, <1>5, <1>6, <1>7, OneMoves
<1>9. Lifecycle!Submit(t)
  BY <1>8 DEF Lifecycle!Submit
<1> QED
  BY <1>5, <1>8, <1>9 DEF Refines, Lifecycle!Next

\* Every request.
LEMMA ApiRefines ==
  ASSUME TypeOK, Steady, Placed, Decided, TypeOK', Placed', ApiNext,
         UNCHANGED <<workerVars, co>>
  PROVE  Refines
<1>0. QueueTypeOK /\ StoreTypeOK /\ ApiTypeOK /\ job' = job
  BY DEF TypeOK, workerVars
<1>t. PICK t \in Tasks : \/ InsertTask(t) \/ SubmitTask(t) \/ CancelTask(t)
                         \/ RedriveRow(t) \/ RedriveEnvelope(t)
  BY DEF ApiNext
<1>c. Clear(t) /\ PhaseIsPlace(t)
  BY PhaseBefore DEF Decided
<1>1. CASE InsertTask(t)
  <2>1. /\ CreateTask(t) /\ Answer(t, "inserted") /\ api[t] = "none"
        /\ UNCHANGED <<queue, delayed, due, inflight, settled, dropped>>
    BY <1>1, NoFaults DEF InsertTask, queueVars, ledger
  <2>2. Over(t) /\ tasks[t].status = "absent"
    BY <2>1 DEF CreateTask, NoRow, Over
  <2>3. t \notin settled /\ t \notin dropped
    BY <1>c, <2>2 DEF Clear
  <2>4. ~Alive(t)
    <3>1. /\ ~Ready(t) /\ ~Waiting(t) /\ ~Recorded(t) /\ ~Owed(t) /\ ~Reclaimed(t)
          /\ ~Submitting(t)
      BY <2>2, Exclusive
    <3>2. ~Nacked(t)
      BY <3>1 DEF Nacked, Owed, InSlot, Owing
    <3> QED
      BY <3>1, <3>2 DEF Alive, Held
  <2>5. PhaseOf(t) = "none"
    BY <1>c, <2>3, <2>4 DEF PhaseIsPlace
  <2>6. Submitting(t)'
    BY <1>0, <2>1 DEF Answer, ApiTypeOK, Submitting
  <2>7. \A u \in Tasks : u # t => tasks'[u] = tasks[u] /\ api'[u] = api[u]
    BY <1>0, <2>1 DEF CreateTask, Answer, StoreTypeOK, ApiTypeOK
  <2>8. /\ Decided'
        /\ Lifecycle!Move(t, "none", "persisted", 0)
        /\ t \in Lifecycle!Moved
    BY <1>0, <2>1, <2>2, <2>3, <2>5, <2>6, <2>7, ApiRowRefines
  <2>9. Lifecycle!Persist(t)
    BY <2>8 DEF Lifecycle!Persist
  <2> QED
    BY <2>8, <2>9 DEF Refines, Lifecycle!Next
<1>2. CASE RedriveRow(t)
  <2>1. /\ Redrive(t) /\ Answer(t, "redriven") /\ settled' = settled \ {t}
        /\ UNCHANGED <<queue, delayed, due, inflight, dropped>>
    BY <1>2 DEF RedriveRow, queueVars
  <2>2. Over(t) /\ tasks[t].status = "dead"
    BY <2>1 DEF Redrive, Over
  <2>3. t \in settled /\ t \notin dropped
    BY <1>c, <2>2 DEF Clear
  <2>4. PhaseOf(t) = "settled"
    BY <1>c, <2>3 DEF PhaseIsPlace
  <2>5. Submitting(t)'
    BY <1>0, <2>1 DEF Answer, ApiTypeOK, Submitting
  <2>6. \A u \in Tasks : u # t => tasks'[u] = tasks[u] /\ api'[u] = api[u]
    BY <1>0, <2>1 DEF Redrive, Answer, StoreTypeOK, ApiTypeOK
  <2>7. /\ Decided'
        /\ Lifecycle!Move(t, "settled", "persisted", 0)
        /\ t \in Lifecycle!Moved
    BY <1>0, <2>1, <2>2, <2>3, <2>4, <2>5, <2>6, ApiRowRefines
  <2>8. Lifecycle!Redrive(t)
    BY <2>7 DEF Lifecycle!Redrive
  <2> QED
    BY <2>7, <2>8 DEF Refines, Lifecycle!Next
<1>3. CASE SubmitTask(t) \/ RedriveEnvelope(t)
  <2>1. /\ Submitting(t) /\ Enqueue(NewEnvelope(t)) /\ Answer(t, "accepted")
        /\ UNCHANGED <<tasks, settled, dropped>>
    BY <1>3, NoFaults DEF SubmitTask, RedriveEnvelope, Submitting, storeVars, ledger
  <2> QED
    BY <1>0, <2>1, ApiEnqueueRefines
<1>4. CASE CancelTask(t)
  <2>1. UNCHANGED <<queue, delayed, due, inflight, api, settled, dropped>> /\ MarkCanceled(t)
    BY <1>4 DEF CancelTask, queueVars, ledger
  <2>2. ASSUME NEW u \in Tasks
        PROVE  Kept(u)
    <3>1. tasks[u] \in Row
      BY <1>0 DEF StoreTypeOK
    <3>2. [tasks[u] EXCEPT !.status = "canceled"].status = "canceled"
      BY <3>1 DEF Row
    <3>3. tasks'[u] = tasks[u] \/ tasks'[u].status = "canceled"
      BY <1>0, <2>1, <3>2 DEF MarkCanceled, StoreTypeOK
    <3>4. RowKept(u)
      BY <3>3 DEF RowKept
    <3> QED
      BY <1>0, <2>1, <3>4, KeptFrames, KeptPlaces
  <2>3. HandlersFound'
    BY <1>0, HandlersKept
  <2> QED
    BY <2>2, <2>3, Stutters
<1> QED
  BY <1>t, <1>1, <1>2, <1>3, <1>4
-----------------------------------------------------------------------------
\* Time passes the backoff of a task.
LEMMA ElapseRefines ==
  ASSUME TypeOK, Placed, Decided, TypeOK', Placed', NEW e \in delayed, Elapse(e),
         UNCHANGED <<storeVars, workerVars, co, api, ledger>>
  PROVE  Refines
<1>1. /\ e \notin due /\ due' = due \cup {e}
      /\ UNCHANGED <<queue, delayed, inflight, job, tasks, settled, dropped>>
  BY DEF Elapse, storeVars, workerVars, ledger
<1>2. e \in Envelope /\ e.id \in Tasks /\ due \subseteq delayed
  BY EnvelopeFields DEF TypeOK, QueueTypeOK
<1>3. IsCopy(e) /\ IsCopy(e)' /\ Waiting(e.id) /\ Alive(e.id) /\ Alive(e.id)'
  BY <1>1 DEF IsCopy, Waiting, Has, Alive
<1>4. ~Ripe(e.id) /\ Ripe(e.id)'
  BY <1>1, <1>2 DEF Ripe, Has, Placed, OneCopy, Unique
<1>5. ASSUME NEW u \in Tasks, u # e.id
      PROVE  Kept(u)
  <2>1. DelayedKept(u)
    BY <1>1, <1>5 DEF DelayedKept
  <2> QED
    BY <1>1, <2>1, KeptFrames, KeptPlaces
<1>6. e.id \notin settled' /\ e.id \notin dropped'
  BY <1>1, <1>2, <1>3, LiveUnsettled
<1>7. Decided' /\ Both
  <2>1. HandlersFound'
    BY <1>1, HandlersKept
  <2>2. Clear(e.id)'
    BY <1>2, <1>3, <1>6, ClearAfter
  <2> QED
    BY <1>2, <1>5, <2>1, <2>2, MoveRefines
<1>8. AttemptsOf(e.id) = e.attempts /\ AttemptsOf(e.id)' = e.attempts
  BY <1>2, <1>3, AttemptsBefore, CarriedAfter
<1>9. PhaseOf(e.id) = "waiting" /\ PhaseOf(e.id)' = "ripe"
  BY <1>2, <1>3, <1>4, <1>7, PhaseBefore, PhasesAfter DEF PhaseIsPlace
<1>10. Lifecycle!Move(e.id, "waiting", "ripe", AttemptsOf(e.id)) /\ e.id \in Lifecycle!Moved
  BY <1>2, <1>5, <1>7, <1>8, <1>9, OneMoves
<1>11. Lifecycle!Ripen(e.id)
  BY <1>2, <1>10 DEF Lifecycle!Ripen
<1> QED
  BY <1>7, <1>10, <1>11 DEF Refines, Lifecycle!Next

\* Every step of the system is a step of TaskLifecycle, or none.
LEMMA NextRefines ==
  ASSUME TypeOK, Steady, Placed, Decided, Ripened, TypeOK', Placed', [Next]_vars
  PROVE  Refines
<1>1. CASE (\E w \in Workers : Expire(w)) \/ UNCHANGED vars
  <2>1. UNCHANGED <<queue, delayed, due, inflight, job, tasks, co, api, settled, dropped>>
    BY <1>1 DEF Expire, HeartbeatExpires, vars, queueVars, storeVars, workerVars, ledger
  <2> QED
    BY <2>1, QuietRefines
<1>2. CASE TimePasses
  BY <1>2, ElapseRefines DEF TimePasses
<1> QED
  BY <1>1, <1>2, WorkerRefines, CoordinatorRefines, ApiRefines DEF Next

\* At the start no task has been submitted.
LEMMA InitRefines ==
  ASSUME Init, TypeOK, Placed
  PROVE  Decided /\ Lifecycle!Init
<1>1. /\ queue = {} /\ delayed = {} /\ due = {} /\ inflight = [w \in Workers |-> {}]
      /\ co.batch = {} /\ co.pc = "sleep" /\ api = [t \in Tasks |-> "none"]
      /\ \A w \in Workers, s \in Slots : job[w][s].pc = "idle"
      /\ settled = {} /\ dropped = {} /\ tasks = [t \in Tasks |-> NoRow]
  BY DEF Init, EnvironmentInit, QueueInit, StoreInit, WorkerInit, IdleJob, CoStart, ApiInit
<1>2. ASSUME NEW t \in Tasks
      PROVE  /\ ~Ready(t) /\ ~Waiting(t) /\ ~Nacked(t) /\ ~Held(t) /\ ~Submitting(t)
             /\ ~Ended(t)
  BY <1>1 DEF Ready, Waiting, Nacked, Held, Recorded, Reclaimed, Submitting, Ended,
              Burying, Has, InSlot
<1>3. Decided
  <2>1. HandlersFound
    BY <1>1 DEF HandlersFound
  <2>2. ASSUME NEW t \in Tasks
        PROVE  Clear(t)
    BY <1>1, <1>2 DEF Clear, NoRow
  <2> QED
    BY <2>1, <2>2 DEF Decided
<1>4. ASSUME NEW t \in Tasks
      PROVE  PhaseOf(t) = "none" /\ AttemptsOf(t) = 0
  <2>1. PhaseOf(t) = "none"
    BY <1>1, <1>2, <1>3, PhaseBefore DEF PhaseIsPlace, Alive
  <2>2. AttemptsOf(t) = 0
    BY <1>2, Carried DEF AttemptsAreCarried
  <2> QED
    BY <2>1, <2>2
<1> QED
  BY <1>3, <1>4 DEF Lifecycle!Init

\* In calm conditions the whole system implements TaskLifecycle: whatever the
\* API, the workers and the coordinator do, command by command, is one step in
\* the life of a task (of several, when a process is killed or a promotion
\* moves its batch), or none.
THEOREM SystemImplementsLifecycle == Calm /\ Spec => ImplementsLifecycle
<1> DEFINE Inv == TypeOK /\ Steady /\ Placed /\ Decided /\ Ripened
<1>1. Calm /\ Init => Inv /\ Lifecycle!Init
  <2>1. Init => Ripened
    BY DEF Init, CoStart, Ripened
  <2> QED
    BY <2>1, InitType, SteadyInit, PlacedInit, InitRefines
<1>2. Inv /\ [Next]_vars => Inv' /\ [Lifecycle!Next]_(Lifecycle!vars)
  BY NextType, SteadyStep, PlacedStep, RipenedStep, NextRefines DEF Refines
<1> HIDE DEF Inv
<1> QED
  BY <1>1, <1>2, PTL DEF Spec, ImplementsLifecycle, Lifecycle!Spec
=============================================================================
