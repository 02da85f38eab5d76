-------------------------- MODULE SingleCopyProofs --------------------------
(***************************************************************************)
(* While no live worker misses its heartbeats, no command fails and every  *)
(* worker is up from the start and never comes back, a task is in one      *)
(* place at a time.  From this follow NoDoubleExecution and                *)
(* TerminalIsFinal, for any tasks, workers and slots, and for any number   *)
(* of crashes, cancellations and redrives.                                 *)
(***************************************************************************)
EXTENDS TaskRefinement, TaskQueueProofs, FiniteSetTheorems

\* Nothing happens to the services but crashes.
Calm ==
  /\ \A k \in {"expire", "error", "restart", "stop"} : Budget[k] = 0
  /\ Booted = Workers

Reclaiming == {"read", "del", "requeue", "mark", "orphans", "flag"}

\* A live worker has its heartbeat key, so that only a dead one is reclaimed.
Steady ==
  /\ \A k \in {"expire", "error", "restart", "stop"} : budget[k] = 0
  /\ canceled = {}
  /\ \A w \in Workers : loop[w] \in {"running", "down"}
  /\ \A w \in Workers : loop[w] = "running" => w \in hb
  /\ \A w \in Workers : loop[w] = "down" => \A s \in Slots : job[w][s].pc = "idle"
  /\ co.pc \in Reclaiming => loop[co.worker] = "down"

\* An executing slot has its record in the worker's hash, and what the
\* coordinator has read is still there.
Tied ==
  /\ \A w \in Workers, s \in Slots :
       job[w][s].pc \in {"leased", "running"} => job[w][s].env \in inflight[w]
  /\ \A w \in Workers, s, r \in Slots :
       /\ job[w][s].pc \in {"leased", "running"}
       /\ job[w][r].pc \in {"leased", "running"}
       /\ job[w][s].env.id = job[w][r].env.id
       => s = r
  /\ co.pc = "del" => co.batch = inflight[co.worker]
  /\ co.pc = "exec" => co.batch \subseteq delayed
  /\ co.pc \notin {"exec", "del", "requeue", "mark"} => co.batch = {}

\* A slot that has given up its record and has still to report.
Owing == {"nacked", "acked", "pushed"}

\* The places a task can be in: Redis, a slot whose record is gone, the
\* coordinator's hands, or a request on its way to Redis (Submitting).
Ready(t) == Has(queue, t)
Waiting(t) == Has(delayed, t)
Recorded(t) == \E w \in Workers : Has(inflight[w], t)
Owed(t) == InSlot(Owing, t)
Reclaimed(t) == co.pc \in {"requeue", "mark"} /\ Has(co.batch, t)
Burying(t) == co.pc = "mark" /\ co.dead = t

Places(t) ==
  {p \in {"queue", "delayed", "hash", "slot", "batch", "mark", "api"} :
     \/ p = "queue" /\ Ready(t)
     \/ p = "delayed" /\ Waiting(t)
     \/ p = "hash" /\ Recorded(t)
     \/ p = "slot" /\ Owed(t)
     \/ p = "batch" /\ Reclaimed(t)
     \/ p = "mark" /\ Burying(t)
     \/ p = "api" /\ Submitting(t)}

OnePlace(t) == \A p, q \in Places(t) : p = q

Unique(envs) == \A e, f \in envs : e.id = f.id => e = f

\* ... and there is one copy in that place.
OneCopy ==
  /\ Unique(queue)
  /\ Unique(delayed)
  /\ Unique(co.batch)
  /\ \A w, v \in Workers : \A e \in inflight[w], f \in inflight[v] :
       e.id = f.id => w = v /\ e = f
  /\ \A w, v \in Workers, s, r \in Slots :
       /\ job[w][s].pc \in Owing /\ job[v][r].pc \in Owing
       /\ job[w][s].env.id = job[v][r].env.id
       => w = v /\ s = r

\* A row that says the task is over, or that does not exist: no copy anywhere.
Over(t) == tasks[t].status \in {"absent", "succeeded", "dead"}

Settling == \A t \in Tasks : Over(t) => Places(t) = {}

Placed == Tied /\ OneCopy /\ (\A t \in Tasks : OnePlace(t)) /\ Settling
-----------------------------------------------------------------------------
(* Only dead workers are reclaimed. *)

\* In calm conditions no command fails, and no worker stops or restarts.
LEMMA NoFaults ==
  ASSUME Steady
  PROVE  /\ ~Spend("error") /\ ~Spend("restart") /\ ~Spend("stop") /\ ~Spend("expire")
         /\ ~Fault
         /\ \A w \in Workers : ~CommandFails(w)
BY DEF Steady, Spend, Fault, CommandFails

\* What the life of a worker comes down to: heartbeats, or a crash.
LEMMA CalmProcess ==
  ASSUME Steady, NEW w \in Workers, ProcessStep(w)
  PROVE  \/ BeatTick(w) /\ Heartbeat(w) /\ UNCHANGED budget
         \/ TouchTick(w) /\ UNCHANGED budget
         \/ Crash(w) /\ loop[w] = "running"
<1>1. loop[w] \in {"running", "down"} /\ w \notin canceled
  BY DEF Steady
<1>2. ~Register(w) /\ ~FirstHeartbeat(w) /\ ~StartupError(w) /\ ~Sigterm(w) /\ ~Leave(w)
  BY <1>1, NoFaults DEF Register, FirstHeartbeat, StartupError, Sigterm, Leave
<1>3. BeatTick(w) => Heartbeat(w) /\ UNCHANGED budget
  BY NoFaults DEF BeatTick, CommandSucceeds
<1>4. TouchTick(w) => UNCHANGED budget
  BY NoFaults DEF TouchTick, CommandSucceeds
<1>5. Crash(w) => loop[w] = "running"
  BY <1>1 DEF Crash
<1> QED
  BY <1>2, <1>3, <1>4, <1>5 DEF ProcessStep

\* A step of another service than the workers.
LEMMA SteadyFrame ==
  ASSUME Steady, UNCHANGED <<canceled, loop, job>>, hb \subseteq hb',
         \A k \in {"expire", "error", "restart", "stop"} : budget'[k] = budget[k],
         co'.pc \in Reclaiming => loop[co'.worker] = "down"
  PROVE  Steady'
BY DEF Steady

\* Spending another budget leaves these alone.
LEMMA SpendKeeps ==
  ASSUME EnvironmentTypeOK, NEW k \in {"crash", "cancel", "redrive"},
         Spend(k) \/ UNCHANGED budget
  PROVE  \A l \in {"expire", "error", "restart", "stop"} : budget'[l] = budget[l]
BY DEF EnvironmentTypeOK, Kinds, Spend

\* A worker's own step: it stays up with its key, or it crashes with its slots.
LEMMA WorkerSteady ==
  ASSUME TypeOK, Steady, WorkerNext, UNCHANGED co
  PROVE  Steady'
<1>0. EnvironmentTypeOK /\ WorkerTypeOK
  BY DEF TypeOK
<1>w. PICK w \in Workers :
        \/ ProcessStep(w)
        \/ \E s \in Slots : PollStep(w, s) \/ JobStep(w, s)
  BY DEF WorkerNext
<1>1. co.pc \in Reclaiming => loop[co.worker] = "down"
  BY DEF Steady
<1>2. CASE ProcessStep(w)
  <2>1. CASE BeatTick(w) /\ Heartbeat(w) /\ UNCHANGED budget
    BY <1>1, <2>1, SteadyFrame DEF BeatTick, Heartbeat
  <2>2. CASE TouchTick(w) /\ UNCHANGED budget
    BY <1>1, <2>2, SteadyFrame DEF TouchTick, queueVars
  <2>3. CASE Crash(w) /\ loop[w] = "running"
    <3>1. \A v \in Workers : loop'[v] = IF v = w THEN "down" ELSE loop[v]
      BY <1>0, <2>3 DEF Crash, Halt, WorkerTypeOK
    <3>2. \A v \in Workers : v # w => job'[v] = job[v]
      BY <1>0, <2>3 DEF Crash, Halt, WorkerTypeOK
    <3>3. \A s \in Slots : job'[w][s].pc = "idle"
      BY <1>0, <2>3 DEF Crash, Halt, WorkerTypeOK, IdleJob
    <3>4. \A l \in {"expire", "error", "restart", "stop"} : budget'[l] = budget[l]
      BY <1>0, <2>3, SpendKeeps DEF Crash
    <3>5. UNCHANGED <<hb, canceled>>
      BY <2>3 DEF Crash, Halt, queueVars
    <3>6. co'.pc \in Reclaiming => co.worker \in Workers
      BY DEF Reclaiming, TypeOK, CoordinatorTypeOK
    <3>7. co'.pc \in Reclaiming => loop'[co'.worker] = "down"
      BY <1>1, <3>1, <3>6
    <3> QED
      BY <3>1, <3>2, <3>3, <3>4, <3>5, <3>7 DEF Steady
  <2> QED
    BY <1>2, <2>1, <2>2, <2>3, CalmProcess
<1>3. ASSUME NEW s \in Slots, PollStep(w, s) \/ JobStep(w, s)
      PROVE  Steady'
  <2>1. UNCHANGED <<loop, canceled, budget, hb>>
    <3>1. CASE PollStep(w, s)
      BY <3>1, NoFaults DEF PollStep, LeaseTask, LeaseEmpty, LeaseError, CommandSucceeds,
                            Lease, queueVars
    <3>2. CASE JobStep(w, s)
      <4>1. UNCHANGED <<loop, canceled>>
        BY <3>2 DEF JobStep, Unhandled, Start, Succeed, RecordSuccess, Fail, PushDead,
                    RecordDead, Schedule, RecordRetry, Step, Finish
      <4>2. UNCHANGED <<budget, hb>>
        BY <3>2, NoFaults
           DEF JobStep, Unhandled, Start, Succeed, RecordSuccess, Fail, PushDead,
               RecordDead, Schedule, RecordRetry, CommandSucceeds, Ack, Nack, DeadLetter,
               EnqueueDelayed, queueVars
      <4> QED
        BY <4>1, <4>2
    <3> QED
      BY <1>3, <3>1, <3>2
  <2>2. loop[w] = "running"
    <3>1. CASE PollStep(w, s)
      BY <3>1 DEF PollStep, LeaseTask, LeaseEmpty, LeaseError, CanPoll
    <3>2. CASE JobStep(w, s)
      <4>1. job[w][s].pc # "idle"
        BY <3>2 DEF JobStep, Unhandled, Start, Succeed, RecordSuccess, Fail, PushDead,
                    RecordDead, Schedule, RecordRetry, Step, Finish
      <4> QED
        BY <4>1 DEF Steady
    <3> QED
      BY <1>3, <3>1, <3>2
  <2>3. \A v \in Workers : v # w => job'[v] = job[v]
    <3>1. CASE PollStep(w, s)
      BY <1>0, <3>1 DEF PollStep, LeaseTask, LeaseEmpty, LeaseError, WorkerTypeOK
    <3>2. CASE JobStep(w, s)
      BY <1>0, <3>2 DEF JobStep, Unhandled, Start, Succeed, RecordSuccess, Fail, PushDead,
                  RecordDead, Schedule, RecordRetry, Step, Finish, WorkerTypeOK
    <3> QED
      BY <1>3, <3>1, <3>2
  <2> QED
    BY <2>1, <2>2, <2>3 DEF Steady
<1> QED
  BY <1>w, <1>2, <1>3

\* The coordinator turns to a worker only when its key is gone.
LEMMA CoordinatorSteady ==
  ASSUME TypeOK, Steady, CoordinatorNext
  PROVE  Steady'
<1>0. EnvironmentTypeOK /\ CoordinatorTypeOK
  BY DEF TypeOK
<1>1. UNCHANGED <<canceled, loop, job>>
  BY DEF CoordinatorNext, workerVars
<1>2. UNCHANGED hb
  BY DEF CoordinatorNext, CoStep, CoCrash, Tick, MoveDue, PromoteDone, ReadDue,
         ReadWorkers, SweepDone, ReadInflight, RequeueDone, CheckAlive, DelHash,
         Requeue, PushExhausted, MarkExhausted, ResetOrphans, FlagDead, DelInflight,
         Promote, Enqueue, DeadLetter, queueVars
<1>3. UNCHANGED budget \/ Spend("crash")
  <2>1. CASE CoCrash
    BY <2>1 DEF CoCrash
  <2>2. CASE CoStep(HeldBy(co.worker))
    BY <2>2, NoFaults
       DEF CoStep, Tick, MoveDue, PromoteDone, ReadDue, ReadWorkers, SweepDone,
           ReadInflight, RequeueDone, CheckAlive, DelHash, Requeue, PushExhausted,
           MarkExhausted, ResetOrphans, FlagDead
  <2> QED
    BY <2>1, <2>2 DEF CoordinatorNext
<1>4. \A l \in {"expire", "error", "restart", "stop"} : budget'[l] = budget[l]
  BY <1>0, <1>3, SpendKeeps
<1>5. ASSUME co'.pc \in Reclaiming
      PROVE  loop[co'.worker] = "down"
  <2>1. ASSUME co'.worker = co.worker, co.pc \in Reclaiming
        PROVE  loop[co'.worker] = "down"
    BY <2>1 DEF Steady
  <2>2. ASSUME NEW w \in Workers, CheckAlive(w)
        PROVE  loop[co'.worker] = "down"
    <3>1. w \notin hb /\ co'.worker = w
      BY <1>0, <1>5, <2>2, NoFaults
         DEF CheckAlive, IsAlive, At, Reclaiming, CoordinatorTypeOK
    <3> QED
      BY <3>1 DEF Steady
  <2>3. CASE ReadInflight
    BY <1>0, <2>1, <2>3, NoFaults DEF ReadInflight, At, Reclaiming, CoordinatorTypeOK
  <2>4. CASE DelHash(HeldBy(co.worker)) \/ MarkExhausted \/ ResetOrphans \/ RequeueDone
    BY <1>0, <2>1, <2>4 DEF DelHash, MarkExhausted, ResetOrphans, RequeueDone, At,
                            Reclaiming, CoordinatorTypeOK
  <2>5. CASE \E e \in co.batch : Requeue(e) \/ PushExhausted(e)
    BY <1>0, <2>1, <2>5 DEF Requeue, PushExhausted, At, Reclaiming, CoordinatorTypeOK
  <2>6. ~(Tick \/ MoveDue \/ PromoteDone \/ FlagDead)
    BY <1>0, <1>5 DEF Tick, MoveDue, PromoteDone, FlagDead, Reclaiming, CoordinatorTypeOK
  <2>7. ~(\E ty \in Types : ReadDue(ty))
    BY <1>0, <1>5 DEF ReadDue, At, Reclaiming, CoordinatorTypeOK
  <2>8. ~(ReadWorkers \/ SweepDone \/ CoCrash)
    <3>1. co' # CoStart
      BY <1>5 DEF CoStart, Reclaiming
    <3>2. ~ReadWorkers
      BY <1>0, <1>5, <3>1 DEF ReadWorkers, Reclaiming, CoordinatorTypeOK
    <3> QED
      BY <3>1, <3>2 DEF SweepDone, CoCrash
  <2> QED
    BY <2>2, <2>3, <2>4, <2>5, <2>6, <2>7, <2>8 DEF CoordinatorNext, CoStep
<1> QED
  BY <1>1, <1>2, <1>4, <1>5, SteadyFrame

\* Every step keeps the calm.
LEMMA SteadyStep ==
  ASSUME TypeOK, Steady, [Next]_vars
  PROVE  Steady'
<1>0. EnvironmentTypeOK
  BY DEF TypeOK
<1>1. CASE ApiNext /\ UNCHANGED <<workerVars, co>>
  <2>1. \A l \in {"expire", "error", "restart", "stop"} : budget'[l] = budget[l]
    <3>1. \/ UNCHANGED budget \/ Spend("cancel") \/ Spend("redrive")
      BY <1>1, NoFaults DEF ApiNext, InsertTask, SubmitTask, CancelTask, RedriveRow,
                            RedriveEnvelope
    <3> QED
      BY <1>0, <3>1, SpendKeeps
  <2>2. UNCHANGED hb
    BY <1>1 DEF ApiNext, InsertTask, SubmitTask, CancelTask, RedriveRow,
                RedriveEnvelope, Enqueue, queueVars
  <2> QED
    BY <1>1, <2>1, <2>2, SteadyFrame DEF workerVars, Steady
<1>2. CASE TimePasses \/ UNCHANGED vars
  BY <1>2, SteadyFrame DEF TimePasses, Elapse, vars, workerVars, queueVars, Steady
<1>3. ASSUME NEW w \in Workers, Expire(w)
      PROVE  Steady'
  <2>1. loop[w] # "running" /\ UNCHANGED budget
    BY <1>3, NoFaults DEF Expire, Steady
  <2> QED
    BY <1>3, <2>1 DEF Expire, HeartbeatExpires, workerVars, Steady
<1> QED
  BY <1>1, <1>2, <1>3, WorkerSteady, CoordinatorSteady DEF Next

\* The calm there is at the start.
LEMMA SteadyInit ==
  ASSUME Calm, Init
  PROVE  Steady
BY DEF Calm, Init, EnvironmentInit, QueueInit, WorkerInit, IdleJob, CoStart, Steady,
       Reclaiming

-----------------------------------------------------------------------------
(* A step leaves a task where it is, or moves it to another place. *)

Stays(t) ==
  /\ Places(t)' \subseteq Places(t)
  /\ Over(t)' => Over(t) \/ Places(t)' = {}

Moves(t) ==
  /\ \E p : Places(t)' \subseteq {p}
  /\ ~Over(t)'

\* What every task has to do in a step for the two parts of Placed about them.
LEMMA PlacesStep ==
  ASSUME Placed, \A t \in Tasks : Stays(t) \/ Moves(t)
  PROVE  (\A t \in Tasks : OnePlace(t)') /\ Settling'
<1>1. ASSUME NEW t \in Tasks
      PROVE  OnePlace(t)'
  BY DEF Placed, OnePlace, Stays, Moves
<1>2. Settling'
  BY DEF Placed, Settling, Stays, Moves
<1> QED
  BY <1>1, <1>2

\* Who is in one place is in no other.
LEMMA Exclusive ==
  ASSUME Placed, NEW t \in Tasks
  PROVE  /\ Ready(t) => ~(Waiting(t) \/ Recorded(t) \/ Owed(t) \/ Reclaimed(t)
                          \/ Burying(t) \/ Submitting(t))
         /\ Waiting(t) => ~(Recorded(t) \/ Owed(t) \/ Reclaimed(t) \/ Burying(t)
                            \/ Submitting(t))
         /\ Recorded(t) => ~(Owed(t) \/ Reclaimed(t) \/ Burying(t) \/ Submitting(t))
         /\ Owed(t) => ~(Reclaimed(t) \/ Burying(t) \/ Submitting(t))
         /\ Reclaimed(t) => ~(Burying(t) \/ Submitting(t))
         /\ Burying(t) => ~Submitting(t)
         /\ Over(t) => ~(Ready(t) \/ Waiting(t) \/ Recorded(t) \/ Owed(t)
                         \/ Reclaimed(t) \/ Burying(t) \/ Submitting(t))
<1>1. OnePlace(t) /\ (Over(t) => Places(t) = {})
  BY DEF Placed, Settling
<1> QED
  BY <1>1 DEF OnePlace, Places

\* What does not change leaves a task where it is.
LEMMA Frames ==
  ASSUME NEW t
  PROVE  /\ UNCHANGED queue => (Ready(t)' <=> Ready(t))
         /\ UNCHANGED delayed => (Waiting(t)' <=> Waiting(t))
         /\ UNCHANGED inflight => (Recorded(t)' <=> Recorded(t))
         /\ UNCHANGED job => (Owed(t)' <=> Owed(t))
         /\ UNCHANGED co => (Reclaimed(t)' <=> Reclaimed(t)) /\ (Burying(t)' <=> Burying(t))
         /\ UNCHANGED api => (Submitting(t)' <=> Submitting(t))
         /\ UNCHANGED tasks => (Over(t)' <=> Over(t))
BY DEF Ready, Waiting, Recorded, Owed, Reclaimed, Burying, Submitting, Over, Has, InSlot

\* A slot that has reported owes its task nothing more, and nobody else does.
LEMMA OwedEnds ==
  ASSUME OneCopy, NEW w \in Workers, NEW s \in Slots, job[w][s].pc \in Owing,
         job'[w][s].pc \notin Owing,
         \A v \in Workers, r \in Slots : ~(v = w /\ r = s) => job'[v][r] = job[v][r],
         NEW t
  PROVE  Owed(t)' => Owed(t) /\ t # job[w][s].env.id
<1>1. SUFFICES ASSUME Owed(t)'
               PROVE  Owed(t) /\ t # job[w][s].env.id
  OBVIOUS
<1>2. PICK v \in Workers, r \in Slots : job'[v][r].pc \in Owing /\ job'[v][r].env.id = t
  BY <1>1 DEF Owed, InSlot
<1>3. job'[v][r] = job[v][r] /\ ~(v = w /\ r = s)
  BY <1>2
<1> QED
  BY <1>2, <1>3 DEF OneCopy, Owed, InSlot
-----------------------------------------------------------------------------
(* The worker. *)

\* A lease moves a task from the queue to the hash, and a slot executes it.
LEMMA LeasePlaced ==
  ASSUME TypeOK, Steady, Placed, NEW w \in Workers, NEW s \in Slots, LeaseTask(w, s),
         UNCHANGED <<co, api>>
  PROVE  Placed'
<1>0. QueueTypeOK /\ WorkerTypeOK /\ CoordinatorTypeOK
  BY DEF TypeOK
<1>1. PICK e \in queue : /\ Lease(TaskTypes[poll[w]], w, e)
                         /\ job' = [job EXCEPT ![w][s] = [pc |-> "leased", env |-> e]]
  BY DEF LeaseTask
<1>2. /\ queue' = queue \ {e} /\ delayed' = delayed /\ tasks' = tasks
      /\ inflight'[w] = {x \in inflight[w] : x.id # e.id} \cup {e}
      /\ \A v \in Workers : v # w => inflight'[v] = inflight[v]
  BY <1>0, <1>1 DEF Lease, HSet, QueueTypeOK, LeaseTask, storeVars
<1>3. e.id \in Tasks /\ Ready(e.id)
  BY <1>0, EnvelopeFields DEF QueueTypeOK, Ready, Has
<1>4. ~Recorded(e.id) /\ ~Owed(e.id) /\ ~Waiting(e.id) /\ ~Reclaimed(e.id)
      /\ ~Burying(e.id) /\ ~Submitting(e.id) /\ ~Over(e.id)
  BY <1>3, Exclusive
<1>5. \A v \in Workers, r \in Slots :
        job'[v][r] = IF v = w /\ r = s THEN [pc |-> "leased", env |-> e] ELSE job[v][r]
  BY <1>0, <1>1 DEF WorkerTypeOK
<1>6. \A v \in Workers : \A x \in inflight[v] : x.id # e.id
  BY <1>4 DEF Recorded, Has
<1>7. co.pc = "del" => co.worker \in Workers /\ co.worker # w
  BY <1>0 DEF Steady, Reclaiming, LeaseTask, CanPoll, CoordinatorTypeOK
<1>8. Tied'
  <2>1. ASSUME NEW v \in Workers, NEW r \in Slots, job'[v][r].pc \in {"leased", "running"}
        PROVE  job'[v][r].env \in inflight'[v]
    BY <1>2, <1>5, <1>6, <2>1 DEF Placed, Tied
  <2>2. ASSUME NEW v \in Workers, NEW r \in Slots, NEW q \in Slots,
               job'[v][r].pc \in {"leased", "running"},
               job'[v][q].pc \in {"leased", "running"},
               job'[v][r].env.id = job'[v][q].env.id
        PROVE  r = q
    BY <1>5, <1>6, <2>2 DEF Placed, Tied
  <2> QED
    BY <1>2, <1>7, <2>1, <2>2 DEF Placed, Tied
<1>9. OneCopy'
  <2>1. Unique(queue)' /\ Unique(delayed)' /\ Unique(co.batch)'
    BY <1>2 DEF Placed, OneCopy, Unique
  <2>2. ASSUME NEW u \in Workers, NEW v \in Workers, NEW x \in inflight'[u],
               NEW y \in inflight'[v], x.id = y.id
        PROVE  u = v /\ x = y
    BY <1>2, <1>6, <2>2 DEF Placed, OneCopy
  <2>3. \A v \in Workers, r \in Slots : job'[v][r].pc \in Owing => job'[v][r] = job[v][r]
    BY <1>5 DEF Owing
  <2> QED
    BY <2>1, <2>2, <2>3 DEF Placed, OneCopy
<1>10. ASSUME NEW t \in Tasks
       PROVE  Stays(t) \/ Moves(t)
  <2>1. /\ Waiting(t)' <=> Waiting(t)
        /\ Reclaimed(t)' <=> Reclaimed(t)
        /\ Burying(t)' <=> Burying(t)
        /\ Submitting(t)' <=> Submitting(t)
        /\ Over(t)' <=> Over(t)
    BY <1>2, Frames
  <2>2. Owed(t)' => Owed(t)
    BY <1>5 DEF Owed, InSlot, Owing
  <2>3. Recorded(t)' => Recorded(t) \/ t = e.id
    BY <1>2 DEF Recorded, Has
  <2>4. Ready(t)' => Ready(t) /\ t # e.id
    BY <1>2 DEF Ready, Has, Placed, OneCopy, Unique
  <2>5. CASE t = e.id
    <3>1. Places(t)' \subseteq {"hash"}
      BY <1>4, <2>1, <2>2, <2>4, <2>5 DEF Places
    <3> QED
      BY <1>4, <2>1, <2>5, <3>1 DEF Moves
  <2>6. CASE t # e.id
    BY <2>1, <2>2, <2>3, <2>4, <2>6 DEF Stays, Places
  <2> QED
    BY <2>5, <2>6
<1> QED
  BY <1>8, <1>9, <1>10, PlacesStep DEF Placed

\* A handler that has returned gives up its record: the task moves from the
\* hash to the slot.
LEMMA GiveUpPlaced ==
  ASSUME TypeOK, Steady, Placed, NEW w \in Workers, NEW s \in Slots,
         job[w][s].pc \in {"leased", "running"},
         job'[w][s].pc \in Owing, job'[w][s].env.id = job[w][s].env.id,
         \A v \in Workers, r \in Slots : ~(v = w /\ r = s) => job'[v][r] = job[v][r],
         Ack(w, job[w][s].env.id), UNCHANGED <<tasks, co, api>>
  PROVE  Placed'
<1> DEFINE e == job[w][s].env
<1>0. QueueTypeOK /\ WorkerTypeOK /\ CoordinatorTypeOK
  BY DEF TypeOK
<1>1. /\ queue' = queue /\ delayed' = delayed
      /\ inflight'[w] = {x \in inflight[w] : x.id # e.id}
      /\ \A v \in Workers : v # w => inflight'[v] = inflight[v]
  BY <1>0 DEF Ack, HDel, QueueTypeOK
<1>2. /\ job[w][s].env \in inflight[w] /\ job[w][s].env \in Envelope /\ e.id \in Tasks
      /\ Recorded(e.id)
  <2>1. job[w][s].env \in inflight[w]
    BY DEF Placed, Tied
  <2>2. job[w][s].env \in Envelope
    BY <1>0, <2>1 DEF QueueTypeOK
  <2> QED
    BY <2>1, <2>2, EnvelopeFields DEF Recorded, Has
<1>3. /\ ~Ready(e.id) /\ ~Owed(e.id) /\ ~Waiting(e.id) /\ ~Reclaimed(e.id)
      /\ ~Burying(e.id) /\ ~Submitting(e.id) /\ ~Over(e.id)
  BY <1>2, Exclusive
<1>4. \A v \in Workers, r \in Slots :
        \/ v = w /\ r = s /\ job'[v][r].pc \in Owing /\ job'[v][r].env.id = e.id
        \/ job'[v][r] = job[v][r] /\ ~(v = w /\ r = s)
  OBVIOUS
<1>5. \A v \in Workers : \A x \in inflight'[v] : x \in inflight[v] /\ x.id # e.id
  BY <1>1, <1>2 DEF Placed, OneCopy
<1>6. co.pc = "del" => co.worker \in Workers /\ co.worker # w
  BY <1>0 DEF Steady, Reclaiming, CoordinatorTypeOK
<1>7. Tied'
  <2>1. \A v \in Workers, r \in Slots : job'[v][r].pc \in {"leased", "running"} =>
          job'[v][r] = job[v][r] /\ ~(v = w /\ r = s)
    BY <1>4 DEF Owing
  <2>2. ASSUME NEW v \in Workers, NEW r \in Slots, job'[v][r].pc \in {"leased", "running"}
        PROVE  job'[v][r].env \in inflight'[v]
    <3>1. job[v][r].env \in inflight[v] /\ job'[v][r] = job[v][r]
      BY <2>1, <2>2 DEF Placed, Tied
    <3>2. v = w => job[v][r].env.id # e.id
      BY <2>1, <2>2 DEF Placed, Tied
    <3> QED
      BY <1>1, <3>1, <3>2
  <2> QED
    BY <1>1, <1>6, <2>1, <2>2 DEF Placed, Tied
<1>8. OneCopy'
  <2>1. Unique(queue)' /\ Unique(delayed)' /\ Unique(co.batch)'
    BY <1>1 DEF Placed, OneCopy, Unique
  <2>2. \A u, v \in Workers : \A x \in inflight'[u], y \in inflight'[v] :
          x.id = y.id => u = v /\ x = y
    BY <1>5 DEF Placed, OneCopy
  <2>3. ASSUME NEW v \in Workers, NEW r \in Slots, job'[v][r].pc \in Owing,
               ~(v = w /\ r = s)
        PROVE  job'[v][r] = job[v][r] /\ job[v][r].env.id # e.id
    BY <1>3, <1>4, <2>3 DEF Owed, InSlot
  <2>4. job'[w][s].env.id = e.id
    BY <1>4
  <2> QED
    BY <2>1, <2>2, <2>3, <2>4 DEF Placed, OneCopy
<1>9. ASSUME NEW t \in Tasks
      PROVE  Stays(t) \/ Moves(t)
  <2>1. /\ Ready(t)' <=> Ready(t)
        /\ Waiting(t)' <=> Waiting(t)
        /\ Reclaimed(t)' <=> Reclaimed(t)
        /\ Burying(t)' <=> Burying(t)
        /\ Submitting(t)' <=> Submitting(t)
        /\ Over(t)' <=> Over(t)
    BY <1>1, Frames
  <2>2. Owed(t)' => Owed(t) \/ t = e.id
    BY <1>4 DEF Owed, InSlot
  <2>3. Recorded(t)' => Recorded(t) /\ t # e.id
    BY <1>5 DEF Recorded, Has
  <2>4. CASE t = e.id
    <3>1. Places(t)' \subseteq {"slot"}
      BY <1>3, <2>1, <2>3, <2>4 DEF Places
    <3> QED
      BY <1>3, <2>1, <2>4, <3>1 DEF Moves
  <2>5. CASE t # e.id
    BY <2>1, <2>2, <2>3, <2>5 DEF Stays, Places
  <2> QED
    BY <2>4, <2>5
<1> QED
  BY <1>7, <1>8, <1>9, PlacesStep DEF Placed

\* A step of a slot that leaves Redis alone and keeps to its side of the Ack.
LEMMA SlotTied ==
  ASSUME WorkerTypeOK, Placed, NEW w \in Workers, NEW s \in Slots, NEW j,
         job' = [job EXCEPT ![w][s] = j], UNCHANGED <<queue, inflight, co>>,
         delayed \subseteq delayed',
         j.pc \in {"leased", "running"} =>
           job[w][s].pc \in {"leased", "running"} /\ j.env = job[w][s].env
  PROVE  Tied'
<1>1. \A v \in Workers, r \in Slots : job'[v][r].pc \in {"leased", "running"} =>
        job[v][r].pc \in {"leased", "running"} /\ job'[v][r].env = job[v][r].env
  BY DEF WorkerTypeOK
<1> QED
  BY <1>1 DEF Placed, Tied

\* The same of the slots that owe a report.
LEMMA SlotOneCopy ==
  ASSUME WorkerTypeOK, Placed, NEW w \in Workers, NEW s \in Slots, NEW j,
         job' = [job EXCEPT ![w][s] = j], UNCHANGED <<queue, inflight, co>>,
         Unique(delayed)',
         j.pc \in Owing => job[w][s].pc \in Owing /\ j.env = job[w][s].env
  PROVE  OneCopy'
<1>1. \A v \in Workers, r \in Slots : job'[v][r].pc \in Owing =>
        job[v][r].pc \in Owing /\ job'[v][r].env = job[v][r].env
  BY DEF WorkerTypeOK
<1>2. Unique(queue)' /\ Unique(co.batch)'
  BY DEF Placed, OneCopy, Unique
<1>3. \A u, v \in Workers : \A x \in inflight'[u], y \in inflight'[v] :
        x.id = y.id => u = v /\ x = y
  BY DEF Placed, OneCopy
<1> QED
  BY <1>1, <1>2, <1>3 DEF Placed, OneCopy

\* A goroutine that owes nobody a copy writes to the row: it starts its task,
\* reports the retry it scheduled, or hands the dead letter over.
LEMMA WritePlaced ==
  ASSUME TypeOK, Placed, NEW w \in Workers, NEW s \in Slots, NEW j,
         job' = [job EXCEPT ![w][s] = j],
         UNCHANGED <<queue, delayed, inflight, co, api>>,
         j.pc \in {"leased", "running"} =>
           job[w][s].pc \in {"leased", "running"} /\ j.env = job[w][s].env,
         j.pc \in Owing => job[w][s].pc \in Owing /\ j.env = job[w][s].env,
         \A t \in Tasks : Over(t)' => Over(t)
  PROVE  Placed'
<1>0. WorkerTypeOK
  BY DEF TypeOK
<1>1. Tied'
  BY <1>0, SlotTied
<1>2. OneCopy'
  <2>1. Unique(delayed)'
    BY DEF Placed, OneCopy, Unique
  <2> QED
    BY <1>0, <2>1, SlotOneCopy
<1>3. ASSUME NEW t \in Tasks
      PROVE  Stays(t)
  <2>1. /\ Ready(t)' <=> Ready(t)
        /\ Waiting(t)' <=> Waiting(t)
        /\ Recorded(t)' <=> Recorded(t)
        /\ Reclaimed(t)' <=> Reclaimed(t)
        /\ Burying(t)' <=> Burying(t)
        /\ Submitting(t)' <=> Submitting(t)
    BY Frames
  <2>2. Owed(t)' => Owed(t)
    <3>1. \A v \in Workers, r \in Slots : job'[v][r].pc \in Owing =>
            job[v][r].pc \in Owing /\ job'[v][r].env = job[v][r].env
      BY <1>0 DEF WorkerTypeOK
    <3> QED
      BY <3>1 DEF Owed, InSlot
  <2> QED
    BY <2>1, <2>2 DEF Stays, Places
<1> QED
  BY <1>1, <1>2, <1>3, PlacesStep DEF Placed

\* The outcome is recorded: the slot was the last place the task was in.
LEMMA ReportPlaced ==
  ASSUME TypeOK, Placed, NEW w \in Workers, NEW s \in Slots, job[w][s].pc \in Owing,
         job' = [job EXCEPT ![w][s] = IdleJob],
         UNCHANGED <<queue, delayed, inflight, co, api>>,
         \A t \in Tasks : t # job[w][s].env.id => tasks'[t] = tasks[t]
  PROVE  Placed'
<1>0. WorkerTypeOK
  BY DEF TypeOK
<1>1. Tied'
  BY <1>0, SlotTied DEF IdleJob
<1>2. OneCopy'
  <2>1. Unique(delayed)'
    BY DEF Placed, OneCopy, Unique
  <2> QED
    BY <1>0, <2>1, SlotOneCopy DEF IdleJob, Owing
<1>3. ASSUME NEW t \in Tasks
      PROVE  Stays(t)
  <2>1. /\ Ready(t)' <=> Ready(t)
        /\ Waiting(t)' <=> Waiting(t)
        /\ Recorded(t)' <=> Recorded(t)
        /\ Reclaimed(t)' <=> Reclaimed(t)
        /\ Burying(t)' <=> Burying(t)
        /\ Submitting(t)' <=> Submitting(t)
    BY Frames
  <2>2. Owed(t)' => Owed(t) /\ t # job[w][s].env.id
    <3>1. /\ job'[w][s].pc \notin Owing
          /\ \A v \in Workers, r \in Slots : ~(v = w /\ r = s) => job'[v][r] = job[v][r]
      BY <1>0 DEF IdleJob, Owing, WorkerTypeOK
    <3> QED
      BY <3>1, OwedEnds DEF Placed
  <2>3. CASE t # job[w][s].env.id
    <3>1. Over(t)' <=> Over(t)
      BY <2>3 DEF Over
    <3> QED
      BY <2>1, <2>2, <3>1 DEF Stays, Places
  <2>4. CASE t = job[w][s].env.id
    <3>1. Owed(t)
      BY <2>4 DEF Owed, InSlot
    <3>2. Places(t)' = {}
      BY <2>1, <2>2, <2>4, <3>1, Exclusive DEF Places
    <3> QED
      BY <3>2 DEF Stays
  <2> QED
    BY <2>3, <2>4
<1> QED
  BY <1>1, <1>2, <1>3, PlacesStep DEF Placed

\* A retry moves the task from the slot to the delayed set.
LEMMA SchedulePlaced ==
  ASSUME TypeOK, Placed, NEW w \in Workers, NEW s \in Slots, job[w][s].pc = "nacked", NEW e,
         e = job[w][s].env, job' = [job EXCEPT ![w][s] = [pc |-> "scheduled", env |-> e]],
         EnqueueDelayed(e), UNCHANGED <<tasks, co, api>>
  PROVE  Placed'
<1>0. WorkerTypeOK
  BY DEF TypeOK
<1>1. queue' = queue /\ delayed' = delayed \cup {e} /\ inflight' = inflight
  BY DEF EnqueueDelayed
<1>2. Tied'
  BY <1>0, <1>1, SlotTied
<1>3. e.id \in Tasks /\ Owed(e.id)
  BY <1>0, JobEnvelope, EnvelopeFields DEF Owed, InSlot, Owing
<1>4. /\ ~Ready(e.id) /\ ~Waiting(e.id) /\ ~Recorded(e.id) /\ ~Reclaimed(e.id)
      /\ ~Burying(e.id) /\ ~Submitting(e.id) /\ ~Over(e.id)
  BY <1>3, Exclusive
<1>5. Unique(delayed)'
  BY <1>1, <1>4 DEF Placed, OneCopy, Unique, Waiting, Has
<1>6. OneCopy'
  BY <1>0, <1>1, <1>5, SlotOneCopy DEF Owing
<1>7. ASSUME NEW t \in Tasks
      PROVE  Stays(t) \/ Moves(t)
  <2>1. /\ Ready(t)' <=> Ready(t)
        /\ Recorded(t)' <=> Recorded(t)
        /\ Reclaimed(t)' <=> Reclaimed(t)
        /\ Burying(t)' <=> Burying(t)
        /\ Submitting(t)' <=> Submitting(t)
        /\ Over(t)' <=> Over(t)
    BY <1>1, Frames
  <2>2. Owed(t)' => Owed(t) /\ t # e.id
    <3>1. /\ job'[w][s].pc \notin Owing /\ job[w][s].pc \in Owing
          /\ \A v \in Workers, r \in Slots : ~(v = w /\ r = s) => job'[v][r] = job[v][r]
      BY <1>0 DEF Owing, WorkerTypeOK
    <3> QED
      BY <3>1, OwedEnds DEF Placed
  <2>3. Waiting(t)' => Waiting(t) \/ t = e.id
    BY <1>1 DEF Waiting, Has
  <2>4. CASE t = e.id
    <3>1. Places(t)' \subseteq {"delayed"}
      BY <1>4, <2>1, <2>2, <2>4 DEF Places
    <3> QED
      BY <1>4, <2>1, <2>4, <3>1 DEF Moves
  <2>5. CASE t # e.id
    BY <2>1, <2>2, <2>3, <2>5 DEF Stays, Places
  <2> QED
    BY <2>4, <2>5
<1> QED
  BY <1>2, <1>6, <1>7, PlacesStep DEF Placed

\* What a killed worker owed is gone, and its records stay in its hash.
LEMMA CrashPlaced ==
  ASSUME TypeOK, Placed, NEW w \in Workers, Crash(w), UNCHANGED <<co, api>>
  PROVE  Placed'
<1>0. WorkerTypeOK
  BY DEF TypeOK
<1>1. UNCHANGED <<queue, delayed, inflight, tasks>>
  BY DEF Crash, queueVars, storeVars
<1>2. \A v \in Workers, r \in Slots :
        job'[v][r].pc = "idle" \/ job'[v][r] = job[v][r]
  BY <1>0 DEF Crash, Halt, WorkerTypeOK, IdleJob
<1>3. Tied'
  BY <1>1, <1>2 DEF Placed, Tied
<1>4. OneCopy'
  <2>1. Unique(queue)' /\ Unique(delayed)' /\ Unique(co.batch)'
    BY <1>1 DEF Placed, OneCopy, Unique
  <2>2. \A u, v \in Workers : \A x \in inflight'[u], y \in inflight'[v] :
          x.id = y.id => u = v /\ x = y
    BY <1>1 DEF Placed, OneCopy
  <2>3. \A v \in Workers, r \in Slots : job'[v][r].pc \in Owing => job'[v][r] = job[v][r]
    BY <1>2 DEF Owing
  <2> QED
    BY <2>1, <2>2, <2>3 DEF Placed, OneCopy
<1>5. ASSUME NEW t \in Tasks
      PROVE  Stays(t)
  <2>1. /\ Ready(t)' <=> Ready(t)
        /\ Waiting(t)' <=> Waiting(t)
        /\ Recorded(t)' <=> Recorded(t)
        /\ Reclaimed(t)' <=> Reclaimed(t)
        /\ Burying(t)' <=> Burying(t)
        /\ Submitting(t)' <=> Submitting(t)
        /\ Over(t)' <=> Over(t)
    BY <1>1, Frames
  <2>2. Owed(t)' => Owed(t)
    BY <1>2 DEF Owed, InSlot, Owing
  <2> QED
    BY <2>1, <2>2 DEF Stays, Places
<1> QED
  BY <1>3, <1>4, <1>5, PlacesStep DEF Placed

\* Steps that touch no copy, no row and nobody's memory.
LEMMA QuietPlaced ==
  ASSUME Placed, UNCHANGED <<queue, delayed, inflight, job, tasks, co, api>>
  PROVE  Placed'
<1>1. Tied'
  BY DEF Placed, Tied
<1>2. OneCopy'
  BY DEF Placed, OneCopy, Unique
<1>3. ASSUME NEW t \in Tasks
      PROVE  Stays(t)
  BY Frames DEF Stays, Places
<1> QED
  BY <1>1, <1>2, <1>3, PlacesStep DEF Placed

\* Every step of a worker.
LEMMA WorkerPlaced ==
  ASSUME TypeOK, Steady, Placed, WorkerNext, UNCHANGED <<co, api>>
  PROVE  Placed'
<1>0. StoreTypeOK /\ WorkerTypeOK
  BY DEF TypeOK
<1>w. PICK w \in Workers :
        \/ ProcessStep(w)
        \/ \E s \in Slots : PollStep(w, s) \/ JobStep(w, s)
  BY DEF WorkerNext
<1>f. ~CommandFails(w)
  BY NoFaults
<1>1. CASE ProcessStep(w)
  <2>1. CASE (BeatTick(w) /\ Heartbeat(w)) \/ TouchTick(w)
    BY <1>f, <2>1, QuietPlaced
       DEF BeatTick, TouchTick, Heartbeat, TouchWorker, queueVars, storeVars
  <2>2. CASE Crash(w)
    BY <2>2, CrashPlaced
  <2> QED
    BY <1>1, <2>1, <2>2, CalmProcess
<1>2. ASSUME NEW s \in Slots, PollStep(w, s)
      PROVE  Placed'
  <2>1. CASE LeaseTask(w, s)
    BY <2>1, LeasePlaced
  <2>2. CASE LeaseEmpty(w, s)
    BY <2>2, QuietPlaced DEF LeaseEmpty, queueVars, storeVars
  <2> QED
    BY <1>f, <1>2, <2>1, <2>2 DEF PollStep, LeaseError
<1>3. ASSUME NEW s \in Slots, JobStep(w, s)
      PROVE  Placed'
  <2> DEFINE e == job[w][s].env
             e1 == [e EXCEPT !.attempts = @ + 1]
  <2>0. job[w][s].pc # "idle" => e \in Envelope /\ e.id \in Tasks /\ e1.id = e.id
    <3>1. ASSUME job[w][s].pc # "idle"
          PROVE  e \in Envelope
      BY <1>0, <3>1, JobEnvelope
    <3>2. ASSUME e \in Envelope
          PROVE  e.id \in Tasks /\ e1.id = e.id
      BY <3>2 DEF Envelope
    <3> QED
      BY <3>1, <3>2
  <2> HIDE DEF e1
  <2>1. CASE Unhandled(w, s)
    <3>1. /\ job[w][s].pc = "leased" /\ job' = [job EXCEPT ![w][s] = [pc |-> "nacked", env |-> e]]
          /\ Ack(w, e.id) /\ tasks' = tasks
      BY <1>f, <2>1 DEF Unhandled, Step, Nack, storeVars
    <3>s. /\ job'[w][s].pc \in Owing /\ job'[w][s].env.id = e.id
          /\ \A v \in Workers, r \in Slots : ~(v = w /\ r = s) => job'[v][r] = job[v][r]
      BY <1>0, <3>1 DEF Owing, WorkerTypeOK
    <3> QED
      BY <3>1, <3>s, GiveUpPlaced
  <2>2. CASE Succeed(w, s)
    <3>1. /\ job[w][s].pc = "running" /\ job' = [job EXCEPT ![w][s] = [pc |-> "acked", env |-> e]]
          /\ Ack(w, e.id) /\ tasks' = tasks
      BY <1>f, <2>2 DEF Succeed, Step, storeVars
    <3>s. /\ job'[w][s].pc \in Owing /\ job'[w][s].env.id = e.id
          /\ \A v \in Workers, r \in Slots : ~(v = w /\ r = s) => job'[v][r] = job[v][r]
      BY <1>0, <3>1 DEF Owing, WorkerTypeOK
    <3> QED
      BY <3>1, <3>s, GiveUpPlaced
  <2>3. CASE Fail(w, s)
    <3>1. /\ job[w][s].pc = "running" /\ job' = [job EXCEPT ![w][s] = [pc |-> "nacked", env |-> e1]]
          /\ Ack(w, e1.id) /\ tasks' = tasks
      BY <1>f, <2>3 DEF Fail, Step, Nack, storeVars, e1
    <3>2. e1.id = e.id
      BY <2>0, <3>1
    <3>s. /\ job'[w][s].pc \in Owing /\ job'[w][s].env.id = e.id
          /\ \A v \in Workers, r \in Slots : ~(v = w /\ r = s) => job'[v][r] = job[v][r]
      BY <1>0, <3>1, <3>2 DEF Owing, WorkerTypeOK
    <3> QED
      BY <3>1, <3>s, <3>2, GiveUpPlaced
  <2>4. CASE Start(w, s)
    <3>1. /\ job[w][s].pc = "leased" /\ job' = [job EXCEPT ![w][s] = [pc |-> "running", env |-> e]]
          /\ MarkRunning(e.id, w) /\ UNCHANGED <<queue, delayed, inflight>>
      BY <1>f, <2>4 DEF Start, Step, queueVars
    <3>2. \A t \in Tasks : Over(t)' => Over(t)
      BY <1>0, <3>1 DEF MarkRunning, Over, StoreTypeOK
    <3> QED
      BY <3>1, <3>2, WritePlaced DEF Owing
  <2>5. CASE PushDead(w, s)
    <3>1. /\ job[w][s].pc = "nacked" /\ job' = [job EXCEPT ![w][s] = [pc |-> "pushed", env |-> e]]
          /\ UNCHANGED <<queue, delayed, inflight, tasks>>
      BY <1>f, <2>5 DEF PushDead, Step, DeadLetter, storeVars
    <3>2. \A t \in Tasks : Over(t)' => Over(t)
      BY <3>1 DEF Over
    <3> QED
      BY <3>1, <3>2, WritePlaced DEF Owing
  <2>6. CASE RecordRetry(w, s)
    <3>1. /\ job[w][s].pc = "scheduled" /\ job' = [job EXCEPT ![w][s] = IdleJob]
          /\ MarkRetry(e.id) /\ UNCHANGED <<queue, delayed, inflight>>
      BY <1>f, <2>6 DEF RecordRetry, Finish, queueVars
    <3>2. \A t \in Tasks : Over(t)' => Over(t)
      BY <1>0, <3>1 DEF MarkRetry, Over, StoreTypeOK, Row
    <3> QED
      BY <3>1, <3>2, WritePlaced DEF Owing, IdleJob
  <2>7. CASE RecordSuccess(w, s)
    <3>1. /\ job[w][s].pc = "acked" /\ job' = [job EXCEPT ![w][s] = IdleJob]
          /\ MarkSucceeded(e.id) /\ UNCHANGED <<queue, delayed, inflight>>
      BY <1>f, <2>7 DEF RecordSuccess, Finish, queueVars
    <3>2. \A t \in Tasks : t # e.id => tasks'[t] = tasks[t]
      BY <1>0, <3>1 DEF MarkSucceeded, StoreTypeOK
    <3> QED
      BY <3>1, <3>2, ReportPlaced DEF Owing
  <2>8. CASE RecordDead(w, s)
    <3>1. /\ job[w][s].pc = "pushed" /\ job' = [job EXCEPT ![w][s] = IdleJob]
          /\ MarkDead(e.id) /\ UNCHANGED <<queue, delayed, inflight>>
      BY <1>f, <2>8 DEF RecordDead, Finish, queueVars
    <3>2. \A t \in Tasks : t # e.id => tasks'[t] = tasks[t]
      BY <1>0, <3>1 DEF MarkDead, StoreTypeOK
    <3> QED
      BY <3>1, <3>2, ReportPlaced DEF Owing
  <2>9. CASE Schedule(w, s)
    <3>1. /\ job[w][s].pc = "nacked"
          /\ job' = [job EXCEPT ![w][s] = [pc |-> "scheduled", env |-> e]]
          /\ EnqueueDelayed(e) /\ tasks' = tasks
      BY <1>f, <2>9 DEF Schedule, Step, storeVars
    <3> QED
      BY <3>1, SchedulePlaced
  <2> QED
    BY <1>3, <2>1, <2>2, <2>3, <2>4, <2>5, <2>6, <2>7, <2>8, <2>9 DEF JobStep
<1> QED
  BY <1>w, <1>1, <1>2, <1>3

-----------------------------------------------------------------------------
(* The coordinator. *)

\* Steps after which the coordinator has nothing in its hands.
LEMMA EmptyHandedPlaced ==
  ASSUME Placed, UNCHANGED <<queue, delayed, inflight, job, api>>,
         co'.pc \notin {"exec", "del", "requeue", "mark"}, co'.batch = {},
         \A t \in Tasks : Over(t)' => Over(t)
  PROVE  Placed'
<1>1. Tied'
  BY DEF Placed, Tied
<1>2. OneCopy'
  BY DEF Placed, OneCopy, Unique
<1>3. ASSUME NEW t \in Tasks
      PROVE  Stays(t)
  <2>1. /\ Ready(t)' <=> Ready(t)
        /\ Waiting(t)' <=> Waiting(t)
        /\ Recorded(t)' <=> Recorded(t)
        /\ Owed(t)' <=> Owed(t)
        /\ Submitting(t)' <=> Submitting(t)
    BY Frames
  <2>2. ~Reclaimed(t)' /\ ~Burying(t)'
    BY DEF Reclaimed, Burying
  <2> QED
    BY <2>1, <2>2 DEF Stays, Places
<1> QED
  BY <1>1, <1>2, <1>3, PlacesStep DEF Placed

\* Steps that only read: the due members, or the hash of a dead worker.
LEMMA ReadPlaced ==
  ASSUME Placed, UNCHANGED <<queue, delayed, inflight, job, tasks, api>>,
         \/ co'.pc = "exec" /\ co'.batch \subseteq delayed
         \/ co'.pc = "del" /\ co'.worker \in Workers /\ co'.batch = inflight[co'.worker]
  PROVE  Placed'
<1>1. Tied'
  BY DEF Placed, Tied
<1>2. OneCopy'
  <2>1. Unique(queue)' /\ Unique(delayed)'
    BY DEF Placed, OneCopy, Unique
  <2>2. Unique(co.batch)'
    BY DEF Placed, OneCopy, Unique
  <2>3. \A u, v \in Workers : \A x \in inflight'[u], y \in inflight'[v] :
          x.id = y.id => u = v /\ x = y
    BY DEF Placed, OneCopy
  <2> QED
    BY <2>1, <2>2, <2>3 DEF Placed, OneCopy
<1>3. ASSUME NEW t \in Tasks
      PROVE  Stays(t)
  <2>1. /\ Ready(t)' <=> Ready(t)
        /\ Waiting(t)' <=> Waiting(t)
        /\ Recorded(t)' <=> Recorded(t)
        /\ Owed(t)' <=> Owed(t)
        /\ Submitting(t)' <=> Submitting(t)
        /\ Over(t)' <=> Over(t)
    BY Frames
  <2>2. ~Reclaimed(t)' /\ ~Burying(t)'
    BY DEF Reclaimed, Burying
  <2> QED
    BY <2>1, <2>2 DEF Stays, Places
<1> QED
  BY <1>1, <1>2, <1>3, PlacesStep DEF Placed

\* A promotion moves tasks from the delayed set to the queue.
LEMMA MoveDuePlaced ==
  ASSUME TypeOK, Steady, Placed, MoveDue, UNCHANGED <<job, api>>
  PROVE  Placed'
<1> DEFINE stamped(e) == [e EXCEPT !.enqueued_at = co.now]
<1>0. QueueTypeOK /\ CoordinatorTypeOK /\ co.batch \subseteq Envelope /\ co.now \in Nat
  BY DEF TypeOK, CoordinatorTypeOK
<1>1. /\ delayed' = delayed \ co.batch
      /\ queue' = queue \cup {stamped(e) : e \in co.batch}
      /\ UNCHANGED <<inflight, tasks>>
  BY NoFaults DEF MoveDue, Promote, storeVars
<1>2. \A e \in co.batch : stamped(e).id = e.id /\ e.id \in Tasks /\ e \in delayed
  <2>1. \A e \in co.batch : stamped(e).id = e.id
    BY <1>0, EnvelopeUpdate
  <2>2. \A e \in co.batch : e.id \in Tasks
    BY <1>0, EnvelopeFields
  <2>3. co.batch \subseteq delayed
    BY DEF MoveDue, At, Placed, Tied
  <2> QED
    BY <2>1, <2>2, <2>3
<1> HIDE DEF stamped
<1>3. co'.pc = "promote" /\ co'.batch = {}
  BY <1>0 DEF MoveDue, CoordinatorTypeOK
<1>4. Tied'
  BY <1>1, <1>3 DEF Placed, Tied
<1>5. OneCopy'
  <2>1. Unique(delayed)' /\ Unique(co.batch)'
    BY <1>1, <1>3 DEF Placed, OneCopy, Unique
  <2>2. Unique(queue)'
    <3>1. SUFFICES ASSUME NEW x \in queue', NEW y \in queue', x.id = y.id
                   PROVE  x = y
      BY DEF Unique
    <3>2. CASE x \in queue /\ y \in queue
      BY <3>1, <3>2 DEF Placed, OneCopy, Unique
    <3>3. ASSUME NEW e \in co.batch, NEW z \in queue, e.id = z.id
          PROVE  FALSE
      <4>1. Waiting(e.id) /\ Ready(e.id) /\ e.id \in Tasks
        BY <1>2, <3>3 DEF Waiting, Ready, Has
      <4> QED
        BY <4>1, Exclusive
    <3>4. ASSUME NEW e \in co.batch, NEW f \in co.batch, x = stamped(e), y = stamped(f)
          PROVE  x = y
      <4>1. e.id = f.id
        BY <1>2, <3>1, <3>4
      <4>2. e = f
        BY <4>1 DEF Placed, OneCopy, Unique
      <4> QED
        BY <3>4, <4>2
    <3>5. x \in queue \/ \E e \in co.batch : x = stamped(e)
      BY <1>1, <3>1
    <3>6. y \in queue \/ \E e \in co.batch : y = stamped(e)
      BY <1>1, <3>1
    <3> QED
      BY <1>2, <3>1, <3>2, <3>3, <3>4, <3>5, <3>6
  <2>3. \A u, v \in Workers : \A x \in inflight'[u], y \in inflight'[v] :
          x.id = y.id => u = v /\ x = y
    BY <1>1 DEF Placed, OneCopy
  <2> QED
    BY <2>1, <2>2, <2>3 DEF Placed, OneCopy
<1>6. ASSUME NEW t \in Tasks
      PROVE  Stays(t) \/ Moves(t)
  <2>1. /\ Recorded(t)' <=> Recorded(t)
        /\ Owed(t)' <=> Owed(t)
        /\ Submitting(t)' <=> Submitting(t)
        /\ Over(t)' <=> Over(t)
    BY <1>1, Frames
  <2>2. ~Reclaimed(t)' /\ ~Burying(t)'
    BY <1>3 DEF Reclaimed, Burying
  <2>3. Waiting(t)' => Waiting(t) /\ ~Has(co.batch, t)
    BY <1>1, <1>2 DEF Waiting, Has, Placed, OneCopy, Unique
  <2>4. Ready(t)' => Ready(t) \/ Has(co.batch, t)
    BY <1>1, <1>2 DEF Ready, Has
  <2>5. CASE Has(co.batch, t)
    <3>1. Waiting(t)
      BY <1>2, <2>5 DEF Waiting, Has
    <3>2. ~Recorded(t) /\ ~Owed(t) /\ ~Submitting(t) /\ ~Over(t)
      BY <3>1, Exclusive
    <3>3. Places(t)' \subseteq {"queue"}
      BY <2>1, <2>2, <2>3, <2>5, <3>2 DEF Places
    <3> QED
      BY <2>1, <3>2, <3>3 DEF Moves
  <2>6. CASE ~Has(co.batch, t)
    BY <2>1, <2>2, <2>3, <2>4, <2>6 DEF Stays, Places
  <2> QED
    BY <2>5, <2>6
<1> QED
  BY <1>4, <1>5, <1>6, PlacesStep DEF Placed

\* The DEL moves tasks from the hash of a dead worker to the coordinator.
LEMMA DelHashPlaced ==
  ASSUME TypeOK, Steady, Placed, NEW held, DelHash(held), UNCHANGED <<job, api>>
  PROVE  Placed'
<1>0. QueueTypeOK /\ CoordinatorTypeOK
  BY DEF TypeOK
<1>1. /\ co.pc = "del" /\ co'.pc = "requeue" /\ co'.batch = co.batch
      /\ co.worker \in Workers /\ loop[co.worker] = "down"
      /\ co.batch = inflight[co.worker]
  BY <1>0 DEF DelHash, At, CoordinatorTypeOK, Steady, Reclaiming, Placed, Tied
<1>2. /\ UNCHANGED <<queue, delayed, tasks>>
      /\ inflight'[co.worker] = {}
      /\ \A v \in Workers : v # co.worker => inflight'[v] = inflight[v]
  BY <1>0, <1>1, NoFaults DEF DelHash, DelInflight, QueueTypeOK, storeVars
<1>3. Tied'
  <2>1. \A v \in Workers, r \in Slots :
          job'[v][r].pc \in {"leased", "running"} => v # co.worker
    BY <1>1 DEF Steady
  <2> QED
    BY <1>1, <1>2, <2>1 DEF Placed, Tied
<1>4. OneCopy'
  <2>1. Unique(queue)' /\ Unique(delayed)' /\ Unique(co.batch)'
    BY <1>1, <1>2 DEF Placed, OneCopy, Unique
  <2>2. \A u, v \in Workers : \A x \in inflight'[u], y \in inflight'[v] :
          x.id = y.id => u = v /\ x = y
    BY <1>2 DEF Placed, OneCopy
  <2> QED
    BY <2>1, <2>2 DEF Placed, OneCopy
<1>5. ASSUME NEW t \in Tasks
      PROVE  Stays(t) \/ Moves(t)
  <2>1. /\ Ready(t)' <=> Ready(t)
        /\ Waiting(t)' <=> Waiting(t)
        /\ Owed(t)' <=> Owed(t)
        /\ Submitting(t)' <=> Submitting(t)
        /\ Over(t)' <=> Over(t)
    BY <1>2, Frames
  <2>2. ~Burying(t)' /\ (Reclaimed(t)' <=> Has(co.batch, t))
    BY <1>1 DEF Burying, Reclaimed
  <2>3. Recorded(t)' => Recorded(t) /\ ~Has(co.batch, t)
    BY <1>1, <1>2 DEF Recorded, Has, Placed, OneCopy
  <2>4. CASE Has(co.batch, t)
    <3>1. Recorded(t)
      BY <1>1, <2>4 DEF Recorded
    <3>2. ~Ready(t) /\ ~Waiting(t) /\ ~Owed(t) /\ ~Submitting(t) /\ ~Over(t)
      BY <3>1, Exclusive
    <3>3. Places(t)' \subseteq {"batch"}
      BY <2>1, <2>2, <2>3, <2>4, <3>2 DEF Places
    <3> QED
      BY <2>1, <3>2, <3>3 DEF Moves
  <2>5. CASE ~Has(co.batch, t)
    BY <2>1, <2>2, <2>3, <2>5 DEF Stays, Places
  <2> QED
    BY <2>4, <2>5
<1> QED
  BY <1>3, <1>4, <1>5, PlacesStep DEF Placed

\* Enqueue adds one copy of a task that is not in the queue.
LEMMA EnqueueCopy ==
  ASSUME QueueTypeOK, Placed, NEW e \in Envelope, Enqueue(e), ~Ready(e.id)
  PROVE  /\ Unique(queue)'
         /\ \A t : Ready(t)' <=> Ready(t) \/ t = e.id
         /\ UNCHANGED <<delayed, inflight>>
<1>1. PICK x : queue' = queue \cup {x} /\ x.id = e.id
  <2>1. clock + 1 \in Nat
    BY DEF QueueTypeOK
  <2>2. [e EXCEPT !.enqueued_at = clock + 1].id = e.id
    BY <2>1, EnvelopeUpdate
  <2> QED
    BY <2>2 DEF Enqueue
<1>2. Unique(queue)'
  BY <1>1 DEF Placed, OneCopy, Unique, Ready, Has
<1>3. \A t : Ready(t)' <=> Ready(t) \/ t = e.id
  BY <1>1 DEF Ready, Has
<1> QED
  BY <1>2, <1>3 DEF Enqueue

\* A step of the coordinator on one envelope of its batch.
LEMMA BatchTied ==
  ASSUME Placed, UNCHANGED <<delayed, inflight, job>>, co'.pc \in {"requeue", "mark"}
  PROVE  Tied'
BY DEF Placed, Tied

\* The rest of the batch keeps one copy of each task.
LEMMA BatchOneCopy ==
  ASSUME Placed, UNCHANGED <<delayed, inflight, job>>, Unique(queue)',
         co'.batch \subseteq co.batch
  PROVE  OneCopy'
<1>1. Unique(delayed)' /\ Unique(co.batch)'
  BY DEF Placed, OneCopy, Unique
<1>2. \A u, v \in Workers : \A x \in inflight'[u], y \in inflight'[v] :
        x.id = y.id => u = v /\ x = y
  BY DEF Placed, OneCopy
<1> QED
  BY <1>1, <1>2 DEF Placed, OneCopy

\* An envelope of the batch goes back to the queue.
LEMMA RequeuePlaced ==
  ASSUME TypeOK, Steady, Placed, NEW e \in co.batch, Requeue(e), UNCHANGED <<job, api>>
  PROVE  Placed'
<1> DEFINE e1 == [e EXCEPT !.attempts = @ + 1]
<1>0. QueueTypeOK /\ CoordinatorTypeOK /\ e \in Envelope
  BY DEF TypeOK, CoordinatorTypeOK
<1>1. e1 \in Envelope /\ e1.id = e.id /\ e.id \in Tasks
  BY <1>0 DEF Envelope
<1>2. Enqueue(e1) /\ tasks' = tasks
  BY NoFaults DEF Requeue, storeVars
<1> HIDE DEF e1
<1>3. co.pc = "requeue" /\ co'.pc = "requeue" /\ co'.batch = co.batch \ {e}
  BY <1>0 DEF Requeue, At, CoordinatorTypeOK
<1>4. Reclaimed(e.id)
  BY <1>3 DEF Reclaimed, Has
<1>5. /\ ~Ready(e.id) /\ ~Waiting(e.id) /\ ~Recorded(e.id) /\ ~Owed(e.id)
      /\ ~Submitting(e.id) /\ ~Over(e.id)
  BY <1>1, <1>4, Exclusive
<1>6. /\ Unique(queue)'
      /\ \A t : Ready(t)' <=> Ready(t) \/ t = e.id
      /\ UNCHANGED <<delayed, inflight>>
  BY <1>0, <1>1, <1>2, <1>5, EnqueueCopy
<1>7. Tied' /\ OneCopy'
  BY <1>3, <1>6, BatchTied, BatchOneCopy
<1>8. ASSUME NEW t \in Tasks
      PROVE  Stays(t) \/ Moves(t)
  <2>1. /\ Waiting(t)' <=> Waiting(t)
        /\ Recorded(t)' <=> Recorded(t)
        /\ Owed(t)' <=> Owed(t)
        /\ Submitting(t)' <=> Submitting(t)
        /\ Over(t)' <=> Over(t)
    BY <1>2, <1>6, Frames
  <2>2. ~Burying(t)'
    BY <1>3 DEF Burying
  <2>3. Reclaimed(t)' => Reclaimed(t) /\ t # e.id
    BY <1>3 DEF Reclaimed, Has, Placed, OneCopy, Unique
  <2>4. CASE t = e.id
    <3>1. Places(t)' \subseteq {"queue"}
      BY <1>5, <2>1, <2>2, <2>3, <2>4 DEF Places
    <3> QED
      BY <1>5, <2>1, <2>4, <3>1 DEF Moves
  <2>5. CASE t # e.id
    BY <1>6, <2>1, <2>2, <2>3, <2>5 DEF Stays, Places
  <2> QED
    BY <2>4, <2>5
<1> QED
  BY <1>7, <1>8, PlacesStep DEF Placed

\* An envelope of the batch whose attempts are used up is about to be buried.
LEMMA PushExhaustedPlaced ==
  ASSUME TypeOK, Steady, Placed, NEW e \in co.batch, PushExhausted(e), UNCHANGED <<job, api>>
  PROVE  Placed'
<1>0. CoordinatorTypeOK /\ e \in Envelope /\ e.id \in Tasks
  BY EnvelopeFields DEF TypeOK, CoordinatorTypeOK
<1>1. UNCHANGED <<queue, delayed, inflight, tasks>>
  BY NoFaults DEF PushExhausted, DeadLetter, storeVars
<1>2. /\ co.pc = "requeue" /\ co'.pc = "mark" /\ co'.batch = co.batch \ {e}
      /\ co'.dead = e.id
  BY <1>0 DEF PushExhausted, At, CoordinatorTypeOK
<1>3. Reclaimed(e.id)
  BY <1>2 DEF Reclaimed, Has
<1>4. /\ ~Ready(e.id) /\ ~Waiting(e.id) /\ ~Recorded(e.id) /\ ~Owed(e.id)
      /\ ~Submitting(e.id) /\ ~Over(e.id)
  BY <1>0, <1>3, Exclusive
<1>5. Tied' /\ OneCopy'
  <2>1. Unique(queue)'
    BY <1>1 DEF Placed, OneCopy, Unique
  <2> QED
    BY <1>1, <1>2, <2>1, BatchTied, BatchOneCopy
<1>6. ASSUME NEW t \in Tasks
      PROVE  Stays(t) \/ Moves(t)
  <2>1. /\ Ready(t)' <=> Ready(t)
        /\ Waiting(t)' <=> Waiting(t)
        /\ Recorded(t)' <=> Recorded(t)
        /\ Owed(t)' <=> Owed(t)
        /\ Submitting(t)' <=> Submitting(t)
        /\ Over(t)' <=> Over(t)
    BY <1>1, Frames
  <2>2. Burying(t)' => t = e.id
    BY <1>2 DEF Burying
  <2>3. Reclaimed(t)' => Reclaimed(t) /\ t # e.id
    BY <1>2 DEF Reclaimed, Has, Placed, OneCopy, Unique
  <2>4. CASE t = e.id
    <3>1. Places(t)' \subseteq {"mark"}
      BY <1>4, <2>1, <2>3, <2>4 DEF Places
    <3> QED
      BY <1>4, <2>1, <2>4, <3>1 DEF Moves
  <2>5. CASE t # e.id
    BY <2>1, <2>2, <2>3, <2>5 DEF Stays, Places
  <2> QED
    BY <2>4, <2>5
<1> QED
  BY <1>5, <1>6, PlacesStep DEF Placed

\* ... and then it is buried: it was nowhere else.
LEMMA MarkExhaustedPlaced ==
  ASSUME TypeOK, Steady, Placed, MarkExhausted, UNCHANGED <<job, api>>
  PROVE  Placed'
<1>0. CoordinatorTypeOK /\ StoreTypeOK
  BY DEF TypeOK
<1>1. /\ co.pc = "mark" /\ co'.pc = "requeue" /\ co'.batch = co.batch
      /\ co.dead \in Tasks
  BY <1>0 DEF MarkExhausted, At, CoordinatorTypeOK
<1>2. /\ UNCHANGED <<queue, delayed, inflight>>
      /\ \A t \in Tasks : t # co.dead => tasks'[t] = tasks[t]
  BY <1>0, NoFaults DEF MarkExhausted, MarkDead, StoreTypeOK, queueVars
<1>3. Tied' /\ OneCopy'
  <2>1. Unique(queue)'
    BY <1>2 DEF Placed, OneCopy, Unique
  <2> QED
    BY <1>1, <1>2, <2>1, BatchTied, BatchOneCopy
<1>4. ASSUME NEW t \in Tasks
      PROVE  Stays(t)
  <2>1. /\ Ready(t)' <=> Ready(t)
        /\ Waiting(t)' <=> Waiting(t)
        /\ Recorded(t)' <=> Recorded(t)
        /\ Owed(t)' <=> Owed(t)
        /\ Submitting(t)' <=> Submitting(t)
    BY <1>2, Frames
  <2>2. ~Burying(t)' /\ (Reclaimed(t)' <=> Reclaimed(t))
    BY <1>1 DEF Burying, Reclaimed
  <2>3. CASE t # co.dead
    <3>1. Over(t)' <=> Over(t)
      BY <1>2, <2>3 DEF Over
    <3> QED
      BY <2>1, <2>2, <3>1 DEF Stays, Places
  <2>4. CASE t = co.dead
    <3>1. Burying(t)
      BY <1>1, <2>4 DEF Burying
    <3>2. Places(t)' = {}
      BY <2>1, <2>2, <3>1, Exclusive DEF Places
    <3> QED
      BY <3>2 DEF Stays
  <2> QED
    BY <2>3, <2>4
<1> QED
  BY <1>3, <1>4, PlacesStep DEF Placed

\* Every step of the coordinator.
LEMMA CoordinatorPlaced ==
  ASSUME TypeOK, Steady, Placed, CoordinatorNext
  PROVE  Placed'
<1>0. CoordinatorTypeOK /\ StoreTypeOK /\ QueueTypeOK
  BY DEF TypeOK
<1>1. UNCHANGED <<job, api>>
  BY DEF CoordinatorNext, workerVars
<1>2. CASE Tick \/ PromoteDone \/ ReadWorkers \/ SweepDone \/ RequeueDone \/ CoCrash
  <2>1. UNCHANGED <<queue, delayed, inflight, tasks>>
    BY <1>2 DEF Tick, PromoteDone, ReadWorkers, SweepDone, RequeueDone, CoCrash,
                queueVars, storeVars
  <2>2. co'.pc \notin {"exec", "del", "requeue", "mark"} /\ co'.batch = {}
    <3>1. CASE SweepDone \/ CoCrash
      BY <3>1 DEF SweepDone, CoCrash, CoStart
    <3>2. CASE Tick \/ PromoteDone \/ ReadWorkers \/ RequeueDone
      <4>1. co.batch = {}
        BY <3>2 DEF Tick, PromoteDone, ReadWorkers, RequeueDone, At, Placed, Tied
      <4> QED
        BY <1>0, <3>2, <4>1, NoFaults
           DEF Tick, PromoteDone, ReadWorkers, RequeueDone, CoordinatorTypeOK
    <3> QED
      BY <1>2, <3>1, <3>2
  <2>3. \A t \in Tasks : Over(t)' => Over(t)
    BY <2>1 DEF Over
  <2> QED
    BY <1>1, <2>1, <2>2, <2>3, EmptyHandedPlaced
<1>3. ASSUME NEW w \in Workers, CheckAlive(w)
      PROVE  Placed'
  <2>1. UNCHANGED <<queue, delayed, inflight, tasks>>
    BY <1>3 DEF CheckAlive, queueVars, storeVars
  <2>2. co'.pc \notin {"exec", "del", "requeue", "mark"} /\ co'.batch = {}
    BY <1>0, <1>3 DEF CheckAlive, At, Placed, Tied, CoordinatorTypeOK
  <2>3. \A t \in Tasks : Over(t)' => Over(t)
    BY <2>1 DEF Over
  <2> QED
    BY <1>1, <2>1, <2>2, <2>3, EmptyHandedPlaced
<1>4. CASE ResetOrphans \/ FlagDead
  <2>1. UNCHANGED <<queue, delayed, inflight>>
    BY <1>4 DEF ResetOrphans, FlagDead, queueVars
  <2>2. co'.pc \notin {"exec", "del", "requeue", "mark"} /\ co'.batch = {}
    BY <1>0, <1>4 DEF ResetOrphans, FlagDead, At, Placed, Tied, CoordinatorTypeOK
  <2>3. \A t \in Tasks : Over(t)' => Over(t)
    <3>1. CASE ResetOrphans
      <4>1. RequeueOrphans(co.worker)
        BY <3>1, NoFaults DEF ResetOrphans
      <4>2. ASSUME NEW t \in Tasks
            PROVE  tasks'[t] = tasks[t] \/ tasks'[t].status = "queued"
        <5>1. tasks[t] \in Row
          BY <1>0 DEF StoreTypeOK
        <5>2. [tasks[t] EXCEPT !.status = "queued", !.worker_id = NoWorker].status = "queued"
          BY <5>1 DEF Row
        <5> QED
          BY <4>1, <5>2 DEF RequeueOrphans
      <4> QED
        BY <4>2 DEF Over
    <3>2. CASE FlagDead
      BY <3>2, NoFaults DEF FlagDead, MarkWorkerDead, Over
    <3> QED
      BY <1>4, <3>1, <3>2
  <2> QED
    BY <1>1, <2>1, <2>2, <2>3, EmptyHandedPlaced
<1>5. ASSUME NEW ty \in Types, ReadDue(ty)
      PROVE  Placed'
  <2>1. UNCHANGED <<queue, delayed, inflight, tasks>>
    BY <1>5 DEF ReadDue, storeVars
  <2>2. co.batch = {} /\ co.pc = "promote"
    BY <1>5 DEF ReadDue, At, Placed, Tied
  <2>3. PICK b \in DueBatches(ty) :
          IF b = {} THEN co' = [co EXCEPT !.types = @ \ {ty}]
          ELSE co' = [co EXCEPT !.pc = "exec", !.types = @ \ {ty},
                                !.batch = b, !.now = clock + 1]
    BY <1>5, NoFaults DEF ReadDue
  <2>4. CASE b = {}
    <3>1. co'.pc \notin {"exec", "del", "requeue", "mark"} /\ co'.batch = {}
      BY <1>0, <2>2, <2>3, <2>4 DEF CoordinatorTypeOK
    <3>2. \A t \in Tasks : Over(t)' => Over(t)
      BY <2>1 DEF Over
    <3> QED
      BY <1>1, <2>1, <3>1, <3>2, EmptyHandedPlaced
  <2>5. CASE b # {}
    <3>1. co'.pc = "exec" /\ co'.batch \subseteq delayed
      BY <1>0, <2>3, <2>5, DueBatchesType DEF CoordinatorTypeOK
    <3> QED
      BY <1>1, <2>1, <3>1, ReadPlaced
  <2> QED
    BY <2>4, <2>5
<1>6. CASE ReadInflight
  <2>1. UNCHANGED <<queue, delayed, inflight, tasks>>
    BY <1>6 DEF ReadInflight, queueVars, storeVars
  <2>2. /\ co'.pc = IF inflight[co.worker] = {} THEN "orphans" ELSE "del"
        /\ co'.worker = co.worker /\ co.worker \in Workers
        /\ co'.batch = inflight[co.worker]
    BY <1>0, <1>6, NoFaults DEF ReadInflight, At, CoordinatorTypeOK
  <2>3. \A t \in Tasks : Over(t)' => Over(t)
    BY <2>1 DEF Over
  <2>4. CASE inflight[co.worker] = {}
    BY <1>1, <2>1, <2>2, <2>3, <2>4, EmptyHandedPlaced
  <2>5. CASE inflight[co.worker] # {}
    BY <1>1, <2>1, <2>2, <2>5, ReadPlaced
  <2> QED
    BY <2>4, <2>5
<1>7. ASSUME NEW e \in co.batch, Requeue(e) \/ PushExhausted(e)
      PROVE  Placed'
  BY <1>1, <1>7, RequeuePlaced, PushExhaustedPlaced
<1>8. CASE DelHash(HeldBy(co.worker)) \/ MoveDue \/ MarkExhausted
  BY <1>1, <1>8, DelHashPlaced, MoveDuePlaced, MarkExhaustedPlaced
<1> QED
  BY <1>2, <1>3, <1>4, <1>5, <1>6, <1>7, <1>8 DEF CoordinatorNext, CoStep

-----------------------------------------------------------------------------
(* The API. *)

\* A request that only writes a row: a new one, or one of a dead task.
LEMMA ApiRowPlaced ==
  ASSUME Placed, NEW t \in Tasks, Over(t), ~Over(t)',
         UNCHANGED <<queue, delayed, inflight, job, co>>,
         \A u \in Tasks : u # t => tasks'[u] = tasks[u] /\ api'[u] = api[u]
  PROVE  Placed'
<1>1. Tied'
  BY DEF Placed, Tied
<1>2. OneCopy'
  BY DEF Placed, OneCopy, Unique
<1>3. ASSUME NEW u \in Tasks
      PROVE  Stays(u) \/ Moves(u)
  <2>1. /\ Ready(u)' <=> Ready(u)
        /\ Waiting(u)' <=> Waiting(u)
        /\ Recorded(u)' <=> Recorded(u)
        /\ Owed(u)' <=> Owed(u)
        /\ Reclaimed(u)' <=> Reclaimed(u)
        /\ Burying(u)' <=> Burying(u)
    BY Frames
  <2>2. CASE u = t
    <3>1. Places(u)' \subseteq {"api"}
      BY <2>1, <2>2, Exclusive DEF Places
    <3> QED
      BY <2>2, <3>1 DEF Moves
  <2>3. CASE u # t
    <3>1. (Submitting(u)' <=> Submitting(u)) /\ (Over(u)' <=> Over(u))
      BY <2>3 DEF Submitting, Over
    <3> QED
      BY <2>1, <3>1 DEF Stays, Places
  <2> QED
    BY <2>2, <2>3
<1> QED
  BY <1>1, <1>2, <1>3, PlacesStep DEF Placed

\* The second half of a request moves the task from the API to the queue.
LEMMA ApiEnqueuePlaced ==
  ASSUME QueueTypeOK, ApiTypeOK, Placed, NEW t \in Tasks, Submitting(t),
         Enqueue(NewEnvelope(t)), Answer(t, "accepted"), UNCHANGED <<tasks, job, co>>
  PROVE  Placed'
<1>0. NewEnvelope(t) \in Envelope /\ NewEnvelope(t).id = t
  BY NewEnvelopeType DEF NewEnvelope
<1>1. /\ ~Ready(t) /\ ~Waiting(t) /\ ~Recorded(t) /\ ~Owed(t)
      /\ ~Reclaimed(t) /\ ~Burying(t) /\ ~Over(t)
  BY Exclusive
<1>2. /\ Unique(queue)'
      /\ \A u : Ready(u)' <=> Ready(u) \/ u = t
      /\ UNCHANGED <<delayed, inflight>>
  BY <1>0, <1>1, EnqueueCopy
<1>3. ~Submitting(t)' /\ \A u \in Tasks : u # t => api'[u] = api[u]
  BY DEF Answer, ApiTypeOK, Submitting
<1>4. Tied'
  BY <1>2 DEF Placed, Tied
<1>5. OneCopy'
  BY <1>2, BatchOneCopy
<1>6. ASSUME NEW u \in Tasks
      PROVE  Stays(u) \/ Moves(u)
  <2>1. /\ Waiting(u)' <=> Waiting(u)
        /\ Recorded(u)' <=> Recorded(u)
        /\ Owed(u)' <=> Owed(u)
        /\ Reclaimed(u)' <=> Reclaimed(u)
        /\ Burying(u)' <=> Burying(u)
        /\ Over(u)' <=> Over(u)
    BY <1>2, Frames
  <2>2. CASE u = t
    <3>1. Places(u)' \subseteq {"queue"}
      BY <1>1, <1>3, <2>1, <2>2 DEF Places
    <3> QED
      BY <1>1, <2>1, <2>2, <3>1 DEF Moves
  <2>3. CASE u # t
    <3>1. Submitting(u)' <=> Submitting(u)
      BY <1>3, <2>3 DEF Submitting
    <3> QED
      BY <1>2, <2>1, <2>3, <3>1 DEF Stays, Places
  <2> QED
    BY <2>2, <2>3
<1> QED
  BY <1>4, <1>5, <1>6, PlacesStep DEF Placed

\* A cancellation writes to a row that is queued or waits for a retry.
LEMMA CancelPlaced ==
  ASSUME StoreTypeOK, Placed, NEW t \in Tasks, MarkCanceled(t),
         UNCHANGED <<queue, delayed, inflight, job, co, api>>
  PROVE  Placed'
<1>1. \A u \in Tasks : Over(u)' => Over(u)
  <2>1. ASSUME NEW u \in Tasks
        PROVE  tasks'[u] = tasks[u] \/ tasks'[u].status = "canceled"
    <3>1. tasks[u] \in Row
      BY DEF StoreTypeOK
    <3>2. [tasks[u] EXCEPT !.status = "canceled"].status = "canceled"
      BY <3>1 DEF Row
    <3> QED
      BY <3>2 DEF MarkCanceled, StoreTypeOK
  <2> QED
    BY <2>1 DEF Over
<1>2. Tied'
  BY DEF Placed, Tied
<1>3. OneCopy'
  BY DEF Placed, OneCopy, Unique
<1>4. ASSUME NEW u \in Tasks
      PROVE  Stays(u)
  BY <1>1, Frames DEF Stays, Places
<1> QED
  BY <1>2, <1>3, <1>4, PlacesStep DEF Placed

\* Every request.
LEMMA ApiPlaced ==
  ASSUME TypeOK, Steady, Placed, ApiNext, UNCHANGED <<workerVars, co>>
  PROVE  Placed'
<1>0. QueueTypeOK /\ StoreTypeOK /\ ApiTypeOK /\ job' = job
  BY DEF TypeOK, workerVars
<1>t. PICK t \in Tasks : \/ InsertTask(t) \/ SubmitTask(t) \/ CancelTask(t)
                         \/ RedriveRow(t) \/ RedriveEnvelope(t)
  BY DEF ApiNext
<1>1. CASE InsertTask(t)
  <2>1. /\ CreateTask(t) /\ Answer(t, "inserted")
        /\ UNCHANGED <<queue, delayed, inflight>>
    BY <1>1, NoFaults DEF InsertTask, queueVars
  <2>2. Over(t)
    BY <2>1 DEF CreateTask, NoRow, Over
  <2>3. ~Over(t)'
    <3>1. tasks[t] \in Row
      BY <1>0 DEF StoreTypeOK
    <3>2. tasks'[t].status = "queued"
      BY <1>0, <2>1, <3>1 DEF CreateTask, StoreTypeOK, Row
    <3> QED
      BY <3>2 DEF Over
  <2>4. \A u \in Tasks : u # t => tasks'[u] = tasks[u] /\ api'[u] = api[u]
    BY <1>0, <2>1 DEF CreateTask, Answer, StoreTypeOK, ApiTypeOK
  <2> QED
    BY <1>0, <2>1, <2>2, <2>3, <2>4, ApiRowPlaced
<1>2. CASE RedriveRow(t)
  <2>1. /\ Redrive(t) /\ Answer(t, "redriven")
        /\ UNCHANGED <<queue, delayed, inflight>>
    BY <1>2 DEF RedriveRow, queueVars
  <2>2. Over(t) /\ ~Over(t)'
    BY <1>0, <2>1 DEF Redrive, Over, StoreTypeOK
  <2>3. \A u \in Tasks : u # t => tasks'[u] = tasks[u] /\ api'[u] = api[u]
    BY <1>0, <2>1 DEF Redrive, Answer, StoreTypeOK, ApiTypeOK
  <2> QED
    BY <1>0, <2>1, <2>2, <2>3, ApiRowPlaced
<1>3. CASE SubmitTask(t) \/ RedriveEnvelope(t)
  <2>1. /\ Submitting(t) /\ Enqueue(NewEnvelope(t)) /\ Answer(t, "accepted")
        /\ UNCHANGED tasks
    BY <1>3, NoFaults DEF SubmitTask, RedriveEnvelope, Submitting, storeVars
  <2> QED
    BY <1>0, <2>1, ApiEnqueuePlaced
<1>4. CASE CancelTask(t)
  BY <1>0, <1>4, CancelPlaced DEF CancelTask, queueVars
<1> QED
  BY <1>t, <1>1, <1>2, <1>3, <1>4
-----------------------------------------------------------------------------
\* At the start no task is anywhere.
LEMMA PlacedInit ==
  ASSUME Init
  PROVE  Placed
<1>1. /\ queue = {} /\ delayed = {} /\ inflight = [w \in Workers |-> {}]
      /\ co.batch = {} /\ co.pc = "sleep" /\ api = [t \in Tasks |-> "none"]
      /\ \A w \in Workers, s \in Slots : job[w][s].pc = "idle"
  BY DEF Init, QueueInit, WorkerInit, IdleJob, CoStart, ApiInit
<1>2. Tied
  BY <1>1 DEF Tied
<1>3. OneCopy
  BY <1>1 DEF OneCopy, Unique, Owing
<1>4. ASSUME NEW t \in Tasks
      PROVE  Places(t) = {}
  BY <1>1 DEF Places, Ready, Waiting, Recorded, Owed, Reclaimed, Burying, Submitting,
              Has, InSlot, Owing
<1> QED
  BY <1>2, <1>3, <1>4 DEF Placed, OnePlace, Settling

\* Every step of the system keeps every task in one place.
LEMMA PlacedStep ==
  ASSUME TypeOK, Steady, Placed, [Next]_vars
  PROVE  Placed'
<1>1. CASE TimePasses \/ (\E w \in Workers : Expire(w)) \/ UNCHANGED vars
  BY <1>1, QuietPlaced DEF TimePasses, Elapse, Expire, HeartbeatExpires, vars, queueVars,
                           storeVars, workerVars
<1> QED
  BY <1>1, WorkerPlaced, CoordinatorPlaced, ApiPlaced DEF Next

-----------------------------------------------------------------------------
\* The inductive invariant of this module, in calm conditions.
LEMMA PlacedReachable == Calm /\ Spec => [](TypeOK /\ Steady /\ Placed)
<1> DEFINE Inv == TypeOK /\ Steady /\ Placed
<1>1. Calm /\ Init => Inv
  BY InitType, SteadyInit, PlacedInit
<1>2. Inv /\ [Next]_vars => Inv'
  BY NextType, SteadyStep, PlacedStep
<1> QED
  BY <1>1, <1>2, PTL DEF Spec

\* Two slots with one task: both have its record in their worker's hash, so it
\* is one worker, and one slot.
LEMMA PlacedNoDouble ==
  ASSUME Placed
  PROVE  NoDoubleExecution
<1>1. SUFFICES ASSUME NEW t \in Tasks
               PROVE  Cardinality(Executing(t)) <= 1
  BY DEF NoDoubleExecution
<1>2. ASSUME NEW p \in Executing(t), NEW q \in Executing(t)
      PROVE  p = q
  <2>1. /\ p \in Workers \X Slots /\ job[p[1]][p[2]].pc \in {"leased", "running"}
        /\ job[p[1]][p[2]].env.id = t
    BY DEF Executing, Busy
  <2>2. /\ q \in Workers \X Slots /\ job[q[1]][q[2]].pc \in {"leased", "running"}
        /\ job[q[1]][q[2]].env.id = t
    BY DEF Executing, Busy
  <2>3. job[p[1]][p[2]].env \in inflight[p[1]] /\ job[q[1]][q[2]].env \in inflight[q[1]]
    BY <2>1, <2>2 DEF Placed, Tied
  <2>4. p[1] = q[1]
    BY <2>1, <2>2, <2>3 DEF Placed, OneCopy
  <2>5. p[2] = q[2]
    BY <2>1, <2>2, <2>4 DEF Placed, Tied
  <2> QED
    BY <2>1, <2>2, <2>4, <2>5
<1>3. CASE Executing(t) = {}
  BY <1>3, FS_EmptySet
<1>4. ASSUME NEW p \in Executing(t)
      PROVE  Cardinality(Executing(t)) <= 1
  <2>1. Executing(t) = {p}
    BY <1>2
  <2>2. Cardinality({p}) = 1
    BY FS_Singleton
  <2> QED
    BY <2>1, <2>2
<1> QED
  BY <1>3, <1>4

\* Whatever circulates is in one of the places.
LEMMA PlacedFinal ==
  ASSUME TypeOK, Placed
  PROVE  TerminalIsFinal
<1>1. SUFFICES ASSUME NEW t \in Tasks, Over(t), NEW e \in Circulating, e.id = t
               PROVE  FALSE
  BY DEF TerminalIsFinal, Over, Ids
<1>2. ~Ready(t) /\ ~Waiting(t) /\ ~Recorded(t) /\ ~Reclaimed(t)
  BY <1>1, Exclusive
<1>3. e \notin queue /\ e \notin delayed
  BY <1>1, <1>2 DEF Ready, Waiting, Has
<1>4. \A w \in Workers : e \notin inflight[w]
  BY <1>1, <1>2 DEF Recorded, Has
<1>5. e \notin InHashes
  BY <1>4 DEF InHashes
<1>6. e \notin InSlots
  BY <1>4 DEF InSlots, Busy, Placed, Tied
<1>7. e \notin co.batch
  <2>1. co.pc = "del" => co.worker \in Workers
    BY DEF TypeOK, CoordinatorTypeOK
  <2>2. co.pc \in {"requeue", "mark"} => e \notin co.batch
    BY <1>1, <1>2 DEF Reclaimed, Has
  <2> QED
    BY <1>3, <1>4, <2>1, <2>2 DEF Placed, Tied
<1> QED
  BY <1>1, <1>3, <1>5, <1>6, <1>7 DEF Circulating

\* In calm conditions no two goroutines execute the same task at the same
\* time: the lease script hands an envelope to one of them, the goroutine's
\* record stays in its worker's hash while it runs, and the coordinator only
\* takes the records of workers that are down.
THEOREM OneExecution == Calm /\ Spec => []NoDoubleExecution
<1>1. Placed => NoDoubleExecution
  BY PlacedNoDouble
<1> QED
  BY <1>1, PlacedReachable, PTL

\* In calm conditions a row that says succeeded or dead is about a task of
\* which no copy is left: a goroutine writes it after it gave its record up,
\* the coordinator after it took the envelope out of its batch.
THEOREM OutcomeFinal == Calm /\ Spec => []TerminalIsFinal
<1>1. TypeOK /\ Placed => TerminalIsFinal
  BY PlacedFinal
<1> QED
  BY <1>1, PlacedReachable, PTL
=============================================================================
