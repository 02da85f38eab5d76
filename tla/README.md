# A TLA+ model of the distributed task queue

This directory holds TLA+ modules that model the task queue of this repository,
TLC configurations that check them on small instances, and proofs for TLAPS that
hold for any number of tasks, workers and failures. Line numbers refer to the
repository at the commit the model was written from; `PROJECT.json` maps every
definition to its lines.

## 1. The system

Clients submit tasks to the **API**. It writes a row to **PostgreSQL**, then an
envelope to a **Redis** sorted set. **Workers** lease envelopes, execute a handler
and report the outcome to both. One **coordinator** moves retries back to the ready
set when they are due and reclaims the tasks of workers whose heartbeat key is gone.

| Component | State it keeps | Operations |
| --- | --- | --- |
| API (`internal/api`) | none between requests | createTask, cancelTask, redriveDLQ; the other endpoints only read |
| Redis queue (`internal/queue`) | ZSETs `queue:{type}`, `delayed:{type}`; hash `inflight:{worker}`; key `hb:{worker}` with a TTL; list `dlq:{type}` | Enqueue, EnqueueDelayed, Lease (Lua), Ack, Nack, DeadLetter, Heartbeat, IsAlive, ReclaimInflight, PromoteDelayed, Publish |
| Store (`internal/store`) | tables tasks, workers, dead_letters, task_events | CreateTask, Mark*, RequeueOrphans, Redrive, Upsert/TouchWorker |
| Worker (`scheduler.Worker`) | semaphore, one goroutine per leased task, a heartbeat goroutine, a context that SIGTERM cancels | Run, heartbeatLoop, execute |
| Coordinator (`scheduler.Coordinator`) | nothing between ticks | tick = promoteDelayed, then reclaimDead |
| Hub (`internal/ws`) | connected clients under a mutex, a channel of 64 events for each | Run, broadcast, ServeHTTP, readLoop, writeLoop, disconnect |
| Configuration (`internal/config`) | durations, limits, task types | Load, splitCSV |
| handlers, `cmd/`, `web/` | | application code, wiring and load test, dashboard |

The processes share nothing but Redis and PostgreSQL. There is no transaction across
the two, and few commands are grouped at all: the lease script and the promotion's
MULTI/EXEC in Redis, and MarkDead in SQL. So the behaviours that are hard to get right
are what happens *between two commands*:

* a process is killed, or its next command fails, and almost every error is ignored;
* another process acts on the same task or on the same worker's hash;
* the heartbeat key of a worker that is alive runs out, and it resumes later;
* SIGTERM cancels the context that Ack, Nack and EnqueueDelayed need.

Inside one service, goroutines share memory in the hub only; there the questions are the
usual ones about locks, closed channels and full buffers.

`PROJECT.json` lists these hazards line by line. What makes the system correct:

* **API**: no envelope without its row (`RowBeforeEnvelope`); an accepted task is
  never lost except in known windows (`Accounted`).
* **Queue**: a lease takes the most urgent task of its type (`LeasesMostUrgent`);
  nothing disappears in a promotion or a reclaim (`Accounted`).
* **Worker and coordinator**: attempts are respected whatever mixture of retries and
  reclaims happens (`AttemptsLeft`, `ExecutionsBounded`); one execution at a time
  while heartbeats are kept (`NoDoubleExecution`); no copy of a finished task is left
  (`TerminalIsFinal`), and a dead one is in the dead-letter list
  (`DeadLettersRecorded`); a killed worker's tasks get an outcome (`EventuallySettled`);
  together, every task goes through the life of `TaskLifecycle` (`ImplementsLifecycle`).
* **Failure detection**: a live worker is not taken for dead (`NoFalseSuspicion`), a dead
  one is found in time (`RecoveredInTime`). **Lease loop**: retries keep their bounds
  (`WithinBounds`), types are served in turn (`ServedInTurn`), TASK_TYPES is read as meant
  (`SplitIsFields`).
* **Hub**: no send on a closed channel (`NoSendOnClosed`), events in order (`InOrder`), no
  client holds up the others (`BroadcastEnds`) or stays behind (`DeadWriterRemoved`).
* **Statistics**: one reply does not contradict itself (`CountsAgree`, `DeadAccounted`).

Five more properties state what the documentation says and the code does not do:
`ZeroDataLoss`, `NeverStranded`, `RetryingIsScheduled`, `CappedAtMax` and
`RecoveredWithinTarget` (section 3).

## 2. The modules

```
Task --> Environment --> Queue --+--> Worker ------+
                    \--> Store --+--> Coordinator -+--> TaskQueue --> MCTaskQueue (TLC)
                                 +--> Api ---------+        |
                                                            +--> proofs (TLAPS)

TaskQueue --> TaskRefinement --> MCTaskQueue --> MCStats     TaskRefinement instantiates TaskLifecycle
TaskQueue --> Stats --------------------------/
TaskQueueProofs --> SingleCopyProofs (with TaskRefinement) --> LifecycleProofs
TaskQueueProofs --> StatsProofs (with Stats)
Config, Backoff --> LeaseLoop --> MCLeaseLoop
Hub (instantiates EventStream)     Detection
```

The modules of the last two lines, each with its proofs, stand apart: they are about parts whose state nothing else
in the model needs, or about something (durations, an unending stream of tasks) that the
model of the whole leaves out.

| Module | Models | Remarks |
| --- | --- | --- |
| `Task` | `task.go`, the envelope | type, priority and max_attempts are constants of a task id |
| `Environment` | what no service decides | `budget` bounds crashes, restarts, stalls, errors, SIGTERMs, cancels, redrives; `settled`, `dropped` are history variables |
| `Queue` | `queue.go` | one action per Redis command |
| `Store` | `store.go` | one action per statement or transaction |
| `Worker` | `scheduler.go` 26-207 | one step per command, with its success and its failure |
| `Coordinator` | `scheduler.go` 209-347 | the tick as a program counter `co.pc` |
| `Api` | `api.go` 94-216 | create and redrive in two steps each |
| `TaskQueue` | the composition | Next, fairness, properties |
| `TaskLifecycle` | the promise | phases and attempts of a task, no stores, processes or messages; a retry waits, becomes ripe, then ready |
| `TaskRefinement` | the refinement mapping | reads a task's phase off the place of its copy |
| `Stats` | `getStats`, `GetStats`, the depths | one step per query, interleaved with everything; each may fail, or be read in part |
| `Hub`, `EventStream` | `hub.go`; what a dashboard may rely on | one step per critical section, channel operation and write |
| `Detection` | heartbeat loop and sweep | discrete time; slow and failing commands, dropped ticks, a SET or UPDATE that lands after its sender died |
| `Config` | splitCSV, the choice of types in Run | character by character |
| `Backoff` | BackoffDelay | the set of delays it may return; the draw is any value below the ceiling |
| `LeaseLoop` | a worker's loop from its start: types, LeaseAny, execute, retry | tasks are counted, so that they can arrive for ever |
| `MCTaskQueue`, `MCStats`, `MCLeaseLoop` | instances for TLC | requests, budgets, registries |
| `TaskQueueProofs` | theorems about `TaskQueue` | types, attempts, rows, lease order, where tasks can be |
| `SingleCopyProofs`, `LifecycleProofs` | theorems about `TaskQueue` and `TaskRefinement` in calm conditions | one copy of each task; counts, dead letters, the refinement |
| `StatsProofs`, `LeaseLoopProofs`, `HubProofs`, `DetectionProofs` | theorems about the module of that name | |

How state corresponds: `queue` and `delayed` are the members of all the ZSETs of a kind
(the type of a member is that of its task); `due` are the delayed members whose
`available_at` has passed; `inflight[w]`, `hb` and `dlq` are the hash, the keys and the
lists; `tasks`, `workers` and `dead_letters` are the tables; `job[w][s]` is the goroutine
in slot `s` of worker `w`'s semaphore, with the commands of `execute` as its program
counter; `poll[w]` is where LeaseAny is in its list of types; `canceled` the workers
whose context is canceled; `co` the local variables of the coordinator's tick; `api[t]`
how far the request about `t` is.

Decisions a reader may want to question:

* *One command, one step.* The local code around a command is part of its step.
  Publishing events and writing audit rows change nothing a service reads, and are left
  out; the LogEvent in CreateTask can make createTask return early, and that is kept.
* *A failing command* is skipped, and the code goes on where it does. Where the code
  ignores the error, a command whose effect took place and whose reply was lost is the
  same as one that succeeded, so only the other case is a disjunct. Where the caller
  reacts to the error (Lease, Enqueue in createTask) both cases are there.
* *SCAN* is taken as one step. A key that comes or goes during the scan is seen by a
  later tick, in the code and in the model.
* *ZPOPMIN* breaks ties by bytes; the model leaves ties open. Stamped times are all
  different in the model (`clock` counts stampings), so ties arise only where a
  promotion stamps several members.
* *Ready members after a promotion* are added whether or not the delayed member was still
  there, as in the code.
* *The backoff* is a positive delay: an `Elapse` step makes the member due, and a
  promotion reads due members only.
* *A statistics request* may lose any of its own commands, beyond the budget of failures
  that the services have. GetStats asks for no `rows.Err()` after its two loops, so a SELECT
  that breaks off while it is read yields the groups that arrived, no error and a 200
  (`Partly`); one that fails at once, or a Scan that fails, yields a 500 (`Refused`). A
  depth that cannot be read is 0. `failed` remembers that the reply is incomplete, which
  the client cannot see.
* *Commands in `Detection`* take up to `Latency`, the first heartbeat included: the ticker
  starts with its reply, when part of the TTL is gone. SETs fail up to `Misses` times in a
  row, UPDATEs of the row at will, and up to `Skips` looks of the coordinator in a row
  fail, whichever of its commands it is.
* *The coordinator* has one replica, as in docker-compose.yml. Its SIGTERM makes the rest
  of a tick fail and ends the process, for which `CoCrash` stands.
* *Rows are never deleted*, so UPDATEs find theirs (`RowBeforeEnvelope` says so).
* *A stop before the first heartbeat* makes Run return with an error: `StartupError`.

### The ledger: settled and dropped

`settled` holds the tasks whose handler returned success or that were dead-lettered (in
Redis or in SQL), since their last redrive; an entry in the Redis list alone counts, although
nothing reads that list back. `dropped` holds the tasks a process let go of
without passing them on. These are the only places where the model adds to it:

| Where | The window |
| --- | --- |
| `Crash` | killed between Nack and EnqueueDelayed / DeadLetter (scheduler.go 163-175), or executing a task whose record a reclaim has taken |
| `CoCrash` | killed between DEL and Enqueue / MarkDead (queue.go 222, scheduler.go 320-325) |
| `DelHash` | the DEL takes a record that was written after the HGETALL, of a task its worker does not execute (queue.go 209-222) |
| `Schedule` | EnqueueDelayed fails, the error is logged (scheduler.go 175) |
| `RecordDead`, `MarkExhausted` | both DeadLetter and MarkDead fail |
| `Requeue` | the coordinator's Enqueue fails, the error is logged (scheduler.go 325) |
| `RedriveEnvelope` | redrive fails after its UPDATE (api.go 211) |

`Accounted` then says that this table is complete. It says no more than that: a task is
entered when a copy of it is let go of in a window, whether or not another copy exists
(a stalled worker may still execute a task whose copy the coordinator loses), and it stays
entered until it is redriven. So under stalls `Accounted` is weaker than "the last copy was
lost in a window". Entering a task only when its last copy goes would make the property true
by definition, for then every loss would be entered, also in windows nobody named. What the
windows mean for a client is the business of `ZeroDataLoss`, which ignores `dropped`.

### The refinement

`TaskLifecycle` is what the system promises about a task: it is ready, taken, failed,
waiting, ripe or settled, attempts are counted when one fails, a retry waits until its backoff
has passed (`Ripen`) and only then becomes ready (`Promote`), a
task without attempts left is buried, and a task can be lost only while somebody has it.
`TaskRefinement` maps the state of the system to it: the phase of a task is the place of
its copy (ready set, delayed set and not due, delayed set and due, a hash or a slot or the coordinator's batch, a slot after
Nack), its attempts are those of that copy. Several places can hold a task that is taken
(hash and slot; slot and batch of a reclaim): for the abstract task these are one. The
mapping exists as long as there is one copy, hence in budgets without stalls, failing
commands and restarts; `operated` checks the refinement on an instance of that kind, and
`SystemImplementsLifecycle` proves it for all of them (section 4). What a crash does between two commands, a promotion in two steps
and rows that lag behind are stutters or one abstract step.

## 3. What TLC checks

All runs are exhaustive for their instance. Counts are distinct states.

| Run | Module, instance | Checks | States |
| --- | --- | --- | --- |
| `operated` | `MCTaskQueue`: 2 tasks (2 attempts; 1 attempt and no handler), 2 types, 2 workers; a crash, a redrive | `NoDoubleExecution`, `ExecutionsBounded`, `TerminalIsFinal`, `DeadLettersRecorded`, `ImplementsLifecycle` | 0.7 M |
| `faults` | `MCTaskQueue`: 1 task, 1 worker; a crash, a restart under the same id, a stall, a failing command, a SIGTERM | `TypeOK`, `Accounted`, `AttemptsLeft`, `RowBeforeEnvelope` | 4.2 M |
| `liveness` | `MCTaskQueue`: 2 tasks with priorities 12 and 9, 2 workers; a crash; fair | `EventuallySettled`, `LeasesMostUrgent` | 0.2 M |
| `stats` | `MCStats`: 2 tasks of 1 attempt, 1 type, 1 worker; a crash, a cancel; any command of the request fails | `CountsAgree`, `DeadAccounted` | 3.4 M |
| `lease_loop` | `MCLeaseLoop`: all strings of length up to 5 over two letters and the comma, 0 or 3 handlers, 4 attempts, bases 0, 1, 5 and caps 4, 12; fair | `SplitIsFields`, `WithinBounds`, `ServedInTurn` | 0.2 M |
| `hub` | `Hub`: 2 connections, channels of 1, 2 events; fair | `HubTypeOK`, `NoSendOnClosed`, `InOrder`, `BroadcastEnds`, `DeadWriterRemoved` | 89 k |
| `detection` | `Detection`: interval 3, TTL 12, sweep 2, latency 2, work 1, 1 failing heartbeat and 1 failing look in a row | `DetectionTypeOK`, `NoFalseSuspicion`, `RecoveredInTime` | 36 k |
| `data_loss` | `MCTaskQueue`: 1 task, 2 workers; a crash | `ZeroDataLoss` **violated** | |
| `graceful_stop` | `MCTaskQueue`: 1 task, 2 workers; a SIGTERM | `NeverStranded` **violated** | |
| `late_retry_row` | `MCTaskQueue`: 1 task, 2 workers; nothing goes wrong | `RetryingIsScheduled` **violated** | |
| `retry_above_cap` | `MCLeaseLoop`: base 5, cap 4 | `CappedAtMax` **violated** | |
| `slow_recovery` | `Detection`: interval 3, TTL 9, sweep 1 (the defaults, in seconds), latency 1, work 1, no failing command | `RecoveredWithinTarget` **violated** | |

**Bounds.** Two workers are what a reclaim needs: one to lose the task, one to get it. In
`faults` one is enough: it may come back under its id, or go on after a stall and lease the
second copy of the task it still executes; the room this leaves goes to the five kinds of
failure. Two attempts give a retry and an exhaustion, and let a reclaim fall on either. Each
kind of failure happens at most once per run (`budget`), at every point where it can, and the
runs combine the kinds that interact. Every safety property of the passing runs is also
proved for any number of tasks, workers, slots and failures (section 4): there the runs show
on an instance what the theorems say of all, and the bounds matter for liveness only. `PromoteLimit` is 1
(256 in the code); in the runs of the whole system at most one task is waiting for a retry,
so that a promotion leaves members behind is covered by the proofs only. The same goes for
several slots in one worker.
`ScoreWeight` is 100 (1e13 in the code), wider than any time a run reaches, as 1e13 is wider
than milliseconds until the year 2286; a weight that times outgrow would break the order,
here and there. In `operated` both workers are booted and interchangeable, and it uses that
symmetry; `liveness` may not. No run's state space is cut off by a constraint. Deadlock is
checked in every run of the whole system and in `detection`.

In `hub` a channel of one slot and two events fill, overflow and are read after the channel
was closed; two connections are what it takes for one to leave while the other is served.
In `detection` a latency of two thirds of the interval makes the loop fall behind its
ticker, and every SET but one in a row and every look but one in a row may fail; the theorems
are about all durations. The instance is tight on both sides: with a TTL of 11, where `Timely`
is false, `NoFalseSuspicion` fails, and with one unit less in `Bound` `RecoveredInTime` does.
In `stats` two tasks of one type are what it takes for a row to be added, canceled or buried
between the two queries; both the full and every partial reading of each query are there.
`lease_loop` has commas at the start, at the end, in pairs and alone, lists with repeated
types, three types in every order, and bases below, between and above the caps. The hub and a
worker that has nothing to poll end: these runs do not check deadlock.

**Conditions on the properties.** `NoDoubleExecution`, `ExecutionsBounded` and
`TerminalIsFinal` are checked with no stall and no failing command in the budget: with
either, a reclaimed task may be executed twice, which at-least-once delivery permits.
`DeadLettersRecorded` and `ImplementsLifecycle` are checked with them. `CountsAgree` compares
the two totals of a reply, and `DeadAccounted` asks anything at all, only if no command of the
request failed; that no total exceeds the number of rows is asked of every reply.
`NoFalseSuspicion` needs `Timely`, which the instance of `detection` satisfies. A worker that boots is reclaimed, too, when the coordinator looks between its row and its
first heartbeat; `operated` starts with both workers up, in `faults` one is restarted.

**Fairness** (`FairSpec`). In `TaskQueue` each goroutine, each worker's main loop and
heartbeat loop and the coordinator keep taking steps (Go's scheduler and the
tickers; Redis and PostgreSQL answer); time passes; the heartbeat key of a worker that is down expires
(Redis); a request whose row is written goes on. A handler returns, since its
context ends after LEASE_TTL and each built-in one honours it; whether it succeeds is left
open, so a task that always fails must end in the dead-letter queue. Nothing is assumed of
clients, operators or failures.

In `Hub` the goroutines run, a write ends within its deadline of 10 s, and a read fails once
the connection is broken or, through its deadline of 60 s, once the write loop that sends
the pings has ended (a browser sends no pongs of its own accord). Nothing is assumed of a
connection that is open and served. In `LeaseLoop` the worker keeps polling, handlers return
and nothing need arrive.

### What the violated properties show

1. **`ZeroDataLoss`** (README.md 16-17). `execute` nacks before it enqueues the retry. A
   worker killed between the two leaves a row in `running`, which RequeueOrphans sets to
   `queued`; reclaimDead ignores the tasks RequeueOrphans returns, so nobody enqueues it. The
   property asks nothing while a worker that is gone has still a row that says alive
   (`Reconciled`), so the trace runs through the whole reclaim.
2. **`NeverStranded`** (README.md 11-12). After SIGTERM all commands of the worker fail but
   the last one, which marks its row dead. reclaimDead skips dead rows, so the tasks in
   the worker's hash stay there.
3. **`RetryingIsScheduled`** (store.go 153). MarkRetry comes after EnqueueDelayed. If the
   retry has been promoted and finished by then, the row goes from a terminal status to
   `retrying` for good. Even without a failure, a slow statement is enough. (In `operated`
   the same step ends in a status that is not terminal, so `TerminalIsFinal` holds: it is
   about copies of the task, not about rows that never change again.)
4. **`CappedAtMax`** (scheduler.go 192, config.go 29; scheduler_test.go 17 asserts it for bases
   below the cap). The floor is applied after the cap, so a base above the cap wins
   (scheduler.go 203), and nothing checks that the two are in order. `WithinBounds` says what
   holds for all settings.
5. **`RecoveredWithinTarget`** (README.md 12, 171-172; scripts/kill-worker.sh 2). With the
   default durations the key alone lasts 9 s after the last heartbeat. `RecoveredInTime` says
   what the durations do guarantee.

### What else the modelling showed

These are readings of the code that follow from the actions of the modules; no run of their
own is kept for them.

* Cancel leaves the envelope of a queued or retrying task in Redis, and `execute` does not
  look at the row before it marks it running, so the task is executed all the same (api.go 180;
  README.md 121 says "Cancel a queued/retrying task").
* A cancel that finds the task running or finished changes no row, logs a cancellation and
  answers "canceled" (api.go 184; store.go 195 says it "transitions a task to canceled state").
* The lease script ignores its TTL. If the reply to a lease is lost, the task stays in flight
  for a live worker that does not know of it (queue.go 119; config.go 33 says LeaseTTL is how
  long a task is held "before it can be reclaimed").
* Restarted under its WORKER_ID before its key expires, a worker is not dead to the
  coordinator, and nobody looks into the hash it left behind (scheduler.go 44).
* The statistics list the depths of the types with ready tasks; a type whose tasks all wait
  for a retry is missing (api.go 247).
* A statistics query that breaks off while it is read yields a 200 with counts that are too
  small, and `total` with them (store.go 398-408, 414-422; every other query of store.go asks
  for `rows.Err()`).
* A worker that was reclaimed although it lives has a row that says dead until its next
  TouchWorker, and reclaimDead skips it as long (scheduler.go 299).
* A slow WebSocket client loses messages and stays (hub.go 68 says "drop slow clients").
* The load test does not look at the status of the statistics reply; an error body has no
  counts, so nothing seems pending and the wait ends early (loadtest/main.go 126).
* While an earlier type of the list always has work, LeaseAny never gets to the later ones
  (queue.go 155); `ServedInTurn` is what remains.

## 4. What is proved

Every safety property a passing run checks is the statement of a theorem, and so are the two
refinements. The theorems hold for every value of the constants that satisfies the ASSUMEs of
the modules: any sets of tasks, workers and slots, any requests, any budget. Most assumptions
only type the constants: ids differ from the null values, requests are records of the right
fields, `ScoreWeight` and `PromoteLimit` are positive, there is at least one task type,
`Booted` is a set of workers. Those that say more are named below.

### The whole system, under any failures (`TaskQueueProofs`)

* **`TypeCorrect`: `Spec => []TypeOK`.** `TypeOK` is inductive because it says more than
  types: a slot that is not idle holds a real envelope (`Job`), and the coordinator's
  `worker` and `dead` are set at the program points that use them. Lemmas show command by
  command that the two stores keep their types; one lemma per process (`ProcessType`,
  `PollType`, `JobType`, `CoordinatorType`, `ApiType`) puts the commands together.
* **`AttemptsInvariant`: `Spec => []AttemptsLeft`.** `AttemptsLeft` ranges over *every*
  place where an envelope can be (ready, delayed, in flight, in a slot, in the
  coordinator's batch), and is inductive with `TypeOK` for that reason: an envelope gets
  into this circle fresh from the API, or past one of the two tests, `Exhausted` in the
  worker and the one in reclaimDead. So the comment in scheduler.go 317, "so we don't loop
  forever", holds even if heartbeats are missed and commands fail without bound.
* **`RowsFirst`: `Spec => []RowBeforeEnvelope`** from the invariant `Rows`: each envelope
  after a step comes from one before it, or from a request that has written its row
  (`Provenance`), and rows stay (`RowsStay`).
* **`LeaseOrder`: `Spec /\ [](clock < ScoreWeight) => LeasesMostUrgent`.** The packed score
  orders members like the pair of priority and time as long as no time reaches the weight
  (`Stamped`: every envelope's time is at most the clock). In the code the weight is 1e13
  and times are milliseconds, so the hypothesis holds until the year 2286.
* **`AccountedInvariant`: `Spec => []Accounted`.** For each step and each task: if the task
  is `Safe` (settled, dropped, in Redis or in hand), it still is after the step, unless the
  step redrives it, after which `api[t]` is no longer "accepted" until the new envelope is
  written. The `...Keeps` lemmas show it command by command. Hence the table of section 2
  lists all the ways to lose a task, for any number of them.

### The whole system, in calm conditions (`SingleCopyProofs`, `LifecycleProofs`)

These theorems have the hypothesis `Calm`: all workers are up at the start, no live worker
misses its heartbeats, no command fails, nobody restarts or stops a worker; crashes of
workers and of the coordinator, cancels and redrives may happen any number of times. These
are the conditions of `operated`, and none can be left out: a stalled or booting worker is
reclaimed while it executes; a worker that comes back under its id may lease between the
IsAlive and the HGETALL that reclaim it; a failing Ack, also after SIGTERM, leaves a record
that is executed again.

The invariant is `Steady /\ Placed`. `Steady`: whoever is alive has its key, so the
coordinator reclaims dead workers only. `Placed`: each task is in at most one place (ready
set, delayed set, a hash, a slot that has given up its record, the coordinator's batch or
its burial, a request on its way), there is one copy in that place, an executing slot has
its record in the worker's hash (`Tied`), and a row that says absent, succeeded or dead means
no place at all (`Settling`). None of these is inductive alone: that the DEL of a reclaim
loses nothing needs that the batch still equals the hash, which needs that the worker is dead.

* **`OneExecution`** (`NoDoubleExecution`) and **`OutcomeFinal`** (`TerminalIsFinal`) follow
  from it.
* **`ExecutionLimit`** (`ExecutionsBounded`): the row counts executions that started, the
  envelope those that ended; `AttemptsCounted` says for each place how far they are apart.
* **`DeadLettersKept`** (`DeadLettersRecorded`): whoever has pushed an entry and has still
  to write its row is ahead by one (`Lettered`).
* **`SystemImplementsLifecycle`** (`ImplementsLifecycle`): every step of `Spec` maps to a
  step of `TaskLifecycle` or to a stutter. That a promotion moves ripe tasks only needs
  `Ripened`: what the coordinator has read to promote is due until it is moved. `Decided` adds
  what the mapping needs of the ledger: a task that is settled or dropped has no copy, and one
  that somebody has is neither.

### The parts

* **`StatsProofs`.** `RepliesAgree` (`CountsAgree`): each count is at most the number of rows
  when it was read, partial ones too, and rows are only added (`CountedRows`). `DeadRowsAccounted`
  (`DeadAccounted`): while no command failed, whoever writes a dead row has pushed its
  entry (`Entered`; a worker after SIGTERM may fail to push, and then fails to write), and entries are never
  removed, so the tasks counted as dead in the first query are among those the lists hold
  when they are read (`Witness`). Both rest on lemmas about sums (`SumBounds`, `GroupSum`).
  `StatsAssumption`: tasks and types are finite.
* **`LeaseLoopProofs`.** `DelaysWithinBounds` for every base, cap and number of attempts, and
  `SplitsIntoFields` for every string. The invariant of the splitting (`Reading`): `cur` is the
  part of the string since the last comma, `out` lists the pieces before it, ranked from left
  to right.
* **`HubProofs`.** `NeverSendsOnClosed` from `Locked`: a broadcast under way holds the read
  lock, so that no client it has still to serve is unregistered, and channels are closed after
  that only. `StreamInOrder` (`InOrder`): what is further on its way
  from the bus to a browser is older (`Ordered`), hence each step is one of `EventStream`.
* **`DetectionProofs`.** `FoundInTime` for all durations, from `Dying`: how long a worker can
  have been dead while its last command is on the way, while its key lasts and while the
  coordinator has still to look, with the looks that may yet fail (`DeadFor`).
  `NeverSuspectsLive` is `Timely /\ Spec => []NoFalseSuspicion`: `Timed` adds how much of its
  TTL the key has left at least in each phase of the heartbeat loop, less a `Gap` for every
  SET that failed since (`KeyFresh`). `Timely` is a hypothesis of this theorem alone and no
  assumption of the module: the longer of the interval and a command, two commands, and a
  `Gap` for each failing heartbeat fit into the TTL.

Induction (powers of two, sums over finite sets, ranks of pieces) is done through `LeastNat`:
a counterexample would come with a smallest one, and that is contradictory.

Only model-checked: the liveness properties `EventuallySettled`, `BroadcastEnds`,
`DeadWriterRemoved` and `ServedInTurn`, since liveness under fairness is outside what
this prover does; and the five properties of section 3 that the code violates.

## 5. What is not modelled

* The audit table `task_events`: it is appended to after each statement and only displayed.
  The endpoints that are one SELECT (tasks, task, events, dead letters, workers), healthz and
  readyz; CORS, JSON, routing. There is no second step for anything to come between.
* The dashboard, which polls these endpoints. The contents of events: `Hub` numbers them.
* The built-in handlers beyond success and failure, the wiring in `cmd/`, and the readers of
  single environment variables.
* The load test: a client that submits, polls the statistics and prints a report.
* Durations in the model of the whole system: there a delay is an event that may come at any
  time, which covers every duration. Durations themselves are in `Detection` and `LeaseLoop`.
* `LEASE_TTL` bounds the handler's context; the lease itself never expires in the code
  (the script's argument is unused), and so it does not in the model.
* Concurrent migrations at the first start of several processes: what PostgreSQL does then
  is not to be seen in this code.
* Loss of Redis or PostgreSQL data; several coordinators.

## 6. Plan

All the safety properties and refinements are proved. What could be added:

1. `ImplementsLifecycle` beyond calm conditions: with stalls and failing commands a task has
   several copies, and the promise to refine is a weaker one (at-least-once execution, with
   `AttemptsLeft` for every copy).
2. Lemmas towards the liveness properties: measures that every fair step decreases, stated
   as action properties, although their conclusion stays with TLC.
3. `DeadLettersRecorded` with failing commands that are no longer under way, as `Entered` in
   `StatsProofs` has it for the Redis list.
