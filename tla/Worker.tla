------------------------------- MODULE Worker -------------------------------
(***************************************************************************)
(* internal/scheduler, the worker runtime.  A worker process has a main    *)
(* loop that leases tasks, a heartbeat loop, and one goroutine per leased  *)
(* task, at most WORKER_CONCURRENCY of them: job[w][s] is what occupies    *)
(* slot s of the semaphore.                                                *)
(*                                                                         *)
(* Every step is one command to Redis or PostgreSQL with the local code    *)
(* around it.  The code ignores (or only logs) the error of nearly every   *)
(* command, so a command that fails is skipped and the goroutine goes on   *)
(* to the next one.  All of them are given the context that SIGTERM        *)
(* cancels: from then on every command of the worker fails, except the     *)
(* last MarkWorkerDead.                                                    *)
(*                                                                         *)
(* loop[w]      "new", "registered" (row written, no heartbeat yet),       *)
(*              "running", "down"                                          *)
(* poll[w]      position in TaskTypes that LeaseAny tries next             *)
(* beating[w]   TRUE between the heartbeat loop's Redis and SQL commands   *)
(* canceled     workers whose context is canceled                          *)
(***************************************************************************)
EXTENDS Queue, Store, Sequences

CONSTANTS
  Slots,        \* one per unit of WORKER_CONCURRENCY
  TaskTypes     \* the types a worker consumes, in the order it tries them

ASSUME WorkerAssumption == TaskTypes \in Seq(Types) /\ TaskTypes # <<>>

VARIABLES loop, poll, beating, canceled, job

workerVars == <<loop, poll, beating, canceled, job>>

\* idle       the slot is free
\* leased     execute was called            running   the handler runs
\* acked      Ack sent, MarkSucceeded next  nacked    Nack sent
\* pushed     DeadLetter sent, MarkDead next
\* scheduled  EnqueueDelayed sent, MarkRetry next
JobPC == {"idle", "leased", "running", "acked", "nacked", "pushed", "scheduled"}

IdleJob == [pc |-> "idle", env |-> NoEnvelope]

Job == [pc: JobPC \ {"idle"}, env: Envelope] \cup {IdleJob}

WorkerTypeOK ==
  /\ loop \in [Workers -> {"new", "registered", "running", "down"}]
  /\ poll \in [Workers -> 1 .. Len(TaskTypes)]
  /\ beating \in [Workers -> BOOLEAN]
  /\ canceled \subseteq Workers
  /\ job \in [Workers -> [Slots -> Job]]

\* The jobs that still owe their task an outcome.
Holding == {"leased", "running", "nacked", "pushed"}

HeldBy(w) == {job[w][s].env.id : s \in {x \in Slots : job[w][x].pc \in Holding}}

\* The tasks that vanish with worker w: it holds them, Redis has no in-flight
\* record of them any more.
Exposed(w) == HeldBy(w) \ Ids(inflight[w])

CommandSucceeds(w) ==
  /\ w \notin canceled
  /\ UNCHANGED budget

CommandFails(w) ==
  \/ w \in canceled /\ UNCHANGED budget
  \/ w \notin canceled /\ Spend("error")

\* Job s of w, now at pc, goes to next with envelope e.
Step(w, s, pc, next, e) ==
  /\ job[w][s].pc = pc
  /\ job' = [job EXCEPT ![w][s] = [pc |-> next, env |-> e]]
  /\ UNCHANGED <<loop, poll, beating, canceled>>

\* Job s of w, now at pc, is finished.
Finish(w, s, pc) ==
  /\ job[w][s].pc = pc
  /\ job' = [job EXCEPT ![w][s] = IdleJob]
  /\ UNCHANGED <<loop, poll, beating, canceled>>

Settle(t) == settled' = settled \cup {t} /\ UNCHANGED dropped

\* A job lets go of task t without having passed it on.
Abandon(w, t) ==
  /\ dropped' = dropped \cup ({t} \ (Ids(inflight[w]) \cup settled))
  /\ UNCHANGED settled
-----------------------------------------------------------------------------
(* The life of the process. *)

\* Run registers the worker before its first heartbeat.
Register(w) ==
  /\ \/ loop[w] = "new" /\ UNCHANGED budget
     \/ loop[w] = "down" /\ Spend("restart")
  /\ UpsertWorker(w)
  /\ loop' = [loop EXCEPT ![w] = "registered"]
  /\ canceled' = canceled \ {w}
  /\ UNCHANGED <<poll, beating, job, queueVars, ledger>>

FirstHeartbeat(w) ==
  /\ loop[w] = "registered"
  /\ Heartbeat(w)
  /\ loop' = [loop EXCEPT ![w] = "running"]
  /\ UNCHANGED <<poll, beating, canceled, job, storeVars, budget, ledger>>

\* If either command fails, Run returns the error and the process exits.
StartupError(w) ==
  /\ loop[w] \in {"new", "registered"}
  /\ Spend("error")
  /\ loop' = [loop EXCEPT ![w] = "down"]
  /\ UNCHANGED <<poll, beating, canceled, job, queueVars, storeVars, ledger>>

\* heartbeatLoop: a tick refreshes the key, then touches the row.
BeatTick(w) ==
  /\ loop[w] = "running" /\ w \notin canceled /\ ~beating[w]
  /\ \/ CommandSucceeds(w) /\ Heartbeat(w)
     \/ CommandFails(w) /\ UNCHANGED queueVars
  /\ beating' = [beating EXCEPT ![w] = TRUE]
  /\ UNCHANGED <<loop, poll, canceled, job, storeVars, ledger>>

TouchTick(w) ==
  /\ loop[w] = "running" /\ w \notin canceled /\ beating[w]
  /\ \/ CommandSucceeds(w) /\ TouchWorker(w)
     \/ CommandFails(w) /\ UNCHANGED storeVars
  /\ beating' = [beating EXCEPT ![w] = FALSE]
  /\ UNCHANGED <<loop, poll, canceled, job, queueVars, ledger>>

\* SIGTERM cancels the context of Run.
Sigterm(w) ==
  /\ loop[w] = "running" /\ w \notin canceled
  /\ Spend("stop")
  /\ canceled' = canceled \cup {w}
  /\ UNCHANGED <<loop, poll, beating, job, queueVars, storeVars, ledger>>

Halt(w) ==
  /\ loop' = [loop EXCEPT ![w] = "down"]
  /\ poll' = [poll EXCEPT ![w] = 1]
  /\ beating' = [beating EXCEPT ![w] = FALSE]
  /\ job' = [job EXCEPT ![w] = [s \in Slots |-> IdleJob]]
  /\ UNCHANGED canceled

\* The main loop waits for its goroutines and marks the worker dead itself,
\* with a context of its own.
Leave(w) ==
  /\ loop[w] = "running" /\ w \in canceled
  /\ \A s \in Slots : job[w][s].pc = "idle"
  /\ \/ UNCHANGED budget /\ MarkWorkerDead(w)
     \/ Spend("error") /\ UNCHANGED storeVars
  /\ Halt(w)
  /\ UNCHANGED <<queueVars, ledger>>

\* The process is killed: what only its memory held is gone.
Crash(w) ==
  /\ loop[w] \in {"registered", "running"}
  /\ Spend("crash")
  /\ Halt(w)
  /\ dropped' = dropped \cup (Exposed(w) \ settled)
  /\ UNCHANGED <<queueVars, storeVars, settled>>
-----------------------------------------------------------------------------
(* The main loop: one Lease per call, through TaskTypes in order. *)

FromFirstType(w) == poll' = [poll EXCEPT ![w] = 1]

CanPoll(w, s) == loop[w] = "running" /\ job[w][s].pc = "idle"

LeaseTask(w, s) ==
  /\ CanPoll(w, s)
  /\ CommandSucceeds(w)
  /\ \E e \in queue :
       /\ Lease(TaskTypes[poll[w]], w, e)
       /\ job' = [job EXCEPT ![w][s] = [pc |-> "leased", env |-> e]]
  /\ FromFirstType(w)
  /\ UNCHANGED <<loop, beating, canceled, storeVars, ledger>>

\* Mutant: the position runs past the last type.
LeaseEmptyPastEnd(w, s) ==
  /\ CanPoll(w, s)
  /\ CommandSucceeds(w)
  /\ OfType(queue, TaskTypes[poll[w]]) = {}
  /\ poll' = [poll EXCEPT ![w] = IF @ > Len(TaskTypes) THEN 1 ELSE @ + 1]
  /\ UNCHANGED <<loop, beating, canceled, job, queueVars, storeVars, ledger>>

\* Nothing of this type: try the next one, or sleep and start over.
LeaseEmpty(w, s) ==
  /\ CanPoll(w, s)
  /\ CommandSucceeds(w)
  /\ OfType(queue, TaskTypes[poll[w]]) = {}
  /\ poll' = [poll EXCEPT ![w] = IF @ = Len(TaskTypes) THEN 1 ELSE @ + 1]
  /\ UNCHANGED <<loop, beating, canceled, job, queueVars, storeVars, ledger>>

\* The lease fails: either the script did not run, or it did and its reply is
\* lost, which leaves the task in flight for a worker that does not run it.
LeaseError(w, s) ==
  /\ CanPoll(w, s)
  /\ CommandFails(w)
  /\ \/ UNCHANGED queueVars
     \/ w \notin canceled /\ \E e \in queue : Lease(TaskTypes[poll[w]], w, e)
  /\ FromFirstType(w)
  /\ UNCHANGED <<loop, beating, canceled, job, storeVars, ledger>>
-----------------------------------------------------------------------------
(* execute: one job, from its lease to its outcome. *)

\* Without a handler the task is nacked to be dead-lettered.
Unhandled(w, s) ==
  LET e == job[w][s].env
  IN /\ Step(w, s, "leased", "nacked", e)
     /\ ~Lookup(TypeOf(e.id))
     /\ \/ CommandSucceeds(w) /\ Nack(w, e.id)
        \/ CommandFails(w) /\ UNCHANGED queueVars
     /\ UNCHANGED <<storeVars, ledger>>

Start(w, s) ==
  LET e == job[w][s].env
  IN /\ Step(w, s, "leased", "running", e)
     /\ Lookup(TypeOf(e.id))
     /\ \/ CommandSucceeds(w) /\ MarkRunning(e.id, w)
        \/ CommandFails(w) /\ UNCHANGED storeVars
     /\ UNCHANGED <<queueVars, ledger>>

\* Mutant: the Ack is forgotten.
SucceedNoAck(w, s) ==
  LET e == job[w][s].env
  IN /\ Step(w, s, "running", "acked", e)
     /\ CommandSucceeds(w)
     /\ Settle(e.id)
     /\ UNCHANGED <<queueVars, storeVars>>

\* The handler returns without an error.
Succeed(w, s) ==
  LET e == job[w][s].env
  IN /\ Step(w, s, "running", "acked", e)
     /\ \/ CommandSucceeds(w) /\ Ack(w, e.id)
        \/ CommandFails(w) /\ UNCHANGED queueVars
     /\ Settle(e.id)
     /\ UNCHANGED storeVars

RecordSuccess(w, s) ==
  /\ Finish(w, s, "acked")
  /\ \/ CommandSucceeds(w) /\ MarkSucceeded(job[w][s].env.id)
     \/ CommandFails(w) /\ UNCHANGED storeVars
  /\ UNCHANGED <<queueVars, ledger>>

\* The handler fails, or its context times out after LEASE_TTL.
Fail(w, s) ==
  LET e == [job[w][s].env EXCEPT !.attempts = @ + 1]
  IN /\ Step(w, s, "running", "nacked", e)
     /\ \/ CommandSucceeds(w) /\ Nack(w, e.id)
        \/ CommandFails(w) /\ UNCHANGED queueVars
     /\ UNCHANGED <<storeVars, ledger>>

\* Mutant: one attempt too many.
ExhaustedLate(e) == e.attempts > MaxAttempts(e.id) \/ ~Lookup(TypeOf(e.id))

\* A nacked task is retried until its attempts are used up.
Exhausted(e) == e.attempts >= MaxAttempts(e.id) \/ ~Lookup(TypeOf(e.id))

\* Mutant: the entry of the Redis list is forgotten.
PushDeadRowOnly(w, s) ==
  LET e == job[w][s].env
  IN /\ Step(w, s, "nacked", "pushed", e)
     /\ Exhausted(e)
     /\ CommandSucceeds(w) /\ Settle(e.id)
     /\ UNCHANGED <<queueVars, storeVars>>

PushDead(w, s) ==
  LET e == job[w][s].env
  IN /\ Step(w, s, "nacked", "pushed", e)
     /\ Exhausted(e)
     /\ \/ CommandSucceeds(w) /\ DeadLetter(e) /\ Settle(e.id)
        \/ CommandFails(w) /\ UNCHANGED <<queueVars, ledger>>
     /\ UNCHANGED storeVars

RecordDead(w, s) ==
  LET t == job[w][s].env.id
  IN /\ Finish(w, s, "pushed")
     /\ \/ CommandSucceeds(w) /\ MarkDead(t) /\ Settle(t)
        \/ CommandFails(w) /\ UNCHANGED storeVars /\ Abandon(w, t)
     /\ UNCHANGED queueVars

Schedule(w, s) ==
  LET e == job[w][s].env
  IN /\ Step(w, s, "nacked", "scheduled", e)
     /\ ~Exhausted(e)
     /\ \/ CommandSucceeds(w) /\ EnqueueDelayed(e) /\ UNCHANGED ledger
        \/ CommandFails(w) /\ UNCHANGED queueVars /\ Abandon(w, e.id)
     /\ UNCHANGED storeVars

RecordRetry(w, s) ==
  /\ Finish(w, s, "scheduled")
  /\ \/ CommandSucceeds(w) /\ MarkRetry(job[w][s].env.id)
     \/ CommandFails(w) /\ UNCHANGED storeVars
  /\ UNCHANGED <<queueVars, ledger>>
-----------------------------------------------------------------------------
JobStep(w, s) ==
  \/ Unhandled(w, s) \/ Start(w, s)
  \/ Succeed(w, s) \/ RecordSuccess(w, s)
  \/ Fail(w, s) \/ PushDead(w, s) \/ RecordDead(w, s)
  \/ Schedule(w, s) \/ RecordRetry(w, s)

PollStep(w, s) == LeaseTask(w, s) \/ LeaseEmpty(w, s) \/ LeaseError(w, s)

ProcessStep(w) ==
  \/ Register(w) \/ FirstHeartbeat(w) \/ StartupError(w)
  \/ BeatTick(w) \/ TouchTick(w)
  \/ Sigterm(w) \/ Leave(w) \/ Crash(w)

WorkerNext ==
  \E w \in Workers :
    \/ ProcessStep(w)
    \/ \E s \in Slots : PollStep(w, s) \/ JobStep(w, s)

WorkerInit(alive) ==
  /\ loop = [w \in Workers |-> IF w \in alive THEN "running" ELSE "new"]
  /\ poll = [w \in Workers |-> 1]
  /\ beating = [w \in Workers |-> FALSE]
  /\ canceled = {}
  /\ job = [w \in Workers |-> [s \in Slots |-> IdleJob]]
=============================================================================
