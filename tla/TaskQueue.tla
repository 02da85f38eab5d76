------------------------------ MODULE TaskQueue ------------------------------
(***************************************************************************)
(* The whole system: API, workers and coordinator over the Redis and       *)
(* PostgreSQL state they share, one command at a time, with the failures   *)
(* the environment's budget allows.                                        *)
(***************************************************************************)
EXTENDS Worker, Coordinator, Api

CONSTANT Booted   \* the workers that are up and registered at the start

ASSUME TaskQueueAssumption == Booted \subseteq Workers

vars == <<queueVars, storeVars, workerVars, co, api, budget, ledger>>

Init ==
  /\ EnvironmentInit
  /\ QueueInit(Booted)
  /\ StoreInit(Booted)
  /\ WorkerInit(Booted)
  /\ ApiInit
  /\ co = CoStart

\* A heartbeat key runs out when nobody refreshes it, or a live worker stalls.
Expire(w) ==
  /\ HeartbeatExpires(w)
  /\ \/ (loop[w] # "running" \/ w \in canceled) /\ UNCHANGED budget
     \/ (loop[w] = "running" /\ w \notin canceled) /\ Spend("expire")
  /\ UNCHANGED <<storeVars, workerVars, co, api, ledger>>

TimePasses ==
  \E e \in delayed : Elapse(e) /\ UNCHANGED <<storeVars, workerVars, co, api,
                                              budget, ledger>>

CoordinatorNext ==
  /\ CoStep(HeldBy(co.worker)) \/ CoCrash
  /\ UNCHANGED <<workerVars, api>>

Next ==
  \/ WorkerNext /\ UNCHANGED <<co, api>>
  \/ CoordinatorNext
  \/ ApiNext /\ UNCHANGED <<workerVars, co>>
  \/ TimePasses
  \/ \E w \in Workers : Expire(w)

Spec == Init /\ [][Next]_vars
-----------------------------------------------------------------------------
(* Fairness.  The goroutines and the ticker run, time passes, and a handler *)
(* returns: each built-in one does, and its context ends after LEASE_TTL.   *)
(* Nothing says how a handler ends, and the environment need do nothing.    *)

WorkerFair(w) ==
  /\ WF_vars((loop[w] = "new" /\ Register(w)) /\ UNCHANGED <<co, api>>)
  /\ WF_vars((FirstHeartbeat(w) \/ Leave(w)) /\ UNCHANGED <<co, api>>)
  /\ WF_vars(BeatTick(w) /\ UNCHANGED <<co, api>>)
  /\ WF_vars(TouchTick(w) /\ UNCHANGED <<co, api>>)
  /\ WF_vars((\E s \in Slots : PollStep(w, s)) /\ UNCHANGED <<co, api>>)
  /\ \A s \in Slots : WF_vars(JobStep(w, s) /\ UNCHANGED <<co, api>>)
  /\ WF_vars(Expire(w) /\ loop[w] = "down")

FairSpec ==
  /\ Spec
  /\ \A w \in Workers : WorkerFair(w)
  /\ WF_vars(CoStep(HeldBy(co.worker)) /\ UNCHANGED <<workerVars, api>>)
  /\ \A t \in Tasks :
       WF_vars((SubmitTask(t) \/ RedriveEnvelope(t)) /\ UNCHANGED <<workerVars, co>>)
  /\ WF_vars(TimePasses)
-----------------------------------------------------------------------------
(* Where a task can be found. *)

InRedis(t) ==
  \/ t \in Ids(queue)
  \/ t \in Ids(delayed)
  \/ \E w \in Workers : t \in Ids(inflight[w])

InHand(t) == (\E w \in Workers : t \in HeldBy(w)) \/ t \in CoHolds

\* The slots in which a task is being executed.
Busy ==
  {p \in Workers \X Slots : job[p[1]][p[2]].pc \in {"leased", "running"}}

Executing(t) == {p \in Busy : job[p[1]][p[2]].env.id = t}

\* The envelopes somebody may still execute: in Redis, in a slot, in the
\* coordinator's hands.
InHashes == UNION {inflight[w] : w \in Workers}
InSlots == {job[p[1]][p[2]].env : p \in Busy}
Circulating == queue \cup delayed \cup InHashes \cup InSlots \cup co.batch

\* The in-flight record of a worker that is gone and that the coordinator
\* skips, because the row says it was dealt with.
Stranded(t) ==
  \E w \in Workers :
    /\ loop[w] = "down"
    /\ workers[w] = "dead"
    /\ t \in Ids(inflight[w])
-----------------------------------------------------------------------------
(* Properties. *)

\* Every variable has its type, every busy slot holds an envelope, and the
\* coordinator knows whom it reclaims and which task it buries.
TypeOK ==
  /\ EnvironmentTypeOK
  /\ QueueTypeOK
  /\ StoreTypeOK
  /\ WorkerTypeOK
  /\ CoordinatorTypeOK
  /\ ApiTypeOK

\* A task the client was told is accepted has an outcome, is somewhere in
\* Redis, or is in the hands of a live process, unless one of the processes
\* let go of it in a window the model names (see dropped): no interleaving,
\* failing command, stall or crash loses a task in any other way.
Accounted ==
  \A t \in Tasks :
    api[t] = "accepted" => t \in settled \cup dropped \/ InRedis(t) \/ InHand(t)

\* No envelope that can still be executed has used up its attempts, whatever
\* mixture of retries, reclaims, promotions and redrives it went through, and
\* wherever it is: a task cannot circulate forever.
AttemptsLeft == \A e \in Circulating : e.attempts < MaxAttempts(e.id)

\* Tasks are persisted before they are enqueued: every envelope has its row.
RowBeforeEnvelope == \A t \in Tasks : InRedis(t) \/ InHand(t) => tasks[t] # NoRow

\* While no live worker misses its heartbeats, no two goroutines execute the
\* same task at the same time, across retries, crashes, reclaims and redrives.
NoDoubleExecution ==
  \A t \in Tasks : Cardinality(Executing(t)) <= 1

\* Under the same conditions the row counts at most max_attempts executions
\* since the last redrive.
ExecutionsBounded == \A t \in Tasks : tasks[t].attempts <= MaxAttempts(t)

\* Under the same conditions a row that says succeeded or dead is about a task
\* that is over: no copy of it is left to be executed.
TerminalIsFinal ==
  \A t \in Tasks :
    tasks[t].status \in {"succeeded", "dead"} => t \notin Ids(Circulating)

\* While commands succeed, a row that says dead has its dead letters: one in
\* the table for the API to list and redrive, and at least as many in the
\* Redis list that the statistics count.  The list is written first, so that
\* a crash between the two leaves no row without its entry.
DeadLettersRecorded ==
  \A t \in Tasks :
    /\ tasks[t].status = "dead" => dead_letters[t] > 0
    /\ dead_letters[t] <= dlq[t]

\* The order the queue promises: the clamped priority first, then the time.
MoreUrgent(x, e) ==
  LET band(y) == LET p == Request[y.id].priority
                 IN IF p \in 0 .. 9 THEN p ELSE IF p < 0 THEN 0 ELSE 9
  IN \/ band(x) < band(e)
     \/ band(x) = band(e) /\ x.enqueued_at < e.enqueued_at

\* A lease takes the most urgent ready task of its type, the earliest one
\* among equals, also when retries, reclaims and redrives came in between: the
\* packed score orders members like the pair it packs.
LeasesMostUrgent ==
  [][\A w \in Workers : \A e \in (inflight'[w] \ inflight[w]) \cap queue :
       ~\E x \in OfType(queue, TypeOf(e.id)) : MoreUrgent(x, e)]_vars

\* While live workers keep their heartbeats and commands succeed, every
\* accepted task gets its outcome, also when the worker executing it is
\* killed, unless it is killed in one of the windows that drop a task.
EventuallySettled ==
  \A t \in Tasks : api[t] = "accepted" ~> t \in settled \cup dropped
-----------------------------------------------------------------------------
(* What the documentation says and the code does not do. *)

\* Every worker that is gone has been dealt with: its row no longer says alive.
Reconciled == \A w \in Workers : loop[w] = "down" => workers[w] # "alive"

\* README: zero data loss.  Nothing is asked while the coordinator has still to
\* deal with a dead worker.
ZeroDataLoss ==
  Reconciled =>
    \A t \in Tasks : api[t] = "accepted" => t \in settled \/ InRedis(t) \/ InHand(t)

\* README: when a worker's heartbeat is gone its in-flight tasks are reclaimed.
NeverStranded == \A t \in Tasks : ~Stranded(t)

\* store.go: MarkRetry schedules the task for a future retry attempt.  A row
\* may be late by the commands a goroutine has still to send about its task.
RetryingIsScheduled ==
  \A t \in Tasks : tasks[t].status = "retrying" =>
    \/ InRedis(t) \/ InHand(t)
    \/ \E w \in Workers, s \in Slots : job[w][s].env.id = t
=============================================================================
