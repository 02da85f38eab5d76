-------------------------------- MODULE Store --------------------------------
(***************************************************************************)
(* internal/store: the PostgreSQL tables, and one action per statement or  *)
(* transaction.  Of a task row the model keeps what the statements test or *)
(* the services act on: status, attempts and worker_id; of a worker row    *)
(* its status.  dead_letters[t] is the number of rows of task t.  The      *)
(* timestamps, results, error texts and the audit table task_events are    *)
(* only ever written, and are left out.                                    *)
(***************************************************************************)
EXTENDS Environment

VARIABLES tasks, workers, dead_letters

storeVars == <<tasks, workers, dead_letters>>

Row == [status: Statuses \cup {"absent"}, attempts: Nat,
        worker_id: Workers \cup {NoWorker}]

StoreTypeOK ==
  /\ tasks \in [Tasks -> Row]
  /\ workers \in [Workers -> {"absent", "alive", "dead"}]
  /\ dead_letters \in [Tasks -> Nat]

NoRow == [status |-> "absent", attempts |-> 0, worker_id |-> NoWorker]

\* INSERT of a new task.
CreateTask(t) ==
  /\ tasks[t] = NoRow
  /\ tasks' = [tasks EXCEPT ![t].status = "queued"]
  /\ UNCHANGED <<workers, dead_letters>>

\* The UPDATEs below find their row by id alone, whatever its status is.  The
\* row exists: see RowBeforeEnvelope in TaskQueue.
MarkRunning(t, w) ==
  /\ tasks' = [tasks EXCEPT ![t] = [status |-> "running",
                                    attempts |-> @.attempts + 1,
                                    worker_id |-> w]]
  /\ UNCHANGED <<workers, dead_letters>>

MarkSucceeded(t) ==
  /\ tasks' = [tasks EXCEPT ![t].status = "succeeded"]
  /\ UNCHANGED <<workers, dead_letters>>

MarkRetry(t) ==
  /\ tasks' = [tasks EXCEPT ![t].status = "retrying", ![t].worker_id = NoWorker]
  /\ UNCHANGED <<workers, dead_letters>>

\* One transaction: the UPDATE and the INSERT into dead_letters.
MarkDead(t) ==
  /\ tasks' = [tasks EXCEPT ![t].status = "dead"]
  /\ dead_letters' = [dead_letters EXCEPT ![t] = @ + 1]
  /\ UNCHANGED workers

\* Cancel and redrive look at the status as well.
MarkCanceled(t) ==
  /\ tasks' = IF tasks[t].status \in {"queued", "retrying"}
              THEN [tasks EXCEPT ![t].status = "canceled"]
              ELSE tasks
  /\ UNCHANGED <<workers, dead_letters>>

Redrive(t) ==
  /\ tasks[t].status = "dead"
  /\ tasks' = [tasks EXCEPT ![t] = [status |-> "queued", attempts |-> 0,
                                    worker_id |-> NoWorker]]
  /\ UNCHANGED <<workers, dead_letters>>

\* The rows that are running on a dead worker go back to queued.
RequeueOrphans(w) ==
  /\ tasks' = [t \in Tasks |->
       IF tasks[t].status = "running" /\ tasks[t].worker_id = w
       THEN [tasks[t] EXCEPT !.status = "queued", !.worker_id = NoWorker]
       ELSE tasks[t]]
  /\ UNCHANGED <<workers, dead_letters>>

UpsertWorker(w) ==
  /\ workers' = [workers EXCEPT ![w] = "alive"]
  /\ UNCHANGED <<tasks, dead_letters>>

\* An UPDATE: it needs a registered worker to touch.
TouchWorker(w) ==
  /\ workers' = IF workers[w] = "absent" THEN workers
                ELSE [workers EXCEPT ![w] = "alive"]
  /\ UNCHANGED <<tasks, dead_letters>>

MarkWorkerDead(w) ==
  /\ workers' = IF workers[w] = "absent" THEN workers
                ELSE [workers EXCEPT ![w] = "dead"]
  /\ UNCHANGED <<tasks, dead_letters>>

\* The registered workers.
ListWorkers == {w \in Workers : workers[w] # "absent"}

StoreInit(alive) ==
  /\ tasks = [t \in Tasks |-> NoRow]
  /\ workers = [w \in Workers |-> IF w \in alive THEN "alive" ELSE "absent"]
  /\ dead_letters = [t \in Tasks |-> 0]
=============================================================================
