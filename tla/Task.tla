-------------------------------- MODULE Task --------------------------------
(***************************************************************************)
(* The task model shared by every service (internal/task, and the Envelope *)
(* of internal/queue).  A task is known by its id.  Its type, priority and *)
(* attempt limit are fixed by the create request and are therefore         *)
(* constants of the id; the payload and the result are carried around but  *)
(* never looked at, and are left out.  Requests that createTask refuses    *)
(* with a 400 (bad JSON, empty type) change nothing and are not tasks.     *)
(***************************************************************************)
EXTENDS Integers

CONSTANTS
  Tasks,        \* the ids of the tasks clients submit
  NoTask,       \* the zero UUID
  Types,        \* the task types
  Request,      \* what the client asked for: type, priority, max_attempts
  Handled       \* the types with a handler in the worker's registry

ASSUME TaskAssumption ==
  /\ NoTask \notin Tasks
  /\ Request \in [Tasks -> [type: Types, priority: Int, max_attempts: Int]]
  /\ Handled \subseteq Types

Statuses == {"queued", "running", "succeeded", "failed", "retrying", "dead",
             "canceled"}

TypeOf(t) == Request[t].type

\* A request without a positive max_attempts gets three attempts.
MaxAttempts(t) ==
  IF Request[t].max_attempts <= 0 THEN 3 ELSE Request[t].max_attempts

\* The handler registry: Lookup returns nil for a type nobody registered.
Lookup(ty) == ty \in Handled

\* The value stored in the Redis structures.  enqueued_at is 0 until the
\* envelope is stamped.
Envelope == [id: Tasks, attempts: Nat, enqueued_at: Nat]

NoEnvelope == [id |-> NoTask, attempts |-> 0, enqueued_at |-> 0]

\* The envelope the API builds from a new or a redriven row.
NewEnvelope(t) == [id |-> t, attempts |-> 0, enqueued_at |-> 0]

Ids(envs) == {e.id : e \in envs}
=============================================================================
