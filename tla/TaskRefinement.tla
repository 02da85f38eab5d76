--------------------------- MODULE TaskRefinement ---------------------------
(***************************************************************************)
(* The system implements TaskLifecycle as long as no live worker misses    *)
(* its heartbeats and no command fails: then a task has one copy at a      *)
(* time, and the refinement mapping reads its phase off the place of that  *)
(* copy.  A crash, a reclaim command by command, a promotion in two        *)
(* commands and the rows that lag behind are then invisible.               *)
(***************************************************************************)
EXTENDS TaskQueue

\* Where the copy of a task is.
Has(envs, t) == \E e \in envs : e.id = t

InSlot(pcs, t) ==
  \E w \in Workers, s \in Slots : job[w][s].pc \in pcs /\ job[w][s].env.id = t

Taken(t) ==
  \/ \E w \in Workers : Has(inflight[w], t)
  \/ InSlot({"leased", "running"}, t)
  \/ co.pc \in {"requeue", "mark"} /\ Has(co.batch, t)

PhaseOf(t) ==
  CASE Has(queue, t) -> "ready"
    [] Has(due, t) -> "ripe"
    [] Has(delayed \ due, t) -> "waiting"
    [] InSlot({"nacked"}, t) -> "failed"
    [] Taken(t) -> "taken"
    [] t \in settled -> "settled"
    [] t \in dropped -> "lost"
    [] api[t] \in {"inserted", "redriven"} -> "persisted"
    [] OTHER -> "none"

\* The attempts the copy carries; a slot that has passed it on has none.
Copies ==
  queue \cup delayed \cup InHashes
    \cup {job[p[1]][p[2]].env : p \in {x \in Workers \X Slots :
            job[x[1]][x[2]].pc \in {"leased", "running", "nacked"}}}
    \cup (IF co.pc \in {"requeue", "mark"} THEN co.batch ELSE {})

AttemptsOf(t) ==
  IF Has(Copies, t) THEN (CHOOSE e \in Copies : e.id = t).attempts ELSE 0

Lifecycle == INSTANCE TaskLifecycle WITH
  Limit <- [t \in Tasks |-> MaxAttempts(t)],
  Handleable <- {t \in Tasks : Lookup(TypeOf(t))},
  phase <- [t \in Tasks |-> PhaseOf(t)],
  attempts <- [t \in Tasks |-> AttemptsOf(t)]

\* Every step of the API, the workers and the coordinator is one step in the
\* life of one task, or none: a task is never in two places, an attempt is
\* counted once and only once by whoever finds out that it failed, nothing is
\* executed before its backoff has passed, and an outcome is final until the
\* task is redriven.
ImplementsLifecycle == Lifecycle!Spec
=============================================================================
