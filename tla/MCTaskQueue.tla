----------------------------- MODULE MCTaskQueue -----------------------------
(***************************************************************************)
(* Small instances of TaskQueue for TLC.  Each run picks its tasks, their  *)
(* requests, the workers that are up at the start, and the budget of what  *)
(* may go wrong.                                                           *)
(***************************************************************************)
EXTENDS TaskRefinement, TLC

CONSTANTS t1, t2

\* Budgets: each of the kinds at most once.
Once(kinds) == [k \in Kinds |-> IF k \in kinds THEN 1 ELSE 0]

Nothing == Once({})
OneCrash == Once({"crash"})
OneStop == Once({"stop"})
Operated == Once({"crash", "redrive"})
Counted == Once({"crash", "cancel"})
Faults == Once({"crash", "restart", "expire", "error", "stop"})

\* Requests.
Ask(type, priority, max) ==
  [type |-> type, priority |-> priority, max_attempts |-> max]

OneAttempt == [t \in Tasks |-> Ask("a", 5, 1)]
TwoAttempts == [t \in Tasks |-> Ask("a", 5, 2)]

\* One task that may be retried, one of a type no worker has a handler for.
Mixed == [t \in Tasks |-> IF t = t1 THEN Ask("a", 5, 2) ELSE Ask("b", 5, 1)]

\* One task that may be retried, one that may not; both priorities are clamped
\* to the same band.
Pair == [t \in Tasks |-> IF t = t1 THEN Ask("a", 12, 2) ELSE Ask("a", 9, 1)]

OneType == <<"a">>
TwoTypes == <<"b", "a">>

WorkerSymmetry == Permutations(Workers)
=============================================================================
