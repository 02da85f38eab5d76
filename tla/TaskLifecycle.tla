---------------------------- MODULE TaskLifecycle ----------------------------
(***************************************************************************)
(* What the system promises about one task, without Redis, PostgreSQL,     *)
(* processes or messages.  A task is in one phase at a time and carries    *)
(* the number of attempts that failed:                                     *)
(*   none       not submitted                                              *)
(*   persisted  written down, or redriven, and not to be executed yet      *)
(*   ready      may be taken                                               *)
(*   taken      somebody has it; an attempt is under way                   *)
(*   failed     the attempt failed, what comes next is not decided         *)
(*   waiting    for its backoff to pass                                    *)
(*   ripe       its backoff has passed                                     *)
(*   settled    it succeeded or was dead-lettered                          *)
(*   lost       the system dropped it                                      *)
(* TaskRefinement shows that the whole system implements this.             *)
(***************************************************************************)
EXTENDS Naturals

CONSTANTS
  Tasks,
  Limit,      \* the attempts each task has
  Handleable  \* the tasks a worker has a handler for

VARIABLES phase, attempts

vars == <<phase, attempts>>

\* Every task of ts is in a phase of from and goes to phase to.
MoveAll(ts, from, to) ==
  /\ \A t \in ts : phase[t] \in from
  /\ phase' = [t \in Tasks |-> IF t \in ts THEN to ELSE phase[t]]

\* Task t goes from one phase to another and has n failed attempts.
Move(t, from, to, n) ==
  /\ MoveAll({t}, {from}, to)
  /\ attempts' = [attempts EXCEPT ![t] = n]

Persist(t) == Move(t, "none", "persisted", 0)
Submit(t)  == Move(t, "persisted", "ready", 0)
Take(t)    == Move(t, "ready", "taken", attempts[t])
Succeed(t) == t \in Handleable /\ Move(t, "taken", "settled", 0)

\* A failing handler costs an attempt, a missing one does not.
Fail(t) ==
  Move(t, "taken", "failed", attempts[t] + IF t \in Handleable THEN 1 ELSE 0)

Retry(t) ==
  /\ t \in Handleable /\ attempts[t] < Limit[t]
  /\ Move(t, "failed", "waiting", attempts[t])

Bury(t) ==
  /\ t \notin Handleable \/ attempts[t] >= Limit[t]
  /\ Move(t, "failed", "settled", 0)

\* Whoever had the task is dead: that was an attempt, too.
Reassign(t) ==
  IF attempts[t] + 1 < Limit[t] THEN Move(t, "taken", "ready", attempts[t] + 1)
                                ELSE Move(t, "taken", "settled", 0)

Ripen(t) == Move(t, "waiting", "ripe", attempts[t])

\* The tasks whose backoff has passed become ready, several at a time.
Promote(ts) == MoveAll(ts, {"ripe"}, "ready") /\ UNCHANGED attempts

\* A process dies with the tasks it has: only such a task can be lost.
Lose(ts) ==
  /\ MoveAll(ts, {"taken", "failed"}, "lost")
  /\ attempts' = [t \in Tasks |-> IF t \in ts THEN 0 ELSE attempts[t]]

Redrive(t) == Move(t, "settled", "persisted", 0)

Init ==
  /\ phase = [t \in Tasks |-> "none"]
  /\ attempts = [t \in Tasks |-> 0]

\* The tasks a step is about: each action changes their phase.
Moved == {t \in Tasks : phase'[t] # phase[t]}

Next ==
  \/ \E t \in Moved :
       \/ Persist(t) \/ Submit(t) \/ Take(t)
       \/ Succeed(t) \/ Fail(t) \/ Retry(t) \/ Bury(t)
       \/ Ripen(t) \/ Reassign(t) \/ Redrive(t)
  \/ Promote(Moved) \/ Lose(Moved)

Spec == Init /\ [][Next]_vars
=============================================================================
