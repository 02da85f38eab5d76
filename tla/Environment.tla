----------------------------- MODULE Environment -----------------------------
(***************************************************************************)
(* What happens to the services from outside, and the books the model      *)
(* keeps about the fate of every task.                                     *)
(*                                                                         *)
(* budget bounds the events no service decides on, one counter per kind:   *)
(*   crash    a worker or coordinator process is killed                    *)
(*   restart  a stopped worker comes back under the same WORKER_ID         *)
(*   expire   a live worker stalls for longer than its heartbeat TTL       *)
(*   error    a Redis or PostgreSQL command returns an error               *)
(*   stop     a worker receives SIGTERM                                    *)
(*   cancel   a client cancels a task                                      *)
(*   redrive  an operator redrives a dead task                             *)
(*                                                                         *)
(* settled and dropped are history variables, no service reads them.       *)
(* settled: the handler returned success, or the task was dead-lettered.   *)
(* dropped: a process gave up the last record of the task it knew of.      *)
(***************************************************************************)
EXTENDS Task

CONSTANTS
  Workers,      \* worker ids
  NoWorker,     \* SQL's NULL in a worker_id column
  Budget        \* how often each kind of event may happen

Kinds == {"crash", "restart", "expire", "error", "stop", "cancel", "redrive"}

ASSUME EnvironmentAssumption ==
  /\ NoWorker \notin Workers
  /\ Budget \in [Kinds -> Nat]

VARIABLES budget, settled, dropped

ledger == <<settled, dropped>>

EnvironmentTypeOK ==
  /\ budget \in [Kinds -> Nat]
  /\ settled \subseteq Tasks
  /\ dropped \subseteq Tasks

Spend(k) ==
  /\ budget[k] > 0
  /\ budget' = [budget EXCEPT ![k] = @ - 1]

EnvironmentInit ==
  /\ budget = Budget
  /\ settled = {}
  /\ dropped = {}
=============================================================================
