------------------------------ MODULE LeaseLoop ------------------------------
(***************************************************************************)
(* The loop of a worker with one slot under an unending stream of tasks:   *)
(* it chooses its types (Config), tries them in the order of its list, one *)
(* Lease after the other, executes what it leases, schedules a retry after *)
(* a failure (Backoff), and starts over at the first type.  Tasks are      *)
(* counted, not named, so that they can keep arriving for ever; no command *)
(* fails here.                                                             *)
(***************************************************************************)
EXTENDS Config, Backoff

CONSTANTS
  Bases, Caps,   \* the values RETRY_BASE_DELAY and RETRY_MAX_DELAY may have
  MaxAttempts,   \* of every task
  Backlog        \* bound: the ready tasks of a type

ASSUME LeaseLoopAssumption ==
  /\ Bases \subseteq Nat /\ Caps \subseteq Nat
  /\ {MaxAttempts, Backlog} \subseteq Nat \ {0}

VARIABLES
  base, cap,     \* the configured delays
  ready,         \* the number of ready tasks of each type of the worker
  poll,          \* the position in types that LeaseAny tries next
  leased,        \* the type the last Lease took a task from, <<>> if none
  exec,          \* the failed attempts of the task in execution, or idle
  attempts, delay   \* of the retry scheduled last, 0 once the next task runs

idle == MaxAttempts

loopVars == <<base, cap, ready, poll, leased, exec, attempts, delay>>
vars == <<configVars, loopVars>>

Init ==
  /\ ConfigInit
  /\ base \in Bases /\ cap \in Caps
  /\ ready = <<>> /\ poll = 1 /\ leased = <<>> /\ exec = idle
  /\ attempts = 0 /\ delay = 0

Load ==
  /\ Comma \/ Character \/ End
  /\ UNCHANGED loopVars

StartPolling ==
  /\ Choose
  /\ ready' = [ty \in ToSet(types') |-> 0]
  /\ UNCHANGED <<base, cap, poll, leased, exec, attempts, delay>>

\* The API, a promotion or a reclaim adds a task.
Arrive(ty) ==
  /\ ready[ty] < Backlog
  /\ ready' = [ready EXCEPT ![ty] = @ + 1]
  /\ UNCHANGED <<configVars, base, cap, poll, leased, exec, attempts, delay>>

\* The slot is free: Lease tries a type.
Polls == pc = "poll" /\ exec = idle

\* Lease returns a task, which may have failed before; the next LeaseAny starts
\* at the first type.
LeaseTask ==
  /\ Polls /\ ready[types[poll]] > 0
  /\ ready' = [ready EXCEPT ![types[poll]] = @ - 1]
  /\ leased' = types[poll]
  /\ poll' = 1
  /\ exec' \in 0 .. MaxAttempts - 1
  /\ attempts' = 0 /\ delay' = 0
  /\ UNCHANGED <<configVars, base, cap>>

\* Mutant: the worker stays at the last type.
LeaseEmptyStays ==
  /\ Polls /\ ready[types[poll]] = 0
  /\ poll' = IF poll = Len(types) THEN poll ELSE poll + 1
  /\ leased' = <<>>
  /\ UNCHANGED <<configVars, base, cap, ready, exec, attempts, delay>>

\* ErrEmpty: the next type, or after the last one a pause and the first again.
LeaseEmpty ==
  /\ Polls /\ ready[types[poll]] = 0
  /\ poll' = IF poll = Len(types) THEN 1 ELSE poll + 1
  /\ leased' = <<>>
  /\ UNCHANGED <<configVars, base, cap, ready, exec, attempts, delay>>

\* The task succeeds, or fails for the last time.
Finish ==
  /\ exec # idle
  /\ exec' = idle
  /\ UNCHANGED <<configVars, base, cap, ready, poll, leased, attempts, delay>>

\* The task fails and is retried later.
Retry ==
  /\ exec # idle /\ exec + 1 < MaxAttempts
  /\ attempts' = exec + 1
  /\ delay' \in BackoffDelay(attempts', base, cap)
  /\ exec' = idle
  /\ UNCHANGED <<configVars, base, cap, ready, poll, leased>>

Next ==
  \/ Load \/ StartPolling
  \/ \E ty \in DOMAIN ready : Arrive(ty)
  \/ LeaseTask \/ LeaseEmpty
  \/ Finish \/ Retry

Spec == Init /\ [][Next]_vars

\* The worker keeps polling and handlers return; nothing need arrive.
FairSpec == Spec /\ WF_vars(LeaseTask \/ LeaseEmpty) /\ WF_vars(Finish \/ Retry)
-----------------------------------------------------------------------------
(* Properties. *)

\* The ready tasks of the type at position k.
ReadyAt(k) == IF pc = "poll" /\ k <= Len(types) THEN ready[types[k]] ELSE 0

\* A type is served whatever arrives for the types behind it, as soon as the
\* types before it stay empty; the first type always is.  Nothing more can be
\* promised: while an earlier type has work, the later ones wait.
ServedInTurn ==
  \A k \in 1 .. MaxTypes :
    (ReadyAt(k) > 0 /\ [](\A j \in 1 .. k - 1 : ReadyAt(j) = 0))
      ~> (k <= Len(types) /\ leased = types[k])

\* A retry never comes before the base delay and never later than the doubling
\* series allows; nor later than the cap, as long as the base is not above it.
WithinBounds ==
  attempts > 0 =>
    /\ base <= delay /\ delay <= base * Pow2[attempts - 1]
    /\ base <= cap => delay <= cap

\* scheduler.go 192: "capped at max"; config.go 29: RetryMaxDelay "caps the
\* retry delay".
CappedAtMax == attempts > 0 => delay <= cap
=============================================================================
