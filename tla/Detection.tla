------------------------------ MODULE Detection ------------------------------
(***************************************************************************)
(* Failure detection in time: the heartbeat loop of one worker, its key in *)
(* Redis, its row, and the sweep of the coordinator, with a discrete       *)
(* clock.  Timers count down, so the state stays finite however long the   *)
(* system runs.                                                            *)
(*                                                                         *)
(* A command takes at most Latency.  SET and UPDATE take effect somewhere  *)
(* between being sent and being answered, even after their sender was      *)
(* killed, or fail.  A Go ticker buffers one tick and drops the others     *)
(* while its goroutine is busy.  Goroutines themselves take no time.       *)
(***************************************************************************)
EXTENDS Integers

CONSTANTS
  Interval,   \* HEARTBEAT_INTERVAL
  TTL,        \* HEARTBEAT_TTL
  Sweep,      \* COORDINATOR_SWEEP_INTERVAL
  Latency,    \* how long a command of the heartbeat loop may take
  Work,       \* how long a tick of the coordinator may take
  Misses,     \* how many heartbeats may fail in a row
  Skips       \* how many looks of the coordinator may fail in a row

ASSUME DetectionAssumption ==
  /\ {Interval, TTL, Sweep} \subseteq Nat \ {0}
  /\ {Latency, Work, Misses, Skips} \subseteq Nat

VARIABLES
  key,         \* what is left of the key's TTL, 0 if it does not exist
  next,        \* time to the next tick of the heartbeat ticker
  ticked,      \* a tick waits in the ticker's channel
  loop,        \* "wait"; "set" sent, "reply" due; "touch" sent, "touched"; "dead"
  busy,        \* how long the current command has taken
  missed,      \* how many SETs have failed since the last one that did not
  landing,     \* the command of the killed worker that may still take effect
  cnext, cticked,    \* the ticker of the coordinator
  sweep,       \* its tick: "idle", has still to "look" at the worker, or the "rest"
  cbusy,       \* how long the tick has taken
  skipped,     \* how many looks have failed since the last one that did not
  since,       \* how long the worker has been dead, up to Bound
  reclaimed    \* reclaimDead found the worker dead, and its row says so

vars == <<key, next, ticked, loop, busy, missed, landing, cnext, cticked, sweep, cbusy,
          skipped, since, reclaimed>>

beatVars == <<next, ticked, loop, busy, missed, landing>>
sweepVars == <<cnext, cticked, sweep, cbusy, skipped>>

Up == loop # "dead"

Longest(a, b) == IF a >= b THEN a ELSE b

\* How far apart two heartbeats are sent at most: an interval, or a SET and an
\* UPDATE that outlast it.
Gap == Longest(Interval, 2 * Latency)

\* How far apart two ticks of the coordinator begin at most.
Period == Longest(Sweep, Work)

\* What the TTL must leave room for: the first key waits for its reply, an
\* interval and the next SET (or, with slow commands, any key for a reply, an
\* UPDATE and the next SET), and every failing SET costs a further Gap.
Timely == Longest(Interval, Latency) + 2 * Latency + Misses * Gap < TTL

\* Killed at the worst moment, a SET lands Latency later, the key lasts TTL,
\* the sweep has just missed it, the next ones fail, and the one after takes
\* its time.
Bound == Latency + TTL + Work + (Skips + 1) * Period

\* Every variable has its type, and no timer leaves its range.
DetectionTypeOK ==
  /\ key \in 0 .. TTL
  /\ next \in 1 .. Interval
  /\ ticked \in BOOLEAN
  /\ loop \in {"wait", "set", "reply", "touch", "touched", "dead"}
  /\ busy \in 0 .. Latency
  /\ missed \in 0 .. Misses
  /\ landing \in {"nothing", "set", "touch"}
  /\ cnext \in 1 .. Sweep
  /\ cticked \in BOOLEAN
  /\ sweep \in {"idle", "look", "rest"}
  /\ cbusy \in 0 .. Work
  /\ skipped \in 0 .. Skips
  /\ since \in 0 .. Bound
  /\ reclaimed \in BOOLEAN

\* The first Heartbeat was answered, up to Latency after it took effect, and
\* the ticker starts.
Init ==
  /\ key \in Longest(TTL - Latency, 0) .. TTL
  /\ next = Interval /\ ticked = FALSE
  /\ loop = "wait" /\ busy = 0 /\ missed = 0 /\ landing = "nothing"
  /\ cnext \in 1 .. Sweep /\ cticked = FALSE
  /\ sweep = "idle" /\ cbusy = 0 /\ skipped = 0
  /\ since = 0 /\ reclaimed = FALSE
-----------------------------------------------------------------------------
(* heartbeatLoop *)

Beat ==
  /\ loop = "wait" /\ ticked
  /\ ticked' = FALSE
  /\ loop' = "set" /\ busy' = 0
  /\ UNCHANGED <<key, next, missed, landing, sweepVars, since, reclaimed>>

\* SET hb:{worker} takes effect and gives the key the time ttl.
SetTo(ttl) ==
  /\ loop = "set" \/ landing = "set"
  /\ key' = ttl
  /\ missed' = 0
  /\ loop' = IF loop = "set" THEN "reply" ELSE loop
  /\ landing' = "nothing"
  /\ UNCHANGED <<next, ticked, busy, sweepVars, since, reclaimed>>

\* Mutant: the interval is passed for the TTL.
SetKeyInterval == SetTo(Interval)

\* Mutant: the key gets the TTL and an interval.
SetKeyLong == SetTo(TTL + Interval)

SetKey == SetTo(TTL)

\* The SET fails; the error is logged.
SetFails ==
  /\ loop = "set" /\ missed < Misses
  /\ missed' = missed + 1
  /\ loop' = "reply"
  /\ UNCHANGED <<key, next, ticked, busy, landing, sweepVars, since, reclaimed>>

\* The reply arrives; the UPDATE of TouchWorker is sent.
Touch ==
  /\ loop = "reply"
  /\ loop' = "touch" /\ busy' = 0
  /\ UNCHANGED <<key, next, ticked, missed, landing, sweepVars, since, reclaimed>>

\* The UPDATE takes effect: the row says alive again.
TouchRow ==
  /\ loop = "touch" \/ landing = "touch"
  /\ reclaimed' = FALSE
  /\ loop' = IF loop = "touch" THEN "touched" ELSE loop
  /\ landing' = "nothing"
  /\ UNCHANGED <<key, next, ticked, busy, missed, sweepVars, since>>

\* The UPDATE fails; the error is ignored.
TouchFails ==
  /\ loop = "touch"
  /\ loop' = "touched"
  /\ UNCHANGED <<key, next, ticked, busy, missed, landing, sweepVars, since, reclaimed>>

TouchDone ==
  /\ loop = "touched"
  /\ loop' = "wait" /\ busy' = 0
  /\ UNCHANGED <<key, next, ticked, missed, landing, sweepVars, since, reclaimed>>

Crash ==
  /\ Up
  /\ loop' = "dead"
  /\ landing' \in {"nothing"} \cup ({loop} \cap {"set", "touch"})
  /\ UNCHANGED <<key, next, ticked, busy, missed, sweepVars, since, reclaimed>>
-----------------------------------------------------------------------------
(* The coordinator. *)

StartSweep ==
  /\ sweep = "idle" /\ cticked
  /\ sweep' = "look" /\ cticked' = FALSE /\ cbusy' = 0
  /\ UNCHANGED <<key, beatVars, cnext, skipped, since, reclaimed>>

\* reclaimDead gets to the worker: it skips a row that says dead, otherwise
\* IsAlive decides.
Look ==
  /\ sweep = "look"
  /\ sweep' = "rest" /\ skipped' = 0
  /\ reclaimed' = (reclaimed \/ key = 0)
  /\ UNCHANGED <<key, beatVars, cnext, cticked, cbusy, since>>

\* ListWorkers, IsAlive or ReclaimInflight fails and the worker is passed over
\* in this tick, or MarkWorkerDead fails: its row does not change.
LookFails ==
  /\ sweep = "look" /\ skipped < Skips
  /\ sweep' = "rest" /\ skipped' = skipped + 1
  /\ UNCHANGED <<key, beatVars, cnext, cticked, cbusy, since, reclaimed>>

SweepDone ==
  /\ sweep = "rest"
  /\ sweep' = "idle" /\ cbusy' = 0
  /\ UNCHANGED <<key, beatVars, cnext, cticked, skipped, since, reclaimed>>
-----------------------------------------------------------------------------
InCommand == loop \in {"set", "reply", "touch", "touched"} \/ landing # "nothing"

\* A unit of time passes: no goroutine has anything to do, and no command is
\* overdue.
Tick ==
  /\ ~(loop = "wait" /\ ticked) /\ ~(sweep = "idle" /\ cticked)
  /\ InCommand => busy < Latency
  /\ sweep # "idle" => cbusy < Work
  /\ key' = Longest(key - 1, 0)
  /\ next' = IF next = 1 THEN Interval ELSE next - 1
  /\ ticked' = (Up /\ (ticked \/ next = 1))
  /\ busy' = IF InCommand THEN busy + 1 ELSE busy
  /\ cnext' = IF cnext = 1 THEN Sweep ELSE cnext - 1
  /\ cticked' = (cticked \/ cnext = 1)
  /\ cbusy' = IF sweep # "idle" THEN cbusy + 1 ELSE cbusy
  /\ since' = IF Up \/ since = Bound THEN since ELSE since + 1
  /\ UNCHANGED <<loop, missed, landing, sweep, skipped, reclaimed>>

Next ==
  \/ Beat \/ SetKey \/ SetFails \/ Touch \/ TouchRow \/ TouchFails \/ TouchDone \/ Crash
  \/ StartSweep \/ Look \/ LookFails \/ SweepDone
  \/ Tick

Spec == Init /\ [][Next]_vars
-----------------------------------------------------------------------------
(* Properties. *)

\* When the TTL leaves room for them (Timely), neither slow commands nor up to
\* Misses failing heartbeats in a row make a live worker look dead: its key is
\* there at every moment, also when a slow SQL command delays the next heartbeat
\* and ticks are dropped.
NoFalseSuspicion == Up => key > 0 /\ ~reclaimed

\* A worker that died is found, and its row says dead, within Bound: the TTL,
\* the sweeps that pass and fail and what the commands take.
RecoveredInTime == since >= Bound => reclaimed

\* README.md 12: "target recovery < 5s", in seconds.
Target == 5

\* README.md 171-172 says that the coordinator "detects the dead worker within
\* ~5s": a worker that has been dead for that long is found.
RecoveredWithinTarget == since >= Target => reclaimed
=============================================================================
