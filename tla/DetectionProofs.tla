--------------------------- MODULE DetectionProofs ---------------------------
(***************************************************************************)
(* Theorems about Detection, for all durations: a dead worker is found     *)
(* within Bound, and a live one is never taken for dead, provided that the *)
(* TTL leaves room for what commands may take (Timely).                    *)
(***************************************************************************)
EXTENDS Detection, TLAPS

\* What the SETs that failed since the last heartbeat have cost, and what the
\* looks may cost that may still fail.
Lost == missed * Gap
ToFail == (Skips - skipped) * Period

\* How old the key may be when a heartbeat is sent: one that waited for the
\* first tick, or for a reply and an UPDATE, and for the SETs that failed since.
Oldest == Longest(Interval, Latency) + Latency + Lost

\* How old it may have been when the last SET was sent; that one may have made
\* it new.
Sent == IF missed = 0 THEN 0 ELSE Oldest - Gap

\* While the worker lives nobody counts the time of its death.
Counted == Up => landing = "nothing" /\ since = 0

\* How long the key will last at least, phase by phase of the heartbeat loop.
\* While no tick waits, the ticker tells how long ago the SET was sent.
KeyFresh ==
  /\ Up => ~reclaimed
  /\ loop \in {"wait", "reply", "touch", "touched"} /\ ~ticked =>
       key >= TTL - Latency - Interval + next - Lost
  /\ loop = "set" /\ ~ticked => busy <= Interval - next
  /\ loop = "wait" => key >= TTL - Oldest
  /\ loop = "set" => key >= TTL - Oldest - busy
  /\ loop = "reply" => key >= TTL - Sent - busy
  /\ loop \in {"touch", "touched"} => key >= TTL - Sent - Latency - busy

\* How long until the coordinator looks at the worker at the latest.
ToTick == IF cticked THEN 0 ELSE cnext
ToLook ==
  CASE sweep = "look" -> Work - cbusy
    [] sweep = "rest" -> Longest(Work - cbusy, ToTick) + Work
    [] sweep = "idle" -> ToTick + Work

\* How long, with the looks that may still fail.
ToFind == ToLook + ToFail

\* The coordinator's ticker has counted the time of the tick.
SweepTimed == sweep # "idle" /\ ~cticked => cnext + cbusy <= Sweep

\* How long the worker can have been dead: its last command may be on the way,
\* its key may last, or the next look that does not fail finds it dead.
DeadFor ==
  ~Up =>
    /\ landing # "nothing" => since <= busy
    /\ ~reclaimed /\ landing # "set" =>
         IF key > 0 THEN since <= Latency + TTL - key ELSE since < Bound - ToFind

\* What is always so, and what the TTL must leave room for.
Dying == DetectionTypeOK /\ Counted /\ SweepTimed /\ DeadFor
Timed == Dying /\ KeyFresh

\* What the assumptions on the durations amount to in the arithmetic below.
LEMMA Durations ==
  /\ Interval \in Nat /\ Interval > 0
  /\ TTL \in Nat /\ TTL > 0
  /\ Sweep \in Nat /\ Sweep > 0
  /\ Latency \in Nat /\ Work \in Nat
  /\ Misses \in Nat /\ Skips \in Nat
  /\ Gap \in Nat /\ Gap >= Interval /\ Gap >= 2 * Latency
  /\ Period \in Nat /\ Period >= Sweep /\ Period >= Work
BY DetectionAssumption DEF Gap, Period, Longest

\* The bound, taken apart: the products stay closed below.
LEMMA BoundParts ==
  /\ Skips * Period \in Nat
  /\ Bound \in Nat
  /\ Bound = Latency + TTL + Work + Period + Skips * Period
<1>1. Skips * Period \in Nat /\ (Skips + 1) * Period = Period + Skips * Period
  BY Durations
<1> QED
  BY <1>1, Durations DEF Bound

\* Failing heartbeats cost at most Misses gaps.
LEMMA LostBounds ==
  ASSUME DetectionTypeOK
  PROVE  /\ Lost \in Nat /\ Misses * Gap \in Nat
         /\ Lost <= Misses * Gap
         /\ missed = 0 => Lost = 0
<1>1. missed \in Nat /\ Misses - missed \in Nat
  BY Durations DEF DetectionTypeOK
<1>2. PICK more \in Nat : Misses = missed + more
  BY <1>1, Durations
<1>3. missed * Gap \in Nat /\ more * Gap \in Nat /\ Misses * Gap = missed * Gap + more * Gap
  BY <1>1, <1>2, Durations
<1> QED
  BY <1>1, <1>3, Durations DEF Lost

\* Looks that fail cost at most Skips periods.
LEMMA ToFailBounds ==
  ASSUME DetectionTypeOK
  PROVE  ToFail \in Nat /\ ToFail <= Skips * Period
<1>1. skipped \in Nat /\ Skips - skipped \in Nat
  BY Durations DEF DetectionTypeOK
<1>2. PICK more \in Nat : Skips = skipped + more /\ Skips - skipped = more
  BY <1>1, Durations
<1>3. skipped * Period \in Nat /\ more * Period \in Nat
      /\ Skips * Period = skipped * Period + more * Period
  BY <1>1, <1>2, Durations
<1> QED
  BY <1>2, <1>3 DEF ToFail
-----------------------------------------------------------------------------
(* Types and ranges. *)

\* The first state has its types.
LEMMA TypeInit == ASSUME Init PROVE DetectionTypeOK
<1>1. {ticked, cticked, reclaimed} \subseteq BOOLEAN
  BY Zenon DEF Init
<1> QED
  BY <1>1, Durations, BoundParts DEF Init, Longest, DetectionTypeOK

\* No action takes a timer out of its range (scheduler.go 111, 223).
LEMMA TypeStep == ASSUME DetectionTypeOK, Next PROVE DetectionTypeOK'
<1> USE Durations, BoundParts DEF DetectionTypeOK, beatVars, sweepVars
<1>1. CASE Beat
  <2>1. ticked' \in BOOLEAN
    BY <1>1, Zenon DEF Beat
  <2> QED
    BY <1>1, <2>1 DEF Beat
<1>2. CASE SetKey
  BY <1>2 DEF SetKey, SetTo
<1>3. CASE SetFails
  BY <1>3 DEF SetFails
<1>4. CASE Touch
  BY <1>4 DEF Touch
<1>5. CASE TouchRow
  <2>1. reclaimed' \in BOOLEAN
    BY <1>5, Zenon DEF TouchRow
  <2> QED
    BY <1>5, <2>1 DEF TouchRow
<1>6. CASE TouchFails
  BY <1>6 DEF TouchFails
<1>7. CASE TouchDone
  BY <1>7 DEF TouchDone
<1>8. CASE Crash
  BY <1>8 DEF Crash
<1>9. CASE StartSweep
  <2>1. cticked' \in BOOLEAN
    BY <1>9, Zenon DEF StartSweep
  <2> QED
    BY <1>9, <2>1 DEF StartSweep
<1>10. CASE Look
  <2>1. reclaimed' \in BOOLEAN
    BY <1>10, Zenon DEF Look
  <2> QED
    BY <1>10, <2>1 DEF Look
<1>11. CASE LookFails
  BY <1>11 DEF LookFails
<1>12. CASE SweepDone
  BY <1>12 DEF SweepDone
<1>13. CASE Tick
  BY <1>13 DEF Tick, InCommand, Longest
<1> QED
  BY <1>1, <1>2, <1>3, <1>4, <1>5, <1>6, <1>7, <1>8, <1>9, <1>10, <1>11, <1>12, <1>13
     DEF Next
-----------------------------------------------------------------------------
(* A dead worker: Dying, whatever the durations. *)

\* The range of ToFind.
LEMMA ToFindBounds ==
  ASSUME DetectionTypeOK
  PROVE  /\ ToLook \in Nat /\ ToLook <= Period + Work
         /\ ToFind \in Nat /\ ToFind <= Period + Work + Skips * Period
<1>1. ToTick \in Nat /\ ToTick <= Sweep
  BY Durations DEF DetectionTypeOK, ToTick
<1>2. ToLook \in Nat /\ ToLook <= Period + Work
  BY <1>1, Durations DEF DetectionTypeOK, ToLook, Longest
<1> QED
  BY <1>2, ToFailBounds, BoundParts, Durations DEF ToFind

\* The same after a step.
Findable == ToFind \in Nat /\ ToFail \in Nat /\ ToLook \in Nat
LEMMA ToFindNext == DetectionTypeOK' => Findable'
<1>1. DetectionTypeOK => Findable
  BY ToFindBounds, ToFailBounds DEF Findable
<1> QED
  BY <1>1, PTL

\* Dying holds when the worker has just written its first heartbeat.
LEMMA DyingInit == ASSUME Init PROVE Dying
<1>1. DetectionTypeOK
  BY TypeInit
<1> QED
  BY <1>1 DEF Dying, Init, Counted, SweepTimed, DeadFor, Up

\* The heartbeat loop (scheduler.go 111-127) and its death: a command of the
\* dead worker that takes effect does so within Latency.
LEMMA BeatDying ==
  ASSUME Dying,
         Beat \/ SetKey \/ SetFails \/ Touch \/ TouchRow \/ TouchFails \/ TouchDone \/ Crash
  PROVE  Dying'
<1>1. DetectionTypeOK /\ DetectionTypeOK'
  BY TypeStep DEF Dying, Next
<1>2. UNCHANGED <<sweepVars, since>>
  BY DEF Beat, SetKey, SetTo, SetFails, Touch, TouchRow, TouchFails, TouchDone, Crash
<1>3. SweepTimed' /\ ToFind' = ToFind
  BY <1>2 DEF Dying, sweepVars, ToFind, ToLook, ToTick, ToFail, SweepTimed
<1>4. ToFind \in Nat /\ ToFind <= Period + Work + Skips * Period
  BY <1>1, ToFindBounds
<1>5. Counted'
  BY <1>2 DEF Dying, Counted, Up, Beat, SetKey, SetTo, SetFails, Touch, TouchRow,
              TouchFails, TouchDone, Crash
<1>6. DeadFor'
  <2>1. CASE Beat \/ SetFails \/ Touch \/ TouchFails \/ TouchDone
    BY <2>1 DEF DeadFor, Up, Beat, SetFails, Touch, TouchFails, TouchDone
  <2>2. CASE SetKey
    <3> SUFFICES ASSUME ~Up' PROVE DeadFor'
      BY DEF DeadFor
    <3>1. ~Up /\ landing = "set" /\ landing' = "nothing" /\ key' = TTL
      BY <2>2 DEF SetKey, SetTo, Up
    <3>2. since <= Latency /\ since' = since /\ since \in Int
      BY <1>1, <1>2, <3>1, Durations, BoundParts DEF Dying, DeadFor, DetectionTypeOK
    <3>3. since' <= Latency + TTL - key'
      BY <3>1, <3>2, Durations
    <3> QED
      BY <3>1, <3>3, Durations DEF DeadFor
  <2>3. CASE TouchRow
    <3> SUFFICES ASSUME ~Up' PROVE DeadFor'
      BY DEF DeadFor
    <3>1. ~Up /\ landing = "touch" /\ landing' = "nothing" /\ key' = key
      BY <2>3 DEF TouchRow, Up
    <3>2. since <= Latency /\ since' = since /\ since \in Int /\ key \in Int /\ key <= TTL
      BY <1>1, <1>2, <3>1, Durations, BoundParts DEF Dying, DeadFor, DetectionTypeOK
    <3>3. since' <= Latency + TTL - key'
      BY <3>1, <3>2, Durations
    <3>4. since < Bound - ToFind
      BY <3>2, <1>4, BoundParts, Durations
    <3> QED
      BY <3>1, <3>2, <3>3, <3>4, <1>3 DEF DeadFor
  <2>4. CASE Crash
    <3>1. since = 0 /\ since' = 0 /\ key' = key /\ busy' = busy
      BY <2>4, <1>2 DEF Dying, Counted, Crash
    <3>2. key \in Int /\ key <= TTL /\ busy >= 0
      BY <1>1, Durations DEF DetectionTypeOK
    <3>3. 0 <= Latency + TTL - key /\ 0 < Bound - ToFind
      BY <3>2, <1>4, BoundParts, Durations
    <3> QED
      BY <3>1, <3>2, <3>3, <1>3 DEF DeadFor
  <2> QED
    BY <2>1, <2>2, <2>3, <2>4
<1> QED
  BY <1>1, <1>3, <1>5, <1>6 DEF Dying

\* The coordinator's tick (scheduler.go 223-235, 292-310): a look that fails
\* puts the next one off by a period at most.
LEMMA SweepDying ==
  ASSUME Dying, StartSweep \/ Look \/ LookFails \/ SweepDone
  PROVE  Dying'
<1>1. DetectionTypeOK /\ DetectionTypeOK'
  BY TypeStep DEF Dying, Next
<1>2. UNCHANGED <<key, beatVars, since>>
  BY DEF StartSweep, Look, LookFails, SweepDone
<1>3. Counted'
  BY <1>2 DEF Dying, Counted, Up, beatVars
<1>4. /\ cnext \in Nat /\ cnext <= Sweep /\ cnext > 0
      /\ cbusy \in Nat /\ cbusy <= Work /\ cnext' = cnext
  BY <1>1, Durations DEF DetectionTypeOK, StartSweep, Look, LookFails, SweepDone
<1>5. SweepTimed'
  BY <1>4, Durations DEF Dying, SweepTimed, StartSweep, Look, LookFails, SweepDone
<1>6. ToFail \in Nat /\ skipped \in Nat /\ skipped <= Skips
  BY <1>1, ToFailBounds, Durations DEF DetectionTypeOK
<1>7. ASSUME ~Look PROVE ToFind' <= ToFind /\ ToFind' \in Nat /\ reclaimed' = reclaimed
  <2>0. ToFind' \in Nat /\ ToFail' \in Nat /\ ToLook' \in Nat /\ ToLook \in Nat
    BY <1>1, ToFindNext, ToFindBounds DEF Findable
  <2>1. CASE StartSweep
    <3>1. ToLook = Work /\ ToLook' = Work
      BY <2>1, <1>4, Durations DEF StartSweep, ToLook, ToTick
    <3>2. ToFail' = ToFail /\ reclaimed' = reclaimed
      BY <2>1 DEF StartSweep, ToFail
    <3> QED
      BY <3>1, <3>2, <2>0, <1>6 DEF ToFind
  <2>2. CASE SweepDone
    <3>1. ToTick' = ToTick /\ ToTick \in Nat
      BY <2>2, <1>4 DEF SweepDone, ToTick
    <3>2. ToLook = Longest(Work - cbusy, ToTick) + Work /\ ToLook' = ToTick + Work
      BY <2>2, <3>1 DEF SweepDone, ToLook
    <3>3. ToTick + Work <= ToLook
      BY <3>1, <3>2, <1>4, Durations DEF Longest
    <3>4. ToFail' = ToFail /\ reclaimed' = reclaimed
      BY <2>2 DEF SweepDone, ToFail
    <3> QED
      BY <3>1, <3>2, <3>3, <3>4, <2>0, <1>6, Durations DEF ToFind
  <2>3. CASE LookFails
    <3>1. /\ sweep = "look" /\ sweep' = "rest" /\ cticked' = cticked /\ cbusy' = cbusy
          /\ skipped' = skipped + 1 /\ reclaimed' = reclaimed
      BY <2>3 DEF LookFails
    <3>2. ToTick' = ToTick /\ ToTick \in Nat /\ ToTick + cbusy <= Longest(Sweep, Work)
      BY <3>1, <1>4, Durations DEF Dying, SweepTimed, ToTick, Longest
    <3>3. ToLook = Work - cbusy /\ ToLook' = Longest(Work - cbusy, ToTick) + Work
      BY <3>1, <3>2 DEF ToLook
    <3>4. Longest(Work - cbusy, ToTick) + Work <= ToLook + Period
      BY <3>2, <3>3, <1>4, Durations DEF Period, Longest
    <3>5. ToFail' = ToFail - Period
      <4>1. PICK left \in Int : left = Skips - skipped
        BY <1>6, Durations
      <4>2. Skips - skipped' = left - 1
        BY <3>1, <4>1, <1>6, Durations
      <4>3. (left - 1) * Period = left * Period - Period
        BY <4>1, Durations
      <4> QED
        BY <4>1, <4>2, <4>3 DEF ToFail, Period
    <3>6. PICK look \in Nat : look = ToLook'
      BY <2>0
    <3>7. ToFind' = look + (ToFail - Period)
      BY <3>5, <3>6 DEF ToFind
    <3>8. look + (ToFail - Period) <= ToLook + ToFail
      BY <3>3, <3>4, <3>6, <2>0, <1>6, Durations
    <3> QED
      BY <3>1, <3>7, <3>8, <2>0 DEF ToFind
  <2> QED
    BY <1>7, <2>1, <2>2, <2>3
<1>8. DeadFor'
  <2>1. CASE Look
    <3> SUFFICES ASSUME ~Up' PROVE DeadFor'
      BY DEF DeadFor
    <3>1. ~Up /\ landing' = landing /\ busy' = busy /\ since' = since /\ key' = key
      BY <1>2 DEF beatVars, Up
    <3>2. ~reclaimed' => ~reclaimed /\ ~(key = 0)
      BY <2>1 DEF Look
    <3>3. key >= 0 /\ key \in Int
      BY <1>1, Durations DEF DetectionTypeOK
    <3>4. ~reclaimed' => key > 0
      BY <3>2, <3>3
    <3> QED
      BY <3>1, <3>2, <3>4 DEF Dying, DeadFor
  <2>2. CASE ~Look
    <3>1. since \in Int /\ ToFind \in Nat /\ Bound \in Nat
      BY <1>1, ToFindBounds, BoundParts DEF DetectionTypeOK
    <3>2. PICK find \in Nat : find = ToFind'
      BY <1>7, <2>2
    <3>a. find <= ToFind
      BY <3>2, <1>7, <2>2
    <3>3. since < Bound - ToFind => since < Bound - find
      BY <3>1, <3>a
    <3> QED
      BY <3>2, <3>3, <1>2, <1>7, <2>2 DEF Dying, DeadFor, beatVars, Up
  <2> QED
    BY <2>1, <2>2
<1> QED
  BY <1>1, <1>3, <1>5, <1>8 DEF Dying

\* Time does not pass without bringing the next look closer.
LEMMA LookApproaches ==
  ASSUME Dying, Tick
  PROVE  ToLook' \in Int /\ ToLook' <= Period + Work - 1 /\ ToLook' <= ToLook - 1
<1>1. /\ cnext \in Int /\ cnext >= 1 /\ cnext <= Sweep
      /\ cbusy \in Int /\ cbusy >= 0
      /\ sweep' = sweep /\ sweep \in {"idle", "look", "rest"}
  BY Durations DEF Dying, DetectionTypeOK, Tick
<1>2. CASE sweep = "look"
  <2>1. cbusy' = cbusy + 1 /\ cbusy' \in Int
    BY <1>1, <1>2 DEF Tick
  <2>2. ToLook = Work - cbusy /\ ToLook' = Work - cbusy'
    BY <1>1, <1>2 DEF ToLook
  <2> QED
    BY <1>1, <2>1, <2>2, Durations
<1>3. ASSUME ~cticked
      PROVE  ToTick = cnext /\ ToTick' = cnext - 1
  <2>1. (cticked' = (cnext = 1)) /\ ToTick = cnext
    BY <1>3 DEF Tick, ToTick
  <2>2. CASE cnext = 1
    <3>1. cticked'
      BY <2>1, <2>2
    <3>2. ToTick' = 0
      BY <3>1 DEF ToTick
    <3> QED
      BY <1>1, <2>1, <2>2, <3>2
  <2>3. CASE cnext # 1
    <3>1. cnext' = cnext - 1 /\ ~cticked'
      BY <2>1, <2>3 DEF Tick
    <3> QED
      BY <2>1, <3>1 DEF ToTick
  <2> QED
    BY <2>2, <2>3
<1>4. ASSUME cticked PROVE ToTick = 0 /\ ToTick' = 0
  BY <1>4 DEF Tick, ToTick
<1>5. CASE sweep = "idle"
  <2>1. ~cticked
    BY <1>5 DEF Tick
  <2>2. ToLook = cnext + Work /\ ToLook' = cnext - 1 + Work
    BY <1>1, <1>3, <1>5, <2>1 DEF ToLook
  <2> QED
    BY <1>1, <2>2, Durations
<1>6. CASE sweep = "rest"
  <2>1. cbusy' = cbusy + 1 /\ cbusy < Work
    BY <1>1, <1>6 DEF Tick
  <2>2. PICK tick \in Int : tick = ToTick'
    BY <1>1, <1>3, <1>4
  <2>3. /\ ToTick \in Int /\ ToTick <= Sweep /\ tick \in Int
        /\ tick <= Longest(ToTick - 1, 0)
    BY <1>1, <1>3, <1>4, <2>2, Durations DEF Longest
  <2>4. ToLook = Longest(Work - cbusy, ToTick) + Work
    BY <1>6 DEF ToLook
  <2>8. ToLook' = Longest(Work - (cbusy + 1), tick) + Work
    BY <1>1, <1>6, <2>1, <2>2 DEF ToLook
  <2>5. /\ Longest(Work - (cbusy + 1), tick) + Work \in Int
        /\ Longest(Work - (cbusy + 1), tick) + Work <= Period + Work - 1
        /\ Longest(Work - (cbusy + 1), tick) + Work <= Longest(Work - cbusy, ToTick) + Work - 1
    BY <1>1, <2>1, <2>3, Durations DEF Longest
  <2>6. PICK look \in Int : look = Longest(Work - (cbusy + 1), tick) + Work
    BY <2>5
  <2>7. look \in Int /\ look <= Period + Work - 1 /\ look <= ToLook - 1
    BY <1>1, <2>1, <2>3, <2>4, <2>5, <2>6, Durations DEF Longest
  <2> QED
    BY <2>6, <2>7, <2>8
<1> QED
  BY <1>1, <1>2, <1>5, <1>6

\* A unit of time passes (tickers, TTL): the key lasts no longer than TTL, and
\* the look that finds it gone comes no later than it was due.
LEMMA TickDying == ASSUME Dying, Tick PROVE Dying'
<1>1. DetectionTypeOK /\ DetectionTypeOK'
  BY TypeStep DEF Dying, Next
<1>2. Counted'
  BY DEF Dying, Counted, Tick, Up
<1>3. SweepTimed'
  <2> SUFFICES ASSUME sweep' # "idle", ~cticked' PROVE cnext' + cbusy' <= Sweep
    BY DEF SweepTimed
  <2>1. ~cticked /\ cnext # 1 /\ sweep # "idle"
    BY DEF Tick
  <2>2. cnext' = cnext - 1 /\ cbusy' = cbusy + 1
    BY <2>1 DEF Tick
  <2> QED
    BY <1>1, <2>1, <2>2, Durations DEF Dying, SweepTimed, DetectionTypeOK
<1>4. DeadFor'
  <2> SUFFICES ASSUME ~Up' PROVE
        /\ landing' # "nothing" => since' <= busy'
        /\ ~reclaimed' /\ landing' # "set" =>
             IF key' > 0 THEN since' <= Latency + TTL - key' ELSE since' < Bound - ToFind'
    BY DEF DeadFor
  <2>1. ~Up /\ reclaimed' = reclaimed /\ landing' = landing
    BY DEF Tick, Up
  <2>2. /\ key \in Int /\ key >= 0 /\ since \in Int /\ since >= 0 /\ since <= Bound
        /\ busy \in Int
        /\ since' \in Int /\ since' <= since + 1
        /\ key' \in Int /\ key' = IF key - 1 >= 0 THEN key - 1 ELSE 0
    BY <1>1, <2>1, Durations, BoundParts DEF DetectionTypeOK, Tick, Longest
  <2>3. ASSUME landing # "nothing" PROVE since' <= busy'
    <3>1. since <= busy
      BY <2>1, <2>3 DEF Dying, DeadFor
    <3>2. busy' = busy + 1
      BY <2>3 DEF Tick, InCommand
    <3> QED
      BY <3>1, <3>2, <2>2
  <2>4. ASSUME ~reclaimed, landing # "set", key' > 0 PROVE since' <= Latency + TTL - key'
    <3>1. since <= Latency + TTL - key
      BY <2>1, <2>2, <2>4 DEF Dying, DeadFor
    <3> QED
      BY <3>1, <2>2, <2>4, Durations
  <2>5. /\ ToFind \in Nat /\ ToLook \in Nat /\ ToFail \in Nat /\ ToFail <= Skips * Period
        /\ ToFail' = ToFail
    BY <1>1, ToFindBounds, ToFailBounds DEF Tick, ToFail
  <2>a. ToLook \in Nat /\ ToFail \in Nat /\ ToFail <= Skips * Period
    BY <2>5
  <2>6. PICK look \in Int : look = ToLook'
    BY LookApproaches
  <2>7. look \in Int /\ look <= Period + Work - 1 /\ look <= ToLook - 1
    BY LookApproaches, <2>6
  <2>8. ToFind' = look + ToFail
    BY <2>5, <2>6 DEF ToFind
  <2>9. ASSUME ~reclaimed, landing # "set", ~(key' > 0) PROVE since' < Bound - (look + ToFail)
    <3>1. CASE key > 0
      <4>1. since <= Latency + TTL - key
        BY <2>1, <2>9, <3>1 DEF Dying, DeadFor
      <4>2. key = 1 /\ since' <= Latency + TTL
        BY <4>1, <3>1, <2>2, <2>9, Durations
      <4> QED
        BY <4>2, <2>2, <2>a, <2>7, Durations, BoundParts
    <3>2. CASE ~(key > 0)
      <4>1. since < Bound - (ToLook + ToFail)
        BY <2>1, <2>9, <3>2 DEF Dying, DeadFor, ToFind
      <4> QED
        BY <4>1, <2>2, <2>a, <2>7, Durations, BoundParts
    <3> QED
      BY <3>1, <3>2
  <2> QED
    BY <2>1, <2>3, <2>4, <2>8, <2>9
<1> QED
  BY <1>1, <1>2, <1>3, <1>4 DEF Dying

\* Dying is an invariant, for all durations.
LEMMA AlwaysDying == Spec => []Dying
<1>1. ASSUME Dying, [Next]_vars PROVE Dying'
  <2>1. CASE UNCHANGED vars
    BY <1>1, <2>1 DEF Dying, DetectionTypeOK, Counted, SweepTimed, DeadFor, ToFind, ToLook,
                ToTick, ToFail, Up, vars
  <2> QED
    BY <1>1, <2>1, BeatDying, SweepDying, TickDying DEF Next
<1> QED
  BY <1>1, DyingInit, PTL DEF Spec

-----------------------------------------------------------------------------
(* A live worker: KeyFresh, when the TTL leaves room. *)

\* How old the key may be, in numbers.
LEMMA Ages ==
  ASSUME DetectionTypeOK
  PROVE  /\ Oldest \in Nat /\ Sent \in Int
         /\ Oldest >= Interval + Latency + Lost /\ Oldest >= 2 * Latency + Lost
         /\ missed = 0 => Sent = 0
         /\ missed # 0 => Sent = Oldest - Gap
         /\ Timely => Oldest + Latency < TTL
         /\ Sent + 2 * Latency <= Oldest
<1>1. Lost \in Nat /\ Misses * Gap \in Nat /\ Lost <= Misses * Gap
  BY LostBounds
<1>2. PICK first \in Nat :
        /\ first = Longest(Interval, Latency) /\ first >= Interval /\ first >= Latency
  BY Durations DEF Longest
<1>3. Oldest = first + Latency + Lost
  BY <1>2 DEF Oldest
<1>4. Timely => first + 2 * Latency + Misses * Gap < TTL
  BY <1>2 DEF Timely
<1>5. Oldest \in Nat /\ Oldest >= Interval + Latency + Lost /\ Oldest >= 2 * Latency + Lost
  BY <1>1, <1>2, <1>3, Durations
<1>6. Timely => Oldest + Latency < TTL
  BY <1>1, <1>2, <1>3, <1>4, Durations
<1>7. /\ missed = 0 => Sent = 0
      /\ missed # 0 => Sent = Oldest - Gap
  BY DEF Sent
<1>8. Sent \in Int /\ Sent + 2 * Latency <= Oldest
  BY <1>1, <1>5, <1>7, Durations
<1> QED
  BY <1>5, <1>6, <1>7, <1>8

\* In every phase of the loop the key outlasts what the phase may still take.
LEMMA KeyOutlasts == ASSUME Timely, Timed, Up PROVE key > 0
<1>1. DetectionTypeOK
  BY DEF Timed, Dying
<1>2. key \in Int /\ busy \in Int /\ busy <= Latency
  BY <1>1, Durations DEF DetectionTypeOK
<1>3. loop \in {"wait", "set", "reply", "touch", "touched"}
  BY <1>1 DEF DetectionTypeOK, Up
<1>4. Oldest \in Nat /\ Sent \in Int /\ Oldest + Latency < TTL /\ Sent + 2 * Latency <= Oldest
  BY <1>1, Ages
<1> QED
  BY <1>2, <1>3, <1>4, Durations DEF Timed, KeyFresh

\* The key has just been set for the first time.
LEMMA FreshInit == ASSUME Init PROVE KeyFresh
<1>1. DetectionTypeOK
  BY TypeInit
<1>2. Oldest \in Nat /\ Lost = 0 /\ Oldest >= Interval + Latency + Lost
  BY <1>1, Ages, LostBounds DEF Init
<1>3. key \in Int /\ key >= TTL - Latency
  BY Durations DEF Init, Longest
<1> QED
  BY <1>2, <1>3, Durations DEF Init, KeyFresh, Up

\* The commands of the heartbeat loop, one after the other, keep the key fresh
\* enough (scheduler.go 111-127).
LEMMA BeatFresh ==
  ASSUME Timely, Timed,
         Beat \/ SetKey \/ SetFails \/ Touch \/ TouchRow \/ TouchFails \/ TouchDone \/ Crash
  PROVE  KeyFresh'
<1>1. DetectionTypeOK
  BY DEF Timed, Dying
<1>2. /\ key \in Int /\ busy \in Int /\ busy >= 0 /\ busy <= Latency
      /\ next \in Int /\ next >= 1 /\ next <= Interval
      /\ missed \in Nat
  BY <1>1, Durations DEF DetectionTypeOK
<1>3. /\ Oldest \in Nat /\ Sent \in Int /\ Lost \in Nat
      /\ Oldest >= Interval + Latency + Lost /\ Oldest >= 2 * Latency + Lost
      /\ Sent + 2 * Latency <= Oldest
  BY <1>1, Ages, LostBounds
<1>4. next' = next /\ (Up' => Up) /\ (Up => ~reclaimed)
  BY DEF Timed, KeyFresh, Up, Beat, SetKey, SetTo, SetFails, Touch, TouchRow, TouchFails,
         TouchDone, Crash
<1>5. ASSUME missed' = missed PROVE Lost' = Lost /\ Oldest' = Oldest /\ Sent' = Sent
  BY <1>5 DEF Lost, Oldest, Sent
<1>6. CASE Beat
  BY <1>2, <1>3, <1>5, <1>6, Durations DEF Timed, KeyFresh, Beat, Up
<1>7. CASE SetKey
  <2>1. CASE loop = "set"
    <3>1. /\ loop' = "reply" /\ key' = TTL /\ missed' = 0 /\ busy' = busy
          /\ ticked' = ticked /\ reclaimed' = reclaimed
      BY <1>7, <2>1 DEF SetKey, SetTo
    <3>2. Lost' = 0 /\ Sent' = 0
      BY <3>1, Durations DEF Lost, Gap, Sent
    <3> QED
      BY <1>2, <1>4, <2>1, <3>1, <3>2, Durations DEF KeyFresh, Up
  <2>2. CASE loop # "set"
    BY <1>7, <2>2 DEF Timed, Dying, Counted, SetKey, SetTo, KeyFresh, Up
  <2> QED
    BY <2>1, <2>2
<1>8. CASE SetFails
  <2>1. /\ loop = "set" /\ loop' = "reply" /\ missed' = missed + 1 /\ key' = key /\ busy' = busy
        /\ ticked' = ticked /\ reclaimed' = reclaimed
    BY <1>8 DEF SetFails
  <2>2. (missed + 1) * Gap = missed * Gap + Gap /\ missed + 1 # 0
    BY <1>2, Durations
  <2>3. Lost' = Lost + Gap
    BY <2>1, <2>2 DEF Lost, Gap
  <2>4. Sent' = Oldest
    <3>1. PICK first \in Nat : first = Longest(Interval, Latency)
      BY Durations DEF Longest
    <3>2. Oldest' = first + Latency + (Lost + Gap) /\ Oldest = first + Latency + Lost
      BY <2>3, <3>1 DEF Oldest
    <3>3. Sent' = Oldest' - Gap
      BY <2>1, <2>2 DEF Sent, Gap
    <3>5. first + Latency + (Lost + Gap) \in Int
      BY <3>1, <1>3, Durations
    <3>6. PICK old \in Int : old = first + Latency + (Lost + Gap)
      BY <3>5
    <3>7. Sent' = old - Gap
      BY <3>2, <3>3, <3>6
    <3>8. old - Gap = Oldest
      BY <3>1, <3>2, <3>6, <1>3, Durations
    <3> QED
      BY <3>7, <3>8
  <2>5. key >= TTL - Oldest - busy /\ (~ticked => busy <= Interval - next)
    BY <2>1 DEF Timed, KeyFresh
  <2>6. Oldest <= Lost + Gap + Latency
    <3>1. Longest(Interval, Latency) \in Nat /\ Longest(Interval, Latency) <= Gap
      BY Durations DEF Longest
    <3> QED
      BY <3>1, <1>3, Durations DEF Oldest
  <2>7. ~ticked => key >= TTL - Latency - Interval + next - (Lost + Gap)
    BY <1>2, <1>3, <2>5, <2>6, Durations
  <2> QED
    BY <1>4, <2>1, <2>3, <2>4, <2>5, <2>7 DEF KeyFresh, Up
<1>9. CASE Touch
  BY <1>2, <1>3, <1>5, <1>9, Durations DEF Timed, KeyFresh, Touch, Up
<1>10. CASE TouchRow
  BY <1>2, <1>3, <1>5, <1>10, Durations DEF Timed, Dying, Counted, KeyFresh, TouchRow, Up
<1>11. CASE TouchFails
  BY <1>2, <1>3, <1>5, <1>11, Durations DEF Timed, KeyFresh, TouchFails, Up
<1>12. CASE TouchDone
  BY <1>2, <1>3, <1>5, <1>12, Durations DEF Timed, KeyFresh, TouchDone, Up
<1>13. CASE Crash
  BY <1>13 DEF KeyFresh, Crash, Up
<1> QED
  BY <1>6, <1>7, <1>8, <1>9, <1>10, <1>11, <1>12, <1>13

\* The coordinator finds the key of a live worker (scheduler.go 302).
LEMMA SweepFresh ==
  ASSUME Timely, Timed, StartSweep \/ Look \/ LookFails \/ SweepDone
  PROVE  KeyFresh'
<1>1. UNCHANGED <<key, beatVars>>
  BY DEF StartSweep, Look, LookFails, SweepDone
<1>2. Up => key > 0
  BY KeyOutlasts
<1>3. key \in Int
  BY Durations DEF Timed, Dying, DetectionTypeOK
<1>4. Up => ~(key = 0) /\ ~reclaimed
  BY <1>2, <1>3 DEF Timed, KeyFresh
<1>5. Up => ~reclaimed'
  BY <1>4 DEF StartSweep, Look, LookFails, SweepDone
<1>6. Lost' = Lost /\ Oldest' = Oldest /\ Sent' = Sent
  BY <1>1 DEF beatVars, Lost, Oldest, Sent
<1> QED
  BY <1>1, <1>5, <1>6 DEF Timed, KeyFresh, beatVars, Up

\* A unit of time passes: no command takes longer than Latency, and a loop that
\* waits for its ticker waits no longer than the interval.
LEMMA TickFresh == ASSUME Timed, Tick PROVE KeyFresh'
<1>1. DetectionTypeOK
  BY DEF Timed, Dying
<1>2. /\ key \in Int /\ key' \in Int /\ key' >= key - 1
      /\ next \in Int /\ next >= 1 /\ next <= Interval
      /\ next' = IF next = 1 THEN Interval ELSE next - 1
      /\ busy \in Int /\ busy <= Latency
  BY <1>1, Durations DEF DetectionTypeOK, Tick, Longest
<1>3. /\ Oldest \in Nat /\ Sent \in Int /\ Lost \in Nat
      /\ Oldest >= Interval + Latency + Lost
  BY <1>1, Ages, LostBounds
<1>4. Lost' = Lost /\ Oldest' = Oldest /\ Sent' = Sent /\ loop' = loop
  BY DEF Tick, Lost, Oldest, Sent
<1>5. Up' => ~reclaimed'
  BY DEF Timed, KeyFresh, Tick, Up
<1>6. ASSUME Up, ~ticked' PROVE ~ticked /\ next' = next - 1
  BY <1>2, <1>6 DEF Tick
<1>7. ASSUME loop \in {"wait", "reply", "touch", "touched"}, ~ticked'
      PROVE  key' >= TTL - Latency - Interval + next' - Lost
  <2>1. ~ticked /\ next' = next - 1
    BY <1>6, <1>7 DEF Up
  <2>2. key >= TTL - Latency - Interval + next - Lost
    BY <1>7, <2>1 DEF Timed, KeyFresh
  <2> QED
    BY <1>2, <1>3, <2>1, <2>2, Durations
<1>8. ASSUME loop = "wait" PROVE key' >= TTL - Oldest
  <2>1. ~ticked
    BY <1>8 DEF Tick
  <2>2. key >= TTL - Latency - Interval + next - Lost
    BY <1>8, <2>1 DEF Timed, KeyFresh
  <2> QED
    BY <1>2, <1>3, <2>2, Durations
<1>9. ASSUME loop \in {"set", "reply", "touch", "touched"} PROVE busy' = busy + 1
  BY <1>9 DEF Tick, InCommand
<1>10. ASSUME loop = "set"
       PROVE  (~ticked' => busy' <= Interval - next') /\ key' >= TTL - Oldest - busy'
  <2>1. key >= TTL - Oldest - busy /\ (~ticked => busy <= Interval - next)
    BY <1>10 DEF Timed, KeyFresh
  <2>2. ~ticked' => ~ticked /\ next' = next - 1
    BY <1>6, <1>10 DEF Up
  <2> QED
    BY <1>2, <1>3, <1>9, <1>10, <2>1, <2>2, Durations
<1>11. ASSUME loop = "reply" PROVE key' >= TTL - Sent - busy'
  <2>1. key >= TTL - Sent - busy
    BY <1>11 DEF Timed, KeyFresh
  <2> QED
    BY <1>2, <1>3, <1>9, <1>11, <2>1, Durations
<1>12. ASSUME loop \in {"touch", "touched"} PROVE key' >= TTL - Sent - Latency - busy'
  <2>1. key >= TTL - Sent - Latency - busy
    BY <1>12 DEF Timed, KeyFresh
  <2> QED
    BY <1>2, <1>3, <1>9, <1>12, <2>1, Durations
<1> QED
  BY <1>4, <1>5, <1>7, <1>8, <1>10, <1>11, <1>12 DEF KeyFresh

\* When the TTL leaves room, Timed is an invariant.
LEMMA AlwaysTimed == Timely /\ Spec => []Timed
<1> SUFFICES ASSUME Timely PROVE Spec => []Timed
  OBVIOUS
<1>1. ASSUME Timed, [Next]_vars, Dying' PROVE Timed'
  <2>1. CASE UNCHANGED vars
    BY <1>1, <2>1 DEF Timed, KeyFresh, Up, Oldest, Sent, Lost, vars
  <2> QED
    BY <1>1, <2>1, BeatFresh, SweepFresh, TickFresh DEF Next, Timed
<1>2. Init /\ Dying => Timed
  BY FreshInit DEF Timed
<1> QED
  BY <1>1, <1>2, AlwaysDying, PTL DEF Spec
-----------------------------------------------------------------------------
(* Theorems. *)

\* No timer of the heartbeat loop, of the key or of the sweep ever leaves its
\* range, for all durations and all numbers of failing commands.
THEOREM DetectionTypeCorrect == Spec => []DetectionTypeOK
<1>1. Dying => DetectionTypeOK
  BY DEF Dying
<1> QED
  BY <1>1, AlwaysDying, PTL

\* Whenever the TTL leaves room for what the commands may take and for the
\* heartbeats that may fail in a row (Timely), the heartbeat loop keeps its key
\* alive, and reclaimDead never takes a live worker for dead.
THEOREM NeverSuspectsLive == Timely /\ Spec => []NoFalseSuspicion
<1> SUFFICES ASSUME Timely PROVE Spec => []NoFalseSuspicion
  OBVIOUS
<1>1. Timed => NoFalseSuspicion
  BY KeyOutlasts DEF Timed, KeyFresh, NoFalseSuspicion
<1> QED
  BY <1>1, AlwaysTimed, PTL

\* For all durations, also those that are not Timely, the sweep finds a dead
\* worker within the time a late SET, the TTL, the ticks that pass it by or fail
\* and the work of the one that finds it take.
THEOREM FoundInTime == Spec => []RecoveredInTime
<1>1. ASSUME Dying PROVE RecoveredInTime
  <2> SUFFICES ASSUME since >= Bound, ~reclaimed PROVE FALSE
    BY DEF RecoveredInTime
  <2>1. DetectionTypeOK
    BY <1>1 DEF Dying
  <2>2. /\ since \in Int /\ key \in Int /\ key >= 0 /\ busy \in Int /\ busy <= Latency
        /\ ToFind \in Nat
        /\ landing \in {"nothing", "set", "touch"}
    BY <2>1, Durations, BoundParts, ToFindBounds DEF DetectionTypeOK
  <2>3. ~Up
    BY <1>1, <2>2, Durations, BoundParts DEF Dying, Counted
  <2>4. /\ landing # "nothing" => since <= busy
        /\ landing # "set" =>
             IF key > 0 THEN since <= Latency + TTL - key ELSE since < Bound - ToFind
    BY <1>1, <2>3 DEF Dying, DeadFor
  <2> QED
    BY <2>2, <2>4, Durations, BoundParts
<1> QED
  BY <1>1, AlwaysDying, PTL
=============================================================================
