-------------------------------- MODULE Queue --------------------------------
(***************************************************************************)
(* internal/queue: the Redis structures and, for each command the code     *)
(* sends to Redis, the atomic effect of that command.  The services        *)
(* (Worker, Coordinator, Api) string these commands together; what happens *)
(* between two commands is up to the interleaving.                         *)
(*                                                                         *)
(* queue and delayed hold the members of queue:{type} and delayed:{type};  *)
(* the type of a member is that of its task, so one set stands for all the *)
(* keys of a kind.  The score of a ready member is a function of the       *)
(* member; the score of a delayed one (available_at) is kept only as far   *)
(* as the code compares it with the clock: due is the set of delayed       *)
(* members whose available_at has passed.  inflight[w] is the hash         *)
(* inflight:{w}, hb the set of workers whose heartbeat key exists, dlq[t]  *)
(* the number of entries of task t in the dead-letter lists.               *)
(*                                                                         *)
(* clock counts the stampings of enqueued_at: each one happens at a later  *)
(* time than the ones before.                                              *)
(***************************************************************************)
EXTENDS Environment, FiniteSets

CONSTANTS
  ScoreWeight,   \* 1e13 in the code: the distance between two priorities
  PromoteLimit   \* 256 in the code: the members one promotion moves at most

ASSUME QueueAssumption ==
  /\ ScoreWeight \in Nat \ {0}
  /\ PromoteLimit \in Nat \ {0}

VARIABLES queue, delayed, due, inflight, hb, dlq, clock

queueVars == <<queue, delayed, due, inflight, hb, dlq, clock>>

QueueTypeOK ==
  /\ queue \subseteq Envelope
  /\ delayed \subseteq Envelope
  /\ due \subseteq delayed
  /\ inflight \in [Workers -> SUBSET Envelope]
  /\ hb \subseteq Workers
  /\ dlq \in [Tasks -> Nat]
  /\ clock \in Nat

OfType(envs, ty) == {e \in envs : TypeOf(e.id) = ty}

\* Mutant: no upper clamp.
priorityScoreUnclamped(priority, ms) ==
  (IF priority < 0 THEN 0 ELSE priority) * ScoreWeight + ms

\* Priorities are clamped to 0..9; the lower score is popped first.
priorityScore(priority, ms) ==
  (CASE priority < 0 -> 0
     [] priority > 9 -> 9
     [] OTHER -> priority) * ScoreWeight + ms

Score(e) == priorityScore(Request[e.id].priority, e.enqueued_at)

\* The members ZPOPMIN may return: Redis breaks a tie by the bytes of the
\* member, which the model leaves open.
PopMin(ty) ==
  {e \in OfType(queue, ty) : \A x \in OfType(queue, ty) : Score(e) <= Score(x)}

\* HSET and HDEL on a hash keyed by task id.
HSet(hash, e) == {x \in hash : x.id # e.id} \cup {e}
HDel(hash, t) == {x \in hash : x.id # t}
-----------------------------------------------------------------------------
\* ZADD to queue:{type}, after stamping an envelope that has no time yet.
Enqueue(e) ==
  LET fresh == e.enqueued_at = 0
  IN /\ clock' = IF fresh THEN clock + 1 ELSE clock
     /\ queue' = queue \cup
          {IF fresh THEN [e EXCEPT !.enqueued_at = clock + 1] ELSE e}
     /\ UNCHANGED <<delayed, due, inflight, hb, dlq>>

\* ZADD to delayed:{type}.  The backoff is positive: the member is not due,
\* also when it was there before and only gets a new score.
EnqueueDelayed(e) ==
  /\ delayed' = delayed \cup {e}
  /\ due' = due \ {e}
  /\ UNCHANGED <<queue, inflight, hb, dlq, clock>>

\* Mutant: the script reads the first member without popping it.
LeaseNoPop(ty, w, e) ==
  /\ e \in PopMin(ty)
  /\ inflight' = [inflight EXCEPT ![w] = HSet(@, e)]
  /\ UNCHANGED <<queue, delayed, due, hb, dlq, clock>>

\* The Lua script: ZPOPMIN and HSET in one atomic step.
Lease(ty, w, e) ==
  /\ e \in PopMin(ty)
  /\ queue' = queue \ {e}
  /\ inflight' = [inflight EXCEPT ![w] = HSet(@, e)]
  /\ UNCHANGED <<delayed, due, hb, dlq, clock>>

\* Ack and Nack are the same HDEL on the worker's own hash.
Ack(w, t) ==
  /\ inflight' = [inflight EXCEPT ![w] = HDel(@, t)]
  /\ UNCHANGED <<queue, delayed, due, hb, dlq, clock>>

Nack(w, t) == Ack(w, t)

\* RPUSH to dlq:{type}.  Nothing ever removes an entry.
DeadLetter(e) ==
  /\ dlq' = [dlq EXCEPT ![e.id] = @ + 1]
  /\ UNCHANGED <<queue, delayed, due, inflight, hb, clock>>

\* SET hb:{worker} with a TTL, and the key running out of it.
Heartbeat(w) ==
  /\ hb' = hb \cup {w}
  /\ UNCHANGED <<queue, delayed, due, inflight, dlq, clock>>

HeartbeatExpires(w) ==
  /\ w \in hb
  /\ hb' = hb \ {w}
  /\ UNCHANGED <<queue, delayed, due, inflight, dlq, clock>>

IsAlive(w) == w \in hb

\* ReclaimInflight is two commands: HGETALL reads inflight[w], and a DEL that
\* is sent only if something was read wipes whatever the hash holds by then.
DelInflight(w) ==
  /\ inflight' = [inflight EXCEPT ![w] = {}]
  /\ UNCHANGED <<queue, delayed, due, hb, dlq, clock>>

\* Mutant: the range has no upper bound.
DueBatchesAll(ty) ==
  LET all == OfType(delayed, ty)
  IN {b \in SUBSET all :
        \/ b = all /\ Cardinality(all) <= PromoteLimit
        \/ Cardinality(b) = PromoteLimit}

\* PromoteDelayed is two commands.  ZRANGEBYSCORE reads the members that are
\* due, at most PromoteLimit of them; a MULTI/EXEC then moves them, stamped
\* with the time of the read.
DueBatches(ty) ==
  LET ripe == OfType(due, ty)
  IN {b \in SUBSET ripe :
        \/ b = ripe /\ Cardinality(ripe) <= PromoteLimit
        \/ Cardinality(b) = PromoteLimit}

\* Mutant: the transaction removes the members and adds nothing.
PromoteNoAdd(batch, now) ==
  /\ delayed' = delayed \ batch
  /\ due' = due \ batch
  /\ UNCHANGED <<queue, inflight, hb, dlq, clock>>

Promote(batch, now) ==
  /\ delayed' = delayed \ batch
  /\ due' = due \ batch
  /\ queue' = queue \cup {[e EXCEPT !.enqueued_at = now] : e \in batch}
  /\ UNCHANGED <<inflight, hb, dlq, clock>>

\* Time passes the available_at of a delayed member.
Elapse(e) ==
  /\ e \in delayed \ due
  /\ due' = due \cup {e}
  /\ UNCHANGED <<queue, delayed, inflight, hb, dlq, clock>>

\* SCAN over queue:* and delayed:*: a key exists while it is not empty.
ListTypes == {TypeOf(e.id) : e \in queue}
DelayedTypes == {TypeOf(e.id) : e \in delayed}

QueueInit(alive) ==
  /\ queue = {}
  /\ delayed = {}
  /\ due = {}
  /\ inflight = [w \in Workers |-> {}]
  /\ hb = alive
  /\ dlq = [t \in Tasks |-> 0]
  /\ clock = 0
=============================================================================
