----------------------------- MODULE Coordinator -----------------------------
(***************************************************************************)
(* internal/scheduler, the coordinator.  One process (compose runs one     *)
(* replica) whose tick promotes the delayed tasks that are due and then    *)
(* reclaims the in-flight tasks of the workers it finds dead.  All the     *)
(* progress of a tick lives in its local variables, the record co:         *)
(*   pc     the next command                                               *)
(*   types  the types promoteDelayed has still to visit                    *)
(*   todo   the workers of ListWorkers still to visit                      *)
(*   worker the worker being reclaimed                                     *)
(*   batch  the members to promote, or the envelopes to requeue            *)
(*   now    the time read before the members to promote                    *)
(*   dead   the task that was dead-lettered and is to be marked dead       *)
(* Neither the types nor the workers are visited in an order that matters. *)
(***************************************************************************)
EXTENDS Queue, Store

VARIABLE co

\* sleep      between ticks                promote  PromoteDelayed of a type
\* exec       MULTI/EXEC of a promotion    list     ListWorkers
\* sweep      IsAlive of the next worker   read     HGETALL of the dead worker
\* del        DEL of its hash              requeue  the envelopes, one by one
\* mark       MarkDead after DeadLetter    orphans  RequeueOrphans
\* flag       MarkWorkerDead
CoPC == {"sleep", "promote", "exec", "list", "sweep", "read", "del", "requeue",
         "mark", "orphans", "flag"}

CoStart == [pc |-> "sleep", types |-> {}, todo |-> {}, worker |-> NoWorker,
            batch |-> {}, now |-> 0, dead |-> NoTask]

CoordinatorTypeOK ==
  /\ co \in [pc: CoPC, types: SUBSET Types, todo: SUBSET Workers,
             worker: Workers \cup {NoWorker}, batch: SUBSET Envelope,
             now: Nat, dead: Tasks \cup {NoTask}]
  /\ co.pc \in {"read", "del", "requeue", "mark", "orphans", "flag"}
       => co.worker \in Workers
  /\ co.pc = "mark" => co.dead \in Tasks

At(pc) == co.pc = pc

Fault == Spend("error")

\* The envelopes only the coordinator's memory holds.
CoHolds ==
  CASE co.pc = "requeue" -> Ids(co.batch)
    [] co.pc = "mark" -> Ids(co.batch) \cup {co.dead}
    [] OTHER -> {}

CoDrops(ts) == dropped' = dropped \cup (ts \ settled) /\ UNCHANGED settled

CoSettles(t) == settled' = settled \cup {t} /\ UNCHANGED dropped
-----------------------------------------------------------------------------
(* promoteDelayed *)

\* Mutant: types without a ready task are not visited.
TickReadyOnly ==
  /\ At("sleep")
  /\ UNCHANGED budget
  /\ co' = [co EXCEPT !.pc = "promote", !.types = ListTypes]
  /\ UNCHANGED <<queueVars, storeVars, ledger>>

\* The ticker fires and the keys are scanned.  If listing the ready types
\* fails, nothing is promoted in this tick; a failing scan of the delayed
\* types is ignored.
Tick ==
  /\ At("sleep")
  /\ \/ /\ UNCHANGED budget
        /\ co' = [co EXCEPT !.pc = "promote", !.types = ListTypes \cup DelayedTypes]
     \/ Fault /\ co' = [co EXCEPT !.pc = "list"]
     \/ Fault /\ co' = [co EXCEPT !.pc = "promote", !.types = ListTypes]
  /\ UNCHANGED <<queueVars, storeVars, ledger>>

\* ZRANGEBYSCORE; with no members, or after an error, on to the next type.
ReadDue(ty) ==
  /\ At("promote") /\ ty \in co.types
  /\ \/ /\ UNCHANGED budget
        /\ \E b \in DueBatches(ty) :
             IF b = {}
             THEN /\ co' = [co EXCEPT !.types = @ \ {ty}]
                  /\ UNCHANGED clock
             ELSE /\ co' = [co EXCEPT !.pc = "exec", !.types = @ \ {ty},
                                      !.batch = b, !.now = clock + 1]
                  /\ clock' = clock + 1
     \/ /\ Fault
        /\ co' = [co EXCEPT !.types = @ \ {ty}]
        /\ UNCHANGED clock
  /\ UNCHANGED <<queue, delayed, due, inflight, hb, dlq, storeVars, ledger>>

MoveDue ==
  /\ At("exec")
  /\ co' = [co EXCEPT !.pc = "promote", !.batch = {}, !.now = 0]
  /\ \/ UNCHANGED budget /\ Promote(co.batch, co.now)
     \/ Fault /\ UNCHANGED queueVars
  /\ UNCHANGED <<storeVars, ledger>>

PromoteDone ==
  /\ At("promote") /\ co.types = {}
  /\ co' = [co EXCEPT !.pc = "list"]
  /\ UNCHANGED <<queueVars, storeVars, budget, ledger>>
-----------------------------------------------------------------------------
(* reclaimDead *)

\* The statuses are those of this one SELECT for the whole sweep.
ReadWorkers ==
  /\ At("list")
  /\ \/ /\ UNCHANGED budget
        /\ co' = [co EXCEPT !.pc = "sweep",
                            !.todo = {w \in ListWorkers : workers[w] # "dead"}]
     \/ Fault /\ co' = CoStart
  /\ UNCHANGED <<queueVars, storeVars, ledger>>

CheckAlive(w) ==
  /\ At("sweep") /\ w \in co.todo
  /\ \/ UNCHANGED budget /\ IsAlive(w) /\ co' = [co EXCEPT !.todo = @ \ {w}]
     \/ /\ UNCHANGED budget /\ ~IsAlive(w)
        /\ co' = [co EXCEPT !.pc = "read", !.todo = @ \ {w}, !.worker = w]
     \/ Fault /\ co' = [co EXCEPT !.todo = @ \ {w}]
  /\ UNCHANGED <<queueVars, storeVars, ledger>>

SweepDone ==
  /\ At("sweep") /\ co.todo = {}
  /\ co' = CoStart
  /\ UNCHANGED <<queueVars, storeVars, budget, ledger>>

\* HGETALL; an error skips this worker, also its rows.
ReadInflight ==
  /\ At("read")
  /\ \/ /\ UNCHANGED budget
        /\ co' = [co EXCEPT !.pc = IF inflight[co.worker] = {} THEN "orphans"
                                                               ELSE "del",
                            !.batch = inflight[co.worker]]
     \/ Fault /\ co' = [co EXCEPT !.pc = "sweep", !.worker = NoWorker]
  /\ UNCHANGED <<queueVars, storeVars, ledger>>

\* DEL also takes a record written after the HGETALL.  If the worker does not
\* run that task (it crashed since, or never got the reply), it is gone.
DelHash(held) ==
  /\ At("del")
  /\ co' = [co EXCEPT !.pc = "requeue"]
  /\ \/ /\ UNCHANGED budget
        /\ DelInflight(co.worker)
        /\ CoDrops(Ids(inflight[co.worker]) \ (Ids(co.batch) \cup held))
     \/ Fault /\ UNCHANGED <<queueVars, ledger>>
  /\ UNCHANGED storeVars

\* Mutant: the attempt the dead worker made is not counted.
RequeueUncounted(e) ==
  /\ At("requeue") /\ e \in co.batch
  /\ e.attempts + 1 < MaxAttempts(e.id)
  /\ co' = [co EXCEPT !.batch = @ \ {e}]
  /\ UNCHANGED budget /\ Enqueue(e) /\ UNCHANGED ledger
  /\ UNCHANGED storeVars

\* One envelope: its attempt is used up, then it is dead-lettered or requeued.
Requeue(e) ==
  LET e1 == [e EXCEPT !.attempts = @ + 1]
  IN /\ At("requeue") /\ e \in co.batch
     /\ e1.attempts < MaxAttempts(e.id)
     /\ co' = [co EXCEPT !.batch = @ \ {e}]
     /\ \/ UNCHANGED budget /\ Enqueue(e1) /\ UNCHANGED ledger
        \/ Fault /\ UNCHANGED queueVars /\ CoDrops({e.id})
     /\ UNCHANGED storeVars

PushExhausted(e) ==
  LET e1 == [e EXCEPT !.attempts = @ + 1]
  IN /\ At("requeue") /\ e \in co.batch
     /\ e1.attempts >= MaxAttempts(e.id)
     /\ co' = [co EXCEPT !.pc = "mark", !.batch = @ \ {e}, !.dead = e.id]
     /\ \/ UNCHANGED budget /\ DeadLetter(e1) /\ CoSettles(e.id)
        \/ Fault /\ UNCHANGED <<queueVars, ledger>>
     /\ UNCHANGED storeVars

MarkExhausted ==
  /\ At("mark")
  /\ co' = [co EXCEPT !.pc = "requeue", !.dead = NoTask]
  /\ \/ UNCHANGED budget /\ MarkDead(co.dead) /\ CoSettles(co.dead)
     \/ Fault /\ UNCHANGED storeVars /\ CoDrops({co.dead})
  /\ UNCHANGED queueVars

RequeueDone ==
  /\ At("requeue") /\ co.batch = {}
  /\ co' = [co EXCEPT !.pc = "orphans"]
  /\ UNCHANGED <<queueVars, storeVars, budget, ledger>>

ResetOrphans ==
  /\ At("orphans")
  /\ co' = [co EXCEPT !.pc = "flag"]
  /\ \/ UNCHANGED budget /\ RequeueOrphans(co.worker)
     \/ Fault /\ UNCHANGED storeVars
  /\ UNCHANGED <<queueVars, ledger>>

FlagDead ==
  /\ At("flag")
  /\ co' = [co EXCEPT !.pc = "sweep", !.worker = NoWorker]
  /\ \/ UNCHANGED budget /\ MarkWorkerDead(co.worker)
     \/ Fault /\ UNCHANGED storeVars
  /\ UNCHANGED <<queueVars, ledger>>

\* The process is killed and started again: it remembers nothing.
CoCrash ==
  /\ ~At("sleep")
  /\ Spend("crash")
  /\ co' = CoStart
  /\ CoDrops(CoHolds)
  /\ UNCHANGED <<queueVars, storeVars>>
-----------------------------------------------------------------------------
CoStep(held) ==
  \/ Tick \/ MoveDue \/ PromoteDone
  \/ \E ty \in Types : ReadDue(ty)
  \/ ReadWorkers \/ SweepDone \/ ReadInflight \/ RequeueDone
  \/ \E w \in Workers : CheckAlive(w)
  \/ DelHash(held)
  \/ \E e \in co.batch : Requeue(e) \/ PushExhausted(e)
  \/ MarkExhausted \/ ResetOrphans \/ FlagDead
=============================================================================
