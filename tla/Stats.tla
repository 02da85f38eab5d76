-------------------------------- MODULE Stats --------------------------------
(***************************************************************************)
(* GET /api/stats while the system runs: two SELECTs, a SCAN for the types *)
(* with ready tasks and three commands per type, each of them at another   *)
(* moment.  stats is the state of the handler:                             *)
(*   pc         the next command, "idle" before the request                *)
(*   by_status, by_type    the counts of rows                              *)
(*   todo       the types whose depths are still to be read                *)
(*   queues     for each type listed its ready, delayed and dlq depths, as *)
(*              far as they have been read                                 *)
(*   failed     whether one of its commands failed, without a 500          *)
(***************************************************************************)
EXTENDS TaskQueue, Functions

\* Tables and keys are finite.
ASSUME StatsAssumption == IsFiniteSet(Tasks) /\ IsFiniteSet(Types)

VARIABLE stats

allVars == <<vars, stats>>

StatsStart == [pc |-> "idle", by_status |-> <<>>, by_type |-> <<>>, todo |-> {},
               queues |-> <<>>, failed |-> FALSE]

Refused == [StatsStart EXCEPT !.pc = "refused"]

\* A SELECT ... GROUP BY that fails while its groups are read: only some of them
\* have arrived.  GetStats does not ask for rows.Err() after its loops, so it
\* goes on with what it has and reports no error.
Partly(counts) ==
  {[k \in DOMAIN counts |-> IF k \in read THEN counts[k] ELSE 0] :
     read \in SUBSET DOMAIN counts}

StatusCounts ==
  [st \in Statuses |-> Cardinality({t \in Tasks : tasks[t].status = st})]

\* Mutant: the canceled rows are left out.
TypeCountsActive ==
  [ty \in Types |-> Cardinality({t \in Tasks :
     tasks[t].status \notin {"absent", "canceled"} /\ TypeOf(t) = ty})]

TypeCounts ==
  [ty \in Types |-> Cardinality({t \in Tasks :
     tasks[t].status # "absent" /\ TypeOf(t) = ty})]

\* GetStats is two queries.  One that fails at once, or a row that cannot be
\* scanned, makes the reply a 500.
CountStatuses ==
  /\ stats.pc = "idle"
  /\ \/ stats' = [stats EXCEPT !.pc = "types", !.by_status = StatusCounts]
     \/ \E some \in Partly(StatusCounts) :
          stats' = [stats EXCEPT !.pc = "types", !.by_status = some, !.failed = TRUE]
     \/ stats' = Refused

CountTypes ==
  /\ stats.pc = "types"
  /\ \/ stats' = [stats EXCEPT !.pc = "list", !.by_type = TypeCounts]
     \/ \E some \in Partly(TypeCounts) :
          stats' = [stats EXCEPT !.pc = "list", !.by_type = some, !.failed = TRUE]
     \/ stats' = Refused

\* ListTypes of the queue: the types with a ready task.
ListQueues ==
  /\ stats.pc = "list"
  /\ \/ stats' = [stats EXCEPT !.pc = "depths", !.todo = ListTypes,
                               !.queues = [ty \in ListTypes |-> <<>>]]
     \/ stats' = Refused

\* QueueDepth, DelayedDepth and DLQDepth, in this order.
Depth(ty, n) ==
  CASE n = 1 -> Cardinality(OfType(queue, ty))
    [] n = 2 -> Cardinality(OfType(delayed, ty))
    [] n = 3 -> SumFunctionOnSet(dlq, {t \in Tasks : TypeOf(t) = ty})

\* The next depth of a type; the error of such a command is ignored, and the
\* depth is then 0.
ReadDepth(ty) ==
  LET n == Len(stats.queues[ty]) + 1
      read(d, failed) ==
        stats' = [stats EXCEPT !.queues[ty] = Append(@, d),
                               !.todo = IF n = 3 THEN @ \ {ty} ELSE @,
                               !.failed = failed]
  IN /\ stats.pc = "depths" /\ ty \in stats.todo
     /\ read(Depth(ty, n), stats.failed) \/ read(0, TRUE)

Reply ==
  /\ stats.pc = "depths" /\ stats.todo = {}
  /\ stats' = [stats EXCEPT !.pc = "done"]

\* The request only reads; its own commands may fail whatever the budget is.
StatsStep ==
  \/ CountStatuses \/ CountTypes \/ ListQueues \/ Reply
  \/ \E ty \in Types : ReadDepth(ty)

StatsSpec ==
  /\ Init /\ stats = StatsStart
  /\ [][\/ Next /\ UNCHANGED stats
        \/ StatsStep /\ UNCHANGED vars]_allVars
-----------------------------------------------------------------------------
(* Properties. *)

\* A reply never counts more rows than there are, whatever part of it was read:
\* rows are not deleted.  And unless one of its commands failed, its counts
\* agree although rows are added between the two queries: the later count by
\* type covers the earlier total by status.
CountsAgree ==
  stats.pc = "done" =>
    LET rows == Cardinality({t \in Tasks : tasks[t].status # "absent"})
    IN /\ SumFunction(stats.by_status) <= rows
       /\ SumFunction(stats.by_type) <= rows
       /\ ~stats.failed =>
            SumFunction(stats.by_status) <= SumFunction(stats.by_type)

\* While no command failed, the dead-letter depths of a reply that lists every
\* type account for all the dead rows it counts, although the two are read
\* from two stores at two moments, with crashes, cancels and redrives in between.
DeadAccounted ==
  /\ stats.pc = "done" /\ ~stats.failed /\ budget["error"] = Budget["error"]
  /\ DOMAIN stats.queues = Types
  => stats.by_status["dead"] <= SumFunction([ty \in Types |-> stats.queues[ty][3]])
=============================================================================
