--------------------------------- MODULE Api ---------------------------------
(***************************************************************************)
(* internal/api: the handlers that change state.  api[t] is the state of   *)
(* the requests about task t:                                              *)
(*   "none"      not submitted                                             *)
(*   "inserted"  the row is written, the envelope is not                   *)
(*   "accepted"  the client has its 201 (or the 200 of a redrive)          *)
(*   "refused"   the client got an error, or no answer                     *)
(*   "redriven"  the row is queued again, the envelope is not written yet  *)
(* A request that fails stands for a failing command, a client that goes   *)
(* away (its context is passed to every command) and an API process that   *)
(* is killed.  Clients redrive a task again only after the answer to their *)
(* last redrive of it.                                                     *)
(***************************************************************************)
EXTENDS Queue, Store

VARIABLE api

ApiState == {"none", "inserted", "accepted", "refused", "redriven"}

ApiTypeOK == api \in [Tasks -> ApiState]

Answer(t, a) == api' = [api EXCEPT ![t] = a]

\* Mutant: the envelope is written before the row.
InsertTaskLate(t) ==
  /\ api[t] = "none"
  /\ UNCHANGED budget /\ Enqueue(NewEnvelope(t)) /\ Answer(t, "inserted")
  /\ UNCHANGED <<storeVars, ledger>>

\* createTask, first half: the row is inserted and its event logged.  A
\* failure before the INSERT leaves nothing, a failing LogEvent leaves a row.
InsertTask(t) ==
  /\ api[t] = "none"
  /\ \/ UNCHANGED budget /\ CreateTask(t) /\ Answer(t, "inserted")
     \/ Spend("error") /\ UNCHANGED storeVars /\ Answer(t, "refused")
     \/ Spend("error") /\ CreateTask(t) /\ Answer(t, "refused")
  /\ UNCHANGED <<queueVars, ledger>>

\* createTask, second half: an error may also come after Redis took the
\* envelope.
SubmitTask(t) ==
  /\ api[t] = "inserted"
  /\ \/ UNCHANGED budget /\ Enqueue(NewEnvelope(t)) /\ Answer(t, "accepted")
     \/ Spend("error") /\ UNCHANGED queueVars /\ Answer(t, "refused")
     \/ Spend("error") /\ Enqueue(NewEnvelope(t)) /\ Answer(t, "refused")
  /\ UNCHANGED <<storeVars, ledger>>

\* cancelTask: the row only; the envelope stays where it is.
CancelTask(t) ==
  /\ tasks[t] # NoRow
  /\ Spend("cancel")
  /\ MarkCanceled(t)
  /\ UNCHANGED <<api, queueVars, ledger>>

\* redriveDLQ, first half: the row of a dead task goes back to queued.
RedriveRow(t) ==
  /\ api[t] \in {"accepted", "refused"}
  /\ Spend("redrive")
  /\ Redrive(t)
  /\ Answer(t, "redriven")
  /\ settled' = settled \ {t}
  /\ UNCHANGED <<dropped, queueVars>>

\* redriveDLQ, second half.  The row is not dead any more: after an error the
\* task cannot be redriven again.
RedriveEnvelope(t) ==
  /\ api[t] = "redriven"
  /\ Answer(t, "accepted")
  /\ \/ UNCHANGED budget /\ Enqueue(NewEnvelope(t)) /\ UNCHANGED ledger
     \/ /\ Spend("error")
        /\ UNCHANGED <<queueVars, settled>>
        /\ dropped' = dropped \cup {t}
  /\ UNCHANGED storeVars

ApiNext ==
  \E t \in Tasks :
    \/ InsertTask(t) \/ SubmitTask(t)
    \/ CancelTask(t)
    \/ RedriveRow(t) \/ RedriveEnvelope(t)

ApiInit == api = [t \in Tasks |-> "none"]
=============================================================================
