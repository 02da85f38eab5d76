----------------------------- MODULE EventStream -----------------------------
(***************************************************************************)
(* What a dashboard may rely on when it watches the event stream: events   *)
(* may be missing, but the ones that arrive were published, come in the    *)
(* order they were published in, and each comes once.                      *)
(***************************************************************************)
EXTENDS Naturals

CONSTANT Clients

VARIABLES published,   \* the number of events published so far
          shown        \* the number of the last event each client received

Init ==
  /\ published = 0
  /\ shown = [c \in Clients |-> 0]

Publish ==
  /\ published' = published + 1
  /\ UNCHANGED shown

Show(c) ==
  /\ shown'[c] \in shown[c] + 1 .. published
  /\ shown' = [shown EXCEPT ![c] = shown'[c]]
  /\ UNCHANGED published

Next == Publish \/ \E c \in Clients : Show(c)

Spec == Init /\ [][Next]_<<published, shown>>
=============================================================================
