--------------------------------- MODULE Hub ---------------------------------
(***************************************************************************)
(* internal/ws: the hub that passes the events of the Redis channel on to  *)
(* the WebSocket connections.  Goroutines: Run, which takes one message    *)
(* after the other and broadcasts it, and for every connection a write     *)
(* loop and the HTTP handler that turns into its read loop.                *)
(*                                                                         *)
(* The mutex: broadcast holds the read lock while it offers its message to *)
(* one client after the other (cast), so the sections that take the write  *)
(* lock are atomic and happen only while no broadcast is under way.        *)
(*                                                                         *)
(* Deadlines: a write takes 10 s at most, so a stalled peer makes it fail; *)
(* only pongs extend the read deadline of 60 s, so a peer that is silent,  *)
(* or gets no more pings, makes the read fail.                             *)
(***************************************************************************)
EXTENDS Naturals, Sequences, FiniteSets

CONSTANTS
  Clients,     \* connections, each of them opened at most once
  Cap,         \* 64 in the code: the capacity of a client's channel
  MaxEvents    \* bound: the number of events published

ASSUME HubAssumption == Cap \in Nat \ {0} /\ MaxEvents \in Nat

NoCast == [msg |-> 0, todo |-> {}]

VARIABLES
  running,     \* Run has not returned
  published,   \* the events published, numbered from 1
  bus,         \* what Run has still to receive from the subscription
  cast,        \* the broadcast under way: its message, the clients it misses
  clients,     \* h.clients
  conn,        \* "none", "open", "broken" (the peer is gone) or "closed"
  send,        \* the buffer of each client's channel
  closed,      \* the clients whose channel is closed
  reader,      \* "none", "serving" (registered), "reading", "leaving",
               \* "closing" (removed, connection not closed yet), "done"
  writer,      \* "none", "waiting", "writing" or "done"
  out,         \* the message the write loop took from the channel last
  shown        \* the last event each client received

busVars == <<running, published, bus, cast>>
clientVars == <<clients, conn, send, closed, reader, writer, out>>
vars == <<busVars, clientVars, shown>>

\* Every variable has its type, and what a write loop writes is an event.
HubTypeOK ==
  /\ running \in BOOLEAN
  /\ published \in 0 .. MaxEvents
  /\ bus \in Seq(1 .. MaxEvents)
  /\ cast \in [msg: 0 .. MaxEvents, todo: SUBSET Clients]
  /\ clients \subseteq Clients
  /\ conn \in [Clients -> {"none", "open", "broken", "closed"}]
  /\ send \in [Clients -> Seq(1 .. MaxEvents)]
  /\ closed \subseteq Clients
  /\ reader \in [Clients -> {"none", "serving", "reading", "leaving", "closing", "done"}]
  /\ writer \in [Clients -> {"none", "waiting", "writing", "done"}]
  /\ out \in [Clients -> 0 .. MaxEvents]
  /\ \A c \in Clients : writer[c] = "writing" => out[c] # 0
  /\ shown \in [Clients -> 0 .. MaxEvents]

Init ==
  /\ running = TRUE
  /\ published = 0
  /\ bus = <<>>
  /\ cast = NoCast
  /\ clients = {}
  /\ conn = [c \in Clients |-> "none"]
  /\ send = [c \in Clients |-> <<>>]
  /\ closed = {}
  /\ reader = [c \in Clients |-> "none"]
  /\ writer = [c \in Clients |-> "none"]
  /\ out = [c \in Clients |-> 0]
  /\ shown = [c \in Clients |-> 0]
-----------------------------------------------------------------------------
(* The bus and Run. *)

\* A service publishes an event.  Redis passes it to the subscriber that is
\* connected at that moment, so it may also be lost.
Publish ==
  /\ published < MaxEvents
  /\ published' = published + 1
  /\ bus' = Append(bus, published') \/ bus' = bus
  /\ UNCHANGED <<running, cast, clientVars, shown>>

\* Mutant: every message is broadcast by a goroutine of its own.
ReceiveAny ==
  /\ running /\ cast = NoCast
  /\ \E i \in DOMAIN bus :
       /\ cast' = [msg |-> bus[i], todo |-> clients]
       /\ bus' = SubSeq(bus, 1, i - 1) \o SubSeq(bus, i + 1, Len(bus))
  /\ UNCHANGED <<running, published, clientVars, shown>>

\* Run receives a message; broadcast takes the read lock.
Receive ==
  /\ running /\ cast = NoCast /\ bus # <<>>
  /\ cast' = [msg |-> Head(bus), todo |-> clients]
  /\ bus' = Tail(bus)
  /\ UNCHANGED <<running, published, clientVars, shown>>

\* Mutant: the send waits for room.
OfferBlocking(c) ==
  /\ c \in cast.todo
  /\ Len(send[c]) < Cap
  /\ send' = [send EXCEPT ![c] = Append(@, cast.msg)]
  /\ cast' = [cast EXCEPT !.todo = @ \ {c}]
  /\ UNCHANGED <<running, published, bus, clients, conn, closed, reader, writer, out, shown>>

\* The select with a default: a client whose buffer is full misses the event
\* and stays.
Offer(c) ==
  /\ c \in cast.todo
  /\ IF Len(send[c]) < Cap
     THEN send' = [send EXCEPT ![c] = Append(@, cast.msg)]
     ELSE UNCHANGED send
  /\ cast' = [cast EXCEPT !.todo = @ \ {c}]
  /\ UNCHANGED <<running, published, bus, clients, conn, closed, reader, writer, out, shown>>

\* The read lock is released.
CastDone ==
  /\ cast # NoCast /\ cast.todo = {}
  /\ cast' = NoCast
  /\ UNCHANGED <<running, published, bus, clientVars, shown>>

\* The context of the process ends, or the subscription's channel is closed.
Stop ==
  /\ running /\ cast = NoCast
  /\ running' = FALSE
  /\ UNCHANGED <<published, bus, cast, clientVars, shown>>
-----------------------------------------------------------------------------
(* ServeHTTP and readLoop. *)

\* The upgrade succeeds; a failing one leaves nothing behind.
Upgrade(c) ==
  /\ conn[c] = "none"
  /\ conn' = [conn EXCEPT ![c] = "open"]
  /\ UNCHANGED <<busVars, clients, send, closed, reader, writer, out, shown>>

\* Under the write lock.
Register(c) ==
  /\ conn[c] # "none" /\ reader[c] = "none"
  /\ cast = NoCast
  /\ clients' = clients \cup {c}
  /\ reader' = [reader EXCEPT ![c] = "serving"]
  /\ UNCHANGED <<busVars, conn, send, closed, writer, out, shown>>

\* The write loop is started and the handler becomes the read loop.
StartLoops(c) ==
  /\ reader[c] = "serving"
  /\ reader' = [reader EXCEPT ![c] = "reading"]
  /\ writer' = [writer EXCEPT ![c] = "waiting"]
  /\ UNCHANGED <<busVars, clients, conn, send, closed, out, shown>>

\* Mutant: without a read deadline only a broken connection ends the loop.
ReadFailsNoDeadline(c) ==
  /\ reader[c] = "reading" /\ conn[c] # "open"
  /\ reader' = [reader EXCEPT ![c] = "leaving"]
  /\ UNCHANGED <<busVars, clients, conn, send, closed, writer, out, shown>>

\* NextReader returns an error: the peer closed the connection, or is silent
\* until the deadline.  Messages that are read are ignored.
ReadFails(c) ==
  /\ reader[c] = "reading"
  /\ reader' = [reader EXCEPT ![c] = "leaving"]
  /\ UNCHANGED <<busVars, clients, conn, send, closed, writer, out, shown>>

\* Mutant: disconnect does not take the lock.
DisconnectUnlocked(c) ==
  /\ reader[c] = "leaving"
  /\ clients' = clients \ {c}
  /\ closed' = closed \cup {c}
  /\ reader' = [reader EXCEPT ![c] = "closing"]
  /\ UNCHANGED <<busVars, conn, send, writer, out, shown>>

\* disconnect, under the write lock: the client is removed and its channel
\* closed.
Disconnect(c) ==
  /\ reader[c] = "leaving"
  /\ cast = NoCast
  /\ clients' = clients \ {c}
  /\ closed' = IF c \in clients THEN closed \cup {c} ELSE closed
  /\ reader' = [reader EXCEPT ![c] = "closing"]
  /\ UNCHANGED <<busVars, conn, send, writer, out, shown>>

CloseConn(c) ==
  /\ reader[c] = "closing"
  /\ conn' = [conn EXCEPT ![c] = "closed"]
  /\ reader' = [reader EXCEPT ![c] = "done"]
  /\ UNCHANGED <<busVars, clients, send, closed, writer, out, shown>>
-----------------------------------------------------------------------------
(* writeLoop. *)

\* A closed channel still yields what is buffered.
TakeMessage(c) ==
  /\ writer[c] = "waiting" /\ send[c] # <<>>
  /\ writer' = [writer EXCEPT ![c] = "writing"]
  /\ out' = [out EXCEPT ![c] = Head(send[c])]
  /\ send' = [send EXCEPT ![c] = Tail(@)]
  /\ UNCHANGED <<busVars, clients, conn, closed, reader, shown>>

WriteDone(c) ==
  /\ writer[c] = "writing" /\ conn[c] = "open"
  /\ shown' = [shown EXCEPT ![c] = out[c]]
  /\ writer' = [writer EXCEPT ![c] = "waiting"]
  /\ UNCHANGED <<busVars, clients, conn, send, closed, reader, out>>

\* A message or a ping cannot be written: the connection is gone, or the peer
\* does not read and the deadline passes.  Only the loop ends.
WriteFails(c) ==
  /\ writer[c] \in {"writing", "waiting"}
  /\ writer' = [writer EXCEPT ![c] = "done"]
  /\ UNCHANGED <<busVars, clients, conn, send, closed, reader, out, shown>>

\* Mutant: a receive from the closed channel is taken for a message.
ChannelClosedUnchecked(c) ==
  /\ writer[c] = "waiting" /\ send[c] = <<>> /\ c \in closed
  /\ writer' = [writer EXCEPT ![c] = "writing"]
  /\ out' = [out EXCEPT ![c] = 0]
  /\ UNCHANGED <<busVars, clients, conn, send, closed, reader, shown>>

ChannelClosed(c) ==
  /\ writer[c] = "waiting" /\ send[c] = <<>> /\ c \in closed
  /\ writer' = [writer EXCEPT ![c] = "done"]
  /\ UNCHANGED <<busVars, clients, conn, send, closed, reader, out, shown>>

\* The browser goes away.
PeerGone(c) ==
  /\ conn[c] = "open"
  /\ conn' = [conn EXCEPT ![c] = "broken"]
  /\ UNCHANGED <<busVars, clients, send, closed, reader, writer, out, shown>>
-----------------------------------------------------------------------------
ClientStep(c) ==
  \/ Upgrade(c) \/ Register(c) \/ StartLoops(c)
  \/ ReadFails(c) \/ Disconnect(c) \/ CloseConn(c)
  \/ TakeMessage(c) \/ WriteDone(c) \/ WriteFails(c) \/ ChannelClosed(c)
  \/ PeerGone(c)

Next ==
  \/ Publish \/ Receive \/ CastDone \/ Stop
  \/ \E c \in Clients : Offer(c) \/ ClientStep(c)

Spec == Init /\ [][Next]_vars

\* The goroutines run.  A read must fail once the connection is broken, or once
\* no ping can draw a pong any more; a write succeeds or fails in 10 s.
FairSpec ==
  /\ Spec
  /\ WF_vars(Receive)
  /\ WF_vars(CastDone)
  /\ \A c \in Clients :
       /\ WF_vars(Offer(c))
       /\ WF_vars(Register(c) \/ StartLoops(c) \/ Disconnect(c) \/ CloseConn(c))
       /\ WF_vars(ReadFails(c) /\ (conn[c] # "open" \/ writer[c] = "done"))
       /\ WF_vars(TakeMessage(c))
       /\ WF_vars(ChannelClosed(c))
       /\ WF_vars((WriteDone(c) \/ WriteFails(c)) /\ writer[c] = "writing")
-----------------------------------------------------------------------------
(* Properties. *)

\* A broadcast never sends on a closed channel, which would panic and take the
\* API process down: whoever is still to be offered the message has an open
\* one, whatever its loops do meanwhile.
NoSendOnClosed == \A c \in cast.todo : c \notin closed

\* Whatever is lost on the way, a dashboard sees published events only, in
\* the order of publication and without duplicates.
Stream == INSTANCE EventStream
InOrder == Stream!Spec

\* One dashboard that does not read never holds up the others: every
\* broadcast ends, and with it the lock it holds.
BroadcastEnds == (cast # NoCast) ~> (cast = NoCast)

\* A client whose write loop has ended is removed and its connection closed,
\* although the write loop itself does neither.
DeadWriterRemoved ==
  \A c \in Clients :
    writer[c] = "done" ~> c \notin clients /\ conn[c] = "closed"
=============================================================================
