------------------------------ MODULE HubProofs ------------------------------
(***************************************************************************)
(* Theorems about Hub, for any set of clients, any capacity of their       *)
(* channels and any number of events: no send on a closed channel, and the *)
(* refinement of EventStream.                                              *)
(***************************************************************************)
EXTENDS Hub, TLAPS

\* What the mutex gives: a broadcast has a message and offers it to registered
\* clients only, and a client leaves h.clients and has its channel closed in
\* one critical section.
Locked ==
  /\ cast.todo \subseteq clients
  /\ cast.todo # {} => cast.msg # 0
  /\ \A c \in clients : reader[c] \in {"serving", "reading", "leaving"}
  /\ \A c \in closed : reader[c] \in {"closing", "done"}

\* The way of an event to client c, from back to front: bus, broadcast,
\* channel, write loop, browser.  What is further on is older.
Increasing(q) == \A i, j \in DOMAIN q : i < j => q[i] < q[j]

BusOrdered ==
  /\ Increasing(bus)
  /\ \A i \in DOMAIN bus : cast.msg < bus[i] /\ bus[i] <= published
  /\ cast.msg <= published

ChannelOrdered(c) ==
  /\ Increasing(send[c])
  /\ \A k \in DOMAIN send[c] :
       /\ out[c] < send[c][k] /\ send[c][k] <= published
       /\ c \in cast.todo => send[c][k] < cast.msg
       /\ \A i \in DOMAIN bus : send[c][k] < bus[i]

WriterOrdered(c) ==
  /\ shown[c] <= out[c] /\ out[c] <= published
  /\ writer[c] = "writing" => shown[c] < out[c]
  /\ c \in cast.todo => out[c] < cast.msg
  /\ \A i \in DOMAIN bus : out[c] < bus[i]

Ordered == BusOrdered /\ \A c \in Clients : ChannelOrdered(c) /\ WriterOrdered(c)
-----------------------------------------------------------------------------
(* Channels as sequences. *)

\* A send on a channel adds its message behind the others.
LEMMA AppendElements ==
  ASSUME NEW S, NEW q \in Seq(S), NEW e \in S
  PROVE  /\ Append(q, e) \in Seq(S)
         /\ DOMAIN q = 1 .. Len(q) /\ Len(q) \in Nat
         /\ DOMAIN Append(q, e) = 1 .. Len(q) + 1
         /\ \A i \in DOMAIN q : q[i] \in S /\ Append(q, e)[i] = q[i]
         /\ Append(q, e)[Len(q) + 1] = e
OBVIOUS

\* A receive takes the first message and moves the others up.
LEMMA TailElements ==
  ASSUME NEW S, NEW q \in Seq(S), q # <<>>
  PROVE  /\ Head(q) \in S /\ Head(q) = q[1] /\ 1 \in DOMAIN q
         /\ Tail(q) \in Seq(S)
         /\ \A i \in DOMAIN q : q[i] \in S
         /\ \A i \in DOMAIN Tail(q) : /\ i \in Nat /\ i + 1 \in DOMAIN q
                                      /\ i + 1 > 1 /\ Tail(q)[i] = q[i + 1]
OBVIOUS

\* Sending a later message than all the others keeps a channel increasing.
LEMMA AppendIncreasing ==
  ASSUME NEW S \in SUBSET Nat, NEW q \in Seq(S), NEW e \in S, Increasing(q),
         \A i \in DOMAIN q : q[i] < e
  PROVE  Increasing(Append(q, e))
<1>1. SUFFICES ASSUME NEW i \in DOMAIN Append(q, e), NEW j \in DOMAIN Append(q, e), i < j
               PROVE  Append(q, e)[i] < Append(q, e)[j]
  BY DEF Increasing
<1>2. i \in DOMAIN q /\ (j \in DOMAIN q \/ j = Len(q) + 1)
  BY <1>1, AppendElements
<1>3. Append(q, e)[i] = q[i]
  BY <1>2, AppendElements
<1>4. CASE j \in DOMAIN q
  BY <1>1, <1>2, <1>3, <1>4, AppendElements DEF Increasing
<1>5. CASE j = Len(q) + 1
  BY <1>2, <1>3, <1>5, AppendElements
<1> QED
  BY <1>2, <1>4, <1>5

\* Receiving keeps a channel increasing, and leaves later messages only.
LEMMA TailIncreasing ==
  ASSUME NEW S \in SUBSET Nat, NEW q \in Seq(S), q # <<>>, Increasing(q)
  PROVE  Increasing(Tail(q)) /\ \A i \in DOMAIN Tail(q) : Head(q) < Tail(q)[i]
<1>1. \A i \in DOMAIN Tail(q) : /\ i \in Nat /\ i + 1 \in DOMAIN q /\ i + 1 > 1
                                /\ Tail(q)[i] = q[i + 1]
  BY TailElements
<1>2. Head(q) = q[1] /\ 1 \in DOMAIN q
  BY TailElements
<1>3. ASSUME NEW i \in DOMAIN Tail(q), NEW j \in DOMAIN Tail(q), i < j
      PROVE  Tail(q)[i] < Tail(q)[j]
  <2>1. i + 1 < j + 1
    BY <1>1, <1>3
  <2> QED
    BY <1>1, <2>1 DEF Increasing
<1> QED
  BY <1>1, <1>2, <1>3 DEF Increasing
-----------------------------------------------------------------------------
(* Types and locks. *)

\* Every step keeps the types; what a write loop writes came from its channel.
LEMMA TypeStep == HubTypeOK /\ Locked /\ [Next]_vars => HubTypeOK'
<1> SUFFICES ASSUME HubTypeOK, Locked, [Next]_vars
             PROVE  HubTypeOK'
  OBVIOUS
<1> USE DEF HubTypeOK
<1>0. MaxEvents \in Nat /\ NoCast \in [msg: 0 .. MaxEvents, todo: SUBSET Clients]
  BY HubAssumption DEF NoCast
<1>1. CASE Publish
  <2>1. published' \in 1 .. MaxEvents
    BY <1>0, <1>1 DEF Publish
  <2>2. bus' \in Seq(1 .. MaxEvents)
    <3>1. bus \in Seq(1 .. MaxEvents) /\ (bus' = Append(bus, published') \/ bus' = bus)
      BY <1>1 DEF Publish
    <3> HIDE DEF HubTypeOK
    <3> QED
      BY <1>0, <2>1, <3>1, AppendElements
  <2> QED
    BY <1>0, <1>1, <2>1, <2>2 DEF Publish, clientVars
<1>2. CASE Receive
  <2>1. Head(bus) \in 1 .. MaxEvents /\ Tail(bus) \in Seq(1 .. MaxEvents)
    BY <1>2, TailElements DEF Receive
  <2> QED
    BY <1>0, <1>2, <2>1 DEF Receive, clientVars
<1>3. CASE CastDone \/ Stop
  BY <1>0, <1>3 DEF CastDone, Stop, clientVars
<1>4. ASSUME NEW c \in Clients, Offer(c)
      PROVE  HubTypeOK'
  <2>1. cast' \in [msg: 0 .. MaxEvents, todo: SUBSET Clients]
    BY <1>4 DEF Offer
  <2>2. cast.msg \in 1 .. MaxEvents
    BY <1>0, <1>4 DEF Offer, Locked
  <2>3. Append(send[c], cast.msg) \in Seq(1 .. MaxEvents)
    BY <2>2, AppendElements
  <2>4. send' \in [Clients -> Seq(1 .. MaxEvents)]
    BY <1>4, <2>3 DEF Offer
  <2> QED
    BY <1>4, <2>1, <2>4 DEF Offer
<1>5. ASSUME NEW c \in Clients, ClientStep(c)
      PROVE  HubTypeOK'
  <2>1. CASE Upgrade(c) \/ Register(c) \/ StartLoops(c)
    BY <1>5, <2>1 DEF Upgrade, Register, StartLoops, busVars
  <2>2. CASE ReadFails(c) \/ Disconnect(c) \/ CloseConn(c)
    BY <1>5, <2>2 DEF ReadFails, Disconnect, CloseConn, busVars
  <2>3. CASE TakeMessage(c)
    <3>1. Head(send[c]) \in 1 .. MaxEvents /\ Tail(send[c]) \in Seq(1 .. MaxEvents)
      BY <1>5, <2>3, TailElements DEF TakeMessage
    <3>2. send' \in [Clients -> Seq(1 .. MaxEvents)] /\ out' \in [Clients -> 0 .. MaxEvents]
      BY <1>0, <1>5, <2>3, <3>1 DEF TakeMessage
    <3>3. \A d \in Clients : writer'[d] = "writing" => out'[d] # 0
      BY <1>5, <2>3, <3>1 DEF TakeMessage
    <3> QED
      BY <1>5, <2>3, <3>2, <3>3 DEF TakeMessage, busVars
  <2>4. CASE WriteDone(c) \/ WriteFails(c) \/ ChannelClosed(c) \/ PeerGone(c)
    BY <1>5, <2>4 DEF WriteDone, WriteFails, ChannelClosed, PeerGone, busVars
  <2> QED
    BY <1>5, <2>1, <2>2, <2>3, <2>4 DEF ClientStep
<1>6. CASE UNCHANGED vars
  BY <1>6 DEF vars, busVars, clientVars
<1> QED
  BY <1>1, <1>2, <1>3, <1>4, <1>5, <1>6 DEF Next

\* Every step respects the lock.
LEMMA LockedStep == HubTypeOK /\ Locked /\ [Next]_vars => Locked'
<1> SUFFICES ASSUME HubTypeOK, Locked, [Next]_vars
             PROVE  Locked'
  OBVIOUS
<1> USE DEF Locked
<1>1. CASE Publish \/ CastDone \/ Stop
  BY <1>1 DEF Publish, CastDone, Stop, clientVars, NoCast
<1>2. CASE Receive
  <2>1. bus \in Seq(1 .. MaxEvents) /\ bus # <<>>
    BY <1>2 DEF HubTypeOK, Receive
  <2>2. Head(bus) # 0
    BY <2>1, TailElements, HubAssumption
  <2> QED
    BY <1>2, <2>2 DEF Receive, clientVars
<1>3. ASSUME NEW c \in Clients, Offer(c)
      PROVE  Locked'
  BY <1>3 DEF HubTypeOK, Offer
<1>4. ASSUME NEW c \in Clients, ClientStep(c)
      PROVE  Locked'
  <2> USE DEF HubTypeOK
  <2>1. CASE Register(c)
    BY <1>4, <2>1 DEF Register, busVars, NoCast
  <2>2. CASE Disconnect(c)
    BY <1>4, <2>2 DEF Disconnect, busVars, NoCast
  <2>3. CASE StartLoops(c) \/ ReadFails(c) \/ CloseConn(c)
    BY <1>4, <2>3 DEF StartLoops, ReadFails, CloseConn, busVars
  <2>4. CASE Upgrade(c) \/ TakeMessage(c) \/ PeerGone(c)
    BY <1>4, <2>4 DEF Upgrade, TakeMessage, PeerGone, busVars
  <2>5. CASE WriteDone(c) \/ WriteFails(c) \/ ChannelClosed(c)
    BY <1>4, <2>5 DEF WriteDone, WriteFails, ChannelClosed, busVars
  <2> QED
    BY <1>4, <2>1, <2>2, <2>3, <2>4, <2>5 DEF ClientStep
<1>5. CASE UNCHANGED vars
  BY <1>5 DEF vars, busVars, clientVars
<1> QED
  BY <1>1, <1>2, <1>3, <1>4, <1>5 DEF Next

\* Before anything happens the types and the lock are respected.
LEMMA LockedInit == Init => HubTypeOK /\ Locked
<1>1. MaxEvents \in Nat
  BY HubAssumption
<1> QED
  BY <1>1 DEF Init, HubTypeOK, Locked, NoCast

\* Type correctness: events are numbered within bounds wherever they are, and
\* a write loop writes only what it received.
THEOREM HubTypeCorrect == Spec => []HubTypeOK
<1>1. HubTypeOK /\ Locked /\ [Next]_vars => (HubTypeOK /\ Locked)'
  BY TypeStep, LockedStep
<1> QED
  BY LockedInit, <1>1, PTL DEF Spec

\* No broadcast ever sends on a closed channel, for any number of clients
\* connecting and leaving at any moment.
THEOREM NeverSendsOnClosed == Spec => []NoSendOnClosed
<1>1. HubTypeOK /\ Locked /\ [Next]_vars => (HubTypeOK /\ Locked)'
  BY TypeStep, LockedStep
<1>2. Locked => NoSendOnClosed
  BY DEF Locked, NoSendOnClosed
<1> QED
  BY LockedInit, <1>1, <1>2, PTL DEF Spec
-----------------------------------------------------------------------------
(* The order of events. *)

\* What is compared are numbers.
LEMMA Numbers ==
  ASSUME HubTypeOK
  PROVE  /\ 1 .. MaxEvents \in SUBSET Nat
         /\ published \in Nat /\ cast.msg \in Nat
         /\ \A i \in DOMAIN bus : bus[i] \in Nat
         /\ \A c \in Clients : /\ shown[c] \in Nat /\ out[c] \in Nat
                               /\ \A k \in DOMAIN send[c] : send[c][k] \in Nat
<1>1. MaxEvents \in Nat
  BY HubAssumption
<1>2. published \in Nat /\ cast.msg \in Nat
  BY <1>1 DEF HubTypeOK
<1>3. ASSUME NEW q \in Seq(1 .. MaxEvents), NEW i \in DOMAIN q
      PROVE  q[i] \in Nat
  BY <1>1, <1>3
<1>4. \A c \in Clients : shown[c] \in Nat /\ out[c] \in Nat
  BY <1>1 DEF HubTypeOK
<1>5. bus \in Seq(1 .. MaxEvents) /\ \A c \in Clients : send[c] \in Seq(1 .. MaxEvents)
  BY DEF HubTypeOK
<1> QED
  BY <1>1, <1>2, <1>3, <1>4, <1>5

\* The bus and Run: an event enters behind all the others and leaves first.
LEMMA BusStep ==
  ASSUME HubTypeOK, Ordered, Publish \/ Receive \/ CastDone \/ Stop
  PROVE  Ordered'
<1>0. /\ published \in Nat /\ cast.msg \in Nat
      /\ \A i \in DOMAIN bus : bus[i] \in Nat
      /\ \A c \in Clients : /\ shown[c] \in Nat /\ out[c] \in Nat
                            /\ \A k \in DOMAIN send[c] : send[c][k] \in Nat
  BY Numbers
<1>1. bus \in Seq(1 .. MaxEvents) /\ 1 .. MaxEvents \in SUBSET Nat
  BY Numbers DEF HubTypeOK
<1>2. CASE Publish
  <2>1. published' = published + 1 /\ published' \in 1 .. MaxEvents
    BY <1>0, <1>2, HubAssumption DEF Publish
  <2>2. /\ Increasing(bus')
        /\ \A i \in DOMAIN bus' : \/ i \in DOMAIN bus /\ bus'[i] = bus[i]
                                  \/ bus'[i] = published + 1
    <3>1. CASE bus' = bus
      BY <3>1 DEF Ordered, BusOrdered
    <3>2. CASE bus' = Append(bus, published')
      <4>1. \A i \in DOMAIN bus : bus[i] < published'
        BY <1>0, <2>1 DEF Ordered, BusOrdered
      <4>2. Increasing(Append(bus, published'))
        BY <1>1, <2>1, <4>1, AppendIncreasing DEF Ordered, BusOrdered
      <4> QED
        BY <1>1, <2>1, <3>2, <4>2, AppendElements
    <3> QED
      BY <1>2, <3>1, <3>2 DEF Publish
  <2>3. UNCHANGED <<cast, send, out, shown, writer>>
    BY <1>2 DEF Publish, clientVars
  <2>4. BusOrdered'
    BY <1>0, <2>1, <2>2, <2>3 DEF Ordered, BusOrdered
  <2>5. ASSUME NEW c \in Clients
        PROVE  ChannelOrdered(c)' /\ WriterOrdered(c)'
    BY <1>0, <2>1, <2>2, <2>3 DEF Ordered, ChannelOrdered, WriterOrdered, Increasing
  <2> QED
    BY <2>4, <2>5 DEF Ordered
<1>3. CASE Receive
  <2>1. /\ cast' = [msg |-> Head(bus), todo |-> clients] /\ bus' = Tail(bus)
        /\ bus # <<>> /\ UNCHANGED <<published, send, out, shown, writer>>
    BY <1>3 DEF Receive, clientVars
  <2>2. /\ Increasing(bus')
        /\ \A i \in DOMAIN bus' : Head(bus) < bus'[i]
        /\ \A i \in DOMAIN bus' : i + 1 \in DOMAIN bus /\ bus'[i] = bus[i + 1]
        /\ 1 \in DOMAIN bus /\ Head(bus) = bus[1]
    BY <1>1, <2>1, TailIncreasing, TailElements DEF Ordered, BusOrdered
  <2>3. BusOrdered'
    BY <2>1, <2>2 DEF Ordered, BusOrdered
  <2>4. ASSUME NEW c \in Clients
        PROVE  ChannelOrdered(c)' /\ WriterOrdered(c)'
    BY <2>1, <2>2 DEF Ordered, ChannelOrdered, WriterOrdered, Increasing
  <2> QED
    BY <2>3, <2>4 DEF Ordered
<1>4. CASE CastDone \/ Stop
  <2>1. /\ cast' \in {cast, NoCast}
        /\ UNCHANGED <<published, bus, send, out, shown, writer>>
    BY <1>4 DEF CastDone, Stop, clientVars
  <2>2. ASSUME NEW i \in DOMAIN bus
        PROVE  0 < bus[i]
    BY <1>0 DEF Ordered, BusOrdered
  <2>3. BusOrdered'
    BY <1>0, <2>1, <2>2 DEF Ordered, BusOrdered, NoCast
  <2>4. ASSUME NEW c \in Clients
        PROVE  ChannelOrdered(c)' /\ WriterOrdered(c)'
    BY <2>1 DEF Ordered, ChannelOrdered, WriterOrdered, NoCast, Increasing
  <2> QED
    BY <2>3, <2>4 DEF Ordered
<1> QED
  BY <1>2, <1>3, <1>4

\* A broadcast: the message goes behind what the channel holds, or nowhere.
LEMMA OfferStep ==
  ASSUME HubTypeOK, Locked, Ordered, NEW c \in Clients, Offer(c)
  PROVE  Ordered'
<1>0. /\ published \in Nat /\ cast.msg \in Nat
      /\ \A i \in DOMAIN bus : bus[i] \in Nat
      /\ \A d \in Clients : /\ shown[d] \in Nat /\ out[d] \in Nat
                            /\ \A k \in DOMAIN send[d] : send[d][k] \in Nat
  BY Numbers
<1>1. /\ cast'.msg = cast.msg /\ cast'.todo = cast.todo \ {c} /\ c \in cast.todo
      /\ UNCHANGED <<published, bus, out, shown, writer>>
      /\ \A d \in Clients : d # c => send'[d] = send[d]
      /\ send'[c] \in {send[c], Append(send[c], cast.msg)}
  BY DEF Offer, HubTypeOK
<1>2. send[c] \in Seq(1 .. MaxEvents) /\ cast.msg \in 1 .. MaxEvents
      /\ 1 .. MaxEvents \in SUBSET Nat
  BY <1>0, <1>1, Numbers, HubAssumption DEF HubTypeOK, Locked
<1>3. BusOrdered'
  BY <1>1 DEF Ordered, BusOrdered, Increasing
<1>4. ASSUME NEW d \in Clients
      PROVE  WriterOrdered(d)'
  BY <1>1 DEF Ordered, WriterOrdered
<1>5. ASSUME NEW d \in Clients, d # c
      PROVE  ChannelOrdered(d)'
  BY <1>1, <1>5 DEF Ordered, ChannelOrdered, Increasing
<1>6. ChannelOrdered(c)'
  <2>1. CASE send'[c] = send[c]
    BY <1>1, <2>1 DEF Ordered, ChannelOrdered, Increasing
  <2>2. CASE send'[c] = Append(send[c], cast.msg)
    <3>1. \A k \in DOMAIN send[c] : send[c][k] < cast.msg
      BY <1>1 DEF Ordered, ChannelOrdered
    <3>2. Increasing(send'[c])
      BY <1>2, <2>2, <3>1, AppendIncreasing DEF Ordered, ChannelOrdered
    <3>3. ASSUME NEW k \in DOMAIN send'[c]
          PROVE  /\ out[c] < send'[c][k] /\ send'[c][k] <= published
                 /\ \A i \in DOMAIN bus : send'[c][k] < bus[i]
      <4>1. (k \in DOMAIN send[c] /\ send'[c][k] = send[c][k]) \/ send'[c][k] = cast.msg
        BY <1>2, <2>2, AppendElements
      <4> QED
        BY <1>1, <4>1 DEF Ordered, BusOrdered, ChannelOrdered, WriterOrdered
    <3> QED
      BY <1>1, <3>2, <3>3 DEF ChannelOrdered
  <2> QED
    BY <1>1, <2>1, <2>2
<1> QED
  BY <1>3, <1>4, <1>5, <1>6 DEF Ordered

\* The loops of a connection: the write loop takes the oldest message.
LEMMA ClientOrder ==
  ASSUME HubTypeOK, Locked, Ordered, NEW c \in Clients, ClientStep(c)
  PROVE  Ordered'
<1>1. UNCHANGED <<published, bus, cast>>
  BY DEF ClientStep, Upgrade, Register, StartLoops, ReadFails, Disconnect, CloseConn,
         TakeMessage, WriteDone, WriteFails, ChannelClosed, PeerGone, busVars
<1>2. BusOrdered'
  BY <1>1 DEF Ordered, BusOrdered
<1>3. CASE TakeMessage(c)
  <2>1. /\ writer[c] = "waiting" /\ send[c] # <<>> /\ UNCHANGED shown
        /\ out'[c] = Head(send[c]) /\ send'[c] = Tail(send[c])
        /\ \A d \in Clients : d # c => /\ out'[d] = out[d] /\ send'[d] = send[d]
                                       /\ writer'[d] = writer[d]
    BY <1>3 DEF TakeMessage, HubTypeOK
  <2>2. send[c] \in Seq(1 .. MaxEvents) /\ 1 .. MaxEvents \in SUBSET Nat
    BY Numbers DEF HubTypeOK
  <2>3. /\ Increasing(send'[c]) /\ \A k \in DOMAIN send'[c] : out'[c] < send'[c][k]
        /\ 1 \in DOMAIN send[c] /\ out'[c] = send[c][1]
        /\ \A k \in DOMAIN send'[c] : k + 1 \in DOMAIN send[c] /\ send'[c][k] = send[c][k + 1]
    <3>1. Increasing(send[c])
      BY DEF Ordered, ChannelOrdered
    <3>2. /\ Increasing(Tail(send[c]))
          /\ \A k \in DOMAIN Tail(send[c]) : Head(send[c]) < Tail(send[c])[k]
      BY <2>1, <2>2, <3>1, TailIncreasing
    <3> QED
      BY <2>1, <2>2, <3>2, TailElements
  <2>4. ChannelOrdered(c)'
    BY <1>1, <2>3 DEF Ordered, ChannelOrdered
  <2>5. out[c] < out'[c] /\ out[c] \in Nat /\ out'[c] \in Nat /\ shown[c] \in Nat
    BY <2>3, Numbers DEF Ordered, ChannelOrdered
  <2>6. WriterOrdered(c)'
    BY <1>1, <2>1, <2>3, <2>5 DEF Ordered, ChannelOrdered, WriterOrdered
  <2>7. ASSUME NEW d \in Clients, d # c
        PROVE  ChannelOrdered(d)' /\ WriterOrdered(d)'
    BY <1>1, <2>1, <2>7 DEF Ordered, ChannelOrdered, WriterOrdered, Increasing
  <2> QED
    BY <1>2, <2>4, <2>6, <2>7 DEF Ordered
<1>4. ASSUME ~TakeMessage(c)
      PROVE  Ordered'
  <2>1. /\ UNCHANGED <<send, out>>
        /\ \A d \in Clients : \/ shown'[d] = shown[d] /\ writer'[d] = writer[d]
                              \/ shown'[d] = shown[d] /\ writer'[d] # "writing"
                              \/ shown'[d] = out[d] /\ writer'[d] = "waiting"
    BY <1>4 DEF ClientStep, Upgrade, Register, StartLoops, ReadFails, Disconnect,
         CloseConn, WriteDone, WriteFails, ChannelClosed, PeerGone, HubTypeOK
  <2>2. ASSUME NEW d \in Clients
        PROVE  ChannelOrdered(d)' /\ WriterOrdered(d)'
    BY <1>1, <2>1, Numbers DEF Ordered, ChannelOrdered, WriterOrdered, Increasing
  <2> QED
    BY <1>2, <2>2 DEF Ordered
<1> QED
  BY <1>3, <1>4

\* Before anything happens all is in order.
LEMMA OrderedInit == Init => Ordered
BY DEF Init, Ordered, BusOrdered, ChannelOrdered, WriterOrdered, Increasing, NoCast

\* Every step keeps the order.
LEMMA OrderedStep == HubTypeOK /\ Locked /\ Ordered /\ [Next]_vars => Ordered'
<1> SUFFICES ASSUME HubTypeOK, Locked, Ordered, [Next]_vars
             PROVE  Ordered'
  OBVIOUS
<1>1. CASE UNCHANGED vars
  BY <1>1 DEF vars, busVars, clientVars, Ordered, BusOrdered, ChannelOrdered,
              WriterOrdered, Increasing
<1> QED
  BY <1>1, BusStep, OfferStep, ClientOrder DEF Next

\* A step of the hub is a step of the event stream, or nothing a dashboard
\* notices.
LEMMA StreamStep ==
  HubTypeOK /\ Ordered /\ [Next]_vars => [Stream!Next]_<<published, shown>>
<1> SUFFICES ASSUME HubTypeOK, Ordered, [Next]_vars
             PROVE  Stream!Next \/ UNCHANGED <<published, shown>>
  OBVIOUS
<1>1. CASE Publish
  BY <1>1 DEF Publish, Stream!Next, Stream!Publish
<1>2. ASSUME NEW c \in Clients, WriteDone(c)
      PROVE  Stream!Show(c)
  <2>1. /\ writer[c] = "writing" /\ shown' = [shown EXCEPT ![c] = out[c]]
        /\ UNCHANGED published
    BY <1>2 DEF WriteDone, busVars
  <2>2. shown'[c] = out[c]
    BY <2>1 DEF HubTypeOK
  <2>3. shown[c] < out[c] /\ out[c] <= published
    BY <2>1 DEF Ordered, WriterOrdered
  <2>4. out[c] \in shown[c] + 1 .. published
    BY <2>3, Numbers
  <2> QED
    BY <2>1, <2>2, <2>4 DEF Stream!Show
<1>3. CASE Receive \/ CastDone \/ Stop \/ \E c \in Clients : Offer(c)
  BY <1>3 DEF Receive, CastDone, Stop, Offer
<1>4. ASSUME NEW c \in Clients, ClientStep(c), ~WriteDone(c)
      PROVE  UNCHANGED <<published, shown>>
  BY <1>4 DEF ClientStep, Upgrade, Register, StartLoops, ReadFails, Disconnect,
              CloseConn, TakeMessage, WriteFails, ChannelClosed, PeerGone, busVars
<1>5. CASE UNCHANGED vars
  BY <1>5 DEF vars, busVars
<1> QED
  BY <1>1, <1>2, <1>3, <1>4, <1>5 DEF Next, Stream!Next

\* The hub implements EventStream: for any number of clients, sizes of their
\* channels and events, and however clients come, go, stall and are dropped, a
\* dashboard sees published events only, in order and each at most once.
THEOREM StreamInOrder == Spec => InOrder
<1>1. Init => Stream!Init
  BY DEF Init, Stream!Init
<1>2. HubTypeOK /\ Locked /\ Ordered /\ [Next]_vars => (HubTypeOK /\ Locked /\ Ordered)'
  BY TypeStep, LockedStep, OrderedStep
<1>3. Spec => [](HubTypeOK /\ Locked /\ Ordered)
  BY <1>2, LockedInit, OrderedInit, PTL DEF Spec
<1> QED
  BY <1>1, <1>3, StreamStep, PTL DEF Spec, InOrder, Stream!Spec
=============================================================================
