---------------------------- MODULE GatewayProofs ---------------------------
(***************************************************************************)
(* The gateway implements the notifier, so that everything proved of the   *)
(* notifier holds in it, and its peer table is up to date between two      *)
(* datagrams.                                                              *)
(***************************************************************************)
EXTENDS Gateway, NotifierProofs

Record == [ptr: Addrs, len: Addrs]

UDPState ==
    {Reading} \cup [pc: {"write"}, peer: Peers, addr: Addrs, words: SUBSET {"ptr", "len"}]
              \cup [pc: {"ack"}, id: AckIDs]
              \cup [pc: {"relay"}, dest: Addrs, payload: Payloads]

ServerType ==
    /\ DOMAIN peers \subseteq Peers
    /\ peers \in [DOMAIN peers -> Record]
    /\ udp \in UDPState

\* Both words of every record are those of the latest heartbeat, except for the
\* words of one record that the UDP loop still has to write.
Written ==
    /\ DOMAIN peers = DOMAIN last
    /\ udp.pc = "write" =>
         udp.peer \in DOMAIN peers /\ last[udp.peer] = udp.addr /\ udp.words # {}
    /\ \A v \in DOMAIN peers :
         /\ (udp.pc = "write" /\ udp.peer = v /\ "ptr" \in udp.words) \/ peers[v].ptr = last[v]
         /\ (udp.pc = "write" /\ udp.peer = v /\ "len" \in udp.words) \/ peers[v].len = last[v]

GInv == ServerType /\ Written

LEMMA GatewayInitInv == GatewayInit => GInv
  BY DEF GatewayInit, GInv, ServerType, Written, UDPState, Reading

\* A heartbeat of v from a.
LEMMA HeartbeatInv ==
    ASSUME GInv, NEW v \in Peers, NEW a \in Addrs, Heartbeat(v, a)
    PROVE  GInv'
<1> DEFINE fresh_ == [ptr |-> a, len |-> a]
           write == [pc |-> "write", peer |-> v, addr |-> a, words |-> {"ptr", "len"}]
<1>1. udp = Reading /\ last' = Bind(last, v, a) /\ DOMAIN last' = DOMAIN last \cup {v}
  BY DEF Heartbeat, Bind
<1>2. \A u \in DOMAIN peers : peers[u].ptr = last[u] /\ peers[u].len = last[u]
  BY <1>1 DEF GInv, Written, Reading
<1>3. CASE v \notin DOMAIN peers
  <2>1. peers' = Bind(peers, v, fresh_) /\ udp' = udp
    BY <1>3 DEF Heartbeat
  <2>2. ServerType'
    BY <1>3, <2>1 DEF GInv, ServerType, Bind, Record
  <2>3. Written'
    BY <1>1, <1>2, <2>1 DEF GInv, Written, Bind, Reading
  <2> QED
    BY <2>2, <2>3 DEF GInv
<1>4. CASE v \in DOMAIN peers /\ peers[v].ptr = a
  <2>1. peers' = peers /\ udp' = udp
    BY <1>4 DEF Heartbeat
  <2> QED
    BY <1>1, <1>2, <1>4, <2>1 DEF GInv, ServerType, Written, Bind, Reading
<1>5. CASE v \in DOMAIN peers /\ peers[v].ptr # a
  <2>1. peers' = peers /\ udp' = write
    BY <1>5 DEF Heartbeat
  <2>2. ServerType'
    BY <2>1 DEF GInv, ServerType, UDPState
  <2>3. Written'
    BY <1>1, <1>2, <1>5, <2>1 DEF GInv, Written, Bind
  <2> QED
    BY <2>2, <2>3 DEF GInv
<1> QED
  BY <1>3, <1>4, <1>5

\* One word of the record is rewritten.
LEMMA WriteWordInv ==
    ASSUME GInv, NEW w \in {"ptr", "len"}, WriteWord(w)
    PROVE  GInv'
<1> DEFINE v == udp.peer
           r == [peers[v] EXCEPT ![w] = udp.addr]
<1>1. /\ udp \in [pc: {"write"}, peer: Peers, addr: Addrs, words: SUBSET {"ptr", "len"}]
      /\ w \in udp.words
      /\ v \in DOMAIN peers /\ last[v] = udp.addr
  BY DEF WriteWord, GInv, ServerType, UDPState, Reading, Written
<1>2. peers' = [peers EXCEPT ![v] = r] /\ last' = last
  BY DEF WriteWord
<1>3. peers[v] \in Record
  BY <1>1 DEF GInv, ServerType
<1>4. /\ r \in Record
      /\ w = "ptr" => r.ptr = udp.addr /\ r.len = peers[v].len
      /\ w = "len" => r.len = udp.addr /\ r.ptr = peers[v].ptr
  BY <1>1, <1>3 DEF Record
<1>5. DOMAIN peers' = DOMAIN peers /\ peers' \in [DOMAIN peers -> Record]
  BY <1>1, <1>2, <1>4 DEF GInv, ServerType
<1> HIDE DEF r
<1>6. CASE udp.words = {w}
  <2>1. udp' = Reading
    BY <1>6 DEF WriteWord
  <2> QED
    BY <1>1, <1>2, <1>4, <1>5, <1>6, <2>1
    DEF GInv, ServerType, Written, UDPState, Reading
<1>7. CASE udp.words # {w}
  <2>1. udp' = [udp EXCEPT !.words = @ \ {w}]
    BY <1>7 DEF WriteWord
  <2>2. /\ udp' \in [pc: {"write"}, peer: Peers, addr: Addrs, words: SUBSET {"ptr", "len"}]
        /\ udp'.peer = v /\ udp'.addr = udp.addr /\ udp'.words = udp.words \ {w}
        /\ udp'.pc = "write"
    BY <1>1, <2>1
  <2>3. udp'.words # {}
    BY <1>1, <1>7, <2>2
  <2>4. ServerType'
    BY <1>5, <2>2 DEF GInv, ServerType, UDPState
  <2>5. Written'
    BY <1>1, <1>2, <1>4, <1>5, <2>2, <2>3 DEF GInv, Written
  <2> QED
    BY <2>4, <2>5 DEF GInv
<1> QED
  BY <1>6, <1>7

\* Every step of the gateway keeps the table right and is a step of the notifier
\* or invisible to it.
LEMMA GatewayStep ==
    ASSUME GInv, [GatewayNext]_gatewayVars
    PROVE  GInv' /\ [Next]_vars
<1> USE NotifierAssumption
<1>k. ASSUME UNCHANGED <<serverVars, udp>>
      PROVE  GInv'
  BY <1>k DEF serverVars, GInv, ServerType, Written
<1>1. ASSUME NEW h \in Handlers, OpenTunnel(h)
      PROVE  GInv' /\ Next
  BY <1>1, <1>k DEF OpenTunnel, GInv, ServerType, Next, Handler
<1>2. ASSUME NEW h \in Handlers, PutPeers(h)
      PROVE  GInv' /\ Next
  BY <1>2, <1>k DEF PutPeers, Next, Handler
<1>3. ASSUME \/ \E h \in Handlers : Lock(h) \/ Notify(h)
             \/ Dispatcher
             \/ \E w \in Workers : Worker(w),
             UNCHANGED <<serverVars, udp>>
      PROVE  GInv' /\ Next
  BY <1>3, <1>k DEF Next, Handler
<1>4. ASSUME NEW v \in Peers, NEW a \in AddrsOf[v], Heartbeat(v, a)
      PROVE  GInv' /\ UNCHANGED vars
  BY <1>4, HeartbeatInv DEF Heartbeat
<1>5. ASSUME NEW w \in {"ptr", "len"}, WriteWord(w)
      PROVE  GInv' /\ UNCHANGED vars
  BY <1>5, WriteWordInv DEF WriteWord
<1>6. ASSUME NEW id \in AckIDs, ReadAck(id)
      PROVE  GInv' /\ UNCHANGED vars
  BY <1>6 DEF ReadAck, serverVars, GInv, ServerType, Written, UDPState, Reading
<1>7. ASSUME ApplyAck
      PROVE  GInv' /\ Next
  <2>1. udp.id \in AckIDs
    BY <1>7 DEF ApplyAck, GInv, ServerType, UDPState, Reading
  <2>2. GInv'
    BY <1>7 DEF ApplyAck, serverVars, GInv, ServerType, Written, UDPState, Reading
  <2> QED
    BY <1>7, <2>1, <2>2 DEF ApplyAck, Next, UDPLoop
<1>8. ASSUME NEW payload \in Payloads, ReadRelay(payload)
      PROVE  GInv' /\ UNCHANGED vars
  <2>1. PICK dest \in RelayDestination(payload) :
          udp' = [pc |-> "relay", dest |-> dest, payload |-> payload]
    BY <1>8 DEF ReadRelay
  <2>2. udp = Reading /\ PayloadFor[payload] \in DOMAIN peers
    BY <1>8 DEF ReadRelay
  <2>3. dest \in Addrs
    BY <2>2 DEF RelayDestination, UDPAddress, GInv, ServerType, Written, Reading, Record
  <2> QED
    BY <1>8, <2>1, <2>2, <2>3
    DEF ReadRelay, serverVars, GInv, ServerType, Written, UDPState, Reading
<1>9. ASSUME ApplyRelay
      PROVE  GInv' /\ Next
  <2>1. udp.dest \in Addrs /\ udp.payload \in Payloads
    BY <1>9 DEF ApplyRelay, GInv, ServerType, UDPState, Reading
  <2>2. GInv'
    BY <1>9 DEF ApplyRelay, serverVars, GInv, ServerType, Written, UDPState, Reading
  <2> QED
    BY <1>9, <2>1, <2>2 DEF ApplyRelay, Next, UDPLoop
<1>10. CASE UNCHANGED gatewayVars
  BY <1>10, <1>k DEF gatewayVars, serverVars
<1> QED
  BY <1>1, <1>2, <1>3, <1>4, <1>5, <1>6, <1>7, <1>8, <1>9, <1>10
  DEF GatewayNext, Process

LEMMA GatewayInvariance == GatewaySpec => []GInv
  BY GatewayInitInv, GatewayStep, PTL DEF GatewaySpec

\* The server, the processor and the UDP loop use the notifier only as its
\* specification allows, whatever they interleave with.
THEOREM GatewayImplements == GatewaySpec => ImplementsNotifier
<1>1. GatewayInit => Init
  BY DEF GatewayInit
<1>2. GInv /\ [GatewayNext]_gatewayVars => [Next]_vars
  BY GatewayStep
<1> QED
  BY GatewayInvariance, <1>1, <1>2, PTL DEF GatewaySpec, ImplementsNotifier, Spec

\* Between two datagrams every record holds the address of the peer's latest
\* heartbeat (Server.Heartbeat).
THEOREM TableUpToDate == GatewaySpec => []UpToDate
<1>1. GInv => UpToDate
  BY DEF GInv, ServerType, Written, UpToDate, Record
<1> QED
  BY GatewayInvariance, <1>1, PTL

\* In the gateway, too, no new notification waits for the ticker (OpenTunnel,
\* notify, retry).
THEOREM GatewayWakeup == GatewaySpec => []NoLostWakeup
  BY GatewayImplements, WakeupSafe, PTL DEF ImplementsNotifier

-----------------------------------------------------------------------------
(* Where the packets go.  The histories of heartbeats only grow, so what   *)
(* is right of a packet when it is made stays right; the words of a record *)
(* are always words of addresses its peer was heard from.                  *)

\* A packet that does what Introduced and RelayedToPeer say of its datagram.
Addressed(p) ==
    /\ p.typ = "OpenTunnel" =>
         /\ p.message.udpAddress \in Known(p.message.virtAddress)
         /\ NoSelf => \E v \in Peers \ {p.message.virtAddress} : p.destination \in Known(v)
    /\ p.typ = "Data" => p.destination \in seen[PayloadFor[p.message]]

\* The words of the records, those still to be written and the address of the
\* data about to be queued come from heartbeats of the peer concerned.
Heard ==
    /\ seen \in [Peers -> SUBSET Addrs]
    /\ \A v \in DOMAIN peers : peers[v].ptr \in seen[v] /\ peers[v].len \in seen[v]
    /\ udp.pc = "write" => udp.addr \in seen[udp.peer]
    /\ udp.pc = "relay" => udp.dest \in seen[PayloadFor[udp.payload]]

\* A handler works for two peers of the table, and for two different ones if the
\* clients ask for no other.
TwoKnown ==
    \A h \in Handlers : op[h].pc # "idle" =>
        /\ NoSelf => op[h].peers[1] # op[h].peers[2]
        /\ op[h].peers[1] \in DOMAIN peers /\ op[h].peers[2] \in DOMAIN peers

AInv == Heard /\ TwoKnown /\ \A p \in Packets : Addressed(p)

Elems(q) == {q[i] : i \in DOMAIN q}

LEMMA AppendElems ==
    ASSUME NEW S, NEW q \in Seq(S), NEW e \in S
    PROVE  Elems(Append(q, e)) \subseteq Elems(q) \cup {e}
  BY DEF Elems

LEMMA TailElems ==
    ASSUME NEW S, NEW q \in Seq(S), q # <<>>
    PROVE  Elems(Tail(q)) \subseteq Elems(q) /\ Head(q) \in Elems(q)
<1>1. Len(q) \in Nat \ {0} /\ DOMAIN q = 1..Len(q) /\ Head(q) = q[1]
  OBVIOUS
<1>2. DOMAIN Tail(q) = 1..(Len(q) - 1) /\ \A i \in 1..(Len(q) - 1) : Tail(q)[i] = q[i + 1]
  OBVIOUS
<1> QED
  BY <1>1, <1>2 DEF Elems

\* A packet of the notifier is in one of four places.
LEMMA PacketPlaces ==
    ASSUME NEW p
    PROVE  p \in Packets <=> \/ \E id \in DOMAIN data : p = data[id].packet
                             \/ p \in Elems(queue)
                             \/ p \in Elems(disp.held)
                             \/ \E w \in Workers : p \in Elems(chs[w])
  BY DEF Packets, Elems

\* Handlers that lock or unlock, the dispatcher and the workers only pass
\* packets on.
LEMMA PassedOn ==
    ASSUME IInv,
           \/ \E h \in Handlers : \/ \E s, d \in Peers : Call(h, s, d)
                                  \/ Lock(h) \/ Notify(h)
           \/ \E id \in AckIDs : OpenTunnelAck(id)
           \/ Dispatcher
           \/ \E w \in Workers : Worker(w)
    PROVE  Packets' \subseteq Packets
<1> SUFFICES ASSUME NEW p \in Packets'
             PROVE  p \in Packets
  OBVIOUS
<1>p. \/ \E id \in DOMAIN data' : p = data'[id].packet
      \/ p \in Elems(queue')
      \/ p \in Elems(disp'.held)
      \/ \E w \in Workers : p \in Elems(chs'[w])
  BY DEF Packets, Elems
<1>t. /\ queue \in Seq(Packet) /\ chs \in [Workers -> Seq(Packet)]
      /\ disp \in DispatcherState
  BY DEF IInv, TypeOK
<1>s. ASSUME NEW x \in Packet, Send(x), x \in Packets, disp'.held \in {disp.held, <<>>},
             queue' = queue, \A id \in DOMAIN data' : id \in DOMAIN data /\ data'[id] = data[id]
      PROVE  p \in Packets
  <2>1. roundTrip \in Workers /\ chs' = [chs EXCEPT ![roundTrip] = Append(@, x)]
    BY <1>s DEF Send, IInv, TypeOK
  <2>2. \A w \in Workers : Elems(chs'[w]) \subseteq Elems(chs[w]) \cup {x}
    BY <1>t, <2>1, AppendElems
  <2> QED
    BY <1>p, <1>s, <2>2, PacketPlaces DEF Elems
<1>1. CASE \/ \E h \in Handlers : \/ \E s, d \in Peers : Call(h, s, d)
                                  \/ Lock(h) \/ Notify(h)
           \/ \E id \in AckIDs : OpenTunnelAck(id)
           \/ SelectTick \/ SelectRead \/ RetryLock \/ RetryUnlock
  BY <1>1, <1>p, <1>t, PacketPlaces
  DEF Call, Lock, Notify, OpenTunnelAck, SelectTick, SelectRead, RetryLock, RetryUnlock,
      DispatcherState
<1>2. CASE SelectQueue
  <2>1. /\ queue # <<>> /\ queue' = Tail(queue)
        /\ disp'.held = <<Head(queue)>>
        /\ data' = data /\ chs' = chs
    BY <1>2, <1>t DEF SelectQueue, DispatcherState
  <2> QED
    BY <1>p, <1>t, <2>1, TailElems, PacketPlaces DEF Elems
<1>3. CASE SendQueued
  <2>1. disp.held \in Seq(Packet) /\ disp.held # <<>>
    BY <1>3, <1>t DEF SendQueued, IInv, HeldPacket, DispatcherState
  <2>2. disp.held[1] \in Packet /\ disp.held[1] \in Packets
    BY <2>1, PacketPlaces DEF Elems
  <2>3. Send(disp.held[1]) /\ disp'.held = <<>> /\ queue' = queue /\ data' = data
    BY <1>3, <1>t DEF SendQueued, DispatcherState
  <2> QED
    BY <1>s, <2>2, <2>3
<1>4. CASE \E id \in disp.todo : RetryEntry(id)
  <2>1. PICK id \in disp.todo : RetryEntry(id)
    BY <1>4
  <2>2. id \in DOMAIN data /\ data[id].packet \in Packet
    BY <2>1 DEF RetryEntry, IInv, RetrySeesEntry, TypeOK, RetryPacket
  <2>3. queue' = queue /\ disp'.held = disp.held
    BY <2>1, <1>t DEF RetryEntry, DispatcherState
  <2>4. CASE data[id].counter > MaxRetrySend
    BY <1>p, <2>1, <2>3, <2>4, PacketPlaces DEF RetryEntry
  <2>5. CASE ~(data[id].counter > MaxRetrySend)
    <3>1. Send(data[id].packet) /\ data' = data
      BY <2>1, <2>5 DEF RetryEntry
    <3> QED
      BY <1>s, <2>2, <2>3, <3>1, PacketPlaces
  <2> QED
    BY <2>4, <2>5
<1>5. CASE \E w \in Workers : Worker(w)
  <2>1. PICK w \in Workers : Worker(w)
    BY <1>5
  <2>2. \A u \in Workers : Elems(chs'[u]) \subseteq Elems(chs[u])
    BY <1>t, <2>1, TailElems DEF Worker
  <2> QED
    BY <1>p, <2>1, <2>2, PacketPlaces DEF Worker
<1> QED
  BY <1>1, <1>2, <1>3, <1>4, <1>5 DEF Dispatcher

LEMMA PutPackets ==
    ASSUME IInv, NEW h \in Handlers, Put(h)
    PROVE  Packets' \subseteq Packets \cup {data'[ackID'].packet}
<1>1. /\ \A id \in DOMAIN data' : id = ackID' \/ (id \in DOMAIN data /\ data'[id] = data[id])
      /\ queue' = queue /\ disp' = disp /\ chs' = chs
  BY DEF Put
<1> QED
  BY <1>1 DEF Packets

LEMMA RelayPackets ==
    ASSUME IInv, NEW dest \in Addrs, NEW payload \in Payloads, Relay(dest, payload)
    PROVE  Packets' \subseteq Packets \cup
             {[destination |-> dest, typ |-> "Data", message |-> payload]}
<1> DEFINE x == [destination |-> dest, typ |-> "Data", message |-> payload]
<1>1. x \in Packet
  BY DEF Packet
<1>2. queue' = Append(queue, x) /\ data' = data /\ disp' = disp /\ chs' = chs
  BY DEF Relay
<1>3. queue \in Seq(Packet)
  BY DEF IInv, TypeOK
<1> HIDE DEF x
<1>4. Elems(queue') \subseteq Elems(queue) \cup {x}
  BY <1>1, <1>2, <1>3, AppendElems
<1>5. Packets' \subseteq Packets \cup {x}
  BY <1>2, <1>4 DEF Packets, Elems
<1> QED
  BY <1>5 DEF x

\* A packet stays right when more heartbeats have been heard.
LEMMA HeardGrows ==
    ASSUME NEW p \in Packet, Addressed(p), seen \in [Peers -> SUBSET Addrs],
           \A v \in Peers : seen[v] \subseteq seen'[v]
    PROVE  Addressed(p)'
<1>1. \A v \in Peers : Known(v) \subseteq Known(v)'
  BY DEF Known
<1>2. p.typ = "OpenTunnel" => p.message.virtAddress \in Peers
  BY DEF Packet, Notice
<1>3. p.typ = "Data" => PayloadFor[p.message] \in Peers
  BY GatewayAssumption DEF Packet
<1> QED
  BY <1>1, <1>2, <1>3 DEF Addressed

\* What a read of a record yields was heard from its peer, or is torn from two
\* addresses that were.
LEMMA ReadHeard ==
    ASSUME Heard, NEW v \in DOMAIN peers
    PROVE  UDPAddress(v) \subseteq Known(v)
  BY DEF Heard, UDPAddress, Known

\* Every packet is of its type.
LEMMA PacketsTyped ==
    ASSUME IInv
    PROVE  Packets \subseteq Packet
<1>1. \A id \in DOMAIN data : data[id].packet \in Packet
  BY DEF IInv, TypeOK, RetryPacket
<1>2. queue \in Seq(Packet) /\ disp.held \in Seq(Packet) /\ chs \in [Workers -> Seq(Packet)]
  BY DEF IInv, TypeOK, DispatcherState
<1>3. \A q \in Seq(Packet) : Elems(q) \subseteq Packet
  BY DEF Elems
<1> QED
  BY <1>1, <1>2, <1>3, PacketPlaces

LEMMA GatewayInitAInv == GatewayInit => AInv
<1> SUFFICES ASSUME GatewayInit PROVE AInv
  OBVIOUS
<1>1. Heard
  BY DEF GatewayInit, Heard, Reading
<1>2. TwoKnown
  BY DEF GatewayInit, Init, TwoKnown, Idle
<1>3. Packets = {}
  BY DEF GatewayInit, Init, Packets
<1> QED
  BY <1>1, <1>2, <1>3 DEF AInv

\* Packets that are passed on stay right while the histories grow.
LEMMA KeptAddressed ==
    ASSUME IInv, AInv, Packets' \subseteq Packets, \A v \in Peers : seen[v] \subseteq seen'[v]
    PROVE  \A p \in Packets' : Addressed(p)'
  BY PacketsTyped, HeardGrows DEF AInv, Heard

\* The handlers keep working for peers of the table.
LEMMA HandlersKnown ==
    ASSUME IInv, GInv, TwoKnown, DOMAIN peers \subseteq DOMAIN peers',
           \/ UNCHANGED op
           \/ \E h \in Handlers : \/ \E s, d \in DOMAIN peers : <<s, d>> \in Requests /\ Call(h, s, d)
                                  \/ Lock(h) \/ Put(h) \/ Notify(h)
    PROVE  TwoKnown'
<1>1. CASE UNCHANGED op
  BY <1>1 DEF TwoKnown
<1>2. ASSUME NEW h \in Handlers,
             \/ \E s, d \in DOMAIN peers : <<s, d>> \in Requests /\ Call(h, s, d)
             \/ Lock(h) \/ Put(h) \/ Notify(h)
      PROVE  TwoKnown'
  <2> DEFINE new == op'[h]
  <2>t. op \in [Handlers -> {Idle} \cup CallState]
    BY DEF IInv, TypeOK
  <2>1. DOMAIN op' = Handlers /\ \A g \in Handlers \ {h} : op'[g] = op[g]
    BY <1>2, <2>t DEF Call, Lock, Put, Notify
  <2>2. new.pc # "idle" =>
          \/ \E s, d \in DOMAIN peers : <<s, d>> \in Requests /\ new.peers = <<s, d>>
          \/ op[h].pc # "idle" /\ new.peers = op[h].peers
    <3>1. CASE \E s, d \in DOMAIN peers : <<s, d>> \in Requests /\ Call(h, s, d)
      BY <3>1, <2>t DEF Call, InCall
    <3>2. CASE Lock(h)
      BY <3>2, <2>t DEF Lock, Idle, CallState
    <3>3. CASE Put(h)
      <4>1. op[h].pc = "put" /\ op[h] \in CallState
        BY <3>3, InCallType DEF Put, IInv
      <4>2. new \in {[op[h] EXCEPT !.i = 2], [op[h] EXCEPT !.pc = "notify"]}
        BY <3>3, <2>t DEF Put
      <4> QED
        BY <4>1, <4>2 DEF CallState
    <3>4. CASE Notify(h)
      BY <3>4, <2>t DEF Notify, Idle
    <3> QED
      BY <1>2, <3>1, <3>2, <3>3, <3>4
  <2> HIDE DEF new
  <2>3. new.pc # "idle" =>
          /\ NoSelf => new.peers[1] # new.peers[2]
          /\ new.peers[1] \in DOMAIN peers /\ new.peers[2] \in DOMAIN peers
    <3>1. ASSUME NEW s \in DOMAIN peers, NEW d \in DOMAIN peers, <<s, d>> \in Requests
          PROVE  NoSelf => s # d
      <4>1. s \in Peers /\ d \in Peers
        BY DEF GInv, ServerType
      <4> QED
        BY <3>1, <4>1 DEF NoSelf
    <3>2. CASE \E s, d \in DOMAIN peers : <<s, d>> \in Requests /\ new.peers = <<s, d>>
      BY <3>1, <3>2
    <3>3. CASE op[h].pc # "idle" /\ new.peers = op[h].peers
      BY <3>3 DEF TwoKnown
    <3> QED
      BY <2>2, <3>2, <3>3
  <2> QED
    BY <2>1, <2>3 DEF TwoKnown, new
<1> QED
  BY <1>1, <1>2

\* A notification is put into the map.
LEMMA PutAddressed ==
    ASSUME IInv, AInv, NEW h \in Handlers, PutPeers(h)
    PROVE  \A p \in Packets' : Addressed(p)'
<1> DEFINE i == op[h].i
           self == op[h].peers[i]
           other == op[h].peers[3 - i]
<1>1. op[h] \in CallState /\ op[h].pc = "put"
  BY InCallType DEF PutPeers, Put, IInv
<1>2. self \in DOMAIN peers /\ other \in DOMAIN peers /\ (NoSelf => self # other)
  BY <1>1 DEF AInv, TwoKnown, CallState
<1>x. PICK x : x = data'[ackID'].packet
  OBVIOUS
<1>3. PICK dest \in AddrsOf[self], addr \in AddrsOf[other] :
        x = Notification(ackID', dest, other, addr).packet
  BY <1>x DEF PutPeers, Put, NextAckID
<1>4. /\ x.typ = "OpenTunnel" /\ x.message.virtAddress = other
      /\ x.destination = dest /\ x.message.udpAddress = addr
  BY <1>3 DEF Notification
<1>5. x.destination \in UDPAddress(self) /\ x.message.udpAddress \in UDPAddress(other)
  BY <1>x DEF PutPeers
<1>6. Packets' \subseteq Packets \cup {x}
  BY <1>x, PutPackets DEF PutPeers
<1>7. peers' = peers /\ seen' = seen
  BY DEF PutPeers, serverVars
<1>s. self \in Peers
  BY <1>1 DEF CallState
<1> HIDE DEF self, other
<1>8. x.destination \in Known(self) /\ x.message.udpAddress \in Known(other)
  BY <1>2, <1>5, ReadHeard DEF AInv
<1>9. Addressed(x)
  BY <1>2, <1>4, <1>8, <1>s DEF Addressed
<1>10. Addressed(x)'
  BY <1>7, <1>9 DEF Addressed, Known
<1>11. \A p \in Packets : Addressed(p)'
  BY <1>7 DEF AInv, Addressed, Known
<1> QED
  BY <1>6, <1>10, <1>11

LEMMA HeartbeatAInv ==
    ASSUME IInv, GInv, AInv, NEW v \in Peers, NEW a \in Addrs, Heartbeat(v, a)
    PROVE  AInv'
<1> DEFINE fresh_ == [ptr |-> a, len |-> a]
           write == [pc |-> "write", peer |-> v, addr |-> a, words |-> {"ptr", "len"}]
<1>1. /\ udp = Reading /\ seen' = [seen EXCEPT ![v] = @ \cup {a}]
      /\ seen \in [Peers -> SUBSET Addrs] /\ DOMAIN peers \subseteq Peers
  BY DEF Heartbeat, AInv, Heard, GInv, ServerType
<1>2. (\A u \in Peers : seen[u] \subseteq seen'[u]) /\ a \in seen'[v]
  BY <1>1
<1>3. \A p \in Packets' : Addressed(p)'
  <2>1. Packets' = Packets
    BY DEF Heartbeat, vars, Packets
  <2> QED
    BY <1>2, <2>1, KeptAddressed
<1>4. Heard'
  <2>1. CASE v \notin DOMAIN peers
    <3>1. peers' = Bind(peers, v, fresh_) /\ udp' = udp
      BY <2>1 DEF Heartbeat
    <3> QED
      BY <1>1, <1>2, <3>1 DEF AInv, Heard, Bind, Reading
  <2>2. CASE v \in DOMAIN peers
    <3>1. peers' = peers /\ (udp' = udp \/ udp' = write)
      BY <2>2 DEF Heartbeat
    <3> QED
      BY <1>1, <1>2, <3>1 DEF AInv, Heard, Reading
  <2> QED
    BY <2>1, <2>2
<1>5. TwoKnown'
  <2>1. DOMAIN peers \subseteq DOMAIN peers' /\ UNCHANGED op
    BY DEF Heartbeat, Bind, vars
  <2> QED
    BY <2>1, HandlersKnown DEF AInv
<1> QED
  BY <1>3, <1>4, <1>5 DEF AInv

LEMMA WriteWordAInv ==
    ASSUME IInv, GInv, AInv, NEW w \in {"ptr", "len"}, WriteWord(w)
    PROVE  AInv'
<1> DEFINE v == udp.peer
           r == [peers[v] EXCEPT ![w] = udp.addr]
<1>1. /\ udp \in [pc: {"write"}, peer: Peers, addr: Addrs, words: SUBSET {"ptr", "len"}]
      /\ v \in DOMAIN peers /\ peers[v] \in Record
      /\ udp.addr \in seen[v]
  BY DEF WriteWord, GInv, ServerType, UDPState, Reading, Written, AInv, Heard
<1>2. peers' = [peers EXCEPT ![v] = r] /\ seen' = seen /\ UNCHANGED vars
  BY DEF WriteWord
<1>3. r.ptr \in seen[v] /\ r.len \in seen[v]
  BY <1>1 DEF Record, AInv, Heard
<1> HIDE DEF r
<1>4. (udp'.pc = "write" /\ udp'.peer = v /\ udp'.addr = udp.addr) \/ udp' = Reading
  BY <1>1 DEF WriteWord
<1>5. Heard'
  BY <1>1, <1>2, <1>3, <1>4 DEF AInv, Heard, Reading
<1>6. TwoKnown'
  BY <1>2, HandlersKnown DEF AInv, vars
<1>7. Packets' = Packets
  BY <1>2 DEF vars, Packets
<1> QED
  BY <1>2, <1>5, <1>6, <1>7, KeptAddressed DEF AInv

\* The steps of the UDP loop after a datagram was read.
LEMMA ProcessAInv ==
    ASSUME IInv, GInv, AInv, \/ \E id \in AckIDs : ReadAck(id)
                             \/ ApplyAck
                             \/ \E payload \in Payloads : ReadRelay(payload)
                             \/ ApplyRelay
    PROVE  AInv'
<1>1. UNCHANGED serverVars /\ UNCHANGED op
  BY DEF ReadAck, ApplyAck, ReadRelay, ApplyRelay, OpenTunnelAck, Relay, vars
<1>2. TwoKnown'
  BY <1>1, HandlersKnown DEF AInv, serverVars
<1>3. Heard'
  <2>1. CASE udp' = Reading \/ \E id \in AckIDs : ReadAck(id)
    <3>1. udp'.pc \in {"read", "ack"}
      BY <2>1 DEF Reading, ReadAck
    <3> QED
      BY <1>1, <3>1 DEF serverVars, AInv, Heard
  <2>2. ASSUME NEW payload \in Payloads, ReadRelay(payload)
        PROVE  Heard'
    <3>1. PICK dest \in RelayDestination(payload) :
            udp' = [pc |-> "relay", dest |-> dest, payload |-> payload]
      BY <2>2 DEF ReadRelay
    <3>2. udp = Reading /\ PayloadFor[payload] \in DOMAIN peers
      BY <2>2 DEF ReadRelay
    <3>3. dest = peers[PayloadFor[payload]].ptr
      BY <3>2 DEF RelayDestination, UDPAddress, GInv, Written, Reading
    <3> QED
      BY <1>1, <3>1, <3>2, <3>3 DEF serverVars, AInv, Heard
  <2> QED
    BY <2>1, <2>2 DEF ApplyAck, ApplyRelay
<1>4. ASSUME Packets' \subseteq Packets
      PROVE  \A p \in Packets' : Addressed(p)'
    BY <1>1, <1>4, KeptAddressed DEF serverVars
<1>5. \A p \in Packets' : Addressed(p)'
  <2>1. CASE \/ \E id \in AckIDs : ReadAck(id)
             \/ \E payload \in Payloads : ReadRelay(payload)
    <3>1. UNCHANGED vars
      BY <2>1 DEF ReadAck, ReadRelay
    <3>2. Packets' = Packets
      BY <3>1 DEF vars, Packets
    <3> QED
      BY <3>2, <1>4
  <2>2. CASE ApplyAck
    <3>1. udp.id \in AckIDs
      BY <2>2 DEF ApplyAck, GInv, ServerType, UDPState, Reading
    <3> QED
      BY <2>2, <3>1, <1>4, PassedOn DEF ApplyAck
  <2>3. CASE ApplyRelay
    <3>1. /\ udp.dest \in Addrs /\ udp.payload \in Payloads
          /\ udp.dest \in seen[PayloadFor[udp.payload]] /\ Relay(udp.dest, udp.payload)
      BY <2>3 DEF ApplyRelay, GInv, ServerType, UDPState, Reading, AInv, Heard
    <3>2. PICK x : x = [destination |-> udp.dest, typ |-> "Data", message |-> udp.payload]
      OBVIOUS
    <3>3. Packets' \subseteq Packets \cup {x}
      BY <3>1, <3>2, RelayPackets
    <3>4. Addressed(x)
      BY <3>1, <3>2 DEF Addressed
    <3>5. \A p \in Packets \cup {x} : Addressed(p)'
      BY <1>1, <3>4 DEF serverVars, AInv, Addressed, Known
    <3> QED
      BY <3>3, <3>5
  <2> QED
    BY <2>1, <2>2, <2>3
<1> QED
  BY <1>2, <1>3, <1>5 DEF AInv

LEMMA GatewayAInvStep ==
    ASSUME IInv, GInv, AInv, [GatewayNext]_gatewayVars
    PROVE  AInv'
<1> USE NotifierAssumption
<1>k. ASSUME UNCHANGED <<serverVars, udp>>
      PROVE  Heard' /\ DOMAIN peers' = DOMAIN peers /\ \A v \in Peers : seen[v] \subseteq seen'[v]
  BY <1>k DEF serverVars, AInv, Heard
<1>1. ASSUME NEW h \in Handlers, OpenTunnel(h)
      PROVE  AInv'
  <2>1. PICK s \in DOMAIN peers, d \in DOMAIN peers : <<s, d>> \in Requests /\ Call(h, s, d)
    BY <1>1 DEF OpenTunnel
  <2>2. s \in Peers /\ d \in Peers
    BY DEF GInv, ServerType
  <2>3. Packets' \subseteq Packets
    BY <2>1, <2>2, PassedOn
  <2>4. Heard' /\ DOMAIN peers' = DOMAIN peers /\ \A v \in Peers : seen[v] \subseteq seen'[v]
    BY <1>1, <1>k DEF OpenTunnel
  <2>5. TwoKnown'
    BY <2>1, <2>4, HandlersKnown DEF AInv
  <2> QED
    BY <2>3, <2>4, <2>5, KeptAddressed DEF AInv
<1>2. ASSUME NEW h \in Handlers, PutPeers(h)
      PROVE  AInv'
  <2>1. Heard' /\ DOMAIN peers' = DOMAIN peers
    BY <1>2, <1>k DEF PutPeers
  <2>2. TwoKnown'
    BY <1>2, <2>1, HandlersKnown DEF AInv, PutPeers
  <2> QED
    BY <1>2, <2>1, <2>2, PutAddressed DEF AInv
<1>3. ASSUME \/ \E h \in Handlers : Lock(h) \/ Notify(h)
             \/ Dispatcher
             \/ \E w \in Workers : Worker(w),
             UNCHANGED <<serverVars, udp>>
      PROVE  AInv'
  <2>1. Packets' \subseteq Packets
    BY <1>3, PassedOn
  <2>2. Heard' /\ DOMAIN peers' = DOMAIN peers /\ \A v \in Peers : seen[v] \subseteq seen'[v]
    BY <1>3, <1>k
  <2>3. (\E h \in Handlers : Lock(h) \/ Notify(h)) \/ UNCHANGED op
    BY <1>3 DEF Dispatcher, SelectTick, SelectRead, SelectQueue, SendQueued, RetryLock,
                RetryEntry, RetryUnlock, Worker
  <2>4. TwoKnown'
    BY <2>2, <2>3, HandlersKnown DEF AInv
  <2> QED
    BY <2>1, <2>2, <2>4, KeptAddressed DEF AInv
<1>4. ASSUME NEW v \in Peers, NEW a \in AddrsOf[v], Heartbeat(v, a)
      PROVE  AInv'
  BY <1>4, HeartbeatAInv
<1>5. ASSUME NEW w \in {"ptr", "len"}, WriteWord(w)
      PROVE  AInv'
  BY <1>5, WriteWordAInv
<1>6. CASE UNCHANGED gatewayVars
  <2>1. Packets' = Packets /\ UNCHANGED op /\ UNCHANGED <<serverVars, udp>>
    BY <1>6 DEF gatewayVars, vars, Packets
  <2>2. Heard' /\ DOMAIN peers' = DOMAIN peers /\ \A v \in Peers : seen[v] \subseteq seen'[v]
    BY <2>1, <1>k
  <2>3. TwoKnown'
    BY <2>1, <2>2, HandlersKnown DEF AInv
  <2> QED
    BY <2>1, <2>2, <2>3, KeptAddressed DEF AInv
<1> QED
  BY <1>1, <1>2, <1>3, <1>4, <1>5, <1>6, ProcessAInv DEF GatewayNext, Process

LEMMA GatewayAInvariance == GatewaySpec => [](IInv /\ AInv)
<1>1. GatewaySpec => []IInv
  BY GatewayImplements, Invariance, PTL DEF ImplementsNotifier
<1> QED
  BY <1>1, GatewayInvariance, GatewayInitAInv, GatewayAInvStep, PTL DEF GatewaySpec

\* Every notification the gateway holds, also a repeated one, announces an
\* address the announced peer was heard from, or one torn from two such
\* addresses, and goes to an address of another peer, if no client asks for a
\* tunnel to itself (Server.OpenTunnel, notifier.OpenTunnel, Server.Heartbeat).
THEOREM NoticesIntroduce ==
    ASSUME NoSelf
    PROVE  GatewaySpec => []Introduced
<1>1. IInv /\ AInv => Introduced
  <2> SUFFICES ASSUME IInv, AInv, NEW p \in Packets, Encode(p).type = "OpenTunnel"
               PROVE  /\ Encode(p).payload.udpAddress \in Known(Encode(p).payload.virtAddress)
                      /\ \E v \in Peers \ {Encode(p).payload.virtAddress} :
                            Encode(p).to \in Known(v)
    BY DEF Introduced, Outgoing
  <2>1. p \in Packet
    BY PacketsTyped
  <2>2. p.typ = "OpenTunnel"
    BY <2>1 DEF Encode, Packet
  <2>3. Encode(p).payload = p.message /\ Encode(p).to = p.destination
    BY DEF Encode
  <2> QED
    BY <2>2, <2>3 DEF AInv, Addressed
<1> QED
  BY <1>1, GatewayAInvariance, PTL

\* Relayed data goes unchanged to an address its peer was heard from, although
\* a record may be half written when others read it (process(), relay()).
THEOREM DataReachesPeer == GatewaySpec => []RelayedToPeer
<1>1. IInv /\ AInv => RelayedToPeer
  <2> SUFFICES ASSUME IInv, AInv, NEW p \in Packets, Encode(p).type = "Data"
               PROVE  /\ Encode(p).payload \in Payloads
                      /\ Encode(p).to \in seen[PayloadFor[Encode(p).payload]]
    BY DEF RelayedToPeer, Outgoing
  <2>1. p \in Packet
    BY PacketsTyped
  <2>2. p.message \in Payloads
    BY <2>1 DEF Encode, Packet
  <2>3. p.typ = "Data"
    BY <2>1, <2>2, GatewayAssumption DEF Packet
  <2>4. Encode(p).payload = p.message /\ Encode(p).to = p.destination
    BY DEF Encode
  <2> QED
    BY <2>2, <2>3, <2>4 DEF AInv, Addressed
<1> QED
  BY <1>1, GatewayAInvariance, PTL

=============================================================================
