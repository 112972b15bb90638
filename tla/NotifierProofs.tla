--------------------------- MODULE NotifierProofs ---------------------------
(***************************************************************************)
(* Invariants of Notifier, proved for any number of peers, handlers and    *)
(* workers and for all capacities.                                         *)
(***************************************************************************)
EXTENDS Notifier, TLAPS

\* The dispatcher holds a packet while it is sending one from the queue.
HeldPacket == disp.pc = "send" => disp.held # <<>>

\* Only entries of the map can be waiting for their first transmission.
FreshInData == fresh \subseteq DOMAIN data

\* The inductive invariant.
IInv ==
    /\ TypeOK
    /\ HeldPacket
    /\ MutexOwner
    /\ RetrySeesEntry
    /\ FreshInData
    /\ NoLostWakeup

\* A handler that is not idle is inside a call.
LEMMA InCallType ==
    ASSUME TypeOK, NEW h \in Handlers, op[h].pc # "idle"
    PROVE  op[h] \in CallState
  BY DEF TypeOK, Idle

\* send(p) keeps the workers' channels typed and within their capacity.
LEMMA SendType ==
    ASSUME TypeOK, NEW p \in Packet, Send(p)
    PROVE  /\ chs' \in [Workers -> Seq(Packet)]
           /\ \A w \in Workers : Len(chs'[w]) <= ChanCap
           /\ roundTrip' \in Workers
<1>1. roundTrip \in Workers /\ chs \in [Workers -> Seq(Packet)]
  BY DEF TypeOK
<1>2. Append(chs[roundTrip], p) \in Seq(Packet)
  BY <1>1
<1>3. Len(Append(chs[roundTrip], p)) = Len(chs[roundTrip]) + 1
  BY <1>1
<1>4. Len(chs[roundTrip]) \in Nat
  BY <1>1
<1>5. Len(Append(chs[roundTrip], p)) <= ChanCap
  BY <1>3, <1>4, NotifierAssumption DEF Send
<1>6. chs' \in [Workers -> Seq(Packet)]
  BY <1>1, <1>2 DEF Send
<1>7. \A w \in Workers : Len(chs'[w]) <= ChanCap
  BY <1>1, <1>5 DEF Send, TypeOK
<1>8. roundTrip' \in Workers
  BY <1>1, NotifierAssumption DEF Send, Workers
<1> QED
  BY <1>6, <1>7, <1>8

LEMMA InitIInv == Init => IInv
  BY NotifierAssumption
  DEF Init, IInv, TypeOK, HeldPacket, MutexOwner, RetrySeesEntry, FreshInData,
      NoLostWakeup, Workers, Idle, DispatcherState

\* Every step keeps the types.
LEMMA NextTypeOK ==
    ASSUME TypeOK, HeldPacket, RetrySeesEntry, Next
    PROVE  TypeOK'
<1> USE NotifierAssumption
<1>1. ASSUME NEW h \in Handlers, NEW s \in Peers, NEW d \in Peers, Call(h, s, d)
      PROVE  TypeOK'
  <2>1. InCall("lock", s, d, 1) \in CallState
    BY DEF InCall, CallState
  <2>2. op' \in [Handlers -> {Idle} \cup CallState]
    BY <1>1, <2>1 DEF Call, TypeOK
  <2> QED
    BY <1>1, <2>2 DEF Call, TypeOK
<1>2. ASSUME NEW h \in Handlers, Lock(h)
      PROVE  TypeOK'
  <2>1. op[h] \in CallState
    BY <1>2, InCallType DEF Lock
  <2>2. [op[h] EXCEPT !.pc = "put"] \in CallState
    BY <2>1 DEF CallState
  <2>3. op' \in [Handlers -> {Idle} \cup CallState]
    BY <1>2, <2>2 DEF Lock, TypeOK
  <2> QED
    BY <1>2, <2>3 DEF Lock, TypeOK
<1>3. ASSUME NEW h \in Handlers, Put(h)
      PROVE  TypeOK'
  <2>1. op[h] \in CallState
    BY <1>3, InCallType DEF Put
  <2> DEFINE self == op[h].peers[op[h].i]
             other == op[h].peers[3 - op[h].i]
             id == ackID + 1
  <2>2. self \in Peers /\ other \in Peers
    BY <2>1 DEF CallState
  <2>3. PICK dest \in AddrsOf[self], udp \in AddrsOf[other] :
           /\ ackID' = id
           /\ data' = [k \in DOMAIN data \cup {id} |->
                         IF k = id
                         THEN Notification(id, dest, other, udp)
                         ELSE data[k]]
           /\ fresh' = fresh \cup {id}
           /\ op' = [op EXCEPT ![h] =
                       IF op[h].i = 1 THEN [@ EXCEPT !.i = 2]
                                      ELSE [@ EXCEPT !.pc = "notify"]]
    BY <1>3 DEF Put, NextAckID
  <2>4. dest \in Addrs /\ udp \in Addrs
    BY <2>2, <2>3
  <2>5. ackID' \in Nat /\ DOMAIN data' \subseteq 1..ackID'
    BY <2>3 DEF TypeOK
  <2>6. \A k \in DOMAIN data' : data'[k] \in RetryPacket
    BY <2>2, <2>3, <2>4 DEF TypeOK, Notification, RetryPacket, Packet, Notice
  <2>7. fresh' \subseteq Nat
    BY <2>3 DEF TypeOK
  <2>8. op' \in [Handlers -> {Idle} \cup CallState]
    <3>1. [op[h] EXCEPT !.i = 2] \in CallState /\ [op[h] EXCEPT !.pc = "notify"] \in CallState
      BY <2>1 DEF CallState
    <3>2. \E c \in CallState : op' = [op EXCEPT ![h] = c]
      BY <2>3, <3>1
    <3> QED
      BY <3>2 DEF TypeOK
  <2> QED
    BY <1>3, <2>5, <2>6, <2>7, <2>8 DEF Put, TypeOK
<1>4. ASSUME NEW h \in Handlers, Notify(h)
      PROVE  TypeOK'
  BY <1>4 DEF Notify, TypeOK
<1>5. ASSUME NEW id \in AckIDs, OpenTunnelAck(id)
      PROVE  TypeOK'
  BY <1>5 DEF OpenTunnelAck, TypeOK
<1>6. ASSUME NEW dest \in Addrs, NEW payload \in Payloads, Relay(dest, payload)
      PROVE  TypeOK'
  <2>1. [destination |-> dest, typ |-> "Data", message |-> payload] \in Packet
    BY DEF Packet
  <2>2. queue' \in Seq(Packet) /\ Len(queue') <= QueueCap
    BY <1>6, <2>1 DEF Relay, TypeOK
  <2> QED
    BY <1>6, <2>2 DEF Relay, TypeOK
<1>7. CASE SelectTick
  <2>1. disp' \in DispatcherState
    BY <1>7 DEF SelectTick, TypeOK, DispatcherState
  <2> QED
    BY <1>7, <2>1 DEF SelectTick, TypeOK
<1>8. CASE SelectRead
  <2>1. disp' \in DispatcherState
    BY <1>8 DEF SelectRead, TypeOK, DispatcherState
  <2> QED
    BY <1>8, <2>1 DEF SelectRead, TypeOK
<1>9. CASE SelectQueue
  <2>1. queue \in Seq(Packet) /\ queue # <<>>
    BY <1>9 DEF SelectQueue, TypeOK
  <2>2. Head(queue) \in Packet /\ Tail(queue) \in Seq(Packet)
          /\ Len(Tail(queue)) <= Len(queue)
    BY <2>1
  <2>3. <<Head(queue)>> \in Seq(Packet)
    BY <2>2
  <2>4. queue' \in Seq(Packet) /\ Len(queue') <= QueueCap
    BY <1>9, <2>1, <2>2 DEF SelectQueue, TypeOK
  <2>5. disp' \in DispatcherState
    BY <1>9, <2>3 DEF SelectQueue, TypeOK, DispatcherState
  <2> QED
    BY <1>9, <2>4, <2>5 DEF SelectQueue, TypeOK
<1>10. CASE SendQueued
  <2>1. disp.held[1] \in Packet
    BY <1>10 DEF SendQueued, HeldPacket, TypeOK, DispatcherState
  <2>2. /\ chs' \in [Workers -> Seq(Packet)]
        /\ \A w \in Workers : Len(chs'[w]) <= ChanCap
        /\ roundTrip' \in Workers
    BY <1>10, <2>1, SendType DEF SendQueued
  <2>3. <<>> \in Seq(Packet)
    OBVIOUS
  <2>4. disp' \in DispatcherState
    BY <1>10, <2>3 DEF SendQueued, TypeOK, DispatcherState
  <2> QED
    BY <1>10, <2>2, <2>4 DEF SendQueued, TypeOK
<1>11. CASE RetryLock
  <2>2. DOMAIN data \in SUBSET Nat
    BY DEF TypeOK
  <2>1. disp' \in DispatcherState
    BY <1>11, <2>2 DEF RetryLock, TypeOK, DispatcherState
  <2> QED
    BY <1>11, <2>1 DEF RetryLock, TypeOK
<1>12. ASSUME NEW id \in disp.todo, RetryEntry(id)
       PROVE  TypeOK'
  <2>1. data[id].packet \in Packet
    BY <1>12 DEF RetryEntry, RetrySeesEntry, TypeOK, RetryPacket
  <2>4. disp' \in DispatcherState
    BY <1>12 DEF RetryEntry, TypeOK, DispatcherState
  <2>2. CASE data[id].counter > MaxRetrySend
    BY <1>12, <2>2, <2>4 DEF RetryEntry, TypeOK
  <2>3. CASE ~(data[id].counter > MaxRetrySend)
    <3>1. Send(data[id].packet)
      BY <1>12, <2>3 DEF RetryEntry
    <3>2. /\ chs' \in [Workers -> Seq(Packet)]
          /\ \A w \in Workers : Len(chs'[w]) <= ChanCap
          /\ roundTrip' \in Workers
      BY <2>1, <3>1, SendType
    <3> QED
      BY <1>12, <2>3, <2>4, <3>2 DEF RetryEntry, TypeOK
  <2> QED
    BY <2>2, <2>3
<1>13. CASE RetryUnlock
  <2>1. disp' \in DispatcherState
    BY <1>13 DEF RetryUnlock, TypeOK, DispatcherState
  <2> QED
    BY <1>13, <2>1 DEF RetryUnlock, TypeOK
<1>14. ASSUME NEW w \in Workers, Worker(w)
       PROVE  TypeOK'
  <2>1. chs \in [Workers -> Seq(Packet)] /\ chs[w] # <<>>
          /\ chs' = [chs EXCEPT ![w] = Tail(chs[w])]
    BY <1>14 DEF Worker, TypeOK
  <2>2. Tail(chs[w]) \in Seq(Packet) /\ Len(Tail(chs[w])) <= Len(chs[w])
    BY <2>1
  <2>3. chs' \in [Workers -> Seq(Packet)]
    BY <2>1, <2>2
  <2>4. \A x \in Workers : Len(chs'[x]) <= ChanCap
    BY <2>1, <2>2 DEF TypeOK
  <2> QED
    BY <1>14, <2>3, <2>4 DEF Worker, TypeOK
<1> QED
  BY <1>1, <1>2, <1>3, <1>4, <1>5, <1>6, <1>7, <1>8, <1>9, <1>10, <1>11, <1>12,
     <1>13, <1>14
  DEF Next, Handler, UDPLoop, Dispatcher

\* Every step keeps the inductive invariant.
LEMMA NextIInv ==
    ASSUME IInv, [Next]_vars
    PROVE  IInv'
<1> USE NotifierAssumption
<1> DEFINE Rest == HeldPacket /\ MutexOwner /\ RetrySeesEntry /\ FreshInData /\ NoLostWakeup
<1>0. Rest /\ TypeOK
  BY DEF IInv
<1>t. read \in Nat /\ op \in [Handlers -> {Idle} \cup CallState] /\ disp \in DispatcherState
  BY <1>0 DEF TypeOK
<1>1. ASSUME NEW h \in Handlers, NEW s \in Peers, NEW d \in Peers, Call(h, s, d)
      PROVE  Rest'
  BY <1>0, <1>1, <1>t
  DEF Call, InCall, Idle, HeldPacket, MutexOwner, RetrySeesEntry, FreshInData, NoLostWakeup
<1>2. ASSUME NEW h \in Handlers, Lock(h)
      PROVE  Rest'
  BY <1>0, <1>2, <1>t, InCallType
  DEF Lock, CallState, HeldPacket, MutexOwner, RetrySeesEntry, FreshInData, NoLostWakeup
<1>3. ASSUME NEW h \in Handlers, Put(h)
      PROVE  Rest'
  BY <1>0, <1>3, <1>t, InCallType
  DEF Put, NextAckID, Notification, CallState, HeldPacket, MutexOwner, RetrySeesEntry,
      FreshInData, NoLostWakeup
<1>4. ASSUME NEW h \in Handlers, Notify(h)
      PROVE  Rest'
  BY <1>0, <1>4, <1>t
  DEF Notify, Idle, HeldPacket, MutexOwner, RetrySeesEntry, FreshInData, NoLostWakeup
<1>5. ASSUME NEW id \in AckIDs, OpenTunnelAck(id)
      PROVE  Rest'
  BY <1>0, <1>5, <1>t
  DEF OpenTunnelAck, HeldPacket, MutexOwner, RetrySeesEntry, FreshInData, NoLostWakeup
<1>6. ASSUME NEW dest \in Addrs, NEW payload \in Payloads, Relay(dest, payload)
      PROVE  Rest'
  BY <1>0, <1>6, <1>t
  DEF Relay, HeldPacket, MutexOwner, RetrySeesEntry, FreshInData, NoLostWakeup
<1>7. ASSUME SelectTick PROVE Rest'
  BY <1>0, <1>7, <1>t
  DEF SelectTick, DispatcherState, HeldPacket, MutexOwner, RetrySeesEntry, FreshInData, NoLostWakeup
<1>8. ASSUME SelectRead PROVE Rest'
  BY <1>0, <1>8, <1>t
  DEF SelectRead, DispatcherState, HeldPacket, MutexOwner, RetrySeesEntry, FreshInData, NoLostWakeup
<1>9. ASSUME SelectQueue PROVE Rest'
  BY <1>0, <1>9, <1>t
  DEF SelectQueue, DispatcherState, HeldPacket, MutexOwner, RetrySeesEntry, FreshInData, NoLostWakeup
<1>10. ASSUME SendQueued PROVE Rest'
  BY <1>0, <1>10, <1>t
  DEF SendQueued, DispatcherState, HeldPacket, MutexOwner, RetrySeesEntry, FreshInData, NoLostWakeup
<1>11. ASSUME RetryLock PROVE Rest'
  BY <1>0, <1>11, <1>t
  DEF RetryLock, DispatcherState, HeldPacket, MutexOwner, RetrySeesEntry, FreshInData, NoLostWakeup
<1>12. ASSUME NEW id \in disp.todo, RetryEntry(id)
       PROVE  Rest'
  BY <1>0, <1>12, <1>t
  DEF RetryEntry, DispatcherState, HeldPacket, MutexOwner, RetrySeesEntry, FreshInData, NoLostWakeup
<1>13. ASSUME RetryUnlock PROVE Rest'
  BY <1>0, <1>13, <1>t
  DEF RetryUnlock, DispatcherState, HeldPacket, MutexOwner, RetrySeesEntry, FreshInData, NoLostWakeup
<1>14. ASSUME NEW w \in Workers, Worker(w)
       PROVE  Rest'
  BY <1>0, <1>14, <1>t
  DEF Worker, HeldPacket, MutexOwner, RetrySeesEntry, FreshInData, NoLostWakeup
<1>15. CASE UNCHANGED vars
  BY <1>0, <1>15
  DEF vars, IInv, TypeOK, HeldPacket, MutexOwner, RetrySeesEntry, FreshInData, NoLostWakeup
<1>16. CASE Next
  <2>1. TypeOK'
    BY <1>0, <1>16, NextTypeOK
  <2>2. Rest'
    BY <1>1, <1>2, <1>3, <1>4, <1>5, <1>6, <1>7, <1>8, <1>9, <1>10, <1>11, <1>12,
       <1>13, <1>14, <1>16
    DEF Next, Handler, UDPLoop, Dispatcher
  <2> QED
    BY <2>1, <2>2 DEF IInv
<1> QED
  BY <1>15, <1>16

\* The inductive invariant holds in every reachable state.
LEMMA Invariance == Spec => []IInv
  BY InitIInv, NextIInv, PTL DEF Spec

\* The notifier's state keeps its type and no channel exceeds its capacity, for
\* every concurrency and all capacities.
THEOREM TypeCorrect == Spec => []TypeOK
<1>1. IInv => TypeOK
  BY DEF IInv
<1> QED
  BY Invariance, <1>1, PTL

\* n.mu excludes: it is held exactly by the one goroutine inside its critical
\* section (retry, OpenTunnel).
THEOREM MutexSafe == Spec => []MutexOwner
<1>1. IInv => MutexOwner
  BY DEF IInv
<1> QED
  BY Invariance, <1>1, PTL

\* A new notification is never left to the ticker: some wake-up that will reach
\* it is always under way (notify, retry).
THEOREM WakeupSafe == Spec => []NoLostWakeup
<1>1. IInv => NoLostWakeup
  BY DEF IInv
<1> QED
  BY Invariance, <1>1, PTL

\* retry() never uses an entry that an acknowledgement has deleted under it.
THEOREM RetrySafe == Spec => []RetrySeesEntry
<1>1. IInv => RetrySeesEntry
  BY DEF IInv
<1> QED
  BY Invariance, <1>1, PTL

\* An id that was given out never enters the map again and its notification
\* never changes (ackID.Add under n.mu).
THEOREM NeverResurrected == Spec => NoResurrection
<1> DEFINE Kept == \A id \in 1..ackID :
                     id \in DOMAIN data' => id \in DOMAIN data /\ data'[id] = data[id]
<1>1. ASSUME TypeOK, Next
      PROVE  Kept
  <2>1. ASSUME NEW h \in Handlers, Put(h)
        PROVE  Kept
    <3>1. PICK e : data' = [k \in DOMAIN data \cup {ackID + 1} |->
                              IF k = ackID + 1 THEN e ELSE data[k]]
      BY <2>1 DEF Put, NextAckID
    <3> QED
      BY <1>1, <3>1 DEF TypeOK
  <2>2. ASSUME NEW id, data' = [k \in DOMAIN data \ {id} |-> data[k]]
        PROVE  Kept
    BY <2>2
  <2>3. CASE UNCHANGED data
    BY <2>3
  <2> QED
    BY <1>1, <2>1, <2>2, <2>3
    DEF Next, Handler, UDPLoop, Dispatcher, Call, Lock, Notify, OpenTunnelAck,
        Relay, SelectTick, SelectRead, SelectQueue, SendQueued, RetryLock, RetryEntry,
        RetryUnlock, Worker
<1>2. IInv /\ [Next]_vars => [Kept]_vars
  BY <1>1 DEF IInv
<1> QED
  BY Invariance, <1>2, PTL DEF Spec, NoResurrection

-----------------------------------------------------------------------------
(* Whom a notification is about                                            *)

\* No two peers ever have the same UDP address.
DisjointAddresses == \A v, w \in Peers : v # w => AddrsOf[v] \cap AddrsOf[w] = {}

\* No client asks for a tunnel from a peer to itself, a request Server.OpenTunnel
\* would not refuse: what a node sends to its own virtual address does not leave
\* it (serveDev in node/node.go).
NoSelf == \A s, d \in Peers : <<s, d>> \in Requests => s # d

\* A call is about two different peers.
TwoPeers == \A h \in Handlers : op[h].pc # "idle" => op[h].peers[1] # op[h].peers[2]

LEMMA NextCrossed ==
    ASSUME DisjointAddresses, NoSelf, TypeOK, TwoPeers, NoticeCrossed, [Next]_vars
    PROVE  TwoPeers' /\ NoticeCrossed'
<1>t. op \in [Handlers -> {Idle} \cup CallState]
  BY DEF TypeOK
<1>1. ASSUME NEW h \in Handlers, NEW s \in Peers, NEW d \in Peers,
             <<s, d>> \in Requests, Call(h, s, d)
      PROVE  TwoPeers' /\ NoticeCrossed'
  BY <1>1, <1>t DEF Call, InCall, NoSelf, TwoPeers, NoticeCrossed
<1>2. ASSUME NEW h \in Handlers, Put(h)
      PROVE  TwoPeers' /\ NoticeCrossed'
  <2> DEFINE i == op[h].i
             self == op[h].peers[i]
             other == op[h].peers[3 - i]
             id == ackID + 1
  <2>1. op[h] \in CallState /\ op[h].pc = "put"
    BY <1>2, InCallType DEF Put
  <2>2. self \in Peers /\ other \in Peers /\ self # other
    BY <2>1 DEF CallState, TwoPeers
  <2>3. PICK dest \in AddrsOf[self], udp \in AddrsOf[other] :
          data' = [k \in DOMAIN data \cup {id} |->
                     IF k = id THEN Notification(id, dest, other, udp) ELSE data[k]]
    BY <1>2 DEF Put, NextAckID
  <2>4. dest \notin AddrsOf[other]
    BY <2>2 DEF DisjointAddresses
  <2>5. NoticeCrossed'
    BY <2>3, <2>4 DEF NoticeCrossed, Notification
  <2>6. op' = [op EXCEPT ![h] = IF i = 1 THEN [@ EXCEPT !.i = 2]
                                         ELSE [@ EXCEPT !.pc = "notify"]]
    BY <1>2 DEF Put
  <2>7. TwoPeers'
    BY <1>t, <2>1, <2>6 DEF CallState, TwoPeers
  <2> QED
    BY <2>5, <2>7
<1>3. ASSUME NEW h \in Handlers, Lock(h)
      PROVE  TwoPeers' /\ NoticeCrossed'
  BY <1>3, <1>t, InCallType DEF Lock, CallState, TwoPeers, NoticeCrossed
<1>4. ASSUME NEW h \in Handlers, Notify(h)
      PROVE  TwoPeers' /\ NoticeCrossed'
  BY <1>4, <1>t DEF Notify, Idle, TwoPeers, NoticeCrossed
<1>5. ASSUME NEW id, data' = [k \in DOMAIN data \ {id} |-> data[k]], UNCHANGED op
      PROVE  TwoPeers' /\ NoticeCrossed'
  BY <1>5 DEF TwoPeers, NoticeCrossed
<1>6. ASSUME UNCHANGED <<data, op>>
      PROVE  TwoPeers' /\ NoticeCrossed'
  BY <1>6 DEF TwoPeers, NoticeCrossed
<1> QED
  BY <1>1, <1>2, <1>3, <1>4, <1>5, <1>6
  DEF Next, Handler, UDPLoop, Dispatcher, OpenTunnelAck, Relay, SelectTick, SelectRead,
      SelectQueue, SendQueued, RetryLock, RetryEntry, RetryUnlock, Worker, vars

\* If no two peers share an address and no client asks for a tunnel to itself,
\* every notification describes the other side of its tunnel, whatever heartbeats rewrite while it is put together
\* (peers[1-i] in notifier.OpenTunnel).
THEOREM NoticesCross ==
    ASSUME DisjointAddresses, NoSelf
    PROVE  Spec => []NoticeCrossed
<1>1. Init => TwoPeers /\ NoticeCrossed
  BY DEF Init, Idle, TwoPeers, NoticeCrossed
<1>2. IInv /\ TwoPeers /\ NoticeCrossed /\ [Next]_vars => TwoPeers' /\ NoticeCrossed'
  BY NextCrossed DEF IInv
<1> QED
  BY Invariance, <1>1, <1>2, PTL DEF Spec

=============================================================================
