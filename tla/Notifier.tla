------------------------------ MODULE Notifier ------------------------------
(***************************************************************************)
(* The gateway's notifier (gateway/notifier.go): the goroutines that tell  *)
(* two peers to open a tunnel to each other, repeat this until each peer   *)
(* acknowledges it, and pass on relayed data.                              *)
(*                                                                         *)
(*   - HTTP handler goroutines call OpenTunnel(src, dst);                  *)
(*   - the gateway's UDP loop calls openTunnelAck(ackID) and relay(...);   *)
(*   - one dispatcher goroutine selects on the 300 ms ticker, n.read and   *)
(*     n.queue, and deals packets to the workers round robin;              *)
(*   - Concurrency workers write the packets to the UDP socket.            *)
(*                                                                         *)
(* Go channels are sequences with a capacity; a blocking send is a guard.  *)
(* A peer's UDPAddress may be rewritten by a heartbeat at any moment, and  *)
(* no lock protects it: each read of it yields any member of AddrsOf.      *)
(***************************************************************************)
EXTENDS Naturals, Sequences, FiniteSets

CONSTANTS
    Peers,         \* virtual addresses
    Addrs,         \* UDP addresses, "ip:port"
    AddrsOf,       \* AddrsOf[p]: what a read of p's UDPAddress can return
    Payloads,      \* relayed data
    Handlers,      \* HTTP handler goroutines
    Requests,      \* the pairs of peers the clients ask for
    Concurrency,   \* number of workers               (--concurrency, 128)
    QueueCap,      \* capacity of n.queue             (16)
    ReadCap,       \* capacity of n.read              (16)
    ChanCap,       \* capacity of a worker's channel  (256)
    MaxRetrySend,  \* constant.MaxRetrySend           (10)
    MaxAckID       \* bound of the model on n.ackID

ASSUME NotifierAssumption ==
    /\ AddrsOf \in [Peers -> SUBSET Addrs]
    /\ Handlers \cap {"free", "dispatcher"} = {}
    /\ Requests \subseteq Peers \X Peers
    /\ Concurrency \in Nat \ {0}
    /\ QueueCap \in Nat \ {0}
    /\ ReadCap \in Nat \ {0}
    /\ ChanCap \in Nat \ {0}
    /\ MaxRetrySend \in Nat
    /\ MaxAckID \in Nat

VARIABLES
    ackID,      \* n.ackID, the last acknowledgement id given out
    data,       \* n.data, ackID -> retryPacket
    mu,         \* holder of n.mu: "free", "dispatcher" or a handler
    read,       \* number of tokens in n.read
    queue,      \* n.queue
    chs,        \* the workers' channels
    roundTrip,  \* index of the next worker (roundTrip % len(chs))
    disp,       \* the dispatcher: where it is, what it still has to send
    op,         \* op[h]: the OpenTunnel call handler h is executing
    fresh       \* history: the ids in data never dealt to a worker yet

vars == <<ackID, data, mu, read, queue, chs, roundTrip, disp, op, fresh>>

AckIDs == 1..MaxAckID
Workers == 0..(Concurrency - 1)

Notice == [ackId: Nat \ {0}, virtAddress: Peers, udpAddress: Addrs]
Packet == [destination: Addrs, typ: {"OpenTunnel"}, message: Notice]
            \cup [destination: Addrs, typ: {"Data"}, message: Payloads]
RetryPacket == [packet: Packet, counter: Nat]

\* Mutant: a notification goes to the address it announces.
EncodeToAnnounced(p) ==
    [to |-> IF p.message \in Payloads THEN p.destination ELSE p.message.udpAddress,
     type |-> p.typ, payload |-> p.message]

\* A relayed []byte goes out behind the Data type byte, a proto message behind
\* the type byte of its packet.
Encode(p) == [to |-> p.destination,
              type |-> IF p.message \in Payloads THEN "Data" ELSE p.typ,
              payload |-> p.message]

DispatcherState == [pc: {"select", "lock", "retry", "send"},
                    todo: SUBSET Nat, held: Seq(Packet)]
CallState == [pc: {"lock", "put", "notify"}, peers: Peers \X Peers, i: 1..2]

Idle == [pc |-> "idle"]
InCall(pc, s, d, i) == [pc |-> pc, peers |-> <<s, d>>, i |-> i]

Init ==
    /\ ackID = 0
    /\ data = [id \in {} |-> {}]
    /\ mu = "free"
    /\ read = 0
    /\ queue = <<>>
    /\ chs = [w \in Workers |-> <<>>]
    /\ roundTrip = 0
    /\ disp = [pc |-> "select", todo |-> {}, held |-> <<>>]
    /\ op = [h \in Handlers |-> Idle]
    /\ fresh = {}

-----------------------------------------------------------------------------
(* HTTP handlers: OpenTunnel(src, dst)                                     *)

\* A request passes the server's checks and enters notifier.OpenTunnel.  The
\* guard on ackID is the bound of the model: every running call takes two ids.
Call(h, s, d) ==
    /\ op[h] = Idle
    /\ ackID + 2 * Cardinality(Handlers) <= MaxAckID
    /\ op' = [op EXCEPT ![h] = InCall("lock", s, d, 1)]
    /\ UNCHANGED <<ackID, data, mu, read, queue, chs, roundTrip, disp, fresh>>

\* Mutant: a call waits until earlier notifications are acknowledged.
LockAfterAcks(h) ==
    /\ op[h].pc = "lock"
    /\ mu = "free" /\ DOMAIN data = {}
    /\ mu' = h
    /\ op' = [op EXCEPT ![h].pc = "put"]
    /\ UNCHANGED <<ackID, data, read, queue, chs, roundTrip, disp, fresh>>

Lock(h) ==
    /\ op[h].pc = "lock"
    /\ mu = "free"
    /\ mu' = h
    /\ op' = [op EXCEPT ![h].pc = "put"]
    /\ UNCHANGED <<ackID, data, read, queue, chs, roundTrip, disp, fresh>>

\* Mutant: the id is the size of the map, so an id is given out again.
NextAckIDBySize == Cardinality(DOMAIN data) + 1

NextAckID == ackID + 1

\* Mutant: the notification goes to the peer it announces.
NotificationUncrossed(id, dest, other, udp) ==
    [packet |-> [destination |-> udp,
                 typ |-> "OpenTunnel",
                 message |-> [ackId |-> id, virtAddress |-> other, udpAddress |-> udp]],
     counter |-> 0]

Notification(id, dest, other, udp) ==
    [packet |-> [destination |-> dest,
                 typ |-> "OpenTunnel",
                 message |-> [ackId |-> id, virtAddress |-> other, udpAddress |-> udp]],
     counter |-> 0]

\* One round of the loop over the two peers: peer i is told where the other
\* one is.  The two addresses are read from PeerInfo objects that are shared
\* with the heartbeat handler and not protected by n.mu.
Put(h) ==
    /\ op[h].pc = "put"
    /\ LET i == op[h].i
           self == op[h].peers[i]
           other == op[h].peers[3 - i]
           id == NextAckID
       IN  \E dest \in AddrsOf[self], udp \in AddrsOf[other] :
             /\ ackID' = id
             /\ data' = [k \in DOMAIN data \cup {id} |->
                           IF k = id THEN Notification(id, dest, other, udp)
                                     ELSE data[k]]
             /\ fresh' = fresh \cup {id}
             /\ op' = [op EXCEPT ![h] =
                         IF i = 1 THEN [@ EXCEPT !.i = 2]
                                  ELSE [@ EXCEPT !.pc = "notify"]]
    /\ UNCHANGED <<mu, read, queue, chs, roundTrip, disp>>

\* Mutant: n.read is made without a buffer, so that only a dispatcher that is
\* waiting in its select is woken.
NotifyUnbuffered(h) ==
    /\ op[h].pc = "notify"
    /\ read' = IF disp.pc = "select" THEN 1 ELSE read
    /\ mu' = "free"
    /\ op' = [op EXCEPT ![h] = Idle]
    /\ UNCHANGED <<ackID, data, queue, chs, roundTrip, disp, fresh>>

\* notify() never blocks: a full n.read already holds a wake-up.  The deferred
\* unlock follows.
Notify(h) ==
    /\ op[h].pc = "notify"
    /\ read' = IF read < ReadCap THEN read + 1 ELSE read
    /\ mu' = "free"
    /\ op' = [op EXCEPT ![h] = Idle]
    /\ UNCHANGED <<ackID, data, queue, chs, roundTrip, disp, fresh>>

-----------------------------------------------------------------------------
(* The UDP loop: acknowledgements and relayed data                         *)

\* Mutant: openTunnelAck without the lock.
OpenTunnelAckUnlocked(id) ==
    /\ data' = [k \in DOMAIN data \ {id} |-> data[k]]
    /\ fresh' = fresh \ {id}
    /\ UNCHANGED <<ackID, mu, read, queue, chs, roundTrip, disp, op>>

\* Any id may arrive: late, twice, after the entry is gone, or in answer to an
\* earlier run of the gateway, whose ids started from 1 too.
OpenTunnelAck(id) ==
    /\ mu = "free"
    /\ data' = [k \in DOMAIN data \ {id} |-> data[k]]
    /\ fresh' = fresh \ {id}
    /\ UNCHANGED <<ackID, mu, read, queue, chs, roundTrip, disp, op>>

\* Mutant: the queue has no capacity.
RelayUnbounded(dest, payload) ==
    /\ queue' = Append(queue, [destination |-> dest, typ |-> "Data",
                               message |-> payload])
    /\ UNCHANGED <<ackID, data, mu, read, chs, roundTrip, disp, op, fresh>>

Relay(dest, payload) ==
    /\ Len(queue) < QueueCap
    /\ queue' = Append(queue, [destination |-> dest, typ |-> "Data",
                               message |-> payload])
    /\ UNCHANGED <<ackID, data, mu, read, chs, roundTrip, disp, op, fresh>>

-----------------------------------------------------------------------------
(* The dispatcher                                                          *)

\* send(p): the next channel in turn takes the packet; a full one blocks.
Send(p) ==
    /\ Len(chs[roundTrip]) < ChanCap
    /\ chs' = [chs EXCEPT ![roundTrip] = Append(@, p)]
    /\ roundTrip' = (roundTrip + 1) % Concurrency

SelectTick ==
    /\ disp.pc = "select"
    /\ disp' = [disp EXCEPT !.pc = "lock"]
    /\ UNCHANGED <<ackID, data, mu, read, queue, chs, roundTrip, op, fresh>>

SelectRead ==
    /\ disp.pc = "select"
    /\ read > 0
    /\ read' = read - 1
    /\ disp' = [disp EXCEPT !.pc = "lock"]
    /\ UNCHANGED <<ackID, data, mu, queue, chs, roundTrip, op, fresh>>

\* Mutant: the queue is served only while no notification is outstanding.
SelectQueueLast ==
    /\ disp.pc = "select"
    /\ queue # <<>>
    /\ DOMAIN data = {}
    /\ queue' = Tail(queue)
    /\ disp' = [disp EXCEPT !.pc = "send", !.held = <<Head(queue)>>]
    /\ UNCHANGED <<ackID, data, mu, read, chs, roundTrip, op, fresh>>

SelectQueue ==
    /\ disp.pc = "select"
    /\ queue # <<>>
    /\ queue' = Tail(queue)
    /\ disp' = [disp EXCEPT !.pc = "send", !.held = <<Head(queue)>>]
    /\ UNCHANGED <<ackID, data, mu, read, chs, roundTrip, op, fresh>>

SendQueued ==
    /\ disp.pc = "send"
    /\ Send(disp.held[1])
    /\ disp' = [disp EXCEPT !.pc = "select", !.held = <<>>]
    /\ UNCHANGED <<ackID, data, mu, read, queue, op, fresh>>

\* retry() takes the lock and ranges over the map, in any order.
RetryLock ==
    /\ disp.pc = "lock"
    /\ mu = "free"
    /\ mu' = "dispatcher"
    /\ disp' = [disp EXCEPT !.pc = "retry", !.todo = DOMAIN data]
    /\ UNCHANGED <<ackID, data, read, queue, chs, roundTrip, op, fresh>>

\* Mutant: an entry is dealt out once.
RetryEntryOnce(id) ==
    /\ disp.pc = "retry"
    /\ id \in disp.todo
    /\ IF id \in fresh THEN Send(data[id].packet) ELSE UNCHANGED <<chs, roundTrip>>
    /\ fresh' = fresh \ {id}
    /\ disp' = [disp EXCEPT !.todo = @ \ {id}]
    /\ UNCHANGED <<ackID, data, mu, read, queue, op>>

\* An entry whose counter exceeds the limit is deleted, any other is dealt out
\* again; the counter itself is left as it is.
RetryEntry(id) ==
    /\ disp.pc = "retry"
    /\ id \in disp.todo
    /\ IF data[id].counter > MaxRetrySend
       THEN /\ data' = [k \in DOMAIN data \ {id} |-> data[k]]
            /\ UNCHANGED <<chs, roundTrip>>
       ELSE /\ Send(data[id].packet)
            /\ UNCHANGED data
    /\ fresh' = fresh \ {id}
    /\ disp' = [disp EXCEPT !.todo = @ \ {id}]
    /\ UNCHANGED <<ackID, mu, read, queue, op>>

RetryUnlock ==
    /\ disp.pc = "retry"
    /\ disp.todo = {}
    /\ mu' = "free"
    /\ disp' = [disp EXCEPT !.pc = "select"]
    /\ UNCHANGED <<ackID, data, read, queue, chs, roundTrip, op, fresh>>

-----------------------------------------------------------------------------
(* The workers                                                             *)

\* A worker resolves the address of the next packet and writes Encode of it to
\* the socket, where this model ends; if either fails, the error is logged.
Worker(w) ==
    /\ chs[w] # <<>>
    /\ chs' = [chs EXCEPT ![w] = Tail(@)]
    /\ UNCHANGED <<ackID, data, mu, read, queue, roundTrip, disp, op, fresh>>

-----------------------------------------------------------------------------
Handler(h) ==
    \/ \E s, d \in Peers : <<s, d>> \in Requests /\ Call(h, s, d)
    \/ Lock(h)
    \/ Put(h)
    \/ Notify(h)

UDPLoop ==
    \/ \E id \in AckIDs : OpenTunnelAck(id)
    \/ \E dest \in Addrs, payload \in Payloads : Relay(dest, payload)

Dispatcher ==
    \/ SelectTick
    \/ SelectRead
    \/ SelectQueue
    \/ SendQueued
    \/ RetryLock
    \/ \E id \in disp.todo : RetryEntry(id)
    \/ RetryUnlock

Next ==
    \/ \E h \in Handlers : Handler(h)
    \/ UDPLoop
    \/ Dispatcher
    \/ \E w \in Workers : Worker(w)

Spec == Init /\ [][Next]_vars

(***************************************************************************)
(* Fairness.  Every goroutine that can run runs.  sync.Mutex hands the     *)
(* lock to a waiter that has waited for 1 ms, and select chooses at random *)
(* among the ready cases, so a lock or a case that is ready again and      *)
(* again is taken: strong fairness.  The ticker fires for ever, and a tick *)
(* and a wake-up do the same.  A worker always takes the next packet,      *)
(* whether or not the write succeeds.  Nothing obliges a peer to           *)
(* acknowledge.                                                            *)
(***************************************************************************)
Fairness ==
    /\ \A h \in Handlers : SF_vars(Lock(h)) /\ WF_vars(Put(h)) /\ WF_vars(Notify(h))
    /\ SF_vars(SelectTick \/ SelectRead) /\ SF_vars(SelectQueue)
    /\ WF_vars(SendQueued)
    /\ SF_vars(RetryLock) /\ WF_vars(RetryUnlock)
    /\ \A id \in AckIDs : WF_vars(RetryEntry(id))
    /\ \A w \in Workers : WF_vars(Worker(w))

FairSpec == Spec /\ Fairness

-----------------------------------------------------------------------------
(* Properties                                                              *)

\* Every variable keeps its type; the channels stay within their capacities.
TypeOK ==
    /\ ackID \in Nat
    /\ DOMAIN data \subseteq 1..ackID
    /\ \A id \in DOMAIN data : data[id] \in RetryPacket
    /\ mu \in {"free", "dispatcher"} \cup Handlers
    /\ read \in 0..ReadCap
    /\ queue \in Seq(Packet) /\ Len(queue) <= QueueCap
    /\ chs \in [Workers -> Seq(Packet)]
    /\ \A w \in Workers : Len(chs[w]) <= ChanCap
    /\ roundTrip \in Workers
    /\ disp \in DispatcherState
    /\ op \in [Handlers -> {Idle} \cup CallState]
    /\ fresh \subseteq Nat

\* n.mu is held exactly by the goroutine that is between its Lock and Unlock.
MutexOwner ==
    /\ mu = "dispatcher" <=> disp.pc = "retry"
    /\ \A h \in Handlers : mu = h <=> op[h].pc \in {"put", "notify"}

\* A tunnel notification that no worker has been given yet never depends on
\* the 300 ms ticker: a wake-up token is in n.read, or the dispatcher is about
\* to lock and range over the map, or it is ranging and the entry is still
\* ahead of it, or the handler that adds it still holds the lock (notify() in
\* OpenTunnel, its default branch, and the retry loop that answers it).
NoLostWakeup ==
    \A id \in fresh :
        \/ read > 0
        \/ disp.pc = "lock"
        \/ disp.pc = "retry" /\ id \in disp.todo
        \/ mu \in Handlers

\* What the retry loop is about to send is still in the map, although entries
\* are deleted by the UDP loop: retry() reads n.data[id] for an id it saw when
\* it took the lock.
RetrySeesEntry == disp.pc = "retry" => disp.todo \subseteq DOMAIN data

\* Whatever is on its way to a peer describes the other side of its tunnel:
\* the address announced was read from the record of the peer announced, and
\* the notification does not go to that peer itself (peers[1-i] in OpenTunnel).
NoticeCrossed ==
    \A id \in DOMAIN data :
        LET p == data[id].packet
        IN  /\ p.message.udpAddress \in AddrsOf[p.message.virtAddress]
            /\ p.destination \notin AddrsOf[p.message.virtAddress]

\* A notification that was acknowledged or dropped never comes back, and one
\* in the map never changes: ids are not used twice.
NoResurrection ==
    [][\A id \in 1..ackID :
          id \in DOMAIN data' => id \in DOMAIN data /\ data'[id] = data[id]]_vars

\* An HTTP handler that entered OpenTunnel returns: it neither waits for ever
\* for n.mu nor blocks on n.read while it holds it.
OpenTunnelReturns ==
    \A h \in Handlers : op[h].pc = "lock" ~> op[h].pc = "idle"

\* A notification that is not acknowledged is dealt to a worker, again and
\* again, however busy the queue of relayed data is (retry(), the select).
NoticeDealt ==
    \A id \in AckIDs :
        id \in DOMAIN data ~>
            \/ id \notin DOMAIN data
            \/ \E w \in Workers : \E k \in DOMAIN chs[w] :
                  chs[w][k].typ = "OpenTunnel" /\ chs[w][k].message.ackId = id

\* "MaxRetrySend represents the max tries of send notification to the peer"
\* (constant/constant.go): a notification nobody acknowledges is given up.
RetriesEnd == \A id \in AckIDs : id \in DOMAIN data ~> id \notin DOMAIN data

=============================================================================
