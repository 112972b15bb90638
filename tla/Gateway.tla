------------------------------ MODULE Gateway -------------------------------
(***************************************************************************)
(* The gateway process: the peer table of the API server                   *)
(* (api/api_server.go), the UDP loop with its processor                    *)
(* (gateway/gateway.go, gateway/processor.go) and the notifier they call   *)
(* (module Notifier), composed.                                            *)
(*                                                                         *)
(* A PeerInfo is shared by the UDP loop, which rewrites its UDPAddress when *)
(* a heartbeat comes from a new address, and by the HTTP handlers, which   *)
(* read it in notifier.OpenTunnel.  No lock orders the two.  A Go string is *)
(* two words, a pointer and a length, written one after the other: a read  *)
(* in between sees the words of two different addresses.                   *)
(***************************************************************************)
EXTENDS Notifier

CONSTANTS
    Torn,        \* what two words of different addresses read as
    PayloadFor   \* the virtual address each relayed payload is meant for

ASSUME GatewayAssumption ==
    /\ PayloadFor \in [Payloads -> Peers]
    /\ Payloads \cap Notice = {}
    /\ \A v \in Peers : \A a, b \in AddrsOf[v] : a # b => Torn \in AddrsOf[v]

VARIABLES
    peers,  \* server.peers: virtual address -> the two words of UDPAddress
    udp,    \* the UDP loop: where it is in process()
    seen,   \* history: the addresses each peer sent a heartbeat from
    last    \* history: the address of each peer's latest heartbeat

serverVars == <<peers, seen, last>>
gatewayVars == <<vars, serverVars, udp>>

Reading == [pc |-> "read"]

GatewayInit ==
    /\ Init
    /\ peers = [v \in {} |-> {}]
    /\ udp = Reading
    /\ seen = [v \in Peers |-> {}]
    /\ last = [v \in {} |-> {}]

\* The values a read of the record of v can yield.  Two addresses of the same
\* length differ in the pointer only.
UDPAddress(v) ==
    IF peers[v].ptr = peers[v].len THEN {peers[v].ptr} ELSE {peers[v].ptr, Torn}

-----------------------------------------------------------------------------
(* HTTP handlers                                                           *)

\* Server.OpenTunnel: a request with a version that is too old, or that names a
\* peer the table does not hold, is answered with an error and changes nothing.
\* That the two peers differ is not tested.
OpenTunnel(h) ==
    /\ \E s, d \in DOMAIN peers : <<s, d>> \in Requests /\ Call(h, s, d)
    /\ UNCHANGED <<serverVars, udp>>

\* notifier.OpenTunnel reads the two records as they are at that moment.
PutPeers(h) ==
    /\ Put(h)
    /\ LET p == data'[ackID'].packet
       IN  /\ p.destination \in UDPAddress(op[h].peers[op[h].i])
           /\ p.message.udpAddress \in UDPAddress(op[h].peers[3 - op[h].i])
    /\ UNCHANGED <<serverVars, udp>>

-----------------------------------------------------------------------------
(* The UDP loop: one datagram at a time                                    *)

Bind(f, v, x) == [u \in DOMAIN f \cup {v} |-> IF u = v THEN x ELSE f[u]]

\* Mutant: a peer that is in the table keeps its first address.
HeartbeatFirst(v, a) ==
    /\ udp = Reading
    /\ a # Torn
    /\ seen' = [seen EXCEPT ![v] = @ \cup {a}]
    /\ last' = Bind(last, v, a)
    /\ peers' = IF v \in DOMAIN peers THEN peers
                                      ELSE Bind(peers, v, [ptr |-> a, len |-> a])
    /\ UNCHANGED <<vars, udp>>

\* Server.Heartbeat: a new peer is stored; the address of a known one is
\* rewritten, word by word, if the datagram came from a different one.
Heartbeat(v, a) ==
    /\ udp = Reading
    /\ a # Torn
    /\ seen' = [seen EXCEPT ![v] = @ \cup {a}]
    /\ last' = Bind(last, v, a)
    /\ IF v \notin DOMAIN peers
       THEN peers' = Bind(peers, v, [ptr |-> a, len |-> a]) /\ UNCHANGED udp
       ELSE /\ UNCHANGED peers
            /\ udp' = IF peers[v].ptr = a THEN udp
                      ELSE [pc |-> "write", peer |-> v, addr |-> a, words |-> {"ptr", "len"}]
    /\ UNCHANGED vars

WriteWord(w) ==
    /\ udp.pc = "write"
    /\ w \in udp.words
    /\ peers' = [peers EXCEPT ![udp.peer][w] = udp.addr]
    /\ udp' = IF udp.words = {w} THEN Reading ELSE [udp EXCEPT !.words = @ \ {w}]
    /\ UNCHANGED <<vars, seen, last>>

\* An acknowledgement waits for n.mu.
ReadAck(id) ==
    /\ udp = Reading
    /\ udp' = [pc |-> "ack", id |-> id]
    /\ UNCHANGED <<vars, serverVars>>

\* Mutant: the processor deletes the entry itself, without n.mu.
ApplyAckUnlocked ==
    /\ udp.pc = "ack"
    /\ data' = [k \in DOMAIN data \ {udp.id} |-> data[k]]
    /\ fresh' = fresh \ {udp.id}
    /\ udp' = Reading
    /\ UNCHANGED <<ackID, mu, read, queue, chs, roundTrip, disp, op, serverVars>>

ApplyAck ==
    /\ udp.pc = "ack"
    /\ OpenTunnelAck(udp.id)
    /\ udp' = Reading
    /\ UNCHANGED serverVars

\* Mutant: the data goes to the peer looked up first in the table.
RelayDestinationAny(payload) == UDPAddress(CHOOSE v \in DOMAIN peers : TRUE)

\* The UDP loop is the only writer of the records, so its own read is whole.
RelayDestination(payload) == UDPAddress(PayloadFor[payload])

\* A CtrlRelay for a peer the table does not hold is an error and changes
\* nothing; any other is handed to the notifier, whose queue may be full.
ReadRelay(payload) ==
    /\ udp = Reading
    /\ PayloadFor[payload] \in DOMAIN peers
    /\ \E dest \in RelayDestination(payload) :
          udp' = [pc |-> "relay", dest |-> dest, payload |-> payload]
    /\ UNCHANGED <<vars, serverVars>>

ApplyRelay ==
    /\ udp.pc = "relay"
    /\ Relay(udp.dest, udp.payload)
    /\ udp' = Reading
    /\ UNCHANGED serverVars

-----------------------------------------------------------------------------
Process ==
    \/ \E v \in Peers : \E a \in AddrsOf[v] : Heartbeat(v, a)
    \/ \E w \in {"ptr", "len"} : WriteWord(w)
    \/ \E id \in AckIDs : ReadAck(id)
    \/ ApplyAck
    \/ \E payload \in Payloads : ReadRelay(payload)
    \/ ApplyRelay

GatewayNext ==
    \/ \E h \in Handlers : OpenTunnel(h) \/ PutPeers(h)
    \/ /\ \/ \E h \in Handlers : Lock(h) \/ Notify(h)
          \/ Dispatcher
          \/ \E w \in Workers : Worker(w)
       /\ UNCHANGED <<serverVars, udp>>
    \/ Process

GatewaySpec == GatewayInit /\ [][GatewayNext]_gatewayVars

\* The notifier's fairness, and the UDP loop's: it is a goroutine that runs
\* when it can, and it gets n.mu when that is free again and again.
GatewayFairSpec ==
    /\ GatewaySpec
    /\ Fairness
    /\ WF_gatewayVars(\E w \in {"ptr", "len"} : WriteWord(w))
    /\ SF_gatewayVars(ApplyAck)
    /\ WF_gatewayVars(ApplyRelay)

-----------------------------------------------------------------------------
(* Properties                                                              *)

\* The addresses a read of the record of v may have given so far.
Known(v) == seen[v] \cup {t \in {Torn} : \E a, b \in seen[v] : a # b}

\* The packets the notifier holds: in the map, in the queue, in the dispatcher's
\* hands and in the workers' channels.
Packets ==
    LET elems(q) == {q[i] : i \in DOMAIN q}
    IN  {data[id].packet : id \in DOMAIN data} \cup elems(queue)
          \cup elems(disp.held) \cup UNION {elems(chs[w]) : w \in Workers}

\* The datagrams the workers write or will write.
Outgoing == {Encode(p) : p \in Packets}

\* Every notification introduces two peers the gateway has heard of: the
\* address announced is one the announced peer sent a heartbeat from, and it
\* goes to an address some other peer sent one from.  Only a peer that changed
\* its address is ever announced with a torn one (Server.OpenTunnel's lookups,
\* notifier.OpenTunnel's reads, Server.Heartbeat's unlocked write).
Introduced ==
    \A g \in Outgoing : g.type = "OpenTunnel" =>
        /\ g.payload.udpAddress \in Known(g.payload.virtAddress)
        /\ \E v \in Peers \ {g.payload.virtAddress} : g.to \in Known(v)

\* Data goes out only as it came in, and only to an address, whole and not
\* torn, that the peer named in its CtrlRelay message sent a heartbeat from
\* (process(), relay(), the workers' encoding).
RelayedToPeer ==
    \A g \in Outgoing : g.type = "Data" =>
        g.payload \in Payloads /\ g.to \in seen[PayloadFor[g.payload]]

\* "update the peer information to the latest to keep it up to date"
\* (api/api_server.go): between two datagrams every record holds, in both
\* words, the address of that peer's latest heartbeat.
UpToDate ==
    udp.pc # "write" =>
        /\ DOMAIN peers = DOMAIN last
        /\ \A v \in DOMAIN peers : peers[v] = [ptr |-> last[v], len |-> last[v]]

\* The UDP loop, which alone reads heartbeats, acknowledgements and relayed
\* data, always comes back for the next datagram: neither n.mu nor a full
\* n.queue stops it for ever.
UDPLoopReturns == udp.pc # "read" ~> udp.pc = "read"

\* Composed with the server and the processor, the notifier behaves as
\* specified alone: every theorem about it holds in the gateway.
ImplementsNotifier == Spec

=============================================================================
