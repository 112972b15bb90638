-------------------------------- MODULE Node --------------------------------
(***************************************************************************)
(* The connection table of one node (node/connection.go, node/handler.go,  *)
(* and serveDev and forward of node/node.go) and the goroutines that share *)
(* it:                                                                     *)
(*                                                                         *)
(*   - schedule reads the gateway's socket and runs onOpenTunnel;          *)
(*   - every connection has a loop goroutine (timers, pipeline, die) and a *)
(*     read goroutine (onPing, onPong, data for the device);               *)
(*   - the device reader forwards packets, the device writer drains the    *)
(*     node's pipeline;                                                    *)
(*   - one goroutine runs each OpenTunnel request to the gateway.          *)
(*                                                                         *)
(* The other nodes and the gateway are the environment: OpenTunnel, Ping,  *)
(* Pong and Data may arrive at any moment, late or more than once, and a   *)
(* read or a dial may fail.                                                *)
(***************************************************************************)
EXTENDS Naturals, Sequences, FiniteSets

CONSTANTS
    Peers,        \* virtual addresses of the other nodes
    Addrs,        \* UDP addresses
    AddrsOf,      \* AddrsOf[v]: the addresses v has over time
    Cut,          \* Cut[v][w]: the peers that v's address with w's length can name
    Conns,        \* connection objects; their number bounds the model
    NoConn,       \* nil
    Blank,        \* the empty address
    NoBytes,      \* a string with a length whose pointer is nil
    Inbound,      \* the types of the packets that arrive in this instance
    Targets,      \* the peers that packets read from the device are for
    PipelineCap,  \* capacity of connection.pipeline  (128)
    DeviceCap,    \* capacity of Node.pipeline        (512)
    MaxRequests   \* bound of the model on the requests in flight for a peer

ASSUME NodeAssumption ==
    /\ AddrsOf \in [Peers -> SUBSET Addrs]
    /\ NoConn \notin Conns
    /\ Blank \notin Peers \cup Addrs
    /\ NoBytes \notin Peers \cup {Blank}
    /\ Inbound \subseteq {"Ping", "Pong", "Data"}
    /\ Targets \subseteq Peers
    /\ PipelineCap \in Nat \ {0}
    /\ DeviceCap \in Nat \ {0}
    /\ MaxRequests \in Nat \ {0}

ASSUME CutAssumption ==
    /\ Cut \in [Peers -> [Peers -> SUBSET Peers]]
    /\ \A v \in Peers : Cut[v][v] = {v}

VARIABLES
    connections,  \* Node.connections: virtual address -> connection
    conn,         \* the connection objects
    reader,       \* the read goroutine of each connection
    protos,       \* the package variable protos: messages all readers decode into
    schedule,     \* the schedule goroutine
    forward,      \* the device reader: sending to the pipeline, or inside forward
    pending,      \* Node.pending: virtual address -> time of the last request
    requests,     \* number of OpenTunnel requests in flight per peer
    device,       \* number of packets in Node.pipeline
    panicked,     \* what ended the process: a second "close" of a channel, the
                  \* "read" of a string without bytes; "none" while it runs
    heard         \* history: addresses from whose socket a Pong was read

Alive == panicked = "none"

vars == <<connections, conn, reader, protos, schedule, forward, pending,
          requests, device, panicked, heard>>

(***************************************************************************)
(* conn[c].age counts the 5 s keepalive periods that began since           *)
(* c.keepalive was set.  After two of them between 5 s and 15 s have       *)
(* passed, so the test "keepalive + 10 s is before now" may go either way; *)
(* after one it is false, after three it is true.                          *)
(***************************************************************************)
MaxAge == 3
MayExpire(c) == conn[c].age >= 2
MustExpire(c) == conn[c].age >= 3

ConnectionFields ==
    [peerVirtAddr: Peers \cup {Blank}, remote: Addrs \cup {Blank},
     state: {"Connecting", "Established"}, age: 0..MaxAge, die: BOOLEAN,
     pipeline: Seq({"Pong", "Data"}), pinged: BOOLEAN,
     loop: {"unborn", "start", "run", "close", "closed", "done"}]
Connection ==
    {r \in ConnectionFields :
        /\ Len(r.pipeline) <= PipelineCap
        /\ r.loop # "unborn" => r.peerVirtAddr \in Peers /\ r.remote \in Addrs}

Unborn == [peerVirtAddr |-> Blank, remote |-> Blank, state |-> "Connecting",
           age |-> 0, die |-> FALSE, pipeline |-> <<>>, pinged |-> FALSE,
           loop |-> "unborn"]

NewConnection(v, a) ==
    [Unborn EXCEPT !.peerVirtAddr = v, !.remote = a, !.loop = "start"]

ReaderState ==
    [pc: {"off", "idle", "send", "decode", "lookup", "exit"}, typ: {"Ping", "Pong"},
     conn: {NoConn}]
      \cup [pc: {"apply"}, typ: {"Ping", "Pong"}, conn: Conns]
ScheduleClosing == [pc: {"close"}, virt: Peers, udp: Addrs, conn: Conns]
ScheduleDialling == [pc: {"dial"}, virt: Peers, udp: Addrs, conn: {NoConn}]

AtRead == [pc |-> "read"]
AtSend == [pc |-> "send"]
Handling(pc, v, a, c) == [pc |-> pc, virt |-> v, udp |-> a, conn |-> c]
Using(c) == [pc |-> "use", conn |-> c]
NoPacket == [pc |-> "idle", typ |-> "Ping", conn |-> NoConn]

Init ==
    /\ connections = [v \in Peers |-> NoConn]
    /\ conn = [c \in Conns |-> Unborn]
    /\ reader = [c \in Conns |-> [NoPacket EXCEPT !.pc = "off"]]
    /\ protos = [t \in {"Ping", "Pong"} |-> Blank]
    /\ schedule = AtRead
    /\ forward = AtRead
    /\ pending = [v \in Peers |-> "none"]
    /\ requests = [v \in Peers |-> 0]
    /\ device = 0
    /\ panicked = "none"
    /\ heard = {}

-----------------------------------------------------------------------------
(* schedule: messages from the gateway                                     *)

\* Mutant: the test for an unchanged address is missing.
OnOpenTunnelRedials(v, a) ==
    /\ Alive
    /\ schedule = AtRead
    /\ \E c \in Conns : conn[c].loop = "unborn"
    /\ LET c == connections[v]
       IN  schedule' = IF c # NoConn /\ ~conn[c].die
                       THEN Handling("close", v, a, c)
                       ELSE Handling("dial", v, a, NoConn)
    /\ UNCHANGED <<connections, conn, reader, protos, forward, pending,
                   requests, device, panicked, heard>>

\* onOpenTunnel looks the peer up.  A connection to the same address, dying or
\* not, is only acknowledged; one to another address is closed first, unless its
\* die channel is closed already; in the other cases a new connection is dialled.
\* The acknowledgement is a datagram to the gateway and leaves the node as it is.
\* A new connection needs an unused object: the bound of the model.
OnOpenTunnel(v, a) ==
    /\ Alive
    /\ schedule = AtRead
    /\ \E c \in Conns : conn[c].loop = "unborn"
    /\ LET c == connections[v]
           found == c # NoConn
       IN  schedule' = IF found /\ conn[c].remote = a THEN AtRead
                       ELSE IF found /\ ~conn[c].die THEN Handling("close", v, a, c)
                       ELSE Handling("dial", v, a, NoConn)
    /\ UNCHANGED <<connections, conn, reader, protos, forward, pending,
                   requests, device, panicked, heard>>

\* The second half of conn.close(): close(c.die), which panics if the loop of
\* the connection has closed the channel since it was tested.
ScheduleClose ==
    /\ Alive
    /\ schedule.pc = "close"
    /\ IF conn[schedule.conn].die
       THEN panicked' = "close" /\ UNCHANGED conn
       ELSE conn' = [conn EXCEPT ![schedule.conn].die = TRUE] /\ UNCHANGED panicked
    /\ schedule' = [schedule EXCEPT !.pc = "dial", !.conn = NoConn]
    /\ UNCHANGED <<connections, reader, protos, forward, pending, requests,
                   device, heard>>

\* The dial succeeds: the connection is stored, its loop started, and the
\* notification acknowledged.
DialOK(c) ==
    /\ Alive
    /\ schedule.pc = "dial"
    /\ conn[c].loop = "unborn"
    /\ conn' = [conn EXCEPT ![c] = NewConnection(schedule.virt, schedule.udp)]
    /\ connections' = [connections EXCEPT ![schedule.virt] = c]
    /\ schedule' = AtRead
    /\ UNCHANGED <<reader, protos, forward, pending, requests, device,
                   panicked, heard>>

\* The dial fails: no connection and no acknowledgement.
DialError ==
    /\ Alive
    /\ schedule.pc = "dial"
    /\ schedule' = AtRead
    /\ UNCHANGED <<connections, conn, reader, protos, forward, pending,
                   requests, device, panicked, heard>>

\* Mutant: the node's pipeline has no capacity.
EnqueueUnbounded == device' = device + 1

\* A packet for the device is sent on the node's pipeline, which blocks while
\* the pipeline is full.
Enqueue == device < DeviceCap /\ device' = device + 1

\* Data relayed by the gateway goes to the device.
OnRelayedData ==
    /\ Alive
    /\ schedule = AtRead
    /\ "Data" \in Inbound
    /\ schedule' = AtSend
    /\ UNCHANGED <<connections, conn, reader, protos, forward, pending,
                   requests, device, panicked, heard>>

ScheduleSend ==
    /\ Alive
    /\ schedule = AtSend
    /\ Enqueue
    /\ schedule' = AtRead
    /\ UNCHANGED <<connections, conn, reader, protos, forward, pending,
                   requests, panicked, heard>>

-----------------------------------------------------------------------------
(* connection.loop                                                         *)

LoopVars == <<protos, schedule, forward, pending, requests, device, heard>>

LoopStart(c) ==
    /\ Alive
    /\ conn[c].loop = "start"
    /\ conn' = [conn EXCEPT ![c].loop = "run"]
    /\ reader' = [reader EXCEPT ![c] = NoPacket]
    /\ UNCHANGED <<connections, panicked, LoopVars>>

\* The connecting timer: a Ping every 100 ms for as long as the connection is
\* being established.  Once it is not, the timer is not armed again.
LoopConnecting(c) ==
    /\ Alive
    /\ conn[c].loop = "run"
    /\ conn[c].state = "Connecting"
    /\ conn' = [conn EXCEPT ![c].pinged = TRUE]
    /\ UNCHANGED <<connections, reader, panicked, LoopVars>>

\* Mutant: close() without its test of the die channel.
LoopExpiredUntested(c) ==
    /\ Alive
    /\ conn[c].loop = "run"
    /\ MayExpire(c)
    /\ conn' = [conn EXCEPT ![c].loop = "close"]
    /\ UNCHANGED <<connections, reader, panicked, LoopVars>>

\* Mutant: the test of the state comes before the one of the keepalive time.
LoopExpiredEstablished(c) ==
    /\ Alive
    /\ conn[c].loop = "run"
    /\ conn[c].state = "Established"
    /\ MayExpire(c)
    /\ ~conn[c].die
    /\ conn' = [conn EXCEPT ![c].loop = "close"]
    /\ UNCHANGED <<connections, reader, panicked, LoopVars>>

\* The keepalive ticker finds the connection silent for 10 s and calls close(),
\* which does nothing if the die channel is closed already.
LoopExpired(c) ==
    /\ Alive
    /\ conn[c].loop = "run"
    /\ MayExpire(c)
    /\ ~conn[c].die
    /\ conn' = [conn EXCEPT ![c].loop = "close"]
    /\ UNCHANGED <<connections, reader, panicked, LoopVars>>

LoopClose(c) ==
    /\ Alive
    /\ conn[c].loop = "close"
    /\ IF conn[c].die
       THEN panicked' = "close" /\ UNCHANGED conn
       ELSE /\ conn' = [conn EXCEPT ![c].die = TRUE, ![c].loop = "run"]
            /\ UNCHANGED panicked
    /\ UNCHANGED <<connections, reader, LoopVars>>

\* The keepalive ticker of an established connection that is not silent.
LoopKeepalive(c) ==
    /\ Alive
    /\ conn[c].loop = "run"
    /\ ~MustExpire(c)
    /\ conn[c].state = "Established"
    /\ conn' = [conn EXCEPT ![c].pinged = TRUE]
    /\ UNCHANGED <<connections, reader, panicked, LoopVars>>

LoopSend(c) ==
    /\ Alive
    /\ conn[c].loop = "run"
    /\ conn[c].pipeline # <<>>
    /\ conn' = [conn EXCEPT ![c].pipeline = Tail(@)]
    /\ UNCHANGED <<connections, reader, panicked, LoopVars>>

\* die is closed: the loop closes the socket and returns.
LoopDie(c) ==
    /\ Alive
    /\ conn[c].loop = "run"
    /\ conn[c].die
    /\ conn' = [conn EXCEPT ![c].loop = "closed"]
    /\ UNCHANGED <<connections, reader, panicked, LoopVars>>

\* Mutant: the entry stays in the table.
HandleClosedKeeps(c) ==
    /\ Alive
    /\ conn[c].loop = "closed"
    /\ conn' = [conn EXCEPT ![c].loop = "done"]
    /\ UNCHANGED <<connections, reader, panicked, LoopVars>>

\* The deferred handleClosed removes the table's entry for the peer, whichever
\* connection it holds.
HandleClosed(c) ==
    /\ Alive
    /\ conn[c].loop = "closed"
    /\ connections' = [connections EXCEPT ![conn[c].peerVirtAddr] = NoConn]
    /\ conn' = [conn EXCEPT ![c].loop = "done"]
    /\ UNCHANGED <<reader, panicked, LoopVars>>

-----------------------------------------------------------------------------
(* connection.read and handlePacket                                        *)

ReadVars == <<connections, schedule, forward, pending, requests>>

SocketOpen(c) == conn[c].loop \in {"start", "run", "close"}

\* A packet on the connection's socket, which the kernel only gives packets
\* from the connection's remote address.  A peer sends Pong in answer to a Ping
\* this node sent it, on this connection or on an earlier one.  Decoding starts
\* with protos[typ].Reset().
ReadPacket(c, typ) ==
    /\ Alive
    /\ reader[c].pc = "idle"
    /\ SocketOpen(c)
    /\ typ \in Inbound \ {"Data"}
    /\ typ = "Pong" => \E d \in Conns : /\ conn[d].peerVirtAddr = conn[c].peerVirtAddr
                                        /\ conn[d].pinged
    /\ reader' = [reader EXCEPT ![c] = [@ EXCEPT !.pc = "decode", !.typ = typ]]
    /\ heard' = IF typ = "Pong" THEN heard \cup {conn[c].remote} ELSE heard
    /\ UNCHANGED <<conn, protos, device, panicked, ReadVars>>

ReadData(c) ==
    /\ Alive
    /\ reader[c].pc = "idle"
    /\ SocketOpen(c)
    /\ "Data" \in Inbound
    /\ reader' = [reader EXCEPT ![c].pc = "send"]
    /\ UNCHANGED <<conn, protos, device, panicked, heard, ReadVars>>

ReaderSend(c) ==
    /\ Alive
    /\ reader[c].pc = "send"
    /\ Enqueue
    /\ reader' = [reader EXCEPT ![c].pc = "idle"]
    /\ UNCHANGED <<conn, protos, panicked, heard, ReadVars>>

\* Any error ends the read goroutine, also while the socket is open.
ReadError(c) ==
    /\ Alive
    /\ reader[c].pc = "idle"
    /\ reader' = [reader EXCEPT ![c].pc = "exit"]
    /\ UNCHANGED <<conn, protos, device, panicked, heard, ReadVars>>

\* The other readers that are between Reset and the end of Unmarshal of the
\* message c uses: a data race.
Racers(c) ==
    {d \in Conns \ {c} : reader[d].pc = "decode" /\ reader[d].typ = reader[c].typ}

\* What c may find in the message where v should be: without a racer, v; else
\* nothing, after a Reset; a length without bytes, in the middle of one; or the
\* pointer of one string written and the length of another.
Seen(c, v) ==
    LET written == ({v} \cup {conn[d].peerVirtAddr : d \in Racers(c)}) \ {Blank, NoBytes}
    IN  IF Racers(c) = {} THEN {v}
        ELSE {Blank, NoBytes} \cup UNION {Cut[p][q] : p, q \in written}

Unmarshal(c) ==
    /\ Alive
    /\ reader[c].pc = "decode"
    /\ \E v \in Seen(c, conn[c].peerVirtAddr) :
          protos' = [protos EXCEPT ![reader[c].typ] = v]
    /\ reader' = [reader EXCEPT ![c].pc = "lookup"]
    /\ UNCHANGED <<conn, device, panicked, heard, ReadVars>>

\* onPing and onPong look the sender up by the decoded virtual address.  The
\* table hashes it, which faults if the string has a length and no bytes.
Lookup(c) ==
    /\ Alive
    /\ reader[c].pc = "lookup"
    /\ \E v \in Seen(c, protos[reader[c].typ]) :
          /\ reader' = [reader EXCEPT ![c] =
                          IF v \in Peers /\ connections[v] # NoConn
                          THEN [@ EXCEPT !.pc = "apply", !.conn = connections[v]]
                          ELSE NoPacket]
          /\ panicked' = IF v = NoBytes THEN "read" ELSE "none"
    /\ UNCHANGED <<conn, protos, device, heard, ReadVars>>

\* Mutant: a Ping establishes the connection, as a Pong does.
OnPingEstablishes(c) ==
    /\ Alive
    /\ reader[c].pc = "apply"
    /\ reader[c].typ = "Ping"
    /\ Len(conn[reader[c].conn].pipeline) < PipelineCap
    /\ conn' = [conn EXCEPT ![reader[c].conn].pipeline = Append(@, "Pong"),
                            ![reader[c].conn].state = "Established"]
    /\ reader' = [reader EXCEPT ![c] = NoPacket]
    /\ UNCHANGED <<protos, device, panicked, heard, ReadVars>>

\* onPing queues a Pong and blocks while the pipeline of the connection is full.
OnPing(c) ==
    /\ Alive
    /\ reader[c].pc = "apply"
    /\ reader[c].typ = "Ping"
    /\ Len(conn[reader[c].conn].pipeline) < PipelineCap
    /\ conn' = [conn EXCEPT ![reader[c].conn].pipeline = Append(@, "Pong")]
    /\ reader' = [reader EXCEPT ![c] = NoPacket]
    /\ UNCHANGED <<protos, device, panicked, heard, ReadVars>>

OnPong(c) ==
    /\ Alive
    /\ reader[c].pc = "apply"
    /\ reader[c].typ = "Pong"
    /\ conn' = [conn EXCEPT ![reader[c].conn].age = 0,
                            ![reader[c].conn].state = "Established"]
    /\ reader' = [reader EXCEPT ![c] = NoPacket]
    /\ UNCHANGED <<protos, device, panicked, heard, ReadVars>>

-----------------------------------------------------------------------------
(* The device, forward and the requests to the gateway                     *)

\* A packet for this node itself goes straight back to the device.
DeviceSelf ==
    /\ Alive
    /\ forward = AtRead
    /\ "Data" \in Inbound
    /\ forward' = AtSend
    /\ UNCHANGED <<connections, conn, reader, protos, schedule, pending,
                   requests, device, panicked, heard>>

ForwardSend ==
    /\ Alive
    /\ forward = AtSend
    /\ Enqueue
    /\ forward' = AtRead
    /\ UNCHANGED <<connections, conn, reader, protos, schedule, pending,
                   requests, panicked, heard>>

\* Mutant: one goroutine reads and writes the device in turn.
DeviceWriteInTurn ==
    /\ Alive
    /\ forward = AtRead
    /\ device > 0
    /\ device' = device - 1
    /\ UNCHANGED <<connections, conn, reader, protos, schedule, forward,
                   pending, requests, panicked, heard>>

DeviceWrite ==
    /\ Alive
    /\ device > 0
    /\ device' = device - 1
    /\ UNCHANGED <<connections, conn, reader, protos, schedule, forward,
                   pending, requests, panicked, heard>>

\* A packet for peer v, whose connection is in the table.
ForwardFound(v) ==
    /\ Alive
    /\ forward = AtRead
    /\ connections[v] # NoConn
    /\ forward' = Using(connections[v])
    /\ UNCHANGED <<connections, conn, reader, protos, schedule, pending,
                   requests, device, panicked, heard>>

\* Established: queue the packet, or drop it when the pipeline is full.
\* Otherwise it is relayed, a datagram to the gateway.
ForwardUse ==
    /\ Alive
    /\ forward.pc = "use"
    /\ LET c == forward.conn
       IN  conn' = IF conn[c].state = "Established" /\ Len(conn[c].pipeline) < PipelineCap
                   THEN [conn EXCEPT ![c].pipeline = Append(@, "Data")]
                   ELSE conn
    /\ forward' = AtRead
    /\ UNCHANGED <<connections, reader, protos, schedule, pending, requests,
                   device, panicked, heard>>

\* A packet for peer v without a connection: the packet is dropped and a
\* request started, unless one was started less than a second ago.
ForwardRequest(v) ==
    /\ Alive
    /\ forward = AtRead
    /\ connections[v] = NoConn
    /\ pending[v] # "recent"
    /\ requests[v] < MaxRequests
    /\ pending' = [pending EXCEPT ![v] = "recent"]
    /\ requests' = [requests EXCEPT ![v] = @ + 1]
    /\ UNCHANGED <<connections, conn, reader, protos, schedule, forward,
                   device, panicked, heard>>

\* Mutant: the marker is not deleted when the request ends.
RequestDoneKeeps(v) ==
    /\ Alive
    /\ requests[v] > 0
    /\ requests' = [requests EXCEPT ![v] = @ - 1]
    /\ UNCHANGED <<connections, conn, reader, protos, schedule, forward,
                   pending, device, panicked, heard>>

\* A request ends, with a response or an error, and deletes the peer's marker.
RequestDone(v) ==
    /\ Alive
    /\ requests[v] > 0
    /\ requests' = [requests EXCEPT ![v] = @ - 1]
    /\ pending' = [pending EXCEPT ![v] = "none"]
    /\ UNCHANGED <<connections, conn, reader, protos, schedule, forward,
                   device, panicked, heard>>

-----------------------------------------------------------------------------
(* Time                                                                    *)

\* A keepalive period begins.
Period ==
    /\ Alive
    /\ conn' = [c \in Conns |->
                  IF conn[c].loop \in {"start", "run", "close"} /\ conn[c].age < MaxAge
                  THEN [conn[c] EXCEPT !.age = @ + 1] ELSE conn[c]]
    /\ pending' = [v \in Peers |-> IF pending[v] = "recent" THEN "old" ELSE pending[v]]
    /\ UNCHANGED <<connections, reader, protos, schedule, forward, requests,
                   device, panicked, heard>>

\* More than a second has passed since v's request.
Second(v) ==
    /\ Alive
    /\ pending[v] = "recent"
    /\ pending' = [pending EXCEPT ![v] = "old"]
    /\ UNCHANGED <<connections, conn, reader, protos, schedule, forward,
                   requests, device, panicked, heard>>

-----------------------------------------------------------------------------
Schedule ==
    \/ \E v \in Peers : \E a \in AddrsOf[v] : OnOpenTunnel(v, a)
    \/ ScheduleClose
    \/ \E c \in Conns : DialOK(c)
    \/ DialError
    \/ OnRelayedData
    \/ ScheduleSend

Loop(c) ==
    \/ LoopStart(c)
    \/ LoopConnecting(c)
    \/ LoopExpired(c)
    \/ LoopClose(c)
    \/ LoopKeepalive(c)
    \/ LoopSend(c)
    \/ LoopDie(c)
    \/ HandleClosed(c)

Read(c) ==
    \/ \E typ \in {"Ping", "Pong"} : ReadPacket(c, typ)
    \/ ReadData(c)
    \/ ReaderSend(c)
    \/ ReadError(c)
    \/ Unmarshal(c)
    \/ Lookup(c)
    \/ OnPing(c)
    \/ OnPong(c)

Device ==
    \/ DeviceSelf
    \/ ForwardSend
    \/ DeviceWrite
    \/ \E v \in Targets : ForwardFound(v) \/ ForwardRequest(v)
    \/ ForwardUse

Background ==
    \/ \E v \in Peers : RequestDone(v) \/ Second(v)
    \/ Period

Next ==
    \/ Schedule
    \/ \E c \in Conns : Loop(c) \/ Read(c)
    \/ Device
    \/ Background

Spec == Init /\ [][Next]_vars

(***************************************************************************)
(* Fairness: time passes, and a goroutine that can run does run.  Nothing  *)
(* is assumed of the environment, nor of the readers where they decode.    *)
(* The channel die stays closed, so its case of the select stays ready,    *)
(* and select picks at random among the ready cases: weak fairness is      *)
(* enough.  A send on the full pipeline of the node may be overtaken, but  *)
(* the runtime serves blocked senders in order: strong fairness.           *)
(***************************************************************************)
Fairness ==
    /\ WF_vars(Period)
    /\ WF_vars(ScheduleClose)
    /\ WF_vars(DialError \/ \E c \in Conns : DialOK(c))
    /\ WF_vars(ForwardUse)
    /\ WF_vars(DeviceWrite)
    /\ SF_vars(ScheduleSend)
    /\ SF_vars(ForwardSend)
    /\ \A c \in Conns :
          /\ SF_vars(ReaderSend(c))
          /\ WF_vars(LoopStart(c))
          /\ WF_vars(LoopExpired(c))
          /\ WF_vars(LoopClose(c))
          /\ WF_vars(LoopDie(c))
          /\ WF_vars(HandleClosed(c))

FairSpec == Spec /\ Fairness

-----------------------------------------------------------------------------
(* Properties                                                              *)

\* Every variable keeps its type; the pipelines stay within their capacities.
TypeOK ==
    /\ connections \in [Peers -> Conns \cup {NoConn}]
    /\ conn \in [Conns -> Connection]
    /\ reader \in [Conns -> ReaderState]
    /\ protos \in [{"Ping", "Pong"} -> Peers \cup {Blank, NoBytes}]
    /\ schedule \in {AtRead, AtSend} \cup ScheduleClosing \cup ScheduleDialling
    /\ forward \in {AtRead, AtSend} \cup [pc: {"use"}, conn: Conns]
    /\ pending \in [Peers -> {"none", "recent", "old"}]
    /\ requests \in [Peers -> 0..MaxRequests]
    /\ device \in 0..DeviceCap
    /\ panicked \in {"none", "close", "read"}
    /\ heard \subseteq Addrs \cup {Blank}

\* An entry of the connection table is never a corpse: it is a connection of
\* that very peer whose loop has not run handleClosed yet.  Otherwise traffic
\* for the peer would go into a pipeline that nobody drains, and onOpenTunnel
\* would acknowledge a tunnel that is gone.
TableLive ==
    \A v \in Peers : connections[v] # NoConn =>
        /\ conn[connections[v]].peerVirtAddr = v
        /\ conn[connections[v]].loop \notin {"unborn", "done"}

\* A connection that nobody has closed is the table's entry for its peer, so
\* that its Pongs find it and traffic uses it.  "Reconnect to the new UDP
\* address if the UDP address of peer has changed" (node/handler.go).
Registered ==
    \A c \in Conns :
        SocketOpen(c) /\ ~conn[c].die => connections[conn[c].peerVirtAddr] = c

\* close() may be called by the loop ("Keepalive timeout and close currently
\* connection to wait reconnect", node/connection.go) and by onOpenTunnel ("Close
\* the previous connection if the remote UDP address changed", node/handler.go):
\* between them they close the die channel of a connection once.  A second close
\* would end the process.
DieClosedOnce == panicked # "close"

\* "StateEstablished represents the state of connection has been established"
\* (node/connection.go): the address a connection sends its data to has
\* answered a Ping.
EstablishedHeard ==
    \A c \in Conns : conn[c].state = "Established" => conn[c].remote \in heard

\* A pending marker never outlives the request it stands for: while a peer is
\* marked, a request is in flight whose end will clear the mark, even when
\* slow requests overlap and delete each other's marks (node/node.go, forward).
PendingInFlight ==
    \A v \in Peers : pending[v] # "none" => requests[v] > 0

\* A connection that hears nothing for 15 s is closed and leaves the table,
\* whatever its state, whether or not its read goroutine is still alive.
SilentCloses ==
    \A c \in Conns :
        SocketOpen(c) /\ MustExpire(c) ~>
            conn[c].loop = "done" \/ ~MustExpire(c) \/ ~Alive

\* The pipeline to the device blocks three kinds of goroutines when it is full,
\* one of them the device reader itself.  None of them blocks for ever: schedule
\* comes back to the gateway's socket, so that notifications are seen; the device
\* reader comes back to the device; a connection's reader delivers its packet.
SendersReturn ==
    /\ schedule.pc # "read" ~> schedule.pc = "read" \/ ~Alive
    /\ forward.pc # "read" ~> forward.pc = "read" \/ ~Alive
    /\ \A c \in Conns : reader[c].pc = "send" ~> reader[c].pc # "send" \/ ~Alive

\* The tunnel to v that the connection table stands for.
tunnel ==
    [v \in Peers |-> IF connections[v] = NoConn THEN "none"
                     ELSE IF conn[connections[v]].die THEN "closing"
                     ELSE conn[connections[v]].state]

Tunnel == INSTANCE Tunnels WITH tunnel <- tunnel

\* Timers, decoders, dials and closes of all goroutines together give each peer
\* one tunnel at a time that begins connecting, is closed once and is gone
\* before the next one begins (onOpenTunnel, onPong, loop, handleClosed), as
\* long as the peers keep their addresses.
ImplementsTunnels == Tunnel!Spec
=============================================================================
